-------------------------- MODULE WindowsCollector --------------------------
(***************************************************************************)
(* The read-only Windows collector: what one execution of a fixed          *)
(* PowerShell script comes to, and what is accepted of what it printed.    *)
(*   collector/{process,expanded,windows,safety,vulnerability_inventory,   *)
(*   coverage,cli,criteria_contract}.py, application/administrator_scan.py *)
(*                                                                         *)
(* A script is [verified, ascii]; a process is [starts, reads, lasts,      *)
(* floods, exit, denied]: whether it starts and takes its input, how many  *)
(* seconds it runs, when it has printed more than its limit (NotAtAll if   *)
(* never), its exit code, and whether its error text holds 0x80041003.     *)
(* An output is its parsed JSON; "json" and "fields" say whether it parses *)
(* and has exactly the fields, and the JSON types, of its schema.          *)
(***************************************************************************)
EXTENDS Checks

NotAtAll == 1000000

(* ------------------------- the bounded process ------------------------ *)
\* The byte limit is looked at before the deadline, and once more at the end.
\* Nothing bounds the writing of the input: it is over before the clock starts.
BoundedExecution(p, timeout) ==
  FirstRejection(
    <<Check(~p.starts, "START_FAILED"), Check(~p.reads, "STDIN_FAILED"),
      Check(p.floods < timeout, "OUTPUT_TOO_LARGE"), Check(p.lasts >= timeout, "TIMEOUT"),
      Check(p.floods # NotAtAll, "OUTPUT_TOO_LARGE")>>)

ExecutionCode ==
  [START_FAILED |-> "POWERSHELL_UNAVAILABLE", STDIN_FAILED |-> "PROBE_EXECUTION_FAILED",
   TIMEOUT |-> "PROBE_TIMEOUT", OUTPUT_TOO_LARGE |-> "OUTPUT_TOO_LARGE", ACCEPTED |-> Accepted]

\* host is [windows, powershell].
PowershellResolves(host) == host.windows /\ host.powershell

(* ------------------------ the privilege groups ------------------------ *)
StandardProbes ==
  <<"win.security.password-age", "win.security.recovery-console", "win.services.inventory",
    "win.browser.wininet-cache-policy", "win.os.lifecycle", "win.autologon.config",
    "win.antivirus.update-status", "win.antivirus.realtime-status",
    "win.firewall.effective-profiles", "win.user.screensaver-policy",
    "win.media.autoplay-policy", "win.remote-assistance.policy">>
AdministratorProbes ==
  <<"win.security.password-policy", "win.network.smb-shares", "win.software.messengers",
    "win.boot.entries", "win.update.compliance">>

\* What is chosen is the part of the order that is chosen, in that order.
InOrder(chosen, order) ==
  \A i, j \in DOMAIN chosen : \E k, l \in DOMAIN order :
    chosen[i] = order[k] /\ chosen[j] = order[l] /\ (i < j => k < l)

\* The standard group is all or nothing, the administrator's any part in order.
GroupIsExact(ids, privilege) ==
  /\ ids # <<>>
  /\ IF privilege = "STANDARD_USER" THEN ids = StandardProbes ELSE InOrder(ids, AdministratorProbes)

\* A request is [id, version, controls, privilege, timeout, output].
PlanIsExact(plan, privilege) ==
  /\ GroupIsExact([i \in DOMAIN plan |-> plan[i].id], privilege)
  /\ \A i \in DOMAIN plan :
       /\ plan[i].version = "0.1.0" /\ plan[i].privilege = privilege
       /\ plan[i].timeout <= 30 /\ plan[i].output <= 65536

ShortestTimeout(plan) ==
  LET timeouts == {plan[i].timeout : i \in DOMAIN plan}
  IN CHOOSE t \in timeouts : \A u \in timeouts : t <= u

ContextFits(c) == c.family = "WINDOWS" /\ c.version \in {"10", "11"} /\ c.arch = "x86_64"

\* A result is [id, version, controls, status, error, adapter, fields, records,
\* clean]: clean is FALSE where a record is empty, too large or names a secret.
ResultAccepted(r, request, adapters) ==
  /\ r.fields /\ r.id = request.id /\ r.version = request.version /\ r.controls = request.controls
  /\ r.status \in {"COLLECTED", "ERROR", "UNSUPPORTED"}
  /\ r.error \in {"NONE", "PERMISSION_DENIED", "SOURCE_UNAVAILABLE", "ADAPTER_UNSUPPORTED", "QUERY_FAILED"}
  /\ (r.status = "COLLECTED") <=> (r.error = "NONE")
  /\ r.adapter = adapters[request.id]
  /\ r.records <= 2048 /\ (r.status = "COLLECTED" => r.records > 0)
  /\ r.clean

ExpandedExecute(plan, privilege, host, script, p, out, adapters) ==
  LET executed == BoundedExecution(p, ShortestTimeout(plan))
  IN IF ~PlanIsExact(plan, privilege) THEN "PLAN_INVALID"
     ELSE IF ~host.windows THEN "TARGET_CONTEXT_MISMATCH"
     ELSE IF ~script.verified \/ ~script.ascii THEN "SCRIPT_INTEGRITY_MISMATCH"
     ELSE IF ~PowershellResolves(host) THEN "POWERSHELL_UNAVAILABLE"
     ELSE IF executed # Accepted THEN ExecutionCode[executed]
     ELSE IF p.exit # 0 THEN "PROBE_EXECUTION_FAILED"
     ELSE IF ~out.json \/ ~out.fields THEN "PROBE_OUTPUT_INVALID"
     ELSE IF ~ContextFits(out.context) THEN "TARGET_CONTEXT_MISMATCH"
     ELSE IF out.context.admin # (privilege = "ADMINISTRATOR") THEN "PRIVILEGE_CONTEXT_MISMATCH"
     ELSE IF Len(out.results) # Len(plan) THEN "PROBE_OUTPUT_INVALID"
     ELSE IF \E i \in DOMAIN plan : ~ResultAccepted(out.results[i], plan[i], adapters)
       THEN "PROBE_OUTPUT_INVALID"
     ELSE Accepted

(* ------------------------------- storage ------------------------------ *)
StorageProbeIds == <<"win.storage.disks", "win.storage.partitions", "win.storage.volumes">>

StoragePlanIsExact(plan) ==
  /\ [i \in DOMAIN plan |-> plan[i].id] = StorageProbeIds
  /\ \A i \in DOMAIN plan : /\ plan[i].privilege = "STANDARD_USER" /\ plan[i].version = "0.1.0"
                            /\ plan[i].controls = <<"PC-07">>

\* A subject is a disk, a partition and a volume record; each is [id, class,
\* fields], fields being FALSE where an enumeration or a pattern is not met.
RecordAccepted(record) == record.fields
SubjectsJoin(subjects) ==
  /\ subjects # <<>>
  /\ \A i \in DOMAIN subjects :
       LET s == subjects[i]
       IN /\ \A r \in {s.disk, s.partition, s.volume} : RecordAccepted(r)
          /\ Cardinality({s.disk.id, s.partition.id, s.volume.id}) = 1
          /\ s.disk.class = s.volume.class
  /\ \A i, j \in DOMAIN subjects : subjects[i].volume.id = subjects[j].volume.id => i = j

StorageExecute(plan, host, script, p, out) ==
  LET executed == BoundedExecution(p, ShortestTimeout(plan))
  IN IF ~StoragePlanIsExact(plan) THEN "PLAN_INVALID"
     ELSE IF ~host.windows THEN "UNSUPPORTED_OS"
     ELSE IF ~script.verified THEN "SCRIPT_INTEGRITY_MISMATCH"
     ELSE IF ~PowershellResolves(host) THEN "POWERSHELL_UNAVAILABLE"
     ELSE IF executed # Accepted THEN ExecutionCode[executed]
     ELSE IF p.exit # 0 THEN IF p.denied THEN "PERMISSION_DENIED" ELSE "PROBE_EXECUTION_FAILED"
     ELSE IF ~out.json \/ ~out.fields THEN "PROBE_OUTPUT_INVALID"
     ELSE IF ~ContextFits(out.context) THEN "TARGET_CONTEXT_MISMATCH"
     ELSE IF out.context.admin THEN "UNEXPECTED_ELEVATION"
     ELSE IF ~SubjectsJoin(out.subjects) THEN "PROBE_OUTPUT_INVALID"
     ELSE Accepted

(* ------------------------------- safety ------------------------------- *)
PolicyAccepted(policy) ==
  /\ policy.fields /\ policy.privileges = {"STANDARD_USER", "ADMINISTRATOR"}
  /\ ~policy.autoElevation /\ policy.separateProcess /\ policy.consent /\ policy.rejectsElevated
  /\ policy.terminatesTree /\ policy.beforeAndAfter
  /\ policy.surfaces = {"EXECUTION_POLICY", "DISK_FLAGS", "PARTITIONS", "FILESYSTEMS", "BITLOCKER"}

\* A snapshot is a digest of the settings: it is those settings. p.exit = 0 and
\* well-formed output, or there is no snapshot.
SnapshotCode ==
  [START_FAILED |-> "SNAPSHOT_UNAVAILABLE", STDIN_FAILED |-> "SNAPSHOT_UNAVAILABLE",
   TIMEOUT |-> "SNAPSHOT_TIMEOUT", OUTPUT_TOO_LARGE |-> "SNAPSHOT_OUTPUT_TOO_LARGE"]
Capture(policy, host, script, p, json) ==
  LET executed == BoundedExecution(p, policy.timeout)
  IN IF ~host.windows THEN "SNAPSHOT_UNAVAILABLE"
     ELSE IF ~script.verified THEN "SNAPSHOT_SCRIPT_INTEGRITY_MISMATCH"
     ELSE IF ~PowershellResolves(host) THEN "SNAPSHOT_UNAVAILABLE"
     ELSE IF executed # Accepted THEN SnapshotCode[executed]
     ELSE IF p.exit # 0 THEN "SNAPSHOT_UNAVAILABLE"
     ELSE IF ~json THEN "SNAPSHOT_OUTPUT_INVALID"
     ELSE Accepted

(* -------------------- the software inventory and cli ------------------ *)
InventoryCollects(host, script, p, out) ==
  /\ host.windows /\ script.verified /\ script.ascii /\ PowershellResolves(host)
  /\ BoundedExecution(p, 60) = Accepted /\ p.exit = 0
  /\ out.json /\ out.fields

\* A resource is [path, digest, size, safe] of the manifest; files maps the
\* paths that exist to [digest, size].
ResourcesVerified(records, files) ==
  {r \in records : /\ r.safe /\ r.path \in DOMAIN files
                   /\ files[r.path] = [digest |-> r.digest, size |-> r.size]}
SelfCheck(build, records, files) ==
  /\ build.frozen /\ build.runtime /\ build.platform
  /\ records # {} /\ ResourcesVerified(records, files) = records

(* --------------------------- consent, criteria ------------------------ *)
SelectionAccepted(chosen) ==
  chosen # <<>> /\ InOrder(chosen, AdministratorProbes)
ConsentAccepted(request) ==
  request.fields /\ request.consent /\ request.version = "current" /\ SelectionAccepted(request.probes)

\* A criteria snapshot is [keysExact, inRange, services, digest, sources, profiles,
\* values]: the digest is of the values it was computed from.
ProfileContextAccepted(profile) == \A i \in DOMAIN profile : profile[i].fields /\ profile[i].version >= 1
ValuesAccepted(c) == c.keysExact /\ c.inRange /\ c.values.services # {}
CriteriaAccepted(c) ==
  /\ ValuesAccepted(c) /\ c.digest = c.values
  /\ c.sources \subseteq {"KISA_DEFAULT", "ORGANIZATION", "PERSONAL"}
  /\ ProfileContextAccepted(c.organization) /\ ProfileContextAccepted(c.personal)
=============================================================================
