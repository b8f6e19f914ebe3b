----------------------------- MODULE MCLauncher -----------------------------
(***************************************************************************)
(* TLC instance of Launcher: a PC that meets most controls, a PC some of   *)
(* whose probes fail, and scripts that fail, hang or print something else. *)
(***************************************************************************)
EXTENDS Launcher, TLC

ContentsSymmetry == Permutations(Contents)

Now == 100 * Day
Runs(exit, lasts, floods) ==
  [starts |-> TRUE, reads |-> TRUE, lasts |-> lasts, floods |-> floods, exit |-> exit, denied |-> FALSE]
Ends == Runs(0, 2, NotAtAll)
Hangs == Runs(0, NotAtAll, NotAtAll)
Denied == [Runs(1, 2, NotAtAll) EXCEPT !.denied = TRUE]
Context(admin) == [family |-> "WINDOWS", version |-> "11", arch |-> "x86_64", admin |-> admin, at |-> Now]
MCAdapters == [id \in DOMAIN ControlOf |-> IF id = "win.firewall.effective-profiles" THEN "fw" ELSE "av"]

Service(key, state) == [key |-> key, state |-> state, mode |-> "AUTO"]
Defender == [present |-> TRUE, adapter |-> "av", state |-> "ACTIVE", service |-> TRUE, healthy |-> TRUE,
             signedAt |-> Now - Hour, automatic |-> TRUE, realtime |-> TRUE]

GoodRaw(control) ==
  CASE control = "PC-01" -> [days |-> 60, source |-> "LOCAL"]
    [] control = "PC-02" -> [length |-> 9, complexity |-> TRUE, required |-> TRUE, source |-> "LOCAL"]
    [] control = "PC-03" -> [autoLogon |-> "DISABLED", source |-> "LOCAL"]
    [] control = "PC-05" -> [services |-> {Service("telnet", "STOPPED")}]
    [] control = "PC-08" -> [bootable |-> 1, entries |-> 1, named |-> TRUE]
    [] control = "PC-09" -> [applicability |-> "APPLICABLE", emptyCache |-> "on", users |-> 1]
    [] control = "PC-11" -> [names |-> {"Windows 11"}, edition |-> "Pro", version |-> "24H2", arch |-> "x86_64"]
    [] control = "PC-12" -> [autoAdminLogon |-> "0", secret |-> FALSE]
    [] control \in {"PC-13", "PC-14"} -> Defender
    [] control = "PC-15" -> [profiles |-> {[profile |-> "public", enabled |-> TRUE]}]
    [] control = "PC-16" -> [active |-> "1", secure |-> "1", seconds |-> 300, coverage |-> TRUE]
    [] control = "PC-17" -> [autoplayOff |-> TRUE, drives |-> "ALL_DRIVES", autorun |-> "DO_NOT_EXECUTE",
                             nonVolumeBlocked |-> TRUE]
    [] control = "PC-18" -> [solicited |-> "0", offered |-> "0"]

\* What the probes of a PC with weaknesses read.
WeakRaw(control) ==
  CASE control = "PC-01" -> [days |-> 0, source |-> "LOCAL"]
    [] control = "PC-05" -> [services |-> {Service("telnet", "RUNNING")}]
    [] control = "PC-15" -> [profiles |-> {[profile |-> "public", enabled |-> FALSE]}]
    [] control = "PC-08" -> [bootable |-> 2, entries |-> 2, named |-> TRUE]
    [] OTHER -> GoodRaw(control)

Result(id, Raw(_)) ==
  [id |-> id, version |-> "0.1.0", controls |-> <<ControlOf[id]>>, status |-> "COLLECTED", error |-> "NONE",
   adapter |-> MCAdapters[id], fields |-> TRUE, records |-> 1, clean |-> TRUE, shape |-> "one",
   typed |-> "ok", raw |-> Raw(ControlOf[id])]
Fails(r) ==
  [r EXCEPT !.status = "ERROR", !.error = "QUERY_FAILED", !.records = 0, !.shape = "none",
            !.raw = IF r.controls = <<"PC-05">> THEN [services |-> {}] ELSE Missing]
Output(ids, admin, Raw(_), failing) ==
  [json |-> TRUE, fields |-> TRUE, context |-> Context(admin),
   results |-> [i \in DOMAIN ids |->
      IF ids[i] \in failing THEN Fails(Result(ids[i], Raw)) ELSE Result(ids[i], Raw)]]

Good == Output(StandardProbes, FALSE, GoodRaw, {})
Failing == {"win.browser.wininet-cache-policy", "win.antivirus.update-status", "win.os.lifecycle"}
\* Two records where one is expected: the evaluation aborts.
Ragged == [Good EXCEPT !.results[10].shape = "many"]
MCStandardRuns ==
  {[p |-> Ends, out |-> out] : out \in {Output(StandardProbes, FALSE, WeakRaw, Failing), Ragged}}
  \cup {[p |-> Hangs, out |-> Good]}
Disk(id, class) == [volume |-> id, class |-> class, online |-> TRUE, image |-> "NONE", removable |-> FALSE]
Volumes(fs) ==
  [disks |-> {Disk("C", "WINDOWS_OS"), Disk("R", "RECOVERY")},
   partitions |-> {[volume |-> "C", role |-> "BASIC_DATA", trusted |-> TRUE],
                   [volume |-> "R", role |-> "WINDOWS_RECOVERY", trusted |-> TRUE]},
   volumes |-> {[volume |-> "C", fs |-> fs, drive |-> "FIXED", bitlocker |-> "UNLOCKED"],
                [volume |-> "R", fs |-> "raw", drive |-> "FIXED", bitlocker |-> "UNLOCKED"]}]
Subject(id, class) ==
  LET r == [id |-> id, class |-> class, fields |-> TRUE] IN [disk |-> r, partition |-> r, volume |-> r]
StorageOutput(fs) ==
  [json |-> TRUE, fields |-> TRUE, context |-> Context(FALSE), payload |-> Volumes(fs),
   subjects |-> <<Subject("C", "WINDOWS_OS"), Subject("R", "RECOVERY")>>]
MCStorageRuns == {[p |-> Denied, out |-> StorageOutput("ntfs")]}
MCInventoryRuns == {[p |-> p, out |-> [json |-> TRUE, fields |-> TRUE]] : p \in {Hangs}}
MCSnapshotRuns == {[p |-> p, json |-> TRUE] : p \in {Ends, Hangs}}

BootAndPassword == <<"win.security.password-policy", "win.boot.entries">>
BootOnly == <<"win.boot.entries">>
\* The script answers the probes it was started with; the other output is refused.
MCAdministratorRuns ==
  {[p |-> Ends, out |-> Output(BootAndPassword, TRUE, GoodRaw, {"win.boot.entries"})],
   [p |-> Ends, out |-> Output(BootOnly, TRUE, GoodRaw, {})]}
Consent(probes) == [fields |-> TRUE, consent |-> TRUE, version |-> "current", probes |-> probes]
\* Two selections that are accepted, and one out of order.
MCConsents ==
  {Consent(BootAndPassword), Consent(BootOnly), Consent(<<"win.boot.entries", "win.security.password-policy">>)}

Values ==
  [services |-> {"telnet"}, minLength |-> 9, complexity |-> TRUE, required |-> TRUE, shares |-> {},
   messengers |-> {}, updateDays |-> 30, avHours |-> 24, wininetScope |-> TRUE, screenScope |-> TRUE,
   screenMinutes |-> 10, autoplay |-> TRUE, remote |-> TRUE, maxAge |-> 90]
MCCriteria ==
  {<<[keysExact |-> TRUE, inRange |-> TRUE, values |-> Values, digest |-> Values,
      sources |-> {"KISA_DEFAULT"}, organization |-> <<>>, personal |-> <<>>]>>}

MCHost == [windows |-> TRUE, powershell |-> TRUE]
MCScript == [verified |-> TRUE, ascii |-> TRUE]
MCBundle ==
  [build |-> [frozen |-> TRUE, runtime |-> TRUE, platform |-> TRUE],
   records |-> {[path |-> "script", digest |-> 1, size |-> 1, safe |-> TRUE]},
   files |-> [path \in {"script"} |-> [digest |-> 1, size |-> 1]]]
MCPolicy ==
  [fields |-> TRUE, privileges |-> {"STANDARD_USER", "ADMINISTRATOR"}, autoElevation |-> FALSE,
   separateProcess |-> TRUE, consent |-> TRUE, rejectsElevated |-> TRUE, terminatesTree |-> TRUE,
   beforeAndAfter |-> TRUE, timeout |-> 15,
   surfaces |-> {"EXECUTION_POLICY", "DISK_FLAGS", "PARTITIONS", "FILESYSTEMS", "BITLOCKER"}]
MCReference ==
  [identity |-> "exact", intact |-> TRUE, approval |-> "DRAFT", id |-> "win11", asOf |-> 0, validUntil |-> 2 * Now,
   baselines |-> {}, lifecycle |-> {[edition |-> "Pro", version |-> "24H2", supportEnd |-> 2 * Now]}]
MCCatalog ==
  [identity |-> "exact", intact |-> TRUE, approval |-> "DRAFT",
   adapters |-> {[id |-> "av", controls |-> {"PC-13", "PC-14"}, synthetic |-> FALSE],
                 [id |-> "fw", controls |-> {"PC-15"}, synthetic |-> FALSE]}]
=============================================================================
