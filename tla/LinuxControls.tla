---------------------------- MODULE LinuxControls ----------------------------
(***************************************************************************)
(* The KISA 2026 UNIX controls U-01..U-67: which probes a control needs    *)
(* and how the outputs of these probes are judged                          *)
(* (platforms/linux_kisa.py, platforms/linux_adapters.py).                 *)
(*                                                                         *)
(* A control is its number. "out" maps each collected probe to what its    *)
(* text says: a record of the settings found in it, a set of the rows that *)
(* parse, a set of lines, or "words", the watched words that occur in it.  *)
(* A word is looked for as a substring, so a text has every watched word   *)
(* that is part of it: "inactive" has "active".                            *)
(***************************************************************************)
EXTENDS Integers, FiniteSets

UnixControls == 1..67
NoValue == -1
Octal(u, g, o) == 64 * u + 8 * g + o

(* ---------------------------- distributions --------------------------- *)
DebianFamily == {"UBUNTU_22_04", "UBUNTU_24_04", "DEBIAN_12"}
\* release is [id, major, version] of /etc/os-release; anything else is refused.
DetectDistribution(release) ==
  IF release.id = "ubuntu" /\ release.version = "22.04" THEN "UBUNTU_22_04"
  ELSE IF release.id = "ubuntu" /\ release.version = "24.04" THEN "UBUNTU_24_04"
  ELSE IF release.id = "debian" /\ release.major = "12" THEN "DEBIAN_12"
  ELSE IF release.id = "rocky" /\ release.major = "9" THEN "ROCKY_9"
  ELSE IF release.id = "rhel" /\ release.major = "9" THEN "RHEL_9"
  ELSE IF release.id = "almalinux" /\ release.major = "9" THEN "ALMALINUX_9"
  ELSE "UNSUPPORTED"

\* The exit codes with which a command's output still counts as collected.
FileCommands ==
  {"passwd-db", "group-db", "login-defs", "pam-su", "sshd-effective", "passwd-mode", "shadow-mode",
   "hosts-mode", "inetd-mode", "services-mode", "hosts-lpd-mode", "startup-unsafe", "ownerless",
   "suid-sgid", "world-writable", "dev-regular"}
FileExit(probe) ==
  IF probe \in {"pam-su", "inetd-mode", "hosts-lpd-mode", "startup-unsafe", "ownerless",
                "suid-sgid", "world-writable", "dev-regular"} THEN {0, 1} ELSE {0}
ServiceExit(probe) ==
  IF probe \in {"active-services", "enabled-services"} THEN {0}
  ELSE IF probe \in {"service-config", "sudoers-config"} THEN {0, 1, 2} ELSE {0, 1}
LoggingCommands == {"time-sync", "logging-state", "logging-config", "log-metadata"}
LoggingExit(probe) ==
  CASE probe = "time-sync" -> {0} [] probe = "logging-state" -> {0, 3, 4}
    [] probe = "logging-config" -> {0, 1, 2} [] probe = "log-metadata" -> {0, 1}
CommonExit(probe) ==
  IF probe \in FileCommands THEN FileExit(probe)
  ELSE IF probe \in LoggingCommands THEN LoggingExit(probe) ELSE ServiceExit(probe)
AdapterExit(debian, probe) ==
  CASE probe = "package-inventory" -> {0}
    [] probe = "pending-security-updates" -> {0, 100}
    [] probe \in {"firewall-state", "firewall-rules"} -> IF debian THEN {0, 1} ELSE {0, 252}
    [] OTHER -> {0, 1}
AdapterProbes ==
  {"profile-policy", "pam-policy", "syslog-mode", "firewall-state", "firewall-rules",
   "package-inventory", "pending-security-updates"}
AcceptedExit(debian, probe) ==
  IF probe \in AdapterProbes THEN AdapterExit(debian, probe) ELSE CommonExit(probe)

(* ------------------------------- criteria ----------------------------- *)
DefaultProfile ==
  [maxAge |-> 90, minLength |-> 8, lockAfter |-> 10, timeout |-> 600,
   admins |-> {"root", "secai-lab"}, ports |-> {22}, suid |-> {}]
\* values is what the page sends; "ports" may hold numbers that are no ports.
ProfileAccepted(values) ==
  /\ values.keysExact
  /\ values.maxAge \in 1..365 /\ values.minLength \in 8..64
  /\ values.lockAfter \in 1..20 /\ values.timeout \in 60..3600
  /\ values.ports \subseteq 1..65535 /\ Cardinality(values.ports) <= 50
  /\ Cardinality(values.admins) <= 50 /\ Cardinality(values.suid) <= 50

(* -------------------------------- probes ------------------------------ *)
AccountProbes(n) ==
  CASE n = 1 -> {"sshd-effective"}
    [] n \in {2, 13} -> {"login-defs", "pam-policy"}
    [] n = 3 -> {"pam-policy"}
    [] n \in {4, 5, 7, 10, 11} -> {"passwd-db"}
    [] n = 6 -> {"pam-su", "group-db"}
    [] n = 8 -> {"group-db"}
    [] n = 9 -> {"passwd-db", "group-db"}
    [] n = 12 -> {"profile-policy"}

FileProbes(n) ==
  CASE n = 14 -> {"passwd-db", "profile-policy"}
    [] n = 15 -> {"ownerless"} [] n = 16 -> {"passwd-mode"} [] n = 17 -> {"startup-unsafe"}
    [] n = 18 -> {"shadow-mode"} [] n = 19 -> {"hosts-mode"} [] n = 20 -> {"inetd-mode"}
    [] n = 21 -> {"syslog-mode"} [] n = 22 -> {"services-mode"} [] n = 23 -> {"suid-sgid"}
    [] n = 24 -> {"environment-unsafe"} [] n = 25 -> {"world-writable"}
    [] n = 26 -> {"dev-regular"} [] n = 27 -> {"rhosts"}
    [] n = 28 -> {"firewall-state", "firewall-rules", "listening-sockets"}
    [] n = 29 -> {"hosts-lpd-mode"} [] n = 30 -> {"login-defs", "profile-policy"}
    [] n \in {31, 32} -> {"passwd-db"} [] n = 33 -> {"home-hidden"}

ServiceProbesRunningOnly(n) ==
  CASE n = 35 -> {"active-services", "enabled-services", "service-config", "nfs-exports"}
    [] n \in 34..61 \ {35, 37} -> {"active-services", "package-inventory", "pending-security-updates",
                                   "service-config", "nfs-exports", "passwd-db", "ftpusers"}
    [] n = 37 -> {"cron-unsafe"} [] n = 62 -> {"banner"} [] n = 63 -> {"sudoers-check", "sudoers-config"}
    [] n = 64 -> {"pending-security-updates"} [] n = 65 -> {"time-sync"}
    [] n = 66 -> {"logging-state", "logging-config"} [] n = 67 -> {"log-metadata"}
ServiceProbes(n) ==
  CASE n = 35 -> {"active-services", "enabled-services", "service-config", "nfs-exports"}
    [] n = 37 -> {"cron-unsafe"}
    [] n = 40 -> {"active-services", "nfs-exports"}
    [] n \in {45, 49} -> {"active-services", "package-inventory", "pending-security-updates"}
    [] n = 55 -> {"active-services", "enabled-services", "service-config", "passwd-db"}
    [] n = 57 -> {"active-services", "ftpusers"}
    [] n = 62 -> {"banner"} [] n = 63 -> {"sudoers-check", "sudoers-config"}
    [] n = 64 -> {"pending-security-updates"} [] n = 65 -> {"time-sync"}
    [] n = 66 -> {"logging-state", "logging-config"} [] n = 67 -> {"log-metadata"}
    [] OTHER -> {"active-services", "enabled-services", "service-config"}

ProbeIds(n) == IF n <= 13 THEN AccountProbes(n) ELSE IF n <= 33 THEN FileProbes(n) ELSE ServiceProbes(n)

(* -------------------------------- parsing ----------------------------- *)
PassOrFail(ok) == IF ok THEN "PASS" ELSE "FAIL"
\* stat is <<>> when the last line does not parse, else <<[mode, owner, group]>>;
\* the mode is compared as a number.
StatIsSafe(stat, maximum, groups) ==
  IF stat = <<>> THEN "REVIEW"
  ELSE PassOrFail(stat[1].mode <= maximum /\ stat[1].owner = "root" /\ stat[1].group \in groups)

\* A passwd row is [name, field, uid, gid, shell]; rows that do not parse are gone.
SafeShells == {"nologin", "false", "sync", "shutdown", "halt"}
LoginRows(rows) == {r \in rows : r.shell \notin SafeShells}
DuplicateUids(rows) == Cardinality(rows) - Cardinality({r.uid : r \in rows})

\* text is [upgraded, inst, lines]: the "N upgraded," figure or NoValue, the
\* number of "Inst" lines, the number of package lines; empty is no output or "0".
PendingUpdates(text, debian) ==
  IF text.empty THEN 0
  ELSE IF ~debian THEN text.lines
  ELSE IF text.upgraded # NoValue THEN text.upgraded
  ELSE IF text.inst > 0 THEN text.inst ELSE NoValue

\* A log file is [mode, owner] or "unparsed".
UnsafeLogs(rows) == {r \in rows : r.owner # "root" \/ r.mode > Octal(6, 4, 4)}

ServiceNames(n) ==
  CASE n = 34 -> {"finger"} [] n = 35 -> {"smb", "samba", "vsftpd", "proftpd", "nfs"}
    [] n = 36 -> {"rsh", "rlogin", "rexec"} [] n = 38 -> {"echo", "daytime", "discard", "chargen"}
    [] n \in {39, 40} -> {"nfs-server", "nfs-kernel-server"} [] n = 41 -> {"autofs", "automount"}
    [] n = 42 -> {"rpcbind"} [] n = 43 -> {"ypbind", "nis"} [] n = 44 -> {"tftp", "talk"}
    [] n \in 45..48 -> {"postfix", "sendmail", "exim"} [] n \in 49..51 -> {"named", "bind9"}
    [] n = 52 -> {"telnet"} [] n \in 53..57 -> {"vsftpd", "proftpd", "pure-ftpd"}
    [] n \in 58..61 -> {"snmpd"} [] OTHER -> {}

\* The words of the running units and, when that probe was collected at all, of
\* the enabled ones.
ServiceWords(out) ==
  UNION {out[p].words : p \in {"active-services", "enabled-services"} \cap DOMAIN out}
Active(n, out) == ServiceNames(n) \cap ServiceWords(out) # {}

(* ------------------------------- judgement ---------------------------- *)
AccountJudgement(n, out, profile) ==
  CASE n = 1 -> LET s == out["sshd-effective"].rootLogin
                IN IF s = "unset" THEN "REVIEW" ELSE PassOrFail(s \in {"no", "prohibit-password"})
    [] n = 2 -> LET text == out["login-defs"]
                    lengths == text.lengths \cup out["pam-policy"].lengths
                IN PassOrFail(/\ text.maxDays # NoValue /\ text.maxDays <= profile.maxAge
                              /\ \E l \in lengths : l >= profile.minLength
                              /\ "pam_pwquality.so" \in out["pam-policy"].words)
    [] n = 3 -> PassOrFail(out["pam-policy"].deny \in 1..profile.lockAfter)
    [] n = 4 -> PassOrFail(/\ out["passwd-db"] # {}
                           /\ \A r \in out["passwd-db"] : r.field \in {"x", "*", "!"})
    [] n = 5 -> PassOrFail({r.name : r \in {q \in out["passwd-db"] : q.uid = 0}} = {"root"})
    [] n = 6 -> PassOrFail(out["pam-su"].words \cap {"pam_wheel.so", "pam_group.so"} # {})
    [] n = 7 -> PassOrFail({r.name : r \in LoginRows(out["passwd-db"])} \subseteq profile.admins)
    [] n = 8 -> PassOrFail({"root"} \cup UNION {g.members : g \in {h \in out["group-db"] :
                                h.name \in {"root", "wheel", "sudo"}}} \subseteq profile.admins)
    [] n = 9 -> PassOrFail({r.gid : r \in out["passwd-db"]} \subseteq {g.gid : g \in out["group-db"]})
    [] n = 10 -> PassOrFail(DuplicateUids(out["passwd-db"]) = 0)
    [] n = 11 -> PassOrFail({r \in LoginRows(out["passwd-db"]) : r.uid \in 1..999} = {})
    [] n = 12 -> PassOrFail(\E t \in out["profile-policy"].timeouts : t <= profile.timeout)
    [] n = 13 -> PassOrFail((out["login-defs"].words \cup out["pam-policy"].words)
                              \cap {"yescrypt", "sha512"} # {})

FileJudgement(n, out, profile) ==
  LET only == CHOOSE p \in ProbeIds(n) : TRUE
  IN CASE n \in {15, 17, 24, 25, 26, 27} -> PassOrFail(out[only] = {})
       [] n \in {16, 19, 22} -> StatIsSafe(out[only], Octal(6, 4, 4), {"root"})
       [] n \in {18, 21} -> StatIsSafe(out[only], Octal(6, 4, 0), {"root", "shadow", "adm"})
       [] n \in {20, 29} -> IF out[only] # <<>> /\ out[only][1].owner = "absent" THEN "N/A"
                            ELSE StatIsSafe(out[only], Octal(6, 0, 0), {"root"})
       [] n = 23 -> IF profile.suid = {} THEN "REVIEW"
                    ELSE PassOrFail(out["suid-sgid"] \subseteq profile.suid)
       [] n = 28 -> IF out["firewall-state"].words \cap {"active", "running"} = {} THEN "FAIL"
                    ELSE PassOrFail(out["listening-sockets"] \subseteq profile.ports)
       [] n = 30 -> LET masks == out["login-defs"].masks \cup out["profile-policy"].masks
                    IN PassOrFail(masks # {} /\ \A k \in masks : k.group \in {2, 3, 6, 7}
                                                              /\ k.other \in {2, 3, 6, 7})
       [] OTHER -> "REVIEW"

\* U-34..U-61: what an inactive service means differs from control to control.
IfActive(n, out, judgement) == IF Active(n, out) THEN judgement ELSE "N/A"

ServiceJudgement(n, out, debian) ==
  LET config == IF "service-config" \in DOMAIN out THEN out["service-config"].words ELSE {}
      pending == PendingUpdates(out["pending-security-updates"], debian)
      updates == IF pending = NoValue THEN "REVIEW" ELSE IF pending > 0 THEN "FAIL"
                 ELSE IF n = 64 THEN "PASS" ELSE "REVIEW"
      exports == out["nfs-exports"].words
      ftp == {r \in out["passwd-db"] : r.name \in {"ftp", "anonymous"}}
  IN CASE n \in {34, 36, 38, 41, 42, 43, 44, 52, 54} -> PassOrFail(~Active(n, out))
       [] n = 35 -> IfActive(n, out, IF "anonymous on" \in config \cup exports THEN "FAIL" ELSE "REVIEW")
       [] n \in {39, 58} -> IF Active(n, out) THEN "REVIEW" ELSE "PASS"
       [] n = 40 -> IfActive(n, out, PassOrFail(exports # {} /\ exports \cap {"no_root_squash", "*"} = {}))
       [] n \in {45, 49} -> IfActive(n, out, updates)
       [] n = 64 -> updates
       [] n \in {46, 47, 53, 56} -> IfActive(n, out, "REVIEW")
       [] n = 48 -> IfActive(n, out, PassOrFail({"noexpn", "novrfy"} \subseteq config))
       [] n = 50 -> IfActive(n, out, IF {"allow-transfer", "none"} \subseteq config THEN "PASS" ELSE "REVIEW")
       [] n = 51 -> IfActive(n, out, IF {"allow-update", "none"} \subseteq config THEN "PASS" ELSE "REVIEW")
       [] n = 55 -> IfActive(n, out, PassOrFail(\A r \in ftp : r.shell \in {"nologin", "false"}))
       [] n = 57 -> IfActive(n, out, PassOrFail({"root", "daemon", "bin", "sys", "adm", "lp", "sync",
                                                  "shutdown", "halt"} \subseteq out["ftpusers"]))
       [] n = 59 -> IfActive(n, out, PassOrFail(config \cap {"rouser", "rwuser"} # {}))
       [] n \in {60, 61} -> IfActive(n, out, IF "default community" \in config THEN "FAIL" ELSE "REVIEW")

OtherJudgement(n, out) ==
  CASE n = 37 -> PassOrFail(out["cron-unsafe"] = {})
    [] n = 62 -> PassOrFail(out["banner"].text /\ ~out["banner"].leaks)
    [] n = 63 -> IF out["sudoers-check"].parsed THEN "REVIEW" ELSE "FAIL"
    [] n = 65 -> PassOrFail(out["time-sync"].value = "yes")
    [] n = 66 -> PassOrFail(out["logging-state"].value = "active" /\ out["logging-config"] # {})
    [] n = 67 -> IF out["log-metadata"] = {} \/ "unparsed" \in {r.owner : r \in out["log-metadata"]}
                   THEN "REVIEW" ELSE PassOrFail(UnsafeLogs(out["log-metadata"]) = {})

InitialAssessment(n, out, debian, profile) ==
  IF n <= 13 THEN AccountJudgement(n, out, profile)
  ELSE IF n <= 33 THEN FileJudgement(n, out, profile)
  ELSE IF n \in {37, 62, 63, 65, 66, 67} THEN OtherJudgement(n, out)
  ELSE ServiceJudgement(n, out, debian)

\* The lists an auditor needs to act are kept for FAIL and REVIEW.
ListProbes ==
  {"ownerless", "suid-sgid", "world-writable", "home-hidden", "startup-unsafe",
   "environment-unsafe", "dev-regular", "rhosts", "listening-sockets", "sudoers-config"}
Retained(n, status, out) ==
  {p \in ProbeIds(n) \cap ListProbes \cap DOMAIN out : status \in {"FAIL", "REVIEW"} /\ out[p] # {}}

\* evaluate_kisa_unix: a control with a probe that was not collected is an ERROR.
EvaluateUnix(n, out, debian, profile) ==
  LET status == IF ProbeIds(n) \subseteq DOMAIN out
                  THEN InitialAssessment(n, out, debian, profile) ELSE "ERROR"
  IN [status |-> status, evidence |-> ProbeIds(n), retained |-> Retained(n, status, out)]
=============================================================================
