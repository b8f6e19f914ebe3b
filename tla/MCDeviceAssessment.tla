------------------------- MODULE MCDeviceAssessment -------------------------
(***************************************************************************)
(* TLC instance of DeviceAssessment. A server deviates in at most two      *)
(* probes from one that meets every control TLC can decide: a command that *)
(* failed, or a text that says something else.                             *)
(***************************************************************************)
EXTENDS DeviceAssessment, TLC

Symmetry == Permutations(Runs) \cup Permutations(Users)

Root == [name |-> "root", field |-> "x", uid |-> 0, gid |-> 0, shell |-> "bash"]
Ops == [name |-> "secai-lab", field |-> "x", uid |-> 1000, gid |-> 1000, shell |-> "bash"]
Daemon == [name |-> "daemon", field |-> "x", uid |-> 1, gid |-> 0, shell |-> "nologin"]
Groups == {[name |-> "root", gid |-> 0, members |-> {}],
           [name |-> "sudo", gid |-> 27, members |-> {"secai-lab"}],
           [name |-> "secai-lab", gid |-> 1000, members |-> {}]}
Mode(mode, group) == <<[mode |-> mode, owner |-> "root", group |-> group]>>
Absent == <<[mode |-> 0, owner |-> "absent", group |-> "absent"]>>
NoUpdates == [empty |-> TRUE, upgraded |-> NoValue, inst |-> 0, lines |-> 0]
Mask(g, o) == [group |-> g, other |-> o]
BareLog == [mode |-> Octal(6, 4, 0), owner |-> "root"]
EmptyProbes ==
  {"ownerless", "startup-unsafe", "suid-sgid", "environment-unsafe", "world-writable",
   "dev-regular", "rhosts", "home-hidden", "cron-unsafe", "firewall-rules", "package-inventory"}

GoodText(p) ==
  CASE p = "sshd-effective" -> [rootLogin |-> "no"]
    [] p = "login-defs" -> [maxDays |-> 90, lengths |-> {8}, words |-> {"yescrypt"}, masks |-> {Mask(2, 7)}]
    [] p = "pam-policy" -> [lengths |-> {}, words |-> {"pam_pwquality.so"}, deny |-> 5]
    [] p = "passwd-db" -> {Root, Ops, Daemon}
    [] p = "group-db" -> Groups
    [] p = "pam-su" -> [words |-> {"pam_wheel.so"}]
    [] p = "profile-policy" -> [timeouts |-> {600}, masks |-> {}]
    [] p \in {"passwd-mode", "hosts-mode", "services-mode"} -> Mode(Octal(6, 4, 4), "root")
    [] p \in {"shadow-mode", "syslog-mode"} -> Mode(Octal(6, 4, 0), "adm")
    [] p \in {"inetd-mode", "hosts-lpd-mode"} -> Absent
    [] p = "firewall-state" -> [words |-> {"active"}]
    [] p = "listening-sockets" -> {22}
    [] p \in {"active-services", "enabled-services", "service-config", "nfs-exports"} -> [words |-> {}]
    [] p = "pending-security-updates" -> NoUpdates
    [] p = "ftpusers" -> {"root", "daemon", "bin", "sys", "adm", "lp", "sync", "shutdown", "halt"}
    [] p = "banner" -> [text |-> TRUE, leaks |-> FALSE]
    [] p = "sudoers-check" -> [parsed |-> TRUE]
    [] p \in {"sudoers-config", "logging-config"} -> {"a line"}
    [] p = "time-sync" -> [value |-> "yes"]
    [] p = "logging-state" -> [value |-> "active"]
    [] p = "log-metadata" -> {BareLog}
    [] p \in EmptyProbes -> {}

AllProbes == UNION {ProbeIds(n) : n \in UnixControls}

\* Other texts of a probe.
OtherTexts(p) ==
  CASE p = "passwd-db" -> {{}, {Root, [Ops EXCEPT !.uid = 0]}, {Root, Ops, [Daemon EXCEPT !.shell = "bash"]},
                           {Root, [Daemon EXCEPT !.name = "ftp"]}}
    [] p \in {"active-services", "enabled-services"} ->
         {[words |-> w] : w \in {{"nfs-server", "vsftpd"}, {"postfix", "named", "snmpd"}, {"telnet", "rsh", "tftp"}}}
    [] p = "service-config" -> {[words |-> {"anonymous on"}],
                                [words |-> {"noexpn", "novrfy", "allow-transfer", "allow-update", "none", "rouser"}],
                                [words |-> {"default community"}]}
    [] p = "nfs-exports" -> {[words |-> {"*"}], [words |-> {"host"}]}
    [] p = "pending-security-updates" -> {[NoUpdates EXCEPT !.empty = FALSE, !.inst = 2, !.lines = 2],
                                          [NoUpdates EXCEPT !.empty = FALSE]}
    [] p = "firewall-state" -> {[words |-> {}]}
    [] p = "listening-sockets" -> {{22, 8080}}
    [] p = "login-defs" -> {[maxDays |-> NoValue, lengths |-> {}, words |-> {}, masks |-> {}]}
    [] p = "passwd-mode" -> {<<>>, Mode(Octal(6, 6, 6), "root")}
    [] p = "ftpusers" -> {{}}
    [] p = "log-metadata" -> {{}, {[mode |-> Octal(6, 6, 6), owner |-> "root"]}}
    [] OTHER -> {}

GoodServer == [p \in AllProbes |-> [exit |-> 0, text |-> GoodText(p)]]
Deviations == UNION {{<<p, [exit |-> 127, text |-> GoodText(p)]>>}
                       \cup {<<p, [exit |-> 0, text |-> t]>> : t \in OtherTexts(p)} : p \in AllProbes}
ServiceDeviations == {d \in Deviations : d[1] \in {"active-services", "enabled-services", "service-config",
                        "nfs-exports", "pending-security-updates", "passwd-db", "ftpusers"}}
MCServerOutputs ==
  {[GoodServer EXCEPT ![d[1]] = d[2], ![e[1]] = e[2]] : d \in Deviations, e \in ServiceDeviations}

Release(id, major, version) == [id |-> id, major |-> major, version |-> version, duplicated |-> FALSE]
MCReleases == {Release("ubuntu", "24", "24.04"), Release("rocky", "9", "9"), Release("centos", "9", "9"),
               [Release("debian", "12", "12") EXCEPT !.duplicated = TRUE]}
MCUnixProfiles == {DefaultProfile @@ [keysExact |-> TRUE]}

Management == [name |-> "mgmt", management |-> TRUE, telnet |-> FALSE, snmp |-> TRUE, https |-> "yes", dns |-> FALSE]
Port == [name |-> "1/1/1", routing |-> TRUE, physical |-> TRUE, up |-> TRUE, described |-> TRUE,
         lockdown |-> TRUE, broadcast |-> FALSE, proxyArp |-> FALSE]
GoodSystem == [complexity |-> "yes", attempts |-> 3, allowlist |-> "yes", allowed |-> 1, cliTimeout |-> 10,
               webTimeout |-> 10, ssh |-> "yes", usbOff |-> TRUE, timestamps |-> TRUE, copp |-> TRUE,
               cdp |-> "no", unreachableOff |-> "yes", redirectOff |-> "yes"]
GoodAnswers ==
  [supportedApi |-> TRUE, currentGroup |-> "", vrfs |-> {Management}, interfaces |-> {Port},
   users |-> {[name |-> "admin", group |-> ""], [name |-> "view", group |-> "operators"]},
   groups |-> {[name |-> "administrators"], [name |-> "operators"]},
   snmpUsers |-> {[name |-> "nms", secure |-> TRUE, readOnly |-> TRUE]},
   syslogs |-> {[host |-> TRUE, disabled |-> FALSE, audit |-> TRUE]},
   ntpEnabled |-> TRUE, ntpVrf |-> "mgmt", ntpServers |-> 1, v3Only |-> TRUE, communities |-> 0,
   dnsServers |-> 0, banner |-> "plain", system |-> GoodSystem]
MCAnswers ==
  {GoodAnswers, [GoodAnswers EXCEPT !.supportedApi = FALSE], [GoodAnswers EXCEPT !.currentGroup = "operators"],
   [GoodAnswers EXCEPT !.system = [GoodSystem EXCEPT !.cdp = "yes", !.attempts = 9, !.ssh = "no"],
                       !.snmpUsers = {}, !.communities = 1, !.interfaces = {[Port EXCEPT !.lockdown = FALSE]}]}
MCProfiles == {[keysExact |-> TRUE, threshold |-> 5, n12 |-> "PASS", n17 |-> "REVIEW"]}

\* evaluate_switch_baseline: a running configuration that could not be read judges
\* nothing; every line of one that was counts, and the text of one vendor does
\* not meet the baseline of the other.
ASSUME BaselineIsOfTheVendor ==
  LET Platforms == {"CISCO_IOS", "ARUBA_AOS_CX"}
      Meeting(platform) == {BaselinePatterns(platform)[i] : i \in 1..6}
      Judgements(platform, config) == {EvaluateBaseline(platform, config)[i] : i \in 1..6}
  IN \A platform, other \in Platforms :
       /\ Judgements(platform, <<>>) = {"ERROR"}
       /\ (Judgements(platform, <<Meeting(other)>>) = {"PASS"}) <=> (platform = other)
       /\ \A line \in Meeting(platform) : "FAIL" \in Judgements(platform, <<Meeting(platform) \ {line}>>)
=============================================================================
