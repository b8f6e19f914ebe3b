--------------------------- MODULE NetworkControls ---------------------------
(***************************************************************************)
(* The switch side of the KISA 2026 controls: which adapter a device gets  *)
(* (platforms/discovery.py), how the answers of the AOS-CX REST interface  *)
(* become facts (platforms/aruba_rest.py) and how N-01..N-38 are judged    *)
(* from these facts (platforms/kisa_network.py).                           *)
(*                                                                         *)
(* A control is its number. A setting that REST may leave out is "yes",    *)
(* "no" or "unset"; a number it may leave out is NoNumber when it does.    *)
(* "answers" is what the fixed GETs return:                                *)
(*   vrfs        {[name, management, telnet, snmp, https, dns]}            *)
(*   interfaces  {[name, routing, physical, up, described, lockdown,       *)
(*                 broadcast, proxyArp]}                                   *)
(*   users       {[name, group]}       groups {[name, rules]}              *)
(*   snmpUsers   {[name, secure, readOnly]}                                *)
(*   syslogs     {[host, disabled, audit]}                                 *)
(* and the settings of the system.                                         *)
(***************************************************************************)
EXTENDS Integers, FiniteSets

NetworkControlIds == 1..38
NoNumber == -1
NetworkResult(ok) == IF ok THEN "PASS" ELSE "FAIL"

(* ------------------------------- adapters ----------------------------- *)
\* An entry of the support catalog covers a set of versions, architectures and
\* the capabilities it needs; level is SUPPORTED, PILOT, BLOCKED or EOL.
EntryMatches(entry, print) ==
  /\ entry.asset = print.asset /\ entry.platform = print.platform
  /\ entry.vendor = print.vendor /\ entry.product = print.product
  /\ print.architecture \in entry.architectures
  /\ print.version \in entry.versions
  /\ entry.capabilities \subseteq print.capabilities

\* PlatformSupportCatalog.resolve: an adapter is never guessed.
ResolveAdapter(catalog, print) ==
  LET candidates == {entry \in catalog : EntryMatches(entry, print)}
  IN IF print.confidence # "EXACT" THEN "IDENTITY_NOT_EXACT"
     ELSE IF candidates = {} THEN "UNSUPPORTED_PLATFORM"
     ELSE IF Cardinality(candidates) # 1 THEN "AMBIGUOUS_ADAPTER"
     ELSE LET selected == CHOOSE entry \in candidates : TRUE
          IN IF selected.level \in {"BLOCKED", "EOL"} THEN "SUPPORT_BLOCKED" ELSE selected.adapter

ResolutionErrors ==
  {"IDENTITY_NOT_EXACT", "UNSUPPORTED_PLATFORM", "AMBIGUOUS_ADAPTER", "SUPPORT_BLOCKED"}

\* current_platform_support_catalog; a version is its supported prefix.
LinuxEntry(vendor, product, version, adapter, level) ==
  [asset |-> "LINUX_SERVER", platform |-> "LINUX", vendor |-> vendor, product |-> product,
   versions |-> {version}, architectures |-> {"X86_64"}, capabilities |-> {},
   adapter |-> adapter, level |-> level]
SupportCatalog ==
  {LinuxEntry("CANONICAL", "UBUNTU_LINUX", "22.04", "secai.linux.ubuntu22.readonly.v1", "SUPPORTED"),
   LinuxEntry("CANONICAL", "UBUNTU_LINUX", "24.04", "secai.linux.ubuntu24.readonly.v1", "SUPPORTED"),
   LinuxEntry("DEBIAN_PROJECT", "DEBIAN_LINUX", "12", "secai.linux.debian12.readonly.v1", "SUPPORTED"),
   LinuxEntry("ROCKY_ENTERPRISE_SOFTWARE_FOUNDATION", "ROCKY_LINUX", "9",
              "secai.linux.rocky9.readonly.v1", "SUPPORTED"),
   LinuxEntry("RED_HAT", "RHEL_LINUX", "9", "secai.linux.rhel9.readonly.v1", "PILOT"),
   LinuxEntry("ALMALINUX_OS_FOUNDATION", "ALMALINUX", "9", "secai.linux.alma9.readonly.v1", "SUPPORTED"),
   [asset |-> "NETWORK_SWITCH", platform |-> "ARUBA_AOS_CX", vendor |-> "HPE_ARUBA",
    product |-> "AOS_CX", versions |-> {"10.13"}, architectures |-> {"UNKNOWN"},
    capabilities |-> {"HTTPS_REST"}, adapter |-> "secai.aruba-aos-cx.rest.v1",
    level |-> "SUPPORTED"]}
  \cup {[asset |-> "WINDOWS_PC", platform |-> "WINDOWS", vendor |-> "MICROSOFT", product |-> p[1],
         versions |-> {p[2]}, architectures |-> {"X86_64"}, capabilities |-> {},
         adapter |-> "secai.windows.pc.readonly.v1", level |-> "SUPPORTED"]
        : p \in {<<"WINDOWS_CLIENT_10", "10">>, <<"WINDOWS_CLIENT_11", "11">>}}

\* os-release is [id, version, duplicated]; anything not listed is refused.
LinuxIdentity(id) ==
  CASE id = "ubuntu" -> <<"CANONICAL", "UBUNTU_LINUX">>
    [] id = "debian" -> <<"DEBIAN_PROJECT", "DEBIAN_LINUX">>
    [] id = "rocky" -> <<"ROCKY_ENTERPRISE_SOFTWARE_FOUNDATION", "ROCKY_LINUX">>
    [] id = "rhel" -> <<"RED_HAT", "RHEL_LINUX">>
    [] id = "almalinux" -> <<"ALMALINUX_OS_FOUNDATION", "ALMALINUX">>
    [] OTHER -> <<>>
OsReleaseReadable(release) == ~release.duplicated /\ release.version # ""
DiscoverLinux(release, machine) ==
  IF ~OsReleaseReadable(release) THEN "DISCOVERY_INPUT_INVALID"
  ELSE IF LinuxIdentity(release.id) = <<>> THEN "UNSUPPORTED_PLATFORM"
  ELSE ResolveAdapter(SupportCatalog,
         [asset |-> "LINUX_SERVER", platform |-> "LINUX", vendor |-> LinuxIdentity(release.id)[1],
          product |-> LinuxIdentity(release.id)[2], version |-> release.version,
          architecture |-> machine, capabilities |-> {}, confidence |-> "EXACT"])

DiscoverSwitch(version, capabilities) ==
  [asset |-> "NETWORK_SWITCH", platform |-> "ARUBA_AOS_CX", vendor |-> "HPE_ARUBA",
   product |-> "AOS_CX", version |-> version, architecture |-> "UNKNOWN",
   capabilities |-> capabilities, confidence |-> "EXACT"]

(* ------------------------------ projection ---------------------------- *)
OutsideManagement(vrf) == ~vrf.management /\ vrf.name # "mgmt"
FeatureEnabled(value) == value \in {"yes", "present"}   \* _nested_feature_enabled

\* The group of a user; the built-in admin may come without one.
GroupOf(user) == IF user.group = "" /\ user.name = "admin" THEN "administrators" ELSE user.group

BannerFacts(banner) == [configured |-> banner # "none", discloses |-> banner = "leaks"]

\* privilege is -1 where the login gave no user cookie.
AdministratorAuthenticated(answers, privilege, username) ==
  \/ privilege = 15
  \/ /\ privilege = -1
     /\ \/ answers.currentGroup = "administrators"
        \/ username = "admin" /\ answers.currentGroup = ""

AccountFacts(answers) ==
  [roles |-> Cardinality({g.name : g \in answers.groups}
                          \cap {"administrators", "operators", "auditors"}),
   users |-> Cardinality(answers.users),
   nonAdministrators |-> Cardinality({u \in answers.users : GroupOf(u) \notin {"", "administrators"}}),
   unknownRoles |-> Cardinality({u \in answers.users : GroupOf(u) = ""})]

LogFacts(answers) ==
  LET active == {s \in answers.syslogs : s.host /\ ~s.disabled}
  IN [remotes |-> Cardinality(active), auditable |-> Cardinality({s \in active : s.audit})]

\* NTP servers count only when the client uses the management VRF.
TimeFacts(answers) ==
  [enabled |-> answers.ntpEnabled,
   servers |-> IF answers.ntpVrf \in {"", "mgmt"} THEN answers.ntpServers ELSE 0]

SnmpFacts(answers) ==
  LET on == {v \in answers.vrfs : v.snmp}
      secure == {u \in answers.snmpUsers : u.secure /\ u.readOnly}
  IN [vrfs |-> Cardinality(on), outside |-> Cardinality({v \in on : OutsideManagement(v)}),
      v3Only |-> answers.v3Only, communities |-> answers.communities,
      users |-> Cardinality(answers.snmpUsers), secure |-> Cardinality(secure)]

InterfaceFacts(answers) ==
  LET routed == {i \in answers.interfaces : i.routing}
      physical == {i \in answers.interfaces : i.physical}
      active == {i \in physical : i.up}
  IN [routed |-> Cardinality(routed), protected |-> Cardinality({i \in routed : i.lockdown}),
      physical |-> Cardinality(physical), active |-> Cardinality(active),
      undocumented |-> Cardinality({i \in active : ~i.described}),
      broadcasts |-> Cardinality({i \in answers.interfaces : i.broadcast}),
      proxyArps |-> Cardinality({i \in answers.interfaces : i.proxyArp})]

VrfFacts(answers) ==
  LET web == {v \in answers.vrfs : FeatureEnabled(v.https)}
  IN [telnet |-> Cardinality({v \in answers.vrfs : v.telnet}),
      https |-> Cardinality(web), httpsOutside |-> Cardinality({v \in web : OutsideManagement(v)}),
      dns |-> answers.dnsServers + Cardinality({v \in answers.vrfs : v.dns})]

\* _build_projection. Whatever REST leaves out of a list counts as not configured.
BuildFacts(answers, privilege, username) ==
  [administrator |-> AdministratorAuthenticated(answers, privilege, username),
   account |-> AccountFacts(answers), log |-> LogFacts(answers), time |-> TimeFacts(answers),
   snmp |-> SnmpFacts(answers), interface |-> InterfaceFacts(answers), vrf |-> VrfFacts(answers),
   banner |-> BannerFacts(answers.banner), system |-> answers.system]

(* ------------------------------- judgement ---------------------------- *)
\* Ten controls do not apply to AOS-CX, which is the only family collected.
NotApplicableToAosCx == {13, 21, 25, 26, 28, 29, 32, 35, 37, 38}

AccessJudgement(n, f, threshold) ==
  LET s == f.system
  IN CASE n = 1 -> NetworkResult(f.administrator)
       [] n = 2 -> NetworkResult(s.complexity = "yes")
       [] n = 3 -> "PASS"                    \* a constant of the projection
       [] n = 4 -> IF s.attempts = NoNumber THEN "REVIEW" ELSE NetworkResult(s.attempts <= threshold)
       [] n = 5 -> NetworkResult(/\ f.account.roles >= 2 /\ f.account.users > 0
                                 /\ f.account.nonAdministrators > 0 /\ f.account.unknownRoles = 0)
       [] n = 6 -> IF s.allowlist = "unset" THEN "REVIEW"
                   ELSE NetworkResult(s.allowlist = "yes" /\ s.allowed > 0)
       [] n = 7 -> IF s.cliTimeout = NoNumber \/ s.webTimeout = NoNumber THEN "REVIEW"
                   ELSE NetworkResult(s.cliTimeout \in 1..10 /\ s.webTimeout \in 1..10)
       [] n = 8 -> IF s.ssh = "unset" THEN "REVIEW"
                   ELSE NetworkResult(s.ssh = "yes" /\ f.vrf.telnet = 0)
       [] n = 9 -> NetworkResult(s.usbOff)   \* Bluetooth is shown and not judged
       [] n = 10 -> NetworkResult(f.banner.configured /\ ~f.banner.discloses)

LogJudgement(n, f) ==
  CASE n = 11 -> NetworkResult(f.log.remotes > 0)
    [] n = 12 -> "REVIEW"
    [] n = 14 -> NetworkResult(f.log.remotes > 0 /\ f.log.auditable = f.log.remotes)
    [] n = 15 -> NetworkResult(f.time.enabled /\ f.time.servers > 0)
    [] n = 16 -> NetworkResult(f.system.timestamps)

SnmpJudgement(n, f) ==
  LET v3 == f.snmp.v3Only /\ f.snmp.communities = 0
  IN CASE n = 17 -> IF f.snmp.vrfs = 0 THEN "PASS" ELSE "REVIEW"
       [] n = 18 -> IF v3 THEN "PASS" ELSE "REVIEW"
       [] n = 19 -> IF f.snmp.vrfs = 0 THEN "PASS"
                    ELSE NetworkResult(/\ f.snmp.v3Only /\ f.snmp.users > 0
                                       /\ f.snmp.secure = f.snmp.users /\ f.snmp.outside = 0)
       [] n = 20 -> IF v3 THEN "N/A" ELSE "REVIEW"

TrafficJudgement(n, f) ==
  LET i == f.interface
      s == f.system
  IN CASE n = 22 -> IF i.routed = 0 THEN "REVIEW" ELSE NetworkResult(i.protected = i.routed)
       [] n = 23 -> NetworkResult(s.copp)
       [] n = 24 -> IF i.physical = 0 THEN "N/A" ELSE IF i.undocumented > 0 THEN "FAIL"
                    ELSE IF i.active = 0 THEN "PASS" ELSE "REVIEW"
       [] n = 27 -> NetworkResult(f.vrf.httpsOutside = 0)
       [] n = 30 -> IF s.cdp = "unset" THEN "REVIEW" ELSE NetworkResult(s.cdp = "no")
       [] n = 31 -> NetworkResult(i.broadcasts = 0)
       [] n = 33 -> NetworkResult(i.proxyArps = 0)
       [] n = 34 -> IF s.unreachableOff = "unset" \/ s.redirectOff = "unset" THEN "REVIEW"
                    ELSE NetworkResult(s.unreachableOff = "yes" /\ s.redirectOff = "yes")
       [] n = 36 -> NetworkResult(f.vrf.dns = 0)

EvaluateDevice(n, f, threshold) ==
  IF n \in NotApplicableToAosCx THEN "N/A"
  ELSE IF n <= 10 THEN AccessJudgement(n, f, threshold)
  ELSE IF n <= 16 THEN LogJudgement(n, f)
  ELSE IF n <= 20 THEN SnmpJudgement(n, f)
  ELSE TrafficJudgement(n, f)

\* What the page sends: the threshold, 25 switches of no effect on a verdict, and
\* the organization's own verdicts on N-12 and N-17.
NetworkProfileAccepted(values) ==
  /\ values.keysExact /\ values.threshold \in 1..20
  /\ values.n12 \in {"PASS", "FAIL", "REVIEW", "N/A"}
  /\ values.n17 \in {"PASS", "FAIL", "REVIEW", "N/A"}

\* The organization's verdict counts only where the device's own is REVIEW.
EvaluateNetwork(n, f, profile) ==
  LET device == EvaluateDevice(n, f, profile.threshold)
  IN IF device = "REVIEW" /\ n \in {12, 17}
       THEN [status |-> IF n = 12 THEN profile.n12 ELSE profile.n17, source |-> "ORGANIZATION_INPUT"]
     ELSE [status |-> device, source |-> "DEVICE_RULE"]

EvaluateAll(f, profile) == [n \in NetworkControlIds |-> EvaluateNetwork(n, f, profile)]

(* -------------------- the text baseline of two vendors ----------------- *)
\* evaluate_switch_baseline: config is <<>> when the running configuration could
\* not be read, else <<lines>>, the set of the patterns found in it.
BaselinePatterns(platform) ==
  IF platform = "CISCO_IOS"
    THEN <<"enable secret", "transport input ssh", "snmp v3", "logging host", "ntp server",
           "password-encryption">>
  ELSE <<"administrators ciphertext", "ssh server vrf", "snmpv3 user", "logging host", "ntp server",
         "session-timeout">>
EvaluateBaseline(platform, config) ==
  [i \in 1..6 |-> IF config = <<>> THEN "ERROR"
                  ELSE NetworkResult(BaselinePatterns(platform)[i] \in config[1])]
=============================================================================
