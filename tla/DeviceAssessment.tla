-------------------------- MODULE DeviceAssessment --------------------------
(***************************************************************************)
(* The audit of one registered device: the switch (SwitchAudit, with its   *)
(* thread and its REST session), or a Linux server, whose probes have run  *)
(* (LinuxAudit is about how) and whose outputs are judged here.            *)
(***************************************************************************)
EXTENDS SwitchAudit, LinuxControls

CONSTANTS
  Releases,        \* what /etc/os-release of the server may say
  Machine,         \* its architecture
  ServerOutputs,   \* probe -> [exit, text], what the commands may return
  UnixProfiles     \* criteria the page may send

VARIABLES device, server

vars == <<runs, events, thread, session, starter, count, device, server>>

Init ==
  /\ SwitchInit
  /\ device \in {"switch", "server"}
  /\ server = [stage |-> "idle", debian |-> FALSE, outputs |-> <<>>, profile |-> None, verdicts |-> <<>>]

\* The distribution must be detected, and its adapter resolved, twice over.
IdentifyServer(release) ==
  /\ device = "server" /\ server.stage = "idle"
  /\ LET distribution == DetectDistribution(release)
         adapter == DiscoverLinux(release, Machine)
     IN server' = [server EXCEPT
          !.stage = IF distribution = "UNSUPPORTED" \/ adapter \in ResolutionErrors
                       \/ adapter = "DISCOVERY_INPUT_INVALID" THEN "refused" ELSE "identified",
          !.debian = distribution \in DebianFamily]
  /\ UNCHANGED <<device, runs, events, thread, session, starter, count>>

\* What counts as collected: the commands that ended with an accepted code.
CollectedOutputs(raw, debian) ==
  LET ran == {p \in DOMAIN raw : raw[p].exit \in AcceptedExit(debian, p)}
  IN [p \in ran |-> raw[p].text]

Judge(outputs, debian, profile) ==
  [n \in UnixControls |-> EvaluateUnix(n, outputs, debian, profile)]

JudgeServer(raw, profile) ==
  /\ server.stage = "identified"
  /\ ProfileAccepted(profile)
  /\ LET outputs == CollectedOutputs(raw, server.debian)
     IN server' = [server EXCEPT !.stage = "judged", !.outputs = outputs, !.profile = profile,
                                 !.verdicts = Judge(outputs, server.debian, profile)]
  /\ UNCHANGED <<device, runs, events, thread, session, starter, count>>

RefuseServer ==
  /\ server.stage = "refused"
  /\ server' = [server EXCEPT !.stage = "idle"]
  /\ UNCHANGED <<device, runs, events, thread, session, starter, count>>

Next ==
  \/ device = "switch" /\ SwitchNext /\ UNCHANGED <<device, server>>
  \/ \E release \in Releases : IdentifyServer(release)
  \/ \E raw \in ServerOutputs, profile \in UnixProfiles : JudgeServer(raw, profile)
  \/ RefuseServer

Spec == Init /\ [][Next]_vars

-----------------------------------------------------------------------------
(* Properties *)

Statuses == {"PASS", "FAIL", "REVIEW", "N/A", "ERROR"}
\* The rows, the sessions and the stages keep their types.
TypeOK ==
  /\ \A r \in Runs : runs[r].status \in {"NONE", "QUEUED", "RUNNING", "COMPLETED", "FAILED"}
  /\ \A r \in Runs : session[r] \in {"none", "open", "closed"}
  /\ server.stage \in {"idle", "identified", "refused", "judged"}
  /\ server.stage = "judged" => \A n \in UnixControls : server.verdicts[n].status \in Statuses

\* A run has a result exactly when it is COMPLETED, whatever fails after
\* finish_switch_audit_run committed, and the result is of a device session that
\* was closed again: _build_projection runs after logout(). A thread that is over
\* left a session open only if the device answered badly or the process died.
RunEndsWhole ==
  \A r \in Runs :
    /\ (runs[r].result # <<>>) <=> (runs[r].status = "COMPLETED")
    /\ "RUN_COMPLETED" \in {events[r][i] : i \in DOMAIN events[r]} => runs[r].status = "COMPLETED"
    /\ runs[r].status = "COMPLETED" => session[r] = "closed"
    /\ thread[r].pc \in {"done", "dead"} /\ session[r] = "open" => count.faults + count.crashes > 0

\* A run fails only when the device, the network or the database failed, or the
\* device is not what it is registered as: with none of that the page that polls
\* the status comes to a result.
FailureHasACause ==
  \A r \in Runs :
    runs[r].status = "FAILED" =>
      \/ count.faults > 0
      \/ thread[r].answers # <<>>
           /\ (~thread[r].answers[1].supportedApi
                 \/ ~AdministratorAuthenticated(thread[r].answers[1], thread[r].privilege, Username))

\* Evidence that is left out never earns a PASS: a control that passes without
\* a probe it lists, or without the list of enabled units every service control
\* reads, passes with it; and a setting REST omits never turns a verdict to PASS.
Without(outputs, probe) == [p \in DOMAIN outputs \ {probe} |-> outputs[p]]
Silent(answers) ==
  [answers EXCEPT !.system = [@ EXCEPT !.attempts = NoNumber, !.allowlist = "unset",
     !.cliTimeout = NoNumber, !.ssh = "unset", !.cdp = "unset", !.redirectOff = "unset"]]

OmissionNeverPasses ==
  /\ server.stage = "judged" =>
       \A n \in UnixControls : \A p \in (ProbeIds(n) \cup {"enabled-services"}) \cap DOMAIN server.outputs :
         EvaluateUnix(n, Without(server.outputs, p), server.debian, server.profile).status = "PASS"
           => server.verdicts[n].status = "PASS"
  /\ \A r \in Runs : runs[r].status = "COMPLETED" =>
       LET facts == BuildFacts(Silent(thread[r].answers[1]), thread[r].privilege, Username)
           silent == EvaluateAll(facts, thread[r].profile)
       IN \A n \in NetworkControlIds :
            silent[n].status = "PASS" => runs[r].result[1][n].status = "PASS"
=============================================================================
