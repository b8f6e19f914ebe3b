---------------------------- MODULE ScanApproval ----------------------------
(***************************************************************************)
(* Remote scans: a collector spends a run of its download token on an      *)
(* approval request, the owner decides in the browser, and the collector   *)
(* polls until it may start. Approving also provisions a Linux self scan,  *)
(* whose one-time code a Linux collector fetches; a Windows collector      *)
(* sends its result with the token.                                        *)
(*                                                                         *)
(* Tokens and approval requests are in the memory of the API process; its  *)
(* handlers run on a thread pool. "slot" is the waiting run of each user   *)
(* in the database (module LinuxOneshot), of which there is at most one    *)
(* that has not yet been bound.                                            *)
(***************************************************************************)
EXTENDS Naturals, FiniteSets

CONSTANTS
  Users,
  Tokens,      \* download tokens
  Requests,    \* approval request ids
  Codes,       \* one-time codes
  Deciders,    \* server threads handling decisions
  Collectors,
  Windows,     \* the collectors that run on Windows
  None,
  MaxRuns,     \* MAX_SCAN_TOKEN_RUNS, 3 in the code
  MaxPolls     \* max_attempts, 300 in the code

ASSUME ApprovalAssumption ==
  /\ Windows \subseteq Collectors
  /\ None \notin Users \cup Tokens \cup Requests \cup Codes
  /\ MaxRuns \in Nat \ {0}
  /\ MaxPolls \in Nat \ {0}

VARIABLES
  token,      \* InMemoryScanTokenStore
  approval,   \* InMemoryScanApprovalStore; "lost" after a restart
  slot,       \* the code of the user's waiting run
  made,       \* the request each code was made for
  decision,   \* decisions in flight
  collector,  \* perform_scan_handshake, and the scan that follows it
  results     \* requests with a stored Windows result

vars == <<token, approval, slot, made, decision, collector, results>>

NoToken == [subject |-> None, used |-> 0, lost |-> FALSE]
NoRequest == [state |-> "NONE", token |-> None, subject |-> None, expired |-> FALSE,
              grant |-> None, approver |-> None, lost |-> FALSE]
NoDecision == [pc |-> "idle", q |-> None, user |-> None, inTime |-> FALSE, code |-> None]
AtRest == [pc |-> "idle", q |-> None, t |-> None, polls |-> 0, code |-> None]

Init ==
  /\ token = [t \in Tokens |-> NoToken]
  /\ approval = [q \in Requests |-> NoRequest]
  /\ slot = [u \in Users |-> None]
  /\ made = [k \in Codes |-> None]
  /\ decision = [d \in Deciders |-> NoDecision]
  /\ collector = [c \in Collectors |-> AtRest]
  /\ results = {}

TokenKnown(t) == token[t].subject # None /\ ~token[t].lost
RequestKnown(q) == approval[q].state # "NONE" /\ ~approval[q].lost

-----------------------------------------------------------------------------
(* The decisions of the code, each with the slip it is protected from.     *)

\* start_run
RunsLeft(t) == token[t].used < MaxRuns

\* _decide: the owner decides, once, and in time.
OwnerDecidesAnyUser(q, u) == TRUE
OwnerDecides(q, u) == approval[q].subject = u
Undecided(q) == approval[q].state = "PENDING"
MayDecide(q, u, inTime) == RequestKnown(q) /\ OwnerDecides(q, u) /\ Undecided(q) /\ inTime

\* provision_linux_self_scan: a waiting run is a conflict; otherwise the code
\* is new.
ProvisionableWaitingToo(u) ==
  IF slot[u] # None THEN {slot[u]} ELSE {k \in Codes : made[k] = None}
Provisionable(u) == IF slot[u] # None THEN {} ELSE {k \in Codes : made[k] = None}

\* The poll loop counts its attempts.
NextAttempt(n) == n + 1

\* authorize_exchange
Authorized(q, t) ==
  /\ TokenKnown(t)
  /\ RequestKnown(q)
  /\ approval[q].subject = token[t].subject
  /\ approval[q].state = "APPROVED"

-----------------------------------------------------------------------------
(* The owner *)

IssueToken(t, u) ==
  /\ token[t].subject = None
  /\ token' = [token EXCEPT ![t].subject = u]
  /\ UNCHANGED <<approval, slot, made, decision, collector, results>>

\* decide_scan_approval notes the time before it does anything else.
BeginApprove(d) ==
  /\ decision[d].pc = "idle"
  /\ \E q \in Requests, u \in Users :
       /\ RequestKnown(q)
       /\ decision' = [decision EXCEPT ![d] =
            [NoDecision EXCEPT !.pc = "provision", !.q = q, !.user = u,
                               !.inTime = ~approval[q].expired]]
  /\ UNCHANGED <<token, approval, slot, made, collector, results>>

ProvisionSelfScan(d) ==
  LET u == decision[d].user IN
  /\ decision[d].pc = "provision"
  /\ \E k \in Provisionable(u) :
       /\ slot' = [slot EXCEPT ![u] = k]
       /\ made' = [made EXCEPT ![k] = decision[d].q]
       /\ decision' = [decision EXCEPT ![d].pc = "approve", ![d].code = k]
  /\ UNCHANGED <<token, approval, collector, results>>

\* LINUX_ONESHOT_ALREADY_WAITING ends the decision; so does a database error.
ProvisionFails(d) ==
  /\ decision[d].pc = "provision"
  /\ decision' = [decision EXCEPT ![d] = NoDecision]
  /\ UNCHANGED <<token, approval, slot, made, collector, results>>

Approve(d) ==
  LET q == decision[d].q
      u == decision[d].user
  IN /\ decision[d].pc = "approve"
     /\ approval' = IF MayDecide(q, u, decision[d].inTime)
                      THEN [approval EXCEPT ![q].state = "APPROVED",
                                            ![q].grant = decision[d].code,
                                            ![q].approver = u]
                      ELSE approval
     /\ decision' = [decision EXCEPT ![d] = NoDecision]
     /\ UNCHANGED <<token, slot, made, collector, results>>

Decline(q, u) ==
  /\ MayDecide(q, u, ~approval[q].expired)
  /\ approval' = [approval EXCEPT ![q].state = "DECLINED"]
  /\ UNCHANGED <<token, slot, made, decision, collector, results>>

-----------------------------------------------------------------------------
(* The collector *)

At(c, pc) == collector[c].pc = pc
Give(c, rec) == collector' = [collector EXCEPT ![c] = rec]
Stop(c) == Give(c, AtRest)

\* register spends the run before it creates the request: a bad device name
\* or a lost response costs a run as well.
Register(c, t) ==
  /\ At(c, "idle")
  /\ TokenKnown(t)
  /\ RunsLeft(t)
  /\ token' = [token EXCEPT ![t].used = @ + 1]
  /\ \/ UNCHANGED <<approval, collector>>
     \/ \E q \in {x \in Requests : approval[x].state = "NONE"} :
          /\ approval' = [approval EXCEPT ![q] =
               [NoRequest EXCEPT !.state = "PENDING", !.token = t,
                                 !.subject = token[t].subject]]
          /\ \/ Give(c, [AtRest EXCEPT !.pc = "poll", !.q = q, !.t = t])
             \/ UNCHANGED collector
  /\ UNCHANGED <<slot, made, decision, results>>

\* The state the server reports: a pending request past its time is EXPIRED.
EffectiveState(q) ==
  IF ~RequestKnown(q) THEN "NOT_FOUND"
  ELSE IF approval[q].state = "PENDING" /\ approval[q].expired THEN "EXPIRED"
  ELSE approval[q].state

Poll(c) ==
  LET state == EffectiveState(collector[c].q)
      attempt == NextAttempt(collector[c].polls)
  IN /\ At(c, "poll")
     /\ \/ state = "APPROVED" /\ Give(c, [collector[c] EXCEPT
             !.pc = IF c \in Windows THEN "submit" ELSE "grant"])
        \/ state = "PENDING" /\ attempt < MaxPolls
             /\ Give(c, [collector[c] EXCEPT !.polls = attempt])
        \/ state = "PENDING" /\ attempt >= MaxPolls /\ Stop(c)
        \/ state \notin {"APPROVED", "PENDING"} /\ Stop(c)
     /\ UNCHANGED <<token, approval, slot, made, decision, results>>

\* Any call may fail; the program ends.
CallFails(c) ==
  /\ ~At(c, "idle")
  /\ Stop(c)
  /\ UNCHANGED <<token, approval, slot, made, decision, results>>

\* grant_scan_code
Grant(c) ==
  LET q == collector[c].q IN
  /\ At(c, "grant")
  /\ Authorized(q, collector[c].t)
  /\ approval[q].grant # None
  /\ Give(c, [collector[c] EXCEPT !.pc = "collect", !.code = approval[q].grant])
  /\ UNCHANGED <<token, approval, slot, made, decision, results>>

\* The code is exchanged, the run bound, and the user's slot is free again.
ExchangeCode(c) ==
  /\ At(c, "collect")
  /\ \E u \in Users :
       /\ slot[u] = collector[c].code
       /\ slot' = [slot EXCEPT ![u] = None]
  /\ Stop(c)
  /\ UNCHANGED <<token, approval, made, decision, results>>

\* submit_windows_scan_result
SubmitWindowsResult(c) ==
  /\ At(c, "submit")
  /\ Authorized(collector[c].q, collector[c].t)
  /\ results' = results \cup {collector[c].q}
  /\ Stop(c)
  /\ UNCHANGED <<token, approval, slot, made, decision>>

-----------------------------------------------------------------------------
(* The environment *)

RequestExpires(q) ==
  /\ approval[q].state = "PENDING"
  /\ ~approval[q].expired
  /\ approval' = [approval EXCEPT ![q].expired = TRUE]
  /\ UNCHANGED <<token, slot, made, decision, collector, results>>

\* The waiting run expires after an hour, or its owner deletes it.
SlotFreed(u) ==
  /\ slot[u] # None
  /\ slot' = [slot EXCEPT ![u] = None]
  /\ UNCHANGED <<token, approval, made, decision, collector, results>>

\* Tokens, requests and the decisions in flight are gone; the run is not.
Restart ==
  /\ token' = [t \in Tokens |-> [token[t] EXCEPT !.lost = (@ \/ token[t].subject # None)]]
  /\ approval' = [q \in Requests |->
       [approval[q] EXCEPT !.lost = (@ \/ approval[q].state # "NONE")]]
  /\ decision' = [d \in Deciders |-> NoDecision]
  /\ UNCHANGED <<slot, made, collector, results>>

Handshake(c) ==
  \/ Poll(c) \/ CallFails(c) \/ Grant(c) \/ ExchangeCode(c) \/ SubmitWindowsResult(c)

Next ==
  \/ \E t \in Tokens, u \in Users : IssueToken(t, u)
  \/ \E d \in Deciders :
       BeginApprove(d) \/ ProvisionSelfScan(d) \/ ProvisionFails(d) \/ Approve(d)
  \/ \E q \in Requests, u \in Users : Decline(q, u)
  \/ \E c \in Collectors, t \in Tokens : Register(c, t)
  \/ \E c \in Collectors : Handshake(c)
  \/ \E q \in Requests : RequestExpires(q)
  \/ \E u \in Users : SlotFreed(u)
  \/ Restart

Spec == Init /\ [][Next]_vars

-----------------------------------------------------------------------------
\* The records keep their types.
TypeOK ==
  /\ token \in [Tokens -> [subject : Users \cup {None}, used : 0..MaxRuns,
                           lost : BOOLEAN]]
  /\ approval \in [Requests -> [state : {"NONE", "PENDING", "APPROVED", "DECLINED"},
                                token : Tokens \cup {None}, subject : Users \cup {None},
                                expired : BOOLEAN, grant : Codes \cup {None},
                                approver : Users \cup {None}, lost : BOOLEAN]]
  /\ slot \in [Users -> Codes \cup {None}]
  /\ made \in [Codes -> Requests \cup {None}]
  /\ decision \in [Deciders -> [pc : {"idle", "provision", "approve"},
                                q : Requests \cup {None}, user : Users \cup {None},
                                inTime : BOOLEAN, code : Codes \cup {None}]]
  /\ collector \in [Collectors -> [pc : {"idle", "poll", "grant", "submit", "collect"},
                                   q : Requests \cup {None}, t : Tokens \cup {None},
                                   polls : 0..MaxPolls, code : Codes \cup {None}]]
  /\ results \subseteq Requests

\* A scan only starts, fetches its code or leaves a result when the owner of
\* the token it runs with has approved that very request, also when another
\* user, a second decision or a restart came in between.
ApprovedByOwner ==
  LET Cleared(q) == /\ approval[q].state = "APPROVED"
                    /\ approval[q].approver = token[approval[q].token].subject
  IN /\ \A c \in Collectors :
          collector[c].pc \in {"grant", "submit", "collect"} => Cleared(collector[c].q)
     /\ \A q \in results : Cleared(q)

\* A code is granted to one request only, and it was made for that request.
GrantIsForItsRequest ==
  \A q \in Requests : approval[q].grant # None => made[approval[q].grant] = q

=============================================================================
