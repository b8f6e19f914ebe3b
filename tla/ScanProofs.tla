----------------------------- MODULE ScanProofs -----------------------------
(***************************************************************************)
(* Proofs about the scans a person consents to.                            *)
(*   ScanApproval, for every number of users, download tokens, approval    *)
(* requests, codes, decisions in flight and collectors.                    *)
(*   Launcher, for whatever the scripts print and the probes read, any     *)
(* criteria and consents, and every number of scans, elevations, changes   *)
(* of the settings and new starts.                                         *)
(***************************************************************************)
EXTENDS ScanApproval, Launcher, FiniteSetTheorems, TLAPS

-----------------------------------------------------------------------------
(* The approval of a remote scan.                                          *)

TokenTable == [Tokens -> [subject : Users \cup {None}, used : 0..MaxRuns, lost : BOOLEAN]]
RequestRow == [state : {"NONE", "PENDING", "APPROVED", "DECLINED"},
               token : Tokens \cup {None}, subject : Users \cup {None}, expired : BOOLEAN,
               grant : Codes \cup {None}, approver : Users \cup {None}, lost : BOOLEAN]
DecisionRow == [pc : {"idle", "provision", "approve"}, q : Requests \cup {None},
                user : Users \cup {None}, inTime : BOOLEAN, code : Codes \cup {None}]
CollectorRow == [pc : {"idle", "poll", "grant", "submit", "collect"},
                 q : Requests \cup {None}, t : Tokens \cup {None}, polls : 0..MaxPolls,
                 code : Codes \cup {None}]

\* Where a collector is once the server has told it of the approval.
Cleared == {"grant", "submit", "collect"}

\* A request belongs to the owner of the token it was registered with, and
\* only that owner approves it.
RequestsOwned ==
  \A q \in Requests :
    /\ approval[q].state # "NONE" => /\ approval[q].token \in Tokens
                                     /\ approval[q].subject \in Users
                                     /\ token[approval[q].token].subject = approval[q].subject
    /\ approval[q].state = "APPROVED" => approval[q].approver = approval[q].subject

\* A decision that has provisioned a run is about to grant the code it made.
DecisionsName ==
  \A d \in Deciders :
    /\ decision[d].pc # "idle" => decision[d].q \in Requests /\ decision[d].user \in Users
    /\ decision[d].pc = "approve" => /\ decision[d].code \in Codes
                                     /\ made[decision[d].code] = decision[d].q

\* A collector that has polled the approval, and a stored result, have one.
ClearedIsApproved ==
  /\ \A c \in Collectors :
       /\ collector[c].pc # "idle" => collector[c].q \in Requests
       /\ collector[c].pc \in Cleared => approval[collector[c].q].state = "APPROVED"
  /\ \A q \in results : approval[q].state = "APPROVED"

IInv == TypeOK /\ RequestsOwned /\ DecisionsName /\ ClearedIsApproved /\ GrantIsForItsRequest

-----------------------------------------------------------------------------
(* What a step does to each table; together they keep the invariant.       *)

\* Tokens keep their owner, and a code the request it was made for.
TokenStep ==
  /\ token' \in TokenTable
  /\ \A t \in Tokens : token[t].subject # None => token'[t].subject = token[t].subject

MadeStep ==
  /\ made' \in [Codes -> Requests \cup {None}]
  /\ \A k \in Codes : made[k] # None => made'[k] = made[k]

\* The parts of a request the properties are about.
SameRequest(old, new) ==
  /\ new.state = old.state /\ new.token = old.token /\ new.subject = old.subject
  /\ new.grant = old.grant /\ new.approver = old.approver

Registered(old, new) ==
  /\ old.state = "NONE" /\ new.state = "PENDING"
  /\ new.token \in Tokens /\ new.grant = None
  /\ new.subject \in Users /\ token'[new.token].subject = new.subject

Decided(q, old, new) ==
  /\ old.state = "PENDING" /\ new.token = old.token /\ new.subject = old.subject
  /\ \/ new.state = "DECLINED" /\ new.grant = old.grant
     \/ /\ new.state = "APPROVED" /\ new.approver = old.subject
        /\ new.grant \in Codes /\ made'[new.grant] = q

RequestStep ==
  /\ approval' \in [Requests -> RequestRow]
  /\ \A q \in Requests : \/ SameRequest(approval[q], approval'[q])
                         \/ Registered(approval[q], approval'[q])
                         \/ Decided(q, approval[q], approval'[q])

DecisionStep ==
  /\ decision' \in [Deciders -> DecisionRow]
  /\ \A d \in Deciders :
       \/ decision'[d] = decision[d]
       \/ /\ decision'[d].pc # "idle" => decision'[d].q \in Requests /\ decision'[d].user \in Users
          /\ decision'[d].pc = "approve" => /\ decision'[d].code \in Codes
                                            /\ made'[decision'[d].code] = decision'[d].q

CollectorStep ==
  /\ collector' \in [Collectors -> CollectorRow]
  /\ \A c \in Collectors :
       \/ collector'[c] = collector[c]
       \/ /\ collector'[c].pc # "idle" => collector'[c].q \in Requests
          /\ collector'[c].pc \in Cleared => approval[collector'[c].q].state = "APPROVED"

ResultStep ==
  /\ results' \subseteq Requests
  /\ \A q \in results' : q \in results \/ approval[q].state = "APPROVED"

\* A step whose effects on the token store, the approval store, the database
\* and the programs in flight are the ones above keeps the invariant.
LEMMA EffectsKeep ==
  ASSUME IInv, slot' \in [Users -> Codes \cup {None}],
         TokenStep, MadeStep, RequestStep, DecisionStep, CollectorStep, ResultStep
  PROVE  IInv'
<1>1. /\ approval \in [Requests -> RequestRow] /\ approval' \in [Requests -> RequestRow]
      /\ made \in [Codes -> Requests \cup {None}]
  BY DEF IInv, TypeOK, RequestRow, RequestStep
<1>2. TypeOK'
  BY DEF TypeOK, TokenTable, RequestRow, DecisionRow, CollectorRow,
     TokenStep, MadeStep, RequestStep, DecisionStep, CollectorStep, ResultStep
<1>3. \A q \in Requests : approval[q].state = "APPROVED" => approval'[q].state = "APPROVED"
  BY DEF RequestStep, SameRequest, Registered, Decided
<1>4. RequestsOwned'
  <2> SUFFICES ASSUME NEW q \in Requests
               PROVE  /\ approval'[q].state # "NONE" =>
                           /\ approval'[q].token \in Tokens
                           /\ approval'[q].subject \in Users
                           /\ token'[approval'[q].token].subject = approval'[q].subject
                      /\ approval'[q].state = "APPROVED" =>
                           approval'[q].approver = approval'[q].subject
    BY DEF RequestsOwned
  <2>1. CASE SameRequest(approval[q], approval'[q])
    BY <2>1, ApprovalAssumption DEF SameRequest, IInv, RequestsOwned, TokenStep
  <2>2. CASE Registered(approval[q], approval'[q])
    BY <2>2 DEF Registered
  <2>3. CASE Decided(q, approval[q], approval'[q])
    BY <2>3, ApprovalAssumption DEF Decided, IInv, RequestsOwned, TokenStep
  <2> QED
    BY <2>1, <2>2, <2>3 DEF RequestStep
<1>5. DecisionsName'
  BY <1>1, ApprovalAssumption DEF IInv, DecisionsName, DecisionStep, MadeStep
<1>6. ClearedIsApproved'
  <2>1. ASSUME NEW c \in Collectors
        PROVE  /\ collector'[c].pc # "idle" => collector'[c].q \in Requests
               /\ collector'[c].pc \in Cleared =>
                    approval'[collector'[c].q].state = "APPROVED"
    <3>1. CASE collector'[c] = collector[c]
      BY <1>3, <3>1 DEF IInv, ClearedIsApproved, Cleared
    <3>2. CASE collector'[c] # collector[c]
      BY <1>3, <3>2 DEF CollectorStep, Cleared
    <3> QED
      BY <3>1, <3>2
  <2>2. ASSUME NEW q \in results'
        PROVE  approval'[q].state = "APPROVED"
    BY <1>3 DEF IInv, ClearedIsApproved, ResultStep
  <2> QED
    BY <2>1, <2>2 DEF ClearedIsApproved
<1>7. GrantIsForItsRequest'
  <2> SUFFICES ASSUME NEW q \in Requests, approval'[q].grant # None
               PROVE  made'[approval'[q].grant] = q
    BY DEF GrantIsForItsRequest
  <2>1. approval'[q].grant = approval[q].grant => made'[approval'[q].grant] = q
    <3> SUFFICES ASSUME approval'[q].grant = approval[q].grant
                 PROVE  made'[approval'[q].grant] = q
      OBVIOUS
    <3>1. approval[q].grant \in Codes /\ made[approval[q].grant] = q
      BY <1>1 DEF IInv, GrantIsForItsRequest, RequestRow
    <3> QED
      BY <3>1, ApprovalAssumption DEF MadeStep
  <2> QED
    BY <2>1 DEF RequestStep, SameRequest, Registered, Decided
<1> QED
  BY <1>2, <1>4, <1>5, <1>6, <1>7 DEF IInv

-----------------------------------------------------------------------------
(* Steps that leave a table alone.                                         *)

\* A handler that issues no token and spends no run of one.
LEMMA SameTokens == ASSUME IInv, UNCHANGED token PROVE TokenStep
  BY DEF IInv, TypeOK, TokenStep, TokenTable

\* A handler that provisions nothing makes no code.
LEMMA SameMade == ASSUME IInv, UNCHANGED made PROVE MadeStep
  BY DEF IInv, TypeOK, MadeStep

\* A handler that reads the approval store at most.
LEMMA SameApproval == ASSUME IInv, UNCHANGED approval PROVE RequestStep
  BY DEF IInv, TypeOK, RequestStep, RequestRow, SameRequest

\* A step outside decide_scan_approval.
LEMMA SameDecisions == ASSUME IInv, UNCHANGED decision PROVE DecisionStep
  BY DEF IInv, TypeOK, DecisionStep, DecisionRow

\* A step of the server or of the owner touches no collector.
LEMMA SameCollectors == ASSUME IInv, UNCHANGED collector PROVE CollectorStep
  BY DEF IInv, TypeOK, CollectorStep, CollectorRow

\* Only submit_windows_scan_result stores a result.
LEMMA SameResults == ASSUME IInv, UNCHANGED results PROVE ResultStep
  BY DEF IInv, TypeOK, ResultStep

\* The types of the tables, as the invariant has them.
LEMMA Types ==
  ASSUME IInv
  PROVE  /\ token \in TokenTable
         /\ approval \in [Requests -> RequestRow]
         /\ slot \in [Users -> Codes \cup {None}]
         /\ made \in [Codes -> Requests \cup {None}]
         /\ decision \in [Deciders -> DecisionRow]
         /\ collector \in [Collectors -> CollectorRow]
         /\ results \subseteq Requests
  BY DEF IInv, TypeOK, TokenTable, RequestRow, DecisionRow, CollectorRow

\* A program that ends, or goes on where the request it follows allows it.
LEMMA Given ==
  ASSUME IInv, NEW c \in Collectors, NEW rec \in CollectorRow, Give(c, rec),
         rec.pc # "idle" => rec.q \in Requests,
         rec.pc \in Cleared => approval[rec.q].state = "APPROVED"
  PROVE  CollectorStep
  BY Types DEF Give, CollectorStep

\* A program that stops, at whatever call.
LEMMA Stopped == ASSUME IInv, NEW c \in Collectors, Stop(c) PROVE CollectorStep
<1>1. AtRest \in CollectorRow /\ AtRest.pc = "idle"
  BY ApprovalAssumption DEF AtRest, CollectorRow
<1> QED
  BY <1>1, Given DEF Stop, Cleared

-----------------------------------------------------------------------------
(* One lemma per operation.                                                *)

\* A token gets its owner once.
LEMMA IssueTokenKeeps ==
  ASSUME IInv, NEW t \in Tokens, NEW u \in Users, IssueToken(t, u)
  PROVE  IInv'
<1>1. TokenStep
  BY Types DEF IssueToken, TokenStep, TokenTable
<1> QED
  BY <1>1, Types, EffectsKeep, SameMade, SameApproval, SameDecisions, SameCollectors,
     SameResults DEF IssueToken

\* decide_scan_approval and the run it provisions: the code is new, so no
\* earlier grant loses its request.
LEMMA DecisionKeeps ==
  ASSUME IInv, NEW d \in Deciders,
         BeginApprove(d) \/ ProvisionSelfScan(d) \/ ProvisionFails(d)
  PROVE  IInv'
<1>1. NoDecision \in DecisionRow /\ NoDecision.pc = "idle"
  BY ApprovalAssumption DEF NoDecision, DecisionRow
<1>2. CASE BeginApprove(d)
  <2>1. PICK q \in Requests, u \in Users :
          decision' = [decision EXCEPT ![d] =
            [NoDecision EXCEPT !.pc = "provision", !.q = q, !.user = u,
                               !.inTime = ~approval[q].expired]]
    BY <1>2 DEF BeginApprove
  <2>2. approval[q].expired \in BOOLEAN
    BY Types DEF RequestRow
  <2>3. DecisionStep
    BY <2>1, <2>2, Types, ApprovalAssumption DEF NoDecision, DecisionStep, DecisionRow
  <2> QED
    BY <1>2, <2>3, Types, EffectsKeep, SameTokens, SameMade, SameApproval, SameCollectors,
       SameResults DEF BeginApprove
<1>3. CASE ProvisionSelfScan(d)
  <2> DEFINE u == decision[d].user
  <2>1. PICK k \in Provisionable(u) :
          /\ slot' = [slot EXCEPT ![u] = k]
          /\ made' = [made EXCEPT ![k] = decision[d].q]
          /\ decision' = [decision EXCEPT ![d].pc = "approve", ![d].code = k]
    BY <1>3 DEF ProvisionSelfScan
  <2>2. k \in Codes /\ made[k] = None
    BY DEF Provisionable
  <2>3. u \in Users /\ decision[d].q \in Requests /\ decision[d] \in DecisionRow
    BY <1>3, Types DEF ProvisionSelfScan, IInv, DecisionsName
  <2>4. slot' \in [Users -> Codes \cup {None}] /\ MadeStep /\ made'[k] = decision[d].q
    BY <2>1, <2>2, <2>3, Types DEF MadeStep
  <2>5. DecisionStep
    <3>1. /\ decision'[d] \in DecisionRow
          /\ decision'[d].q = decision[d].q /\ decision'[d].user = u
          /\ decision'[d].pc = "approve" /\ decision'[d].code = k
      BY <2>1, <2>2, <2>3, Types DEF DecisionRow
    <3>2. \A e \in Deciders : e # d => decision'[e] = decision[e]
      BY <2>1, Types
    <3>3. decision' \in [Deciders -> DecisionRow]
      BY <2>1, <3>1, <3>2, Types
    <3> HIDE DEF u
    <3> QED
      BY <2>2, <2>3, <2>4, <3>1, <3>2, <3>3 DEF DecisionStep
  <2> QED
    BY <1>3, <2>4, <2>5, EffectsKeep, SameTokens, SameApproval, SameCollectors,
       SameResults DEF ProvisionSelfScan
<1>4. CASE ProvisionFails(d)
  <2>1. DecisionStep
    BY <1>1, <1>4, Types DEF ProvisionFails, DecisionStep
  <2> QED
    BY <1>4, <2>1, Types, EffectsKeep, SameTokens, SameMade, SameApproval, SameCollectors,
       SameResults DEF ProvisionFails
<1> QED
  BY <1>2, <1>3, <1>4

\* Only the owner's decision approves, only while the request is pending, and
\* it grants the code made for that request.
LEMMA ApproveKeeps == ASSUME IInv, NEW d \in Deciders, Approve(d) PROVE IInv'
<1> DEFINE q == decision[d].q
           u == decision[d].user
           k == decision[d].code
<1>1. q \in Requests /\ u \in Users /\ k \in Codes /\ made[k] = q
  BY DEF Approve, IInv, DecisionsName
<1>2. DecisionStep
  <2>1. NoDecision \in DecisionRow /\ NoDecision.pc = "idle"
    BY ApprovalAssumption DEF NoDecision, DecisionRow
  <2> QED
    BY <2>1, Types DEF Approve, DecisionStep
<1>3. RequestStep
  <2>1. CASE /\ MayDecide(q, u, decision[d].inTime)
             /\ approval' = [approval EXCEPT ![q].state = "APPROVED", ![q].grant = k,
                                             ![q].approver = u]
    <3>1. approval[q].subject = u /\ approval[q].state = "PENDING" /\ made'[k] = q
      BY <1>1, <2>1 DEF MayDecide, OwnerDecides, Undecided, Approve
    <3> HIDE DEF q, u, k
    <3>2. approval[q] \in RequestRow
      BY <1>1, Types
    <3>3. /\ approval'[q] \in RequestRow
          /\ approval'[q].token = approval[q].token
          /\ approval'[q].subject = approval[q].subject
          /\ approval'[q].state = "APPROVED" /\ approval'[q].approver = u
          /\ approval'[q].grant = k
      BY <1>1, <2>1, <3>2, Types DEF RequestRow
    <3>4. \A x \in Requests : x # q => approval'[x] = approval[x]
      BY <2>1, Types
    <3>5. approval' \in [Requests -> RequestRow]
      BY <2>1, <3>3, <3>4, Types
    <3>6. Decided(q, approval[q], approval'[q])
      BY <1>1, <3>1, <3>3 DEF Decided
    <3> QED
      BY <3>4, <3>5, <3>6 DEF RequestStep, SameRequest
  <2>2. CASE approval' = approval
    BY <2>2, SameApproval
  <2> QED
    BY <2>1, <2>2 DEF Approve
<1> QED
  BY <1>2, <1>3, Types, EffectsKeep, SameTokens, SameMade, SameCollectors, SameResults
     DEF Approve

\* Declining grants nothing.
LEMMA DeclineKeeps ==
  ASSUME IInv, NEW q \in Requests, NEW u \in Users, Decline(q, u)
  PROVE  IInv'
<1>1. approval[q].state = "PENDING" /\ approval' = [approval EXCEPT ![q].state = "DECLINED"]
  BY DEF Decline, MayDecide, Undecided
<1>2. RequestStep
  BY <1>1, Types DEF RequestStep, RequestRow, Decided, SameRequest
<1> QED
  BY <1>2, Types, EffectsKeep, SameTokens, SameMade, SameDecisions, SameCollectors,
     SameResults DEF Decline

\* A request past its time keeps the state it is stored with.
LEMMA ExpireKeeps == ASSUME IInv, NEW q \in Requests, RequestExpires(q) PROVE IInv'
<1>1. RequestStep
  BY Types DEF RequestExpires, RequestStep, RequestRow, SameRequest
<1> QED
  BY <1>1, Types, EffectsKeep, SameTokens, SameMade, SameDecisions, SameCollectors,
     SameResults DEF RequestExpires

\* A new request belongs to the owner of the token it spends a run of.
LEMMA RegisterKeeps ==
  ASSUME IInv, NEW c \in Collectors, NEW t \in Tokens, Register(c, t)
  PROVE  IInv'
<1>1. token[t] \in [subject : Users \cup {None}, used : 0..MaxRuns, lost : BOOLEAN]
  BY Types DEF TokenTable
<1>2. TokenStep /\ token'[t].subject = token[t].subject /\ token[t].subject \in Users
  <2>1. token[t].subject # None /\ token[t].used < MaxRuns
    BY DEF Register, TokenKnown, RunsLeft
  <2>2. token' = [token EXCEPT ![t].used = @ + 1]
    BY DEF Register
  <2>3. token[t].used + 1 \in 0..MaxRuns
    BY <1>1, <2>1, ApprovalAssumption
  <2>4. token' \in TokenTable /\ \A x \in Tokens : token'[x].subject = token[x].subject
    BY <1>1, <2>2, <2>3, Types DEF TokenTable
  <2> QED
    BY <1>1, <2>1, <2>4 DEF TokenStep
<1>3. CASE UNCHANGED <<approval, collector>>
  BY <1>2, <1>3, Types, EffectsKeep, SameMade, SameApproval, SameDecisions, SameCollectors,
     SameResults DEF Register
<1>4. ASSUME NEW q \in Requests, approval[q].state = "NONE",
             approval' = [approval EXCEPT ![q] =
               [NoRequest EXCEPT !.state = "PENDING", !.token = t,
                                 !.subject = token[t].subject]],
             \/ Give(c, [AtRest EXCEPT !.pc = "poll", !.q = q, !.t = t])
             \/ UNCHANGED collector
      PROVE  IInv'
  <2>1. RequestStep
    <3>1. /\ approval'[q] \in RequestRow
          /\ approval'[q].state = "PENDING" /\ approval'[q].token = t
          /\ approval'[q].subject = token[t].subject /\ approval'[q].grant = None
      BY <1>2, <1>4, Types DEF NoRequest, RequestRow
    <3>2. \A x \in Requests : x # q => approval'[x] = approval[x]
      BY <1>4, Types
    <3>3. approval' \in [Requests -> RequestRow]
      BY <1>4, <3>1, <3>2, Types
    <3>4. Registered(approval[q], approval'[q])
      BY <1>2, <1>4, <3>1 DEF Registered
    <3> QED
      BY <3>2, <3>3, <3>4 DEF RequestStep, SameRequest
  <2>2. CollectorStep
    <3> DEFINE rec == [AtRest EXCEPT !.pc = "poll", !.q = q, !.t = t]
    <3>1. rec \in CollectorRow /\ rec.pc = "poll" /\ rec.q = q
      <4>1. AtRest \in CollectorRow
        BY ApprovalAssumption DEF AtRest, CollectorRow
      <4> QED
        BY <4>1 DEF CollectorRow
    <3> HIDE DEF rec
    <3>2. CASE Give(c, rec)
      BY <3>1, <3>2, Given DEF Cleared
    <3>3. CASE UNCHANGED collector
      BY <3>3, SameCollectors
    <3> QED
      BY <1>4, <3>2, <3>3 DEF rec
  <2> QED
    BY <1>2, <2>1, <2>2, Types, EffectsKeep, SameMade, SameDecisions, SameResults
       DEF Register
<1> QED
  BY <1>3, <1>4 DEF Register

\* The handshake goes on only when the server says APPROVED, and polls at most
\* MaxPolls times.
LEMMA PollKeeps == ASSUME IInv, NEW c \in Collectors, Poll(c) PROVE IInv'
<1> DEFINE rec == collector[c]
           state == EffectiveState(rec.q)
<1>1. rec \in CollectorRow /\ rec.pc = "poll" /\ rec.q \in Requests
  BY Types DEF Poll, At, IInv, ClearedIsApproved
<1>2. ASSUME state = "APPROVED",
             Give(c, [rec EXCEPT !.pc = IF c \in Windows THEN "submit" ELSE "grant"])
      PROVE  CollectorStep
  <2>1. approval[rec.q].state = "APPROVED"
    BY <1>2 DEF EffectiveState
  <2>2. PICK where \in {"submit", "grant"} : Give(c, [rec EXCEPT !.pc = where])
    BY <1>2
  <2> DEFINE new == [rec EXCEPT !.pc = where]
  <2>3. new \in CollectorRow /\ new.q = rec.q
    BY <1>1 DEF CollectorRow
  <2> HIDE DEF new, rec
  <2>4. Give(c, new)
    BY <2>2 DEF new
  <2> QED
    BY <1>1, <2>1, <2>3, <2>4, Given
<1>3. ASSUME NextAttempt(rec.polls) < MaxPolls,
             Give(c, [rec EXCEPT !.polls = NextAttempt(rec.polls)])
      PROVE  CollectorStep
  <2>1. NextAttempt(rec.polls) \in 0..MaxPolls
    BY <1>1, <1>3, ApprovalAssumption DEF NextAttempt, CollectorRow
  <2> DEFINE new == [rec EXCEPT !.polls = NextAttempt(rec.polls)]
  <2>2. new \in CollectorRow /\ new.q = rec.q /\ new.pc = "poll"
    BY <1>1, <2>1 DEF CollectorRow
  <2>3. Give(c, new)
    BY <1>3
  <2> HIDE DEF new, rec
  <2> QED
    BY <1>1, <2>2, <2>3, Given DEF Cleared
<1>4. ASSUME Stop(c) PROVE CollectorStep
  BY <1>4, Stopped
<1>5. CollectorStep
  <2> HIDE DEF rec, state
  <2> QED
    BY <1>2, <1>3, <1>4 DEF Poll, rec, state
<1> QED
  BY <1>5, Types, EffectsKeep, SameTokens, SameMade, SameApproval, SameDecisions,
     SameResults DEF Poll

\* grant_scan_code answers the code of the request the collector polled.
LEMMA GrantKeeps == ASSUME IInv, NEW c \in Collectors, Grant(c) PROVE IInv'
<1> DEFINE rec == collector[c]
           q == rec.q
           new == [rec EXCEPT !.pc = "collect", !.code = approval[q].grant]
<1>1. rec \in CollectorRow /\ rec.pc = "grant" /\ q \in Requests
      /\ approval[q].state = "APPROVED"
  BY Types DEF Grant, At, IInv, ClearedIsApproved, Cleared
<1>2. approval[q].grant \in Codes \cup {None}
  BY <1>1, Types DEF RequestRow
<1>3. new \in CollectorRow /\ new.q = q
  BY <1>1, <1>2 DEF CollectorRow
<1>4. Give(c, new)
  BY DEF Grant
<1>5. CollectorStep
  <2> HIDE DEF new, q
  <2> QED
    BY <1>1, <1>3, <1>4, Given
<1> QED
  BY <1>5, Types, EffectsKeep, SameTokens, SameMade, SameApproval, SameDecisions,
     SameResults DEF Grant

\* The exchange frees the slot of the user whose code it was.
LEMMA ExchangeCodeKeeps == ASSUME IInv, NEW c \in Collectors, ExchangeCode(c) PROVE IInv'
<1>1. slot' \in [Users -> Codes \cup {None}]
  BY Types DEF ExchangeCode
<1>2. CollectorStep
  BY Stopped DEF ExchangeCode
<1> QED
  BY <1>1, <1>2, EffectsKeep, SameTokens, SameMade, SameApproval, SameDecisions,
     SameResults DEF ExchangeCode

\* submit_windows_scan_result is authorised by the approval of that request.
LEMMA SubmitKeeps ==
  ASSUME IInv, NEW c \in Collectors, SubmitWindowsResult(c)
  PROVE  IInv'
<1>1. collector[c].q \in Requests /\ approval[collector[c].q].state = "APPROVED"
  BY DEF SubmitWindowsResult, At, Authorized, IInv, ClearedIsApproved
<1>2. ResultStep
  BY <1>1, Types DEF SubmitWindowsResult, ResultStep
<1>3. CollectorStep
  BY Stopped DEF SubmitWindowsResult
<1> QED
  BY <1>2, <1>3, Types, EffectsKeep, SameTokens, SameMade, SameApproval, SameDecisions
     DEF SubmitWindowsResult

\* A waiting run that goes away leaves what was granted alone.
LEMMA SlotFreedKeeps == ASSUME IInv, NEW u \in Users, SlotFreed(u) PROVE IInv'
<1>1. slot' \in [Users -> Codes \cup {None}]
  BY Types DEF SlotFreed
<1> QED
  BY <1>1, EffectsKeep, SameTokens, SameMade, SameApproval, SameDecisions, SameCollectors,
     SameResults DEF SlotFreed

\* A restart loses the tokens, the requests and the decisions in flight, and
\* gives nobody an approval.
LEMMA RestartKeeps == ASSUME IInv, Restart PROVE IInv'
<1>1. TokenStep
  BY Types DEF Restart, TokenStep, TokenTable
<1>2. RequestStep
  <2>1. \A q \in Requests : /\ approval[q] \in RequestRow
                            /\ approval'[q] = [approval[q] EXCEPT !.lost =
                                                 (@ \/ approval[q].state # "NONE")]
    BY Types DEF Restart
  <2>2. \A q \in Requests : /\ approval'[q] \in RequestRow
                            /\ SameRequest(approval[q], approval'[q])
    <3> SUFFICES ASSUME NEW q \in Requests
                 PROVE  approval'[q] \in RequestRow /\ SameRequest(approval[q], approval'[q])
      OBVIOUS
    <3>1. PICK b \in BOOLEAN : approval'[q] = [approval[q] EXCEPT !.lost = b]
      BY <2>1
    <3> QED
      BY <2>1, <3>1 DEF RequestRow, SameRequest
  <2>3. approval' \in [Requests -> RequestRow]
    BY <2>2 DEF Restart
  <2> QED
    BY <2>2, <2>3 DEF RequestStep
<1>3. DecisionStep
  BY ApprovalAssumption DEF Restart, NoDecision, DecisionStep, DecisionRow
<1> QED
  BY <1>1, <1>2, <1>3, Types, EffectsKeep, SameMade, SameCollectors, SameResults DEF Restart

-----------------------------------------------------------------------------
\* No token, request, code or decision exists when the process starts.
LEMMA InitEstablishes == Init => IInv
  BY ApprovalAssumption DEF Init, NoToken, NoRequest, NoDecision, AtRest, IInv, TypeOK,
     RequestsOwned, DecisionsName, ClearedIsApproved, Cleared, GrantIsForItsRequest

\* Every step of the owner, a collector, the clock and a restart keeps the
\* invariant.
LEMMA NextKeeps == ASSUME IInv, [Next]_vars PROVE IInv'
<1>1. ASSUME NEW t \in Tokens, NEW u \in Users, IssueToken(t, u) PROVE IInv'
  BY <1>1, IssueTokenKeeps
<1>2. ASSUME NEW d \in Deciders,
             BeginApprove(d) \/ ProvisionSelfScan(d) \/ ProvisionFails(d)
      PROVE  IInv'
  BY <1>2, DecisionKeeps
<1>3. ASSUME NEW d \in Deciders, Approve(d) PROVE IInv'
  BY <1>3, ApproveKeeps
<1>4. ASSUME NEW q \in Requests, NEW u \in Users, Decline(q, u) PROVE IInv'
  BY <1>4, DeclineKeeps
<1>5. ASSUME NEW q \in Requests, RequestExpires(q) PROVE IInv'
  BY <1>5, ExpireKeeps
<1>6. ASSUME NEW c \in Collectors, NEW t \in Tokens, Register(c, t) PROVE IInv'
  BY <1>6, RegisterKeeps
<1>7. ASSUME NEW c \in Collectors, Handshake(c) PROVE IInv'
  <2>1. CASE CallFails(c)
    <3>1. CollectorStep
      BY <2>1, Stopped DEF CallFails
    <3> QED
      BY <2>1, <3>1, Types, EffectsKeep, SameTokens, SameMade, SameApproval, SameDecisions,
         SameResults DEF CallFails
  <2> QED
    BY <1>7, <2>1, PollKeeps, GrantKeeps, ExchangeCodeKeeps, SubmitKeeps DEF Handshake
<1>8. ASSUME NEW u \in Users, SlotFreed(u) PROVE IInv'
  BY <1>8, SlotFreedKeeps
<1>9. CASE Restart
  BY <1>9, RestartKeeps
<1>10. CASE UNCHANGED vars
  BY <1>10, Types, EffectsKeep, SameTokens, SameMade, SameApproval, SameDecisions,
     SameCollectors, SameResults DEF vars
<1> QED
  BY <1>1, <1>2, <1>3, <1>4, <1>5, <1>6, <1>7, <1>8, <1>9, <1>10 DEF Next

\* What a cleared collector and a stored result rest on is the approval of the
\* owner of the token.
LEMMA InvariantImplies == IInv => TypeOK /\ ApprovedByOwner /\ GrantIsForItsRequest
<1> SUFFICES ASSUME IInv PROVE ApprovedByOwner
  BY DEF IInv
<1>1. ASSUME NEW q \in Requests, approval[q].state = "APPROVED"
      PROVE  approval[q].approver = token[approval[q].token].subject
  BY <1>1 DEF IInv, RequestsOwned
<1>2. ASSUME NEW c \in Collectors, collector[c].pc \in Cleared
      PROVE  /\ collector[c].q \in Requests
             /\ approval[collector[c].q].state = "APPROVED"
  BY <1>2 DEF IInv, ClearedIsApproved, Cleared
<1>3. \A q \in results : q \in Requests /\ approval[q].state = "APPROVED"
  BY Types DEF IInv, ClearedIsApproved
<1> QED
  BY <1>1, <1>2, <1>3 DEF ApprovedByOwner, Cleared

\* The stores and the programs in flight keep their types; in particular no
\* token is spent more than MAX_SCAN_TOKEN_RUNS times.
THEOREM TypeCorrect == Spec => []TypeOK
  BY InitEstablishes, NextKeeps, InvariantImplies, PTL DEF Spec

\* A scan starts, fetches its code or leaves a result only when the owner of
\* the token has approved that very request.
THEOREM ApprovedByOwnerAlways == Spec => []ApprovedByOwner
  BY InitEstablishes, NextKeeps, InvariantImplies, PTL DEF Spec

\* The code a request grants was provisioned by the decision on that request.
THEOREM GrantIsForItsRequestAlways == Spec => []GrantIsForItsRequest
  BY InitEstablishes, NextKeeps, InvariantImplies, PTL DEF Spec

\* No two approval requests hand out the same one-time code.
GrantsDiffer ==
  \A p, q \in Requests :
    approval[p].grant # None /\ approval[p].grant = approval[q].grant => p = q

\* A code is made for one request, so approving two requests hands out two
\* codes, however the decisions interleave.
THEOREM GrantsDifferAlways == Spec => []GrantsDiffer
<1>1. GrantIsForItsRequest => GrantsDiffer
  BY DEF GrantIsForItsRequest, GrantsDiffer
<1> QED
  BY <1>1, GrantIsForItsRequestAlways, PTL

-----------------------------------------------------------------------------
(* The shape of the launcher's state.                                      *)

\* The fields of the bridge, of a scan and of an elevated child.
BridgeFields ==
  {"status", "attempt", "history", "criteria", "cancel", "administrator", "selected", "token"}
ScanFields ==
  {"pc", "before", "context", "observations", "collected", "inventory", "rows", "seen", "changes"}
ChildFields == {"pc", "before", "token", "selected", "criteria", "result"}

\* What is in a sequence, and a sequence of just that.
Members(s) == {s[i] : i \in DOMAIN s}
IsSequence(s) == s \in Seq(Members(s))

\* The records of the launcher have their fields, its counters are numbers, and
\* the history and the children are sequences.
LauncherShape ==
  /\ BridgeFields = DOMAIN bridge
  /\ ScanFields = DOMAIN scan
  /\ elevation \in [pc : {"idle", "uac", "answered"},
                    selected : {<<>>} \cup {request.probes : request \in Consents},
                    outcome : {Null, "STARTED", "CANCELLED", "UNAVAILABLE", "FAILED"}]
  /\ count \in [attempts : Nat, elevations : Nat, relaunches : Nat]
  /\ bridge.attempt \in Nat
  /\ IsSequence(bridge.history) /\ IsSequence(children)
  /\ \A i \in DOMAIN children : ChildFields = DOMAIN children[i]

\* A sequence is indexed from one to its length.
LEMMA SequenceFacts ==
  ASSUME NEW s, IsSequence(s)
  PROVE  /\ Len(s) \in Nat /\ DOMAIN s = 1..Len(s)
         /\ s = <<>> <=> Len(s) = 0
  BY DEF IsSequence

\* What Append does to a sequence of whatever it holds.
LEMMA AppendSequence ==
  ASSUME NEW s, IsSequence(s), NEW e
  PROVE  /\ IsSequence(Append(s, e)) /\ Len(Append(s, e)) = Len(s) + 1
         /\ DOMAIN Append(s, e) = 1..(Len(s) + 1)
         /\ \A i \in DOMAIN s : Append(s, e)[i] = s[i]
         /\ Append(s, e)[Len(s) + 1] = e
<1> DEFINE T == Members(s) \cup {e}
<1>1. s \in Seq(T) /\ e \in T
  BY DEF IsSequence
<1>2. /\ Append(s, e) \in Seq(T) /\ Len(Append(s, e)) = Len(s) + 1
      /\ DOMAIN Append(s, e) = 1..(Len(s) + 1) /\ Len(s) \in Nat /\ DOMAIN s = 1..Len(s)
      /\ \A i \in DOMAIN s : Append(s, e)[i] = s[i]
      /\ Append(s, e)[Len(s) + 1] = e
  BY <1>1
<1> HIDE DEF T
<1>3. Append(s, e) \in Seq(Members(Append(s, e)))
  BY <1>2 DEF Members
<1> QED
  BY <1>2, <1>3 DEF IsSequence

\* A sequence one of whose members is replaced.
LEMMA ReplaceInSequence ==
  ASSUME NEW s, IsSequence(s), NEW i \in DOMAIN s, NEW e
  PROVE  /\ IsSequence([s EXCEPT ![i] = e])
         /\ DOMAIN [s EXCEPT ![i] = e] = DOMAIN s
         /\ [s EXCEPT ![i] = e][i] = e
         /\ \A j \in DOMAIN s : j # i => [s EXCEPT ![i] = e][j] = s[j]
<1> DEFINE T == Members(s) \cup {e}
           t == [s EXCEPT ![i] = e]
<1>1. s \in Seq(T) /\ e \in T
  BY DEF IsSequence
<1>2. DOMAIN t = DOMAIN s /\ t[i] = e /\ \A j \in DOMAIN s : j # i => t[j] = s[j]
  OBVIOUS
<1>3. Len(s) \in Nat /\ DOMAIN s = 1..Len(s) /\ t \in [1..Len(s) -> Members(t)]
  BY <1>1 DEF Members
<1> HIDE DEF t
<1>4. t \in Seq(Members(t))
  BY <1>3
<1> QED
  BY <1>2, <1>4 DEF IsSequence, t

ScanPcs ==
  {"none", "created", "prepare", "loaded", "before", "captured", "standard", "probed", "storage", "stored",
   "inventory", "verify", "verified", "summarize", "commit", "unwind", "cancelled", "failed", "over", "done"}
Working == ScanPcs \ {"none", "over", "done"}

\* A scan that has not come to its end is shown as one.
ThreadInv ==
  /\ scan.pc \in ScanPcs
  /\ scan.pc \in Working => bridge.status \in {"RUNNING", "CANCELLING"}

\* Tokens are numbered; a launch that waits for its consent holds the last one.
TokenInv ==
  /\ \A i \in DOMAIN children : children[i].token \in 0..count.elevations
  /\ bridge.token \in {Null} \cup 1..count.elevations
  /\ elevation.pc # "idle" =>
       /\ bridge.token \in Nat /\ bridge.administrator = "REQUESTING_UAC"
       /\ elevation.selected = bridge.selected
  /\ ResultIsOfTheConsent

\* What a step of the scan leaves alone.
ConsentFrame ==
  /\ bridge'.administrator = bridge.administrator /\ bridge'.selected = bridge.selected
  /\ bridge'.token = bridge.token
  /\ UNCHANGED <<elevation, children>> /\ count'.elevations = count.elevations

\* The same for a step of the scan, which also leaves the criteria and the
\* attempt alone.
ScanFrame ==
  /\ BridgeFields = DOMAIN bridge' /\ ScanFields = DOMAIN scan'
  /\ bridge'.criteria = bridge.criteria
  /\ bridge'.attempt = bridge.attempt
  /\ ConsentFrame /\ UNCHANGED <<settings, count>>

\* A step that neither stores a result nor shows one.
StoresNothing ==
  /\ bridge'.history = bridge.history
  /\ bridge'.status = "COMPLETED" => bridge.status = "COMPLETED"

\* _run_scan_job.progress changes the status only.
LEMMA ProgressFrame ==
  ASSUME LauncherShape, Progress
  PROVE  /\ BridgeFields = DOMAIN bridge' /\ bridge'.history = bridge.history
         /\ bridge'.criteria = bridge.criteria /\ bridge'.attempt = bridge.attempt
         /\ bridge'.administrator = bridge.administrator /\ bridge'.selected = bridge.selected
         /\ bridge'.token = bridge.token
         /\ bridge'.status \in {bridge.status, "RUNNING"}
  BY DEF LauncherShape, Progress, BridgeFields

\* The steps of the scan that store nothing in the bridge.
LEMMA ScanStepFrame ==
  ASSUME LauncherShape, ThreadInv, ScanStep
  PROVE  /\ ScanFrame /\ ThreadInv'
         /\ Commit \/ StoresNothing
<1> USE DEF LauncherShape, ScanFields, ConsentFrame, ScanFrame, StoresNothing, ThreadInv, Working, ScanPcs
<1>1. CASE StartWorker
  BY <1>1 DEF StartWorker
<1>2. ASSUME NEW pc \in ScanPcs, NEW next \in Working, Checkpoint(pc, next), pc \in Working
      PROVE  ScanFrame /\ ThreadInv' /\ StoresNothing
  BY <1>2, ProgressFrame DEF Checkpoint, Goto, Ending, NoScan, Quiet
<1>3. CASE Prepare \/ Baseline \/ AccountAndProtection \/ Summarizing
  BY <1>3, <1>2 DEF Prepare, Baseline, AccountAndProtection, Summarizing
<1>4. ASSUME NEW pc \in ScanPcs, NEW next \in Working, BetweenGroups(pc, next), pc \in Working
      PROVE  ScanFrame /\ ThreadInv' /\ StoresNothing
  BY <1>4, ProgressFrame DEF BetweenGroups, Goto, Ending, NoScan, Quiet
<1>5. CASE BeforeStorage \/ BeforeInventory
  BY <1>5, <1>4 DEF BeforeStorage, BeforeInventory
<1>6. ASSUME NEW run \in SnapshotRuns, CaptureBefore(run) \/ VerifySettings(run) \/ Unwind(run)
      PROVE  ScanFrame /\ ThreadInv' /\ UNCHANGED bridge
  BY <1>6 DEF CaptureBefore, VerifySettings, Unwind, TakeSnapshot, Goto, Ending, NoScan, Quiet
<1>7. ASSUME NEW run \in StandardRuns, RunStandardProbes(run)
      PROVE  ScanFrame /\ ThreadInv' /\ StoresNothing
  BY <1>7, ProgressFrame DEF RunStandardProbes, Goto, Ending, NoScan, Quiet
<1>8. ASSUME NEW run \in StorageRuns, RunStorageProbes(run)
      PROVE  ScanFrame /\ ThreadInv' /\ StoresNothing
  BY <1>8, ProgressFrame DEF RunStorageProbes, Quiet
<1>9. ASSUME NEW run \in InventoryRuns, CollectInventory(run)
      PROVE  ScanFrame /\ ThreadInv' /\ StoresNothing
  BY <1>9, ProgressFrame DEF CollectInventory, Quiet
<1>10. CASE Assess
  BY <1>10 DEF Assess, Goto, Ending, NoScan, Quiet
<1>11. CASE Commit
  BY <1>11 DEF Commit, Goto, Ending, NoScan, Quiet, BridgeFields
<1>12. CASE EndCancelled \/ EndFailed
  BY <1>12 DEF EndCancelled, EndFailed, Goto, Ending, NoScan, Quiet, BridgeFields
<1>13. CASE ThreadExits
  BY <1>13 DEF ThreadExits, Quiet, NoScan
<1> QED
  BY <1>1, <1>3, <1>5, <1>6, <1>7, <1>8, <1>9, <1>10, <1>11, <1>12, <1>13 DEF ScanStep

\* A thread that is over does not work again.
LEMMA ScanStartsWorking ==
  ASSUME LauncherShape, ThreadInv, ScanStep
  PROVE  scan'.pc \in Working => scan.pc \in Working
<1> USE DEF LauncherShape, ScanFields, ThreadInv, Working, ScanPcs
<1>1. scan.pc \in {"none", "done"} => FALSE
  BY DEF ScanStep, StartWorker, Prepare, Baseline, AccountAndProtection, BeforeStorage, BeforeInventory, Summarizing,
         Assess, Commit, EndCancelled, EndFailed, ThreadExits, CaptureBefore, VerifySettings, Unwind,
         RunStandardProbes, RunStorageProbes, CollectInventory, Checkpoint, BetweenGroups
<1>2. scan.pc = "over" => ThreadExits
  BY DEF ScanStep, StartWorker, Prepare, Baseline, AccountAndProtection, BeforeStorage, BeforeInventory, Summarizing,
         Assess, Commit, EndCancelled, EndFailed, CaptureBefore, VerifySettings, Unwind,
         RunStandardProbes, RunStorageProbes, CollectInventory, Checkpoint, BetweenGroups
<1>3. ThreadExits => scan'.pc = "done"
  BY DEF ThreadExits, NoScan
<1> QED
  BY <1>1, <1>2, <1>3

\* The shape of a step that leaves the elevation and the children alone.
LEMMA FrameShape ==
  ASSUME LauncherShape, BridgeFields = DOMAIN bridge', ScanFields = DOMAIN scan',
         UNCHANGED <<elevation, children>>, IsSequence(bridge'.history), bridge'.attempt \in Nat,
         count' \in [attempts : Nat, elevations : Nat, relaunches : Nat]
  PROVE  LauncherShape'
  BY DEF LauncherShape

\* The scan keeps the shape: Commit appends to the history or leaves it.
LEMMA ScanStepShape ==
  ASSUME LauncherShape, ThreadInv, ScanStep
  PROVE  LauncherShape'
<1>1. IsSequence(bridge'.history)
  <2>1. CASE Commit
    <3>1. bridge'.history = bridge.history \/ bridge'.history = Append(bridge.history, Entry)
      BY <2>1 DEF Commit, LauncherShape, BridgeFields
    <3>2. IsSequence(bridge.history)
      BY DEF LauncherShape
    <3>3. IsSequence(Append(bridge.history, Entry))
      BY <3>2, AppendSequence
    <3> QED
      BY <3>1, <3>2, <3>3
  <2> QED
    BY <2>1, ScanStepFrame DEF LauncherShape, StoresNothing
<1> QED
  BY <1>1, ScanStepFrame, FrameShape DEF ScanFrame, ConsentFrame, LauncherShape

\* A step that leaves the consent alone keeps the tokens.
LEMMA TokenFrame == ASSUME TokenInv, ConsentFrame PROVE TokenInv'
  BY DEF TokenInv, ConsentFrame, ResultIsOfTheConsent

\* Begin, cancel and the environment: what is theirs and what they leave alone.
LEMMA BeginScanKeeps ==
  ASSUME LauncherShape, ThreadInv, NEW action \in DOMAIN Allowed, NEW criteria, BeginScan(action, criteria)
  PROVE  /\ LauncherShape' /\ ThreadInv' /\ ConsentFrame /\ settings' = settings
         /\ bridge'.history = bridge.history /\ bridge'.attempt = bridge.attempt + 1
         /\ bridge'.status = "RUNNING" /\ scan' = [NoScan EXCEPT !.pc = "created"]
         /\ scan.pc \in {"none", "done"}
<1>1. bridge.status \in {"READY", "CANCELLED", "FAILED", "COMPLETED"}
  BY DEF BeginScan, Allowed
<1>2. scan.pc \in {"none", "done"}
  BY <1>1 DEF BeginScan, Alive, ThreadInv, Working, ScanPcs
<1>3. /\ BridgeFields = DOMAIN bridge' /\ ConsentFrame /\ settings' = settings
      /\ bridge'.history = bridge.history /\ bridge'.attempt = bridge.attempt + 1
      /\ bridge'.status = "RUNNING" /\ scan' = [NoScan EXCEPT !.pc = "created"]
      /\ count' \in [attempts : Nat, elevations : Nat, relaunches : Nat]
  BY DEF BeginScan, LauncherShape, BridgeFields, ConsentFrame
<1>4. ScanFields = DOMAIN scan' /\ scan'.pc = "created"
  BY <1>3 DEF NoScan, ScanFields
<1>5. LauncherShape'
  BY <1>3, <1>4, FrameShape DEF LauncherShape, ConsentFrame
<1> QED
  BY <1>2, <1>3, <1>4, <1>5 DEF ThreadInv, ScanPcs, Working

\* A cancellation is a request: the thread goes on.
LEMMA CancelScanKeeps ==
  ASSUME LauncherShape, ThreadInv, CancelScan
  PROVE  /\ LauncherShape' /\ ThreadInv' /\ ConsentFrame /\ UNCHANGED <<scan, settings>>
         /\ bridge'.history = bridge.history /\ bridge'.attempt = bridge.attempt
         /\ bridge'.criteria = bridge.criteria /\ bridge'.status = "CANCELLING"
<1>1. /\ BridgeFields = DOMAIN bridge' /\ ConsentFrame /\ UNCHANGED <<scan, settings, count>>
      /\ bridge'.history = bridge.history /\ bridge'.attempt = bridge.attempt
      /\ bridge'.criteria = bridge.criteria /\ bridge'.status = "CANCELLING"
  BY DEF CancelScan, LauncherShape, BridgeFields, ConsentFrame
<1> QED
  BY <1>1, FrameShape DEF LauncherShape, ConsentFrame, ThreadInv

\* What a step of an administrator's launch or of an elevated child leaves alone.
LaunchFrame ==
  /\ bridge'.status = bridge.status /\ bridge'.attempt = bridge.attempt
  /\ bridge'.history = bridge.history /\ bridge'.criteria = bridge.criteria
  /\ UNCHANGED <<scan, settings>>

\* The administrator and the children do not touch the scan.
LEMMA ThreadFrame == ASSUME ThreadInv, LaunchFrame PROVE ThreadInv'
  BY DEF ThreadInv, LaunchFrame

\* A launch takes a token no child holds.
LEMMA LaunchAdministratorKeeps ==
  ASSUME LauncherShape, TokenInv, NEW request \in Consents, LaunchAdministrator(request)
  PROVE  LauncherShape' /\ TokenInv' /\ LaunchFrame /\ children' = children
<1>1. /\ BridgeFields = DOMAIN bridge' /\ LaunchFrame /\ children' = children
      /\ bridge'.token = count.elevations + 1 /\ bridge'.administrator = "REQUESTING_UAC"
      /\ bridge'.selected = request.probes
      /\ elevation' = [pc |-> "uac", selected |-> request.probes, outcome |-> Null]
      /\ count' = [count EXCEPT !.elevations = @ + 1]
  BY DEF LaunchAdministrator, FreshToken, LauncherShape, BridgeFields, LaunchFrame
<1>2. count' \in [attempts : Nat, elevations : Nat, relaunches : Nat]
      /\ count'.elevations = count.elevations + 1 /\ count.elevations \in Nat
  BY <1>1 DEF LauncherShape
<1>3. LauncherShape'
  BY <1>1, <1>2 DEF LauncherShape, LaunchFrame
<1>4. \A i \in DOMAIN children' : children'[i].token \in 0..count'.elevations /\ children'[i].token # bridge'.token
  BY <1>1, <1>2 DEF TokenInv
<1> QED
  BY <1>1, <1>2, <1>3, <1>4 DEF TokenInv, ResultIsOfTheConsent

\* The elevated process gets the token and the selection the bridge shows: the
\* launch in flight keeps them from being reset.
LEMMA ElevateKeeps ==
  ASSUME LauncherShape, TokenInv, NEW outcome \in {"STARTED", "CANCELLED", "UNAVAILABLE", "FAILED"},
         Elevate(outcome)
  PROVE  /\ LauncherShape' /\ TokenInv' /\ LaunchFrame
         /\ \A i \in DOMAIN children' :
              (i \in DOMAIN children /\ children'[i] = children[i]) \/ children'[i].result = <<>>
<1> DEFINE child == [pc |-> "created", before |-> Null, token |-> ResultToken, selected |-> elevation.selected,
                     criteria |-> bridge.criteria, result |-> <<>>]
<1>1. /\ UNCHANGED <<bridge, scan, settings, count>> /\ elevation.pc = "uac"
      /\ elevation' = [elevation EXCEPT !.pc = "answered", !.outcome = outcome]
      /\ children' = children \/ children' = Append(children, child)
  BY DEF Elevate
<1>2. /\ elevation'.pc = "answered" /\ elevation'.selected = elevation.selected
      /\ elevation' \in [pc : {"idle", "uac", "answered"},
                         selected : {<<>>} \cup {request.probes : request \in Consents},
                         outcome : {Null, "STARTED", "CANCELLED", "UNAVAILABLE", "FAILED"}]
  BY <1>1 DEF LauncherShape
<1>3. /\ ChildFields = DOMAIN child /\ child.result = <<>> /\ child.token = bridge.token
      /\ child.selected = bridge.selected /\ bridge.token \in 1..count.elevations
  BY <1>1, LauncherAssumption DEF ChildFields, ResultToken, TokenInv, LauncherShape
<1> HIDE DEF child
<1>4. /\ IsSequence(children')
      /\ \A i \in DOMAIN children' : (i \in DOMAIN children /\ children'[i] = children[i]) \/ children'[i] = child
  <2>1. IsSequence(children)
    BY DEF LauncherShape
  <2>2. Len(children) \in Nat /\ DOMAIN children = 1..Len(children)
    BY <2>1, SequenceFacts
  <2>3. /\ IsSequence(Append(children, child))
        /\ DOMAIN Append(children, child) = 1..(Len(children) + 1)
        /\ \A i \in DOMAIN children : Append(children, child)[i] = children[i]
        /\ Append(children, child)[Len(children) + 1] = child
    BY <2>1, AppendSequence
  <2>4. CASE children' = children
    BY <2>1, <2>4
  <2>5. CASE children' = Append(children, child)
    <3> DEFINE appended == Append(children, child)
    <3> HIDE DEF appended
    <3>1. children' = appended
      BY <2>5 DEF appended
    <3>2. /\ IsSequence(appended) /\ DOMAIN appended = 1..(Len(children) + 1)
          /\ \A i \in DOMAIN children : appended[i] = children[i]
          /\ appended[Len(children) + 1] = child
      BY <2>3 DEF appended
    <3> QED
      BY <2>2, <3>1, <3>2
  <2> QED
    BY <1>1, <2>4, <2>5
<1>5. LauncherShape' /\ LaunchFrame
  BY <1>1, <1>2, <1>3, <1>4 DEF LauncherShape, LaunchFrame
<1>6. TokenInv'
  BY <1>1, <1>2, <1>3, <1>4 DEF TokenInv, ResultIsOfTheConsent
<1> QED
  BY <1>3, <1>4, <1>5, <1>6

\* The answer of the elevation: the token stays or is dropped.
LEMMA RecordElevationKeeps ==
  ASSUME LauncherShape, TokenInv, RecordElevation
  PROVE  LauncherShape' /\ TokenInv' /\ LaunchFrame /\ children' = children
<1>1. /\ BridgeFields = DOMAIN bridge' /\ LaunchFrame /\ UNCHANGED <<children, count>>
      /\ bridge'.token \in {bridge.token, Null} /\ bridge'.selected = bridge.selected
      /\ elevation' = [pc |-> "idle", selected |-> <<>>, outcome |-> Null]
  BY DEF RecordElevation, LauncherShape, BridgeFields, LaunchFrame
<1>2. LauncherShape'
  BY <1>1 DEF LauncherShape, LaunchFrame
<1> QED
  BY <1>1, <1>2, LauncherAssumption DEF TokenInv, ResultIsOfTheConsent, LauncherShape

\* A reset drops the token, and only when no launch is in flight.
LEMMA ResetAdministratorKeeps ==
  ASSUME LauncherShape, TokenInv, ResetAdministrator
  PROVE  LauncherShape' /\ TokenInv' /\ LaunchFrame /\ children' = children
<1>1. /\ BridgeFields = DOMAIN bridge' /\ LaunchFrame /\ UNCHANGED <<children, count, elevation>>
      /\ bridge'.token = Null /\ bridge.administrator # "REQUESTING_UAC"
  BY DEF ResetAdministrator, LauncherShape, BridgeFields, LaunchFrame
<1>2. LauncherShape'
  BY <1>1 DEF LauncherShape, LaunchFrame
<1> QED
  BY <1>1, <1>2, LauncherAssumption DEF TokenInv, ResultIsOfTheConsent, LauncherShape

\* A step of one child keeps its token and its selection, or ends it.
LEMMA ChildKeeps ==
  ASSUME LauncherShape, TokenInv, NEW i \in DOMAIN children, NEW child,
         children' = [children EXCEPT ![i] = child], ChildFields = DOMAIN child,
         \/ child.token = children[i].token /\ child.selected = children[i].selected
         \/ child = Gone,
         UNCHANGED <<bridge, scan, settings, elevation, count>>
  PROVE  /\ LauncherShape' /\ TokenInv' /\ LaunchFrame
         /\ DOMAIN children' = DOMAIN children /\ children'[i] = child
         /\ \A j \in DOMAIN children : j # i => children'[j] = children[j]
<1>1. /\ IsSequence(children') /\ DOMAIN children' = DOMAIN children /\ children'[i] = child
      /\ \A j \in DOMAIN children : j # i => children'[j] = children[j]
  BY ReplaceInSequence DEF LauncherShape
<1>2. LauncherShape' /\ LaunchFrame
  BY <1>1 DEF LauncherShape, LaunchFrame
<1>3. child = Gone => child.token = 0 /\ child.token # bridge.token
  BY LauncherAssumption DEF Gone, TokenInv
<1>4. count.elevations \in Nat
  BY DEF LauncherShape
<1> QED
  BY <1>1, <1>2, <1>3, <1>4 DEF TokenInv, ResultIsOfTheConsent

\* The first snapshot of a child.
LEMMA ChildCapturesKeeps ==
  ASSUME LauncherShape, TokenInv, NEW i \in DOMAIN children, ChildCaptures(i)
  PROVE  /\ LauncherShape' /\ TokenInv' /\ LaunchFrame
         /\ DOMAIN children' = DOMAIN children
         /\ \A j \in DOMAIN children : children'[j].result = children[j].result
<1> DEFINE child == [children[i] EXCEPT !.pc = "collect", !.before = settings]
<1>1. children' = [children EXCEPT ![i] = child] /\ UNCHANGED <<bridge, scan, settings, elevation, count>>
  BY DEF ChildCaptures
<1>2. /\ ChildFields = DOMAIN child /\ child.token = children[i].token /\ child.selected = children[i].selected
      /\ child.result = children[i].result
  BY DEF LauncherShape, ChildFields
<1> HIDE DEF child
<1> QED
  BY <1>1, <1>2, ChildKeeps

\* A child that has answered, or whose ten minutes are over.
LEMMA ChildEndsKeeps ==
  ASSUME LauncherShape, TokenInv, NEW i \in DOMAIN children, ChildEnds(i)
  PROVE  /\ LauncherShape' /\ TokenInv' /\ LaunchFrame
         /\ DOMAIN children' = DOMAIN children
         /\ \A j \in DOMAIN children : children'[j].result \in {children[j].result, <<>>}
<1>1. children' = [children EXCEPT ![i] = Gone] /\ UNCHANGED <<bridge, scan, settings, elevation, count>>
  BY DEF ChildEnds
<1>2. ChildFields = DOMAIN Gone /\ Gone.result = <<>>
  BY DEF Gone, ChildFields
<1> QED
  BY <1>1, <1>2, ChildKeeps

\* A child serves what AdministratorResult makes of its run, or nothing.
LEMMA ChildCollectsKeeps ==
  ASSUME LauncherShape, TokenInv, NEW i \in DOMAIN children, NEW run, NEW snapshot,
         ChildCollects(i, run, snapshot)
  PROVE  /\ LauncherShape' /\ TokenInv' /\ LaunchFrame
         /\ DOMAIN children' = DOMAIN children
         /\ \A j \in DOMAIN children : j # i => children'[j] = children[j]
         /\ \/ children'[i].result = <<>>
            \/ \E safe : children'[i].result =
                  AdministratorResult(run, safe, children[i].selected, children[i].criteria)
<1> DEFINE safe == TakeSnapshot(snapshot, "ok") = "ok" /\ settings = children[i].before
           result == AdministratorResult(run, safe, children[i].selected, children[i].criteria)
           child == IF Serving # {} THEN Gone
                    ELSE [children[i] EXCEPT !.pc = "serving", !.before = Null, !.result = result]
<1>1. children' = [children EXCEPT ![i] = child] /\ UNCHANGED <<bridge, scan, settings, elevation, count>>
  BY DEF ChildCollects
<1> HIDE DEF result
<1>2. /\ ChildFields = DOMAIN child /\ child.result \in {result, <<>>}
      /\ \/ child.token = children[i].token /\ child.selected = children[i].selected
         \/ child = Gone
  <2>1. CASE Serving # {}
    BY <2>1 DEF Gone, ChildFields
  <2>2. CASE Serving = {}
    BY <2>2 DEF LauncherShape, ChildFields
  <2> QED
    BY <2>1, <2>2
<1> HIDE DEF child
<1>3. /\ LauncherShape' /\ TokenInv' /\ LaunchFrame
      /\ DOMAIN children' = DOMAIN children /\ children'[i] = child
      /\ \A j \in DOMAIN children : j # i => children'[j] = children[j]
  BY <1>1, <1>2, ChildKeeps
<1> QED
  BY <1>2, <1>3 DEF result

\* What a change of the settings makes of the scan: under it, one more change.
LEMMA ChangeSettingsKeeps ==
  ASSUME LauncherShape, ThreadInv, ChangeSettings
  PROVE  /\ LauncherShape' /\ ThreadInv' /\ ConsentFrame /\ bridge' = bridge /\ settings' # settings
         /\ \/ scan.pc \notin Watched /\ scan' = scan
            \/ scan.pc \in Watched /\ scan' = [scan EXCEPT !.changes = @ + 1]
<1>1. /\ UNCHANGED <<bridge, elevation, children, count>> /\ settings' # settings
      /\ \/ scan.pc \notin Watched /\ scan' = scan
         \/ scan.pc \in Watched /\ scan' = [scan EXCEPT !.changes = @ + 1]
  BY DEF ChangeSettings
<1>2. ScanFields = DOMAIN scan' /\ scan'.pc = scan.pc
  BY <1>1 DEF LauncherShape, ScanFields
<1> QED
  BY <1>1, <1>2 DEF LauncherShape, ThreadInv, ConsentFrame

\* The bridge and the thread of a program that has just started.
LEMMA ReadyFacts ==
  /\ BridgeFields = DOMAIN Ready /\ ScanFields = DOMAIN NoScan
  /\ Ready.status = "READY" /\ Ready.attempt = 0 /\ Ready.history = <<>> /\ Ready.token = Null
  /\ NoScan.pc = "none" /\ IsSequence(<<>>)
  BY DEF Ready, NoScan, BridgeFields, ScanFields, IsSequence

\* A new start forgets the token; the children of the old one live on.
LEMMA RelaunchKeeps ==
  ASSUME LauncherShape, TokenInv, Relaunch
  PROVE  /\ LauncherShape' /\ ThreadInv' /\ TokenInv' /\ bridge' = Ready /\ scan' = NoScan
         /\ UNCHANGED <<settings, children>>
<1>1. /\ bridge' = Ready /\ scan' = NoScan /\ UNCHANGED <<settings, children>>
      /\ elevation' = [pc |-> "idle", selected |-> <<>>, outcome |-> Null]
      /\ count' = [count EXCEPT !.relaunches = @ + 1]
  BY DEF Relaunch
<1>2. count' \in [attempts : Nat, elevations : Nat, relaunches : Nat]
      /\ count'.elevations = count.elevations
  BY <1>1 DEF LauncherShape
<1>3. LauncherShape' /\ ThreadInv'
  BY <1>1, <1>2, ReadyFacts DEF LauncherShape, ThreadInv, ScanPcs, Working
<1> QED
  BY <1>1, <1>2, <1>3, ReadyFacts, LauncherAssumption DEF TokenInv, ResultIsOfTheConsent, LauncherShape

\* The inductive invariant of the tokens and of the one thread.
ConsentInv == LauncherShape /\ ThreadInv /\ TokenInv

\* A program that has just started.
LEMMA ConsentInit == LauncherInit => ConsentInv
<1> SUFFICES ASSUME LauncherInit PROVE ConsentInv
  OBVIOUS
<1>1. LauncherShape /\ ThreadInv
  BY ReadyFacts DEF LauncherInit, LauncherShape, ThreadInv, ScanPcs, Working
<1>2. TokenInv
  BY ReadyFacts DEF LauncherInit, TokenInv, ResultIsOfTheConsent
<1> QED
  BY <1>1, <1>2 DEF ConsentInv

\* A step of the user, the page, the administrator or an elevated child: all
\* that is neither the scan's nor a begin, a cancellation or a new start.
LaunchStep ==
  \/ \E request \in Consents : LaunchAdministrator(request)
  \/ \E outcome \in {"STARTED", "CANCELLED", "UNAVAILABLE", "FAILED"} : Elevate(outcome)
  \/ RecordElevation \/ ResetAdministrator
  \/ \E i \in DOMAIN children :
       \/ ChildCaptures(i) \/ ChildEnds(i)
       \/ \E run \in AdministratorRuns, snapshot \in SnapshotRuns : ChildCollects(i, run, snapshot)

\* No step of the administrator or of a child disturbs the tokens or the scan.
LEMMA LaunchStepKeeps ==
  ASSUME ConsentInv, LaunchStep
  PROVE  ConsentInv' /\ LaunchFrame
<1> USE DEF ConsentInv
<1>1. ASSUME NEW request \in Consents, LaunchAdministrator(request) PROVE ConsentInv' /\ LaunchFrame
  BY <1>1, LaunchAdministratorKeeps, ThreadFrame
<1>2. ASSUME NEW outcome \in {"STARTED", "CANCELLED", "UNAVAILABLE", "FAILED"}, Elevate(outcome)
      PROVE  ConsentInv' /\ LaunchFrame
  BY <1>2, ElevateKeeps, ThreadFrame
<1>3. CASE RecordElevation \/ ResetAdministrator
  BY <1>3, RecordElevationKeeps, ResetAdministratorKeeps, ThreadFrame
<1>4. ASSUME NEW i \in DOMAIN children, ChildCaptures(i) \/ ChildEnds(i) PROVE ConsentInv' /\ LaunchFrame
  BY <1>4, ChildCapturesKeeps, ChildEndsKeeps, ThreadFrame
<1>5. ASSUME NEW i \in DOMAIN children, NEW run \in AdministratorRuns, NEW snapshot \in SnapshotRuns,
             ChildCollects(i, run, snapshot)
      PROVE  ConsentInv' /\ LaunchFrame
  BY <1>5, ChildCollectsKeeps, ThreadFrame
<1> QED
  BY <1>1, <1>2, <1>3, <1>4, <1>5 DEF LaunchStep

\* The steps of the launcher, by who takes them.
LEMMA LauncherCases ==
  ASSUME LauncherNext
  PROVE  \/ ScanStep \/ CancelScan \/ LaunchStep \/ ChangeSettings \/ Relaunch
         \/ \E action \in DOMAIN Allowed, criteria \in Criteria \cup {<<>>} : BeginScan(action, criteria)
  BY DEF LauncherNext, LaunchStep

\* Every step keeps ConsentInv.
LEMMA ConsentStep == ASSUME ConsentInv, [LauncherNext]_launcherVars PROVE ConsentInv'
<1> USE DEF ConsentInv
<1>1. CASE ScanStep
  BY <1>1, ScanStepFrame, ScanStepShape, TokenFrame DEF ScanFrame
<1>2. ASSUME NEW action \in DOMAIN Allowed, NEW criteria \in Criteria \cup {<<>>}, BeginScan(action, criteria)
      PROVE  ConsentInv'
  BY <1>2, BeginScanKeeps, TokenFrame
<1>3. CASE CancelScan
  BY <1>3, CancelScanKeeps, TokenFrame
<1>4. CASE LaunchStep
  BY <1>4, LaunchStepKeeps
<1>5. CASE ChangeSettings
  BY <1>5, ChangeSettingsKeeps, TokenFrame
<1>6. CASE Relaunch
  BY <1>6, RelaunchKeeps
<1>7. CASE UNCHANGED launcherVars
  BY <1>7 DEF launcherVars, LauncherShape, ThreadInv, TokenInv, ResultIsOfTheConsent
<1> QED
  BY <1>1, <1>2, <1>3, <1>4, <1>5, <1>6, <1>7, LauncherCases

\* The result the page can fetch with the token it holds is of exactly the probes
\* it asked consent for (_launch_administrator, request_elevated_administrator_process).
THEOREM ConsentsAlwaysKept == LauncherSpec => []ResultIsOfTheConsent
<1>1. ConsentInv => ResultIsOfTheConsent
  BY DEF ConsentInv, TokenInv
<1> QED
  BY <1>1, ConsentInit, ConsentStep, PTL DEF LauncherSpec

\* What the theorems below take for granted at every step.
LEMMA ConsentInvariant == LauncherSpec => []ConsentInv
  BY ConsentInit, ConsentStep, PTL DEF LauncherSpec

\* A scan begins only when the thread of the one before it has ended, although a
\* thread that is created and not started is not alive (_begin_scan).
THEOREM ScansNotReplaced == LauncherSpec => ScanIsNotReplaced
<1>1. ASSUME ConsentInv, [LauncherNext]_launcherVars
      PROVE  [bridge'.attempt > bridge.attempt => scan.pc \in {"none", "done"}]_launcherVars
  <2> USE DEF ConsentInv
  <2>0. bridge.attempt \in Nat
    BY <1>1 DEF LauncherShape
  <2>1. CASE ScanStep
    BY <1>1, <2>0, <2>1, ScanStepFrame DEF ScanFrame
  <2>2. ASSUME NEW action \in DOMAIN Allowed, NEW criteria \in Criteria \cup {<<>>}, BeginScan(action, criteria)
        PROVE  scan.pc \in {"none", "done"}
    BY <1>1, <2>2, BeginScanKeeps
  <2>3. CASE CancelScan
    BY <1>1, <2>0, <2>3, CancelScanKeeps
  <2>4. CASE LaunchStep
    BY <1>1, <2>0, <2>4, LaunchStepKeeps DEF LaunchFrame
  <2>5. CASE ChangeSettings
    BY <1>1, <2>0, <2>5, ChangeSettingsKeeps
  <2>6. CASE Relaunch
    BY <1>1, <2>0, <2>6, RelaunchKeeps, ReadyFacts
  <2> QED
    BY <1>1, <2>1, <2>2, <2>3, <2>4, <2>5, <2>6, LauncherCases
<1> QED
  BY <1>1, ConsentInvariant, PTL DEF LauncherSpec, ScanIsNotReplaced

-----------------------------------------------------------------------------
(* The rows of a scan: how many there are, and how two scans are compared. *)

\* What the page shows of a control.
Displays == {"EVIDENCE_COLLECTED", "REVIEW_REQUIRED", "ADMIN_REQUIRED"}
\* One row for each control, with a status the comparison knows.
RowsWhole(rows) ==
  /\ ControlIds = DOMAIN rows
  /\ \A c \in ControlIds : rows[c].display \in Displays /\ rows[c].status \in RuleStatuses

\* Three new members make a set larger by three.
LEMMA ThreeMore ==
  ASSUME NEW S, IsFiniteSet(S), NEW a, NEW b, NEW c, a \notin S, b \notin S \cup {a}, c \notin S \cup {a, b}
  PROVE  IsFiniteSet(S \cup {a, b, c}) /\ Cardinality(S \cup {a, b, c}) = Cardinality(S) + 3
<1>1. IsFiniteSet(S \cup {a}) /\ Cardinality(S \cup {a}) = Cardinality(S) + 1
  BY FS_AddElement
<1>2. /\ IsFiniteSet((S \cup {a}) \cup {b})
      /\ Cardinality((S \cup {a}) \cup {b}) = Cardinality(S \cup {a}) + 1
  BY <1>1, FS_AddElement
<1>3. (S \cup {a}) \cup {b} = S \cup {a, b}
  OBVIOUS
<1>4. /\ IsFiniteSet((S \cup {a, b}) \cup {c})
      /\ Cardinality((S \cup {a, b}) \cup {c}) = Cardinality(S \cup {a, b}) + 1
  BY <1>2, <1>3, FS_AddElement
<1>5. (S \cup {a, b}) \cup {c} = S \cup {a, b, c}
  OBVIOUS
<1>6. Cardinality(S) \in Nat
  BY FS_CardinalityType
<1> QED
  BY <1>1, <1>2, <1>3, <1>4, <1>5, <1>6

\* PC-01 to PC-18.
LEMMA EighteenControls == IsFiniteSet(ControlIds) /\ Cardinality(ControlIds) = 18
<1> DEFINE Z == {}
           A == Z \cup {"PC-01", "PC-02", "PC-03"}
           B == A \cup {"PC-04", "PC-05", "PC-06"}
           C == B \cup {"PC-07", "PC-08", "PC-09"}
           D == C \cup {"PC-10", "PC-11", "PC-12"}
           E == D \cup {"PC-13", "PC-14", "PC-15"}
           F == E \cup {"PC-16", "PC-17", "PC-18"}
<1>1. IsFiniteSet(Z) /\ Cardinality(Z) = 0
  BY FS_EmptySet
<1>2. IsFiniteSet(A) /\ Cardinality(A) = 3
  <2>1. "PC-01" \notin Z /\ "PC-02" \notin Z \cup {"PC-01"} /\ "PC-03" \notin Z \cup {"PC-01", "PC-02"}
    OBVIOUS
  <2> HIDE DEF Z
  <2> QED
    BY <1>1, <2>1, ThreeMore
<1>3. IsFiniteSet(B) /\ Cardinality(B) = 6
  <2>1. "PC-04" \notin A /\ "PC-05" \notin A \cup {"PC-04"} /\ "PC-06" \notin A \cup {"PC-04", "PC-05"}
    OBVIOUS
  <2> HIDE DEF A
  <2> QED
    BY <1>2, <2>1, ThreeMore
<1>4. IsFiniteSet(C) /\ Cardinality(C) = 9
  <2>1. "PC-07" \notin B /\ "PC-08" \notin B \cup {"PC-07"} /\ "PC-09" \notin B \cup {"PC-07", "PC-08"}
    OBVIOUS
  <2> HIDE DEF B
  <2> QED
    BY <1>3, <2>1, ThreeMore
<1>5. IsFiniteSet(D) /\ Cardinality(D) = 12
  <2>1. "PC-10" \notin C /\ "PC-11" \notin C \cup {"PC-10"} /\ "PC-12" \notin C \cup {"PC-10", "PC-11"}
    OBVIOUS
  <2> HIDE DEF C
  <2> QED
    BY <1>4, <2>1, ThreeMore
<1>6. IsFiniteSet(E) /\ Cardinality(E) = 15
  <2>1. "PC-13" \notin D /\ "PC-14" \notin D \cup {"PC-13"} /\ "PC-15" \notin D \cup {"PC-13", "PC-14"}
    OBVIOUS
  <2> HIDE DEF D
  <2> QED
    BY <1>5, <2>1, ThreeMore
<1>7. IsFiniteSet(F) /\ Cardinality(F) = 18
  <2>1. "PC-16" \notin E /\ "PC-17" \notin E \cup {"PC-16"} /\ "PC-18" \notin E \cup {"PC-16", "PC-17"}
    OBVIOUS
  <2> HIDE DEF E
  <2> QED
    BY <1>6, <2>1, ThreeMore
<1>8. F = ControlIds
  BY DEF ControlIds
<1> QED
  BY <1>7, <1>8

\* Two sets that share nothing.
LEMMA DisjointUnion ==
  ASSUME NEW S, IsFiniteSet(S), NEW T, IsFiniteSet(T), S \cap T = {}
  PROVE  IsFiniteSet(S \cup T) /\ Cardinality(S \cup T) = Cardinality(S) + Cardinality(T)
<1>1. /\ IsFiniteSet(S \cup T)
      /\ Cardinality(S \cup T) = Cardinality(S) + Cardinality(T) - Cardinality(S \cap T)
  BY FS_Union
<1>2. Cardinality(S \cap T) = 0
  BY FS_EmptySet
<1>3. Cardinality(S) \in Nat /\ Cardinality(T) \in Nat
  BY FS_CardinalityType
<1> QED
  BY <1>1, <1>2, <1>3

\* Every control is counted once in summarize_control_results.
LEMMA CountsSum ==
  ASSUME NEW rows, RowsWhole(rows)
  PROVE  LET counts == SummarizeControls(rows)
         IN counts.collected + counts.review + counts.administrator = 18
<1> DEFINE Shown(d) == {c \in DOMAIN rows : rows[c].display = d}
           A == Shown("EVIDENCE_COLLECTED")
           B == Shown("REVIEW_REQUIRED")
           C == Shown("ADMIN_REQUIRED")
<1>1. SummarizeControls(rows) =
        [collected |-> Cardinality(A), review |-> Cardinality(B), administrator |-> Cardinality(C)]
  BY DEF SummarizeControls, Count
<1>2. A \subseteq ControlIds /\ B \subseteq ControlIds /\ C \subseteq ControlIds
  BY DEF RowsWhole
<1>3. (A \cup B) \cup C = ControlIds /\ A \cap B = {} /\ (A \cup B) \cap C = {}
  BY DEF RowsWhole, Displays
<1> HIDE DEF A, B, C
<1>4. IsFiniteSet(A) /\ IsFiniteSet(B) /\ IsFiniteSet(C)
  BY <1>2, EighteenControls, FS_Subset
<1>5. IsFiniteSet(A \cup B) /\ Cardinality(A \cup B) = Cardinality(A) + Cardinality(B)
  BY <1>3, <1>4, DisjointUnion
<1>6. Cardinality((A \cup B) \cup C) = Cardinality(A \cup B) + Cardinality(C)
  BY <1>3, <1>4, <1>5, DisjointUnion
<1> QED
  BY <1>1, <1>3, <1>5, <1>6, EighteenControls

\* What build_recheck_comparison makes of two whole results is accepted by
\* validate_recheck_comparison.
LEMMA ComparisonValid ==
  ASSUME NEW old, NEW new, RowsWhole(old.rows), RowsWhole(new.rows), old.id # new.id,
         old.sequence \in Nat, old.sequence >= 1, new.sequence = old.sequence + 1
  PROVE  /\ ComparisonBuilds(old, new)
         /\ ValidateComparison(BuildComparison(old, new)) = Accepted
         /\ BuildComparison(old, new).previous.id = old.id
<1>1. ComparisonBuilds(old, new)
  <2>1. Comparable(old.rows) /\ Comparable(new.rows)
    <3>1. ControlIds # {} /\ Cardinality(ControlIds) <= 18
      BY EighteenControls DEF ControlIds
    <3> QED
      BY <3>1 DEF Comparable, RowsWhole
  <2>2. DOMAIN old.rows = DOMAIN new.rows
    BY DEF RowsWhole
  <2> QED
    BY <2>1, <2>2 DEF ComparisonBuilds
<1> DEFINE b == BuildComparison(old, new)
           x == b.changes
<1>2. /\ b.previous.id = old.id /\ b.current.id = new.id
      /\ b.previous.version = old.sequence /\ b.current.version = new.sequence
      /\ b.summary.improved = Changed(x, "IMPROVED") /\ b.summary.worsened = Changed(x, "WORSENED")
      /\ b.summary.unchanged = Changed(x, "UNCHANGED")
      /\ b.summary.remaining = Cardinality(b.remaining)
  BY DEF BuildComparison
<1>3. \A c \in DOMAIN x : /\ x[c].previous \in RuleStatuses /\ x[c].current \in RuleStatuses
                          /\ x[c].change = ChangeOf(x[c].previous, x[c].current)
  BY DEF BuildComparison, RowsWhole
<1> HIDE DEF b
<1> DEFINE checks ==
       <<Check(\/ b.previous.id = b.current.id
               \/ b.current.version <= b.previous.version,
               "RECHECK_RESULT_LINEAGE_INVALID"),
         Check(b.previous.version < 1 \/ b.current.version < 2,
               "RESULT_VERSION_INVALID"),
         Check(\E c \in DOMAIN x :
                 \/ {x[c].previous, x[c].current} \cap RuleStatuses # {x[c].previous, x[c].current}
                 \/ x[c].change # ChangeOf(x[c].previous, x[c].current), "RECHECK_CHANGE_INVALID"),
         Check(\/ b.summary.improved # Changed(x, "IMPROVED")
               \/ b.summary.worsened # Changed(x, "WORSENED")
               \/ b.summary.unchanged # Changed(x, "UNCHANGED")
               \/ b.summary.remaining # Cardinality(b.remaining),
               "RECHECK_SUMMARY_INVALID")>>
<1>4. ~checks[1].rejects /\ ~checks[2].rejects
  <2>1. b.previous.id # b.current.id /\ ~(b.current.version <= b.previous.version)
        /\ ~(b.previous.version < 1 \/ b.current.version < 2)
    BY <1>2
  <2> QED
    BY <2>1 DEF Check
<1>5. ~checks[3].rejects
  BY <1>3 DEF Check
<1>6. ~checks[4].rejects
  BY <1>2 DEF Check
<1>7. DOMAIN checks = 1..4
  OBVIOUS
<1>8. ValidateComparison(b) = FirstRejection(checks)
  BY DEF ValidateComparison
<1> HIDE DEF checks
<1>9. \A i \in DOMAIN checks : ~checks[i].rejects
  BY <1>4, <1>5, <1>6, <1>7
<1>10. FirstRejection(checks) = Accepted
  BY <1>9 DEF FirstRejection
<1> QED
  BY <1>1, <1>2, <1>8, <1>10 DEF b

-----------------------------------------------------------------------------
(* What the rules can answer, and what they answer without evidence.       *)

\* A status, or the exception of a registry.
OrRaised == RuleStatuses \cup {"RAISED"}

\* The gate opens only for collected evidence.
LEMMA GateStatus ==
  ASSUME NEW rules, NEW control, NEW refs, NEW ev
  PROVE  /\ Gate(rules, control, refs, ev).status \in {"RAISED", "ERROR", "OPEN"}
         /\ ev.status # "COLLECTED" => Gate(rules, control, refs, ev).status # "OPEN"
  BY DEF Gate, Raised, Decide

\* PC-01 to PC-03.
LEMMA AccountPolicyStatus ==
  ASSUME NEW control, NEW refs, NEW ev, NEW org
  PROVE  /\ AccountPolicyEvaluate(control, refs, ev, org).status \in OrRaised
         /\ ev.status # "COLLECTED" => AccountPolicyEvaluate(control, refs, ev, org).status \in {"RAISED", "ERROR"}
<1> USE DEF OrRaised, RuleStatuses
<1>1. \A v : Pc01(v).status \in OrRaised
  BY DEF Pc01, PassIf, Decide
<1>2. \A v : Pc02(v, org).status \in OrRaised
  BY DEF Pc02, PassIf, Decide, Raised
<1>3. \A v : Pc03(v).status \in OrRaised
  BY DEF Pc03, PassIf, Decide
<1>4. Raised.status = "RAISED"
  BY DEF Raised, Decide
<1> QED
  BY <1>1, <1>2, <1>3, <1>4, GateStatus DEF AccountPolicyEvaluate

\* PC-04, PC-05, PC-06, PC-08 and PC-09.
LEMMA ServiceStatus ==
  ASSUME NEW control, NEW refs, NEW ev, NEW org
  PROVE  /\ ServiceEvaluate(control, refs, ev, org).status \in OrRaised
         /\ ev.status # "COLLECTED" => ServiceEvaluate(control, refs, ev, org).status \in {"RAISED", "ERROR"}
<1> USE DEF OrRaised, RuleStatuses
<1>1. \A v : Pc04(v, org).status \in OrRaised
  BY DEF Pc04, PassIf, Decide, Raised
<1>2. \A v : Pc05(v, org).status \in OrRaised
  BY DEF Pc05, PassIf, Decide, Raised
<1>3. \A v : Pc06(v, org).status \in OrRaised
  BY DEF Pc06, PassIf, Decide, Raised
<1>4. \A v : Pc08(v).status \in OrRaised
  BY DEF Pc08, PassIf, Decide
<1>5. \A v : Pc09(v).status \in OrRaised
  BY DEF Pc09, PassIf, Decide, Raised
<1> QED
  BY <1>1, <1>2, <1>3, <1>4, <1>5, GateStatus DEF ServiceEvaluate

\* PC-10 and PC-11.
LEMMA PatchStatus ==
  ASSUME NEW control, NEW refs, NEW ev, NEW snaps, NEW org
  PROVE  /\ PatchEvaluate(control, refs, ev, snaps, org).status \in OrRaised
         /\ ev.status # "COLLECTED" => PatchEvaluate(control, refs, ev, snaps, org).status \in {"RAISED", "ERROR"}
<1> USE DEF OrRaised, RuleStatuses
<1>1. \A v, snap : Pc10(v, ev, snap, org).status \in OrRaised
  BY DEF Pc10, Decide, Raised
<1>2. \A v, snap : Pc11(v, ev, snap, org).status \in OrRaised
  BY DEF Pc11, Decide, Raised
<1>3. Raised.status = "RAISED" /\ \A code : Decide("REVIEW", code).status = "REVIEW"
  BY DEF Raised, Decide
<1> QED
  BY <1>1, <1>2, <1>3, GateStatus DEF PatchEvaluate

\* PC-12 to PC-15.
LEMMA EndpointStatus ==
  ASSUME NEW control, NEW refs, NEW ev, NEW cats, NEW org
  PROVE  /\ EndpointEvaluate(control, refs, ev, cats, org).status \in OrRaised
         /\ ev.status # "COLLECTED" => EndpointEvaluate(control, refs, ev, cats, org).status \in {"RAISED", "ERROR"}
<1> USE DEF OrRaised, RuleStatuses
<1>1. \A v : Pc12(v).status \in OrRaised
  BY DEF Pc12, Decide, Raised
<1>2. \A v, cat : Pc13(v, ev, cat, org).status \in OrRaised
  BY DEF Pc13, Decide, Raised, PassIf
<1>3. \A v, cat : Pc14(v, cat).status \in OrRaised
  BY DEF Pc14, Decide, PassIf
<1>4. \A v, cat : Pc15(v, cat).status \in OrRaised
  BY DEF Pc15, Decide, Raised, PassIf
<1>5. Raised.status = "RAISED" /\ \A code : Decide("REVIEW", code).status = "REVIEW"
  BY DEF Raised, Decide
<1> QED
  BY <1>1, <1>2, <1>3, <1>4, <1>5, GateStatus DEF EndpointEvaluate

\* PC-16 to PC-18.
LEMMA UserStatus ==
  ASSUME NEW control, NEW refs, NEW ev, NEW org
  PROVE  /\ UserEvaluate(control, refs, ev, org).status \in OrRaised
         /\ ev.status # "COLLECTED" => UserEvaluate(control, refs, ev, org).status \in {"RAISED", "ERROR"}
<1> USE DEF OrRaised, RuleStatuses
<1>1. \A v : Pc16(v).status \in OrRaised
  BY DEF Pc16, Decide
<1>2. \A v : Pc17(v, org).status \in OrRaised
  BY DEF Pc17, Decide, Raised
<1>3. \A v : Pc18(v).status \in OrRaised
  BY DEF Pc18, Decide
<1> QED
  BY <1>1, <1>2, <1>3, GateStatus DEF UserEvaluate

\* PC-07.
LEMMA StorageStatus ==
  ASSUME NEW records
  PROVE  StorageEvaluate("PC-07", "exact", records).status \in OrRaised
<1> USE DEF OrRaised, RuleStatuses
<1>1. Pc07(records).status \in OrRaised
  BY DEF Pc07, Decide
<1> QED
  BY <1>1 DEF StorageEvaluate, Raised, Decide

\* The registries together: evidence that was not collected is an ERROR.
LEMMA EngineStatus ==
  ASSUME NEW o
  PROVE  /\ EngineDecision(o).status \in OrRaised
         /\ o.status # "COLLECTED" => EngineDecision(o).status \in {"RAISED", "ERROR"}
<1> DEFINE ev == PreparedEvidence(o)
<1>1. o.status # "COLLECTED" => ev.status # "COLLECTED"
  BY DEF PreparedEvidence, PreparedStatus
<1> HIDE DEF ev
<1>2. /\ AccountPolicyEvaluate(o.control, "exact", ev, <<>>).status \in OrRaised
      /\ o.status # "COLLECTED" => AccountPolicyEvaluate(o.control, "exact", ev, <<>>).status \in {"RAISED", "ERROR"}
  BY <1>1, AccountPolicyStatus
<1>3. /\ ServiceEvaluate(o.control, "exact", ev, <<>>).status \in OrRaised
      /\ o.status # "COLLECTED" => ServiceEvaluate(o.control, "exact", ev, <<>>).status \in {"RAISED", "ERROR"}
  BY <1>1, ServiceStatus
<1>4. /\ PatchEvaluate(o.control, "exact", ev, <<ReferenceSnapshot>>, <<>>).status \in OrRaised
      /\ o.status # "COLLECTED" =>
           PatchEvaluate(o.control, "exact", ev, <<ReferenceSnapshot>>, <<>>).status \in {"RAISED", "ERROR"}
  BY <1>1, PatchStatus
<1>5. \A cats :
        /\ EndpointEvaluate(o.control, "exact", ev, cats, <<>>).status \in OrRaised
        /\ o.status # "COLLECTED" =>
             EndpointEvaluate(o.control, "exact", ev, cats, <<>>).status \in {"RAISED", "ERROR"}
  BY <1>1, EndpointStatus
<1>6. /\ UserEvaluate(o.control, "exact", ev, <<>>).status \in OrRaised
      /\ o.status # "COLLECTED" => UserEvaluate(o.control, "exact", ev, <<>>).status \in {"RAISED", "ERROR"}
  BY <1>1, UserStatus
<1>7. CASE o.control \in {"PC-01", "PC-02", "PC-03"}
  BY <1>2, <1>7 DEF EngineDecision, ev
<1>8. CASE o.control \in {"PC-04", "PC-05", "PC-06", "PC-08", "PC-09"}
  BY <1>3, <1>8 DEF EngineDecision, ev
<1>9. CASE o.control \in {"PC-10", "PC-11"}
  BY <1>4, <1>9 DEF EngineDecision, ev
<1>10. CASE o.control \in {"PC-12", "PC-13", "PC-14", "PC-15"}
  BY <1>5, <1>10 DEF EngineDecision, ev
<1>11. CASE o.control \notin {"PC-01", "PC-02", "PC-03", "PC-04", "PC-05", "PC-06", "PC-08", "PC-09", "PC-10",
                             "PC-11", "PC-12", "PC-13", "PC-14", "PC-15"}
  BY <1>6, <1>11 DEF EngineDecision, ev
<1> QED
  BY <1>7, <1>8, <1>9, <1>10, <1>11

\* The controls the selected criteria judge.
SelectedControls == {"PC-02", "PC-04", "PC-05", "PC-06", "PC-09", "PC-10", "PC-13", "PC-16", "PC-17", "PC-18"}

\* Without a record the criteria judge nothing, but for PC-05.
LEMMA SelectedStatus ==
  ASSUME NEW o, NEW c, o.control \in SelectedControls
  PROVE  /\ SelectedDecision(o, c).status \in OrRaised
         /\ (o.control # "PC-05" /\ o.shape = "none") => SelectedDecision(o, c).status = "RAISED"
<1> USE DEF OrRaised, RuleStatuses, First, SummaryRecord, Raised, Decide, PassIf
<1>1. CASE o.control = "PC-02"
  BY <1>1 DEF SelectedDecision, Selected02
<1>2. CASE o.control = "PC-04"
  BY <1>2 DEF SelectedDecision, Selected04
<1>3. CASE o.control = "PC-05"
  BY <1>3 DEF SelectedDecision, Selected05
<1>4. CASE o.control = "PC-06"
  BY <1>4 DEF SelectedDecision, Selected06
<1>5. CASE o.control = "PC-09"
  BY <1>5 DEF SelectedDecision, Selected09
<1>6. CASE o.control = "PC-10"
  BY <1>6 DEF SelectedDecision, Selected10
<1>7. CASE o.control = "PC-13"
  BY <1>7 DEF SelectedDecision, Selected13
<1>8. CASE o.control = "PC-16"
  BY <1>8 DEF SelectedDecision, Selected16
<1>9. CASE o.control = "PC-17"
  BY <1>9 DEF SelectedDecision, Selected17
<1>10. CASE o.control = "PC-18"
  BY <1>10 DEF SelectedDecision, Selected18
<1> QED
  BY <1>1, <1>2, <1>3, <1>4, <1>5, <1>6, <1>7, <1>8, <1>9, <1>10 DEF SelectedControls

\* What is raised is shown as an ERROR.
LEMMA ErrorWhenRaised ==
  ASSUME NEW d, d.status \in OrRaised
  PROVE  /\ EvidenceError(d).status \in RuleStatuses /\ EvaluationFailed(d).status \in RuleStatuses
         /\ d.status \in {"RAISED", "ERROR"} =>
              EvidenceError(d).status = "ERROR" /\ EvaluationFailed(d).status = "ERROR"
  BY DEF EvidenceError, EvaluationFailed, Decide, OrRaised, RuleStatuses

\* evaluate_live_draft_observations gives every control a status of RuleStatuses.
LEMMA LiveStatus ==
  ASSUME NEW control \in ControlIds, NEW observations, NEW criteria, \A o \in observations : o.admin = FALSE
  PROVE  LiveDecision(control, observations, criteria).status \in RuleStatuses
<1> DEFINE own == {o \in observations : o.control = control}
           o == CHOOSE x \in own : TRUE
<1>1. CASE own = {}
  BY <1>1 DEF LiveDecision, Decide, RuleStatuses
<1>2. CASE own # {}
  <2>1. o \in observations /\ o.control = control /\ ~UsesAdministratorPath(o)
    BY <1>2 DEF UsesAdministratorPath
  <2> HIDE DEF o
  <2>2. LiveDecision(control, observations, criteria) =
          IF control \in CriteriaControls /\ criteria # <<>> THEN EvidenceError(SelectedDecision(o, criteria[1]))
          ELSE IF control = "PC-07" THEN LiveStorage(observations)
          ELSE EvaluationFailed(EngineDecision(o))
    BY <1>2, <2>1 DEF LiveDecision, o
  <2>3. control \in CriteriaControls => EvidenceError(SelectedDecision(o, criteria[1])).status \in RuleStatuses
    BY <2>1, SelectedStatus, ErrorWhenRaised DEF CriteriaControls, SelectedControls
  <2>4. LiveStorage(observations).status \in RuleStatuses
    BY StorageStatus, ErrorWhenRaised DEF LiveStorage, Decide, RuleStatuses
  <2>5. EvaluationFailed(EngineDecision(o)).status \in RuleStatuses
    BY EngineStatus, ErrorWhenRaised
  <2> QED
    BY <2>2, <2>3, <2>4, <2>5
<1> QED
  BY <1>1, <1>2

\* No additional judgement of a control that was not read.
LEMMA AdditionalUnread ==
  ASSUME NEW control, NEW observations, NEW criteria,
         \A o \in observations : o.control = control => o.status # "COLLECTED"
  PROVE  LiveAdditional(control, observations, criteria).status \notin Judged
<1> DEFINE own == {o \in observations : o.control = control}
           o == CHOOSE x \in own : TRUE
<1>1. NoAdditional.status \notin Judged
  BY DEF NoAdditional, Decide, Judged
<1>2. own # {} => AdditionalDecision(o, criteria[1]) = NoAdditional
  BY DEF AdditionalDecision
<1> HIDE DEF o
<1> QED
  BY <1>1, <1>2 DEF LiveAdditional, o

\* A control none of whose probes was read.
LEMMA LiveUnread ==
  ASSUME NEW control, control # "PC-07", NEW observations, NEW criteria,
         \A o \in observations : o.control = control =>
           o.admin = FALSE /\ o.status # "COLLECTED" /\ o.shape = "none"
  PROVE  /\ control # "PC-05" \/ criteria = <<>> => LiveDecision(control, observations, criteria).status \notin Judged
         /\ LiveAdditional(control, observations, criteria).status \notin Judged
<1> DEFINE own == {o \in observations : o.control = control}
           o == CHOOSE x \in own : TRUE
<1>1. LiveAdditional(control, observations, criteria).status \notin Judged
  BY AdditionalUnread
<1>2. CASE own = {}
  BY <1>1, <1>2 DEF LiveDecision, Decide, Judged
<1>3. CASE own # {}
  <2>1. o \in observations /\ o.control = control /\ ~UsesAdministratorPath(o)
        /\ o.status # "COLLECTED" /\ o.shape = "none"
    BY <1>3 DEF UsesAdministratorPath
  <2> HIDE DEF o
  <2>2. LiveDecision(control, observations, criteria) =
          IF control \in CriteriaControls /\ criteria # <<>> THEN EvidenceError(SelectedDecision(o, criteria[1]))
          ELSE EvaluationFailed(EngineDecision(o))
    BY <1>3, <2>1 DEF LiveDecision, o
  <2>3. control \in CriteriaControls /\ control # "PC-05" =>
          EvidenceError(SelectedDecision(o, criteria[1])).status = "ERROR"
    BY <2>1, SelectedStatus, ErrorWhenRaised DEF CriteriaControls, SelectedControls
  <2>4. EvaluationFailed(EngineDecision(o)).status = "ERROR"
    BY <2>1, EngineStatus, ErrorWhenRaised
  <2> QED
    BY <1>1, <2>2, <2>3, <2>4 DEF Judged
<1> QED
  BY <1>2, <1>3

\* A storage group that failed judges no volume.
LEMMA StorageUnread ==
  ASSUME NEW observations, NEW criteria,
         \A o \in observations : o.control = "PC-07" => o.admin = FALSE /\ o.status = "ERROR"
  PROVE  /\ LiveDecision("PC-07", observations, criteria).status \notin Judged
         /\ LiveAdditional("PC-07", observations, criteria).status \notin Judged
<1> DEFINE supplied == {o \in observations : o.control = "PC-07"}
           records == PreparedStorage(supplied)
           o == CHOOSE x \in supplied : TRUE
<1>1. \A r \in records : r.status # "COLLECTED"
  <2>1. \A x \in supplied : PreparedStatus(x) = "ERROR"
    BY DEF PreparedStatus
  <2> SUFFICES ASSUME NEW r \in records PROVE r.status # "COLLECTED"
    OBVIOUS
  <2>2. PICK x \in supplied :
          r \in {[subject |-> "pc07:collection", probe |-> x.probe,
                  status |-> PreparedStatus(x), error |-> PreparedError(x), value |-> Missing]}
    BY <2>1 DEF PreparedStorage
  <2> QED
    BY <2>1, <2>2
<1> HIDE DEF records
<1>2. StorageEvaluate("PC-07", "exact", records).status \in {"RAISED", "ERROR"}
  <2>1. CASE records = {}
    BY <2>1 DEF StorageEvaluate, StorageEvidenceAccepted, Raised, Decide
  <2>2. CASE records # {}
    <3>1. \A s : VolumeClass(records, s) = "undecided"
      <4>1. \A s : Collected(records, s, "disks") = {}
        BY <1>1 DEF Collected
      <4> QED
        BY <4>1 DEF VolumeClass
    <3>2. Applicability07(records).reason = "VOLUME_CLASSIFICATION_INCOMPLETE"
      BY <2>2, <3>1 DEF Applicability07
    <3>3. Pc07(records).status = "ERROR"
      BY <3>2 DEF Pc07, Decide
    <3> QED
      BY <3>3 DEF StorageEvaluate, Raised, Decide
  <2> QED
    BY <2>1, <2>2
<1>3. EvaluationFailed(StorageEvaluate("PC-07", "exact", records)).status = "ERROR"
  BY <1>2, ErrorWhenRaised DEF OrRaised, RuleStatuses
<1>4. LiveStorage(observations).status = "ERROR"
  BY <1>3 DEF LiveStorage, Decide, records
<1>5. CASE supplied = {}
  BY <1>5 DEF LiveDecision, LiveAdditional, NoAdditional, Decide, Judged
<1>6. CASE supplied # {}
  <2>1. ~UsesAdministratorPath(o)
    BY <1>6 DEF UsesAdministratorPath
  <2> HIDE DEF o
  <2>2. LiveDecision("PC-07", observations, criteria) = LiveStorage(observations)
    BY <1>6, <2>1 DEF LiveDecision, CriteriaControls, o
  <2> QED
    BY <1>4, <2>2 DEF LiveAdditional, NoAdditional, Decide, Judged
<1> QED
  BY <1>5, <1>6

\* A control of the administrator's is judged from an observation of its own.
LEMMA AdministratorUnread ==
  ASSUME NEW control \in AdministratorControls, NEW observations, NEW criteria,
         \A o \in observations : o.admin = TRUE,
         \A o \in observations : o.control = control => o.status # "COLLECTED"
  PROVE  /\ LiveDecision(control, observations, criteria).status \notin Judged
         /\ LiveAdditional(control, observations, criteria).status \notin Judged
<1> DEFINE own == {o \in observations : o.control = control}
           o == CHOOSE x \in own : TRUE
<1>1. LiveAdditional(control, observations, criteria).status \notin Judged
  BY AdditionalUnread
<1>2. CASE own = {}
  BY <1>1, <1>2 DEF LiveDecision, Decide, Judged
<1>3. CASE own # {}
  <2>1. UsesAdministratorPath(o) /\ o.status # "COLLECTED"
    BY <1>3 DEF UsesAdministratorPath
  <2> HIDE DEF o
  <2>2. LiveDecision(control, observations, criteria) = AdministratorDecision(o, criteria)
    BY <1>3, <2>1 DEF LiveDecision, o
  <2>3. AdministratorDecision(o, criteria).status = "ERROR"
    BY <2>1 DEF AdministratorDecision, Decide
  <2> QED
    BY <1>1, <2>2, <2>3 DEF Judged
<1> QED
  BY <1>2, <1>3

-----------------------------------------------------------------------------
(* The probes and their controls.                                          *)

\* Each probe has one control, each control but PC-07 one probe, and the groups
\* of the two privileges share no control.
LEMMA ProbeTable ==
  /\ \A i \in DOMAIN StandardProbes :
       /\ StandardProbes[i] \in DOMAIN ControlOf
       /\ ControlOf[StandardProbes[i]] \in ControlIds \ (AdministratorControls \cup {"PC-07"})
  /\ \A i \in DOMAIN AdministratorProbes : ControlOf[AdministratorProbes[i]] \in AdministratorControls
  /\ \A i \in DOMAIN StorageProbeIds :
       StorageProbeIds[i] \in DOMAIN ControlOf /\ ControlOf[StorageProbeIds[i]] = "PC-07"
  /\ \A p, q \in DOMAIN ControlOf : ControlOf[p] = ControlOf[q] /\ ControlOf[p] # "PC-07" => p = q
  /\ \A p \in DOMAIN ControlOf : ControlOf[p] = "PC-07" => \E i \in DOMAIN StorageProbeIds : p = StorageProbeIds[i]
<1> DEFINE Standard == {StandardProbes[i] : i \in DOMAIN StandardProbes}
           Administrator == {AdministratorProbes[i] : i \in DOMAIN AdministratorProbes}
           Storage == {StorageProbeIds[i] : i \in DOMAIN StorageProbeIds}
<1>1. Standard =
        {"win.security.password-age", "win.security.recovery-console", "win.services.inventory",
         "win.browser.wininet-cache-policy", "win.os.lifecycle", "win.autologon.config",
         "win.antivirus.update-status", "win.antivirus.realtime-status",
         "win.firewall.effective-profiles", "win.user.screensaver-policy",
         "win.media.autoplay-policy", "win.remote-assistance.policy"}
  BY DEF StandardProbes
<1>2. Administrator =
        {"win.security.password-policy", "win.network.smb-shares", "win.software.messengers",
         "win.boot.entries", "win.update.compliance"}
  BY DEF AdministratorProbes
<1>3. Storage = {"win.storage.disks", "win.storage.partitions", "win.storage.volumes"}
  BY DEF StorageProbeIds
<1>4. DOMAIN ControlOf = (Standard \cup Administrator) \cup Storage
  BY DEF ControlOf
<1> HIDE DEF Standard, Administrator, Storage
<1>5. /\ ControlOf["win.security.password-age"] = "PC-01" /\ ControlOf["win.security.recovery-console"] = "PC-03"
      /\ ControlOf["win.services.inventory"] = "PC-05" /\ ControlOf["win.browser.wininet-cache-policy"] = "PC-09"
      /\ ControlOf["win.os.lifecycle"] = "PC-11" /\ ControlOf["win.autologon.config"] = "PC-12"
      /\ ControlOf["win.antivirus.update-status"] = "PC-13" /\ ControlOf["win.antivirus.realtime-status"] = "PC-14"
      /\ ControlOf["win.firewall.effective-profiles"] = "PC-15" /\ ControlOf["win.user.screensaver-policy"] = "PC-16"
      /\ ControlOf["win.media.autoplay-policy"] = "PC-17" /\ ControlOf["win.remote-assistance.policy"] = "PC-18"
      /\ ControlOf["win.security.password-policy"] = "PC-02" /\ ControlOf["win.network.smb-shares"] = "PC-04"
      /\ ControlOf["win.software.messengers"] = "PC-06" /\ ControlOf["win.boot.entries"] = "PC-08"
      /\ ControlOf["win.update.compliance"] = "PC-10"
      /\ ControlOf["win.storage.disks"] = "PC-07" /\ ControlOf["win.storage.partitions"] = "PC-07"
      /\ ControlOf["win.storage.volumes"] = "PC-07"
  BY <1>1, <1>2, <1>3 DEF ControlOf, Standard, Administrator, Storage
<1>6. \A p \in Standard : ControlOf[p] \in ControlIds \ (AdministratorControls \cup {"PC-07"})
  BY <1>1, <1>5 DEF ControlIds, AdministratorControls
<1>7. \A p \in Administrator : ControlOf[p] \in AdministratorControls
  BY <1>2, <1>5 DEF AdministratorControls
<1>8. \A p \in Storage : ControlOf[p] = "PC-07"
  BY <1>3, <1>5
<1>9. \A p, q \in Standard : ControlOf[p] = ControlOf[q] => p = q
  BY <1>1, <1>5
<1>10. \A p, q \in Administrator : ControlOf[p] = ControlOf[q] => p = q
  BY <1>2, <1>5
<1>11. "PC-07" \notin AdministratorControls
  BY DEF AdministratorControls
<1>12. \A p, q \in DOMAIN ControlOf : ControlOf[p] = ControlOf[q] /\ ControlOf[p] # "PC-07" => p = q
  BY <1>4, <1>6, <1>7, <1>8, <1>9, <1>10
<1>13. \A p \in DOMAIN ControlOf : ControlOf[p] = "PC-07" => p \in Storage
  BY <1>4, <1>6, <1>7, <1>11
<1> QED
  BY <1>4, <1>6, <1>7, <1>8, <1>12, <1>13 DEF Standard, Administrator, Storage

-----------------------------------------------------------------------------
(* The evidence of a scan.                                                 *)

\* What the probes of the running scan have brought so far.
Gathering == {"probed", "storage", "stored", "inventory", "verify", "verified", "summarize"}

\* An observation of the standard scan agrees with what the receipt says of its
\* probe.
ObservationFits(o, collected) ==
  /\ o.admin = FALSE
  /\ o.control # "PC-07" =>
       /\ o.probe \in DOMAIN ControlOf /\ o.control = ControlOf[o.probe] /\ o.control \notin AdministratorControls
       /\ o.probe \in DOMAIN collected /\ o.status = collected[o.probe]
       /\ o.status # "COLLECTED" => o.shape = "none"
  /\ o.control = "PC-07" =>
       /\ o.status \in {"COLLECTED", "ERROR"}
       /\ \A i \in DOMAIN StorageProbeIds :
            StorageProbeIds[i] \in DOMAIN collected /\ collected[StorageProbeIds[i]] = o.status

\* What JudgedFromEvidence asks of the rows of a result.
RowsJudged(rows, criteria) ==
  \A c \in ControlIds :
    (rows[c].status \in Judged /\ (c = "PC-05" => criteria = <<>>)) \/ rows[c].additional \in Judged
      => rows[c].display = "EVIDENCE_COLLECTED"

\* The evidence a scan carries through its steps, and the rows made of it.
EvidenceInv ==
  /\ scan.pc \in Gathering => \A o \in scan.observations : ObservationFits(o, scan.collected)
  /\ scan.pc \in {"probed", "storage"} => \A o \in scan.observations : o.control # "PC-07"
  /\ scan.pc = "commit" => RowsWhole(scan.rows) /\ RowsJudged(scan.rows, bridge.criteria)

\* A process that failed has a code of its own.
LEMMA ExecutionRange ==
  ASSUME NEW p, NEW timeout, BoundedExecution(p, timeout) # Accepted
  PROVE  ExecutionCode[BoundedExecution(p, timeout)] # Accepted
<1> DEFINE checks ==
      <<Check(~p.starts, "START_FAILED"), Check(~p.reads, "STDIN_FAILED"),
        Check(p.floods < timeout, "OUTPUT_TOO_LARGE"), Check(p.lasts >= timeout, "TIMEOUT"),
        Check(p.floods # NotAtAll, "OUTPUT_TOO_LARGE")>>
           failing == {i \in DOMAIN checks : checks[i].rejects}
           i == CHOOSE k \in failing : \A j \in failing : k <= j
<1>1. /\ DOMAIN checks = 1..5
      /\ checks[1].code = "START_FAILED" /\ checks[2].code = "STDIN_FAILED"
      /\ checks[3].code = "OUTPUT_TOO_LARGE" /\ checks[4].code = "TIMEOUT" /\ checks[5].code = "OUTPUT_TOO_LARGE"
  BY DEF Check
<1>2. BoundedExecution(p, timeout) = FirstRejection(checks)
  BY DEF BoundedExecution
<1> HIDE DEF checks
<1>3. failing # {} /\ FirstRejection(checks) = checks[i].code
  BY <1>2 DEF FirstRejection
<1>4. \E k \in failing : \A j \in failing : k <= j
  BY <1>1, <1>3
<1>5. i \in 1..5
  BY <1>1, <1>4
<1> HIDE DEF i
<1>6. checks[i].code \in {"START_FAILED", "STDIN_FAILED", "OUTPUT_TOO_LARGE", "TIMEOUT"}
  BY <1>1, <1>5
<1> QED
  BY <1>2, <1>3, <1>6 DEF ExecutionCode, Accepted

\* What an accepted execution has passed.
LEMMA ExpandedAccepted ==
  ASSUME NEW plan, NEW privilege, NEW p, NEW out,
         ExpandedExecute(plan, privilege, Host, Script, p, out, Adapters) = Accepted
  PROVE  /\ PlanIsExact(plan, privilege) /\ Len(out.results) = Len(plan)
         /\ \A i \in DOMAIN plan : ResultAccepted(out.results[i], plan[i], Adapters)
<1> DEFINE executed == BoundedExecution(p, ShortestTimeout(plan))
<1>1. executed # Accepted => ExecutionCode[executed] # Accepted
  BY ExecutionRange
<1> HIDE DEF executed
<1> QED
  BY <1>1 DEF ExpandedExecute, Accepted, executed

\* A function on one to n is a sequence of length n.
LEMMA TupleLength ==
  ASSUME NEW n \in Nat, NEW S, NEW f \in [1..n -> S]
  PROVE  f \in Seq(S) /\ Len(f) = n
  OBVIOUS

\* An accepted output holds the twelve probes of the plan, each once.
LEMMA StandardResults ==
  ASSUME NEW run \in StandardRuns,
         ExpandedExecute(PlanOf(StandardProbes, "STANDARD_USER"), "STANDARD_USER", Host, Script,
                         run.p, run.out, Adapters) = Accepted
  PROVE  /\ DOMAIN run.out.results = 1..12
         /\ \A i \in 1..12 : run.out.results[i].id = StandardProbes[i]
         /\ \A i, j \in 1..12 : run.out.results[i].id = run.out.results[j].id => i = j
<1> DEFINE plan == PlanOf(StandardProbes, "STANDARD_USER")
<1>1. DOMAIN StandardProbes = 1..12
  BY DEF StandardProbes
<1>2. DOMAIN plan = 1..12 /\ \A i \in 1..12 : plan[i].id = StandardProbes[i]
  BY <1>1 DEF PlanOf, Request
<1>3. plan \in [1..12 -> {plan[i] : i \in 1..12}]
  BY <1>1 DEF PlanOf
<1>4. Len(plan) = 12
  <2> HIDE DEF plan
  <2> QED
    BY <1>3, TupleLength
<1> HIDE DEF plan
<1>5. /\ Len(run.out.results) = Len(plan)
      /\ \A i \in DOMAIN plan : ResultAccepted(run.out.results[i], plan[i], Adapters)
  BY ExpandedAccepted DEF plan
<1>6. DOMAIN run.out.results = 1..12 /\ \A i \in 1..12 : run.out.results[i].id = StandardProbes[i]
  <2>1. DOMAIN run.out.results = 1..12
    BY <1>4, <1>5, LauncherAssumption
  <2>2. ASSUME NEW i \in 1..12 PROVE run.out.results[i].id = StandardProbes[i]
    <3>1. ResultAccepted(run.out.results[i], plan[i], Adapters)
      BY <1>2, <1>5
    <3> QED
      BY <1>2, <3>1 DEF ResultAccepted
  <2> QED
    BY <2>1, <2>2
<1>7. \A i, j \in 1..12 : StandardProbes[i] = StandardProbes[j] => i = j
  BY DEF StandardProbes
<1> QED
  BY <1>6, <1>7

\* The standard group: its observations agree with the receipt.
LEMMA RunStandardProbesKeeps ==
  ASSUME NEW run \in StandardRuns, RunStandardProbes(run),
         ScanFields = DOMAIN scan
  PROVE  EvidenceInv'
<1> DEFINE printed == {run.out.results[i] : i \in DOMAIN run.out.results}
           observations == {Observation(r, run.out.context, FALSE) : r \in printed}
           collected == [id \in {r.id : r \in printed} |-> (CHOOSE r \in printed : r.id = id).status]
           outcome == ExpandedExecute(PlanOf(StandardProbes, "STANDARD_USER"), "STANDARD_USER",
                                    Host, Script, run.p, run.out, Adapters)
<1>1. CASE outcome # Accepted
  BY <1>1 DEF RunStandardProbes, Goto, Ending, NoScan, EvidenceInv, Gathering, ScanFields
<1>2. CASE outcome = Accepted
  <2>1. scan'.pc = "probed" /\ scan'.observations = observations /\ scan'.collected = collected
    BY <1>2 DEF RunStandardProbes, ScanFields
  <2>2. /\ DOMAIN run.out.results = 1..12
        /\ \A i \in 1..12 : run.out.results[i].id = StandardProbes[i]
        /\ \A i, j \in 1..12 : run.out.results[i].id = run.out.results[j].id => i = j
    BY <1>2, StandardResults
  <2>3. ASSUME NEW r \in printed, NEW q \in printed, r.id = q.id PROVE r = q
    <3>1. PICK i \in DOMAIN run.out.results : r = run.out.results[i]
      OBVIOUS
    <3>2. PICK j \in DOMAIN run.out.results : q = run.out.results[j]
      OBVIOUS
    <3>3. i = j
      BY <2>2, <2>3, <3>1, <3>2
    <3> QED
      BY <3>1, <3>2, <3>3
  <2>4. \A r \in printed : /\ r.id \in DOMAIN ControlOf
                           /\ ControlOf[r.id] \in ControlIds \ (AdministratorControls \cup {"PC-07"})
    BY <2>2, ProbeTable, DOMAIN StandardProbes = 1..12 DEF StandardProbes
  <2>5. \A r \in printed : r.status # "COLLECTED" => r.shape = "none"
    BY LauncherAssumption
  <2> HIDE DEF printed
  <2>6. \A r \in printed : r.id \in DOMAIN collected /\ collected[r.id] = r.status
    BY <2>3
  <2> HIDE DEF collected
  <2>7. ASSUME NEW o \in observations PROVE ObservationFits(o, collected) /\ o.control # "PC-07"
    <3>1. PICK r \in printed : o = Observation(r, run.out.context, FALSE)
      BY <2>7
    <3>2. /\ o.control = ControlOf[r.id] /\ o.probe = r.id /\ o.status = r.status /\ o.admin = FALSE
          /\ o.shape = r.shape
      BY <3>1 DEF Observation
    <3> QED
      BY <2>4, <2>5, <2>6, <3>2 DEF ObservationFits
  <2> HIDE DEF observations
  <2> QED
    BY <2>1, <2>7 DEF EvidenceInv, Gathering
<1> QED
  BY <1>1, <1>2

\* The storage group: three probes that were all read or all failed.
LEMMA RunStorageProbesKeeps ==
  ASSUME EvidenceInv, ScanFields = DOMAIN scan, NEW run, RunStorageProbes(run)
  PROVE  EvidenceInv'
<1> DEFINE outcome == StorageExecute(PlanOf(StorageProbeIds, "STANDARD_USER"), Host, Script, run.p, run.out)
           ids == {StorageProbeIds[i] : i \in DOMAIN StorageProbeIds}
           status == IF outcome = Accepted THEN "COLLECTED" ELSE "ERROR"
           error == IF outcome = Accepted THEN "NONE"
                    ELSE IF outcome = "PERMISSION_DENIED" THEN "PERMISSION_DENIED" ELSE "QUERY_FAILED"
           payload(id) == IF outcome = Accepted THEN run.out.payload[StorageShort(id)] ELSE {}
           added == {StorageObservation(id, status, error, scan.context.at, payload(id)) : id \in ids}
           collected == [id \in DOMAIN scan.collected \cup ids |-> IF id \in ids THEN status ELSE scan.collected[id]]
<1>1. /\ scan.pc = "storage" /\ scan'.pc = "stored" /\ scan'.observations = scan.observations \cup added
      /\ scan'.collected = collected
  BY DEF RunStorageProbes, ScanFields
<1>2. \A o \in added : o.control = "PC-07" /\ o.status = status /\ o.admin = FALSE
  BY DEF StorageObservation
<1>3. status \in {"COLLECTED", "ERROR"}
  OBVIOUS
<1> HIDE DEF added, status
<1>4. \A i \in DOMAIN StorageProbeIds :
        StorageProbeIds[i] \in DOMAIN collected /\ collected[StorageProbeIds[i]] = status
  OBVIOUS
<1>5. \A o \in scan.observations : ObservationFits(o, scan.collected) /\ o.control # "PC-07"
  BY <1>1 DEF EvidenceInv, Gathering
<1>6. \A o \in added : ObservationFits(o, collected)
  <2> HIDE DEF collected
  <2> QED
    BY <1>2, <1>3, <1>4 DEF ObservationFits
<1>7. ASSUME NEW o \in scan.observations PROVE ObservationFits(o, collected)
  <2>1. o.probe \in DOMAIN scan.collected /\ o.control = ControlOf[o.probe] /\ o.control # "PC-07"
    BY <1>5, <1>7 DEF ObservationFits
  <2>2. o.probe \notin ids
    BY <2>1, ProbeTable
  <2> HIDE DEF ids
  <2>3. o.probe \in DOMAIN collected /\ collected[o.probe] = scan.collected[o.probe]
    BY <2>1, <2>2
  <2> HIDE DEF collected
  <2> QED
    BY <1>5, <1>7, <2>1, <2>3 DEF ObservationFits
<1> HIDE DEF collected
<1> QED
  BY <1>1, <1>6, <1>7 DEF EvidenceInv, Gathering

\* The judgement: a row that does not show its evidence has no verdict.
LEMMA AssessKeeps ==
  ASSUME EvidenceInv, ScanFields = DOMAIN scan, Assess
  PROVE  EvidenceInv'
<1> DEFINE verdicts == [c \in ControlIds |->
             [status |-> LiveDecision(c, scan.observations, bridge.criteria).status,
              additional |-> LiveAdditional(c, scan.observations, bridge.criteria).status]]
           rows == BuildControlResults(ProbesOf, AdministratorControls, scan.collected, verdicts)
<1>1. CASE Goto("cancelled") \/ Goto("failed")
  <2>1. scan'.pc \in Ending
    BY <1>1 DEF Goto, Ending, NoScan
  <2> QED
    BY <2>1 DEF EvidenceInv, Gathering, Ending
<1>2. CASE scan' = [scan EXCEPT !.pc = "commit", !.rows = rows]
  <2>1. scan.pc = "summarize" /\ bridge' = bridge
    BY DEF Assess
  <2>2. \A o \in scan.observations : ObservationFits(o, scan.collected)
    BY <2>1 DEF EvidenceInv, Gathering
  <2>3. \A c \in ControlIds :
          /\ rows[c].status = LiveDecision(c, scan.observations, bridge.criteria).status
          /\ rows[c].additional = LiveAdditional(c, scan.observations, bridge.criteria).status
          /\ rows[c].display \in Displays
          /\ (c \notin AdministratorControls /\ rows[c].display # "EVIDENCE_COLLECTED") =>
               \E p \in ProbesOf[c] : p \notin DOMAIN scan.collected \/ scan.collected[p] # "COLLECTED"
    BY DEF BuildControlResults, ProbesOf, Displays
  <2>4. ControlIds = DOMAIN rows
    BY DEF BuildControlResults, ProbesOf
  <2> HIDE DEF rows
  <2>5. RowsWhole(rows)
    <3>1. \A o \in scan.observations : o.admin = FALSE
      BY <2>2 DEF ObservationFits
    <3>2. \A c \in ControlIds : rows[c].status \in RuleStatuses
      BY <2>3, <3>1, LiveStatus
    <3> QED
      BY <2>3, <2>4, <3>2 DEF RowsWhole
  <2>6. ASSUME NEW c \in ControlIds, rows[c].display # "EVIDENCE_COLLECTED"
        PROVE  /\ c # "PC-05" \/ bridge.criteria = <<>> => rows[c].status \notin Judged
               /\ rows[c].additional \notin Judged
    <3>1. CASE c \in AdministratorControls
      <4>1. \A o \in scan.observations : o.control # c
        BY <2>2, <3>1 DEF ObservationFits, AdministratorControls
      <4>2. c # "PC-07"
        BY <3>1 DEF AdministratorControls
      <4> QED
        BY <2>3, <4>1, <4>2, LiveUnread
    <3>2. CASE c \notin AdministratorControls
      <4>1. PICK p \in ProbesOf[c] : p \notin DOMAIN scan.collected \/ scan.collected[p] # "COLLECTED"
        BY <2>3, <2>6, <3>2
      <4>2. p \in DOMAIN ControlOf /\ ControlOf[p] = c
        BY <4>1 DEF ProbesOf
      <4>3. CASE c = "PC-07"
        <5>1. \E i \in DOMAIN StorageProbeIds : p = StorageProbeIds[i]
          BY <4>2, <4>3, ProbeTable
        <5>2. \A o \in scan.observations : o.control = "PC-07" => o.admin = FALSE /\ o.status = "ERROR"
          BY <2>2, <4>1, <5>1 DEF ObservationFits
        <5> QED
          BY <2>3, <4>3, <5>2, StorageUnread
      <4>4. CASE c # "PC-07"
        <5>1. ASSUME NEW o \in scan.observations, o.control = c
              PROVE  o.admin = FALSE /\ o.status # "COLLECTED" /\ o.shape = "none"
          <6>1. /\ o.probe \in DOMAIN ControlOf /\ c = ControlOf[o.probe] /\ o.probe \in DOMAIN scan.collected
                /\ o.status = scan.collected[o.probe] /\ o.admin = FALSE
                /\ o.status # "COLLECTED" => o.shape = "none"
            BY <2>2, <4>4, <5>1 DEF ObservationFits
          <6>2. o.probe = p
            BY <4>2, <4>4, <6>1, ProbeTable
          <6> QED
            BY <4>1, <6>1, <6>2
        <5>2. \A o \in scan.observations : o.control = c =>
                o.admin = FALSE /\ o.status # "COLLECTED" /\ o.shape = "none"
          BY <5>1
        <5>3. /\ c # "PC-05" \/ bridge.criteria = <<>> =>
                   LiveDecision(c, scan.observations, bridge.criteria).status \notin Judged
              /\ LiveAdditional(c, scan.observations, bridge.criteria).status \notin Judged
          BY <4>4, <5>2, LiveUnread
        <5> QED
          BY <2>3, <5>3
      <4> QED
        BY <4>3, <4>4
    <3> QED
      BY <3>1, <3>2
  <2>7. RowsJudged(rows, bridge.criteria)
    BY <2>6 DEF RowsJudged
  <2>8. scan'.pc = "commit" /\ scan'.rows = rows
    BY <1>2 DEF ScanFields
  <2> QED
    BY <2>1, <2>5, <2>7, <2>8 DEF EvidenceInv, Gathering
<1> QED
  BY <1>1, <1>2 DEF Assess

\* A step that moves the scan on and leaves what was read as it is.
LEMMA MovesOn ==
  ASSUME EvidenceInv, bridge'.criteria = bridge.criteria,
         \/ scan'.pc \in Ending
         \/ scan'.observations = scan.observations /\ scan'.collected = scan.collected /\ scan'.rows = scan.rows,
         scan'.pc \in Gathering => scan.pc \in Gathering,
         scan'.pc \in {"probed", "storage"} => scan.pc \in {"probed", "storage"},
         scan'.pc = "commit" => scan.pc = "commit"
  PROVE  EvidenceInv'
  BY DEF EvidenceInv, Ending, Gathering

\* Every step of the scan keeps its evidence.
LEMMA ScanStepEvidence ==
  ASSUME LauncherShape, ThreadInv, EvidenceInv, ScanStep
  PROVE  EvidenceInv'
<1> DEFINE Same == \/ scan'.pc \in Ending
                   \/ /\ scan'.observations = scan.observations /\ scan'.collected = scan.collected
                      /\ scan'.rows = scan.rows
<1>0. ScanFields = DOMAIN scan /\ bridge'.criteria = bridge.criteria
  BY ScanStepFrame DEF LauncherShape, ScanFrame
<1> USE DEF Gathering, ScanFields
<1>1. CASE StartWorker
  BY <1>0, <1>1, MovesOn DEF StartWorker
<1>2. CASE Prepare \/ Baseline \/ AccountAndProtection \/ Summarizing
  <2>1. Same
    BY <1>0, <1>2 DEF Prepare, Baseline, AccountAndProtection, Summarizing, Checkpoint, Goto, Ending, NoScan
  <2>2. \/ scan'.pc \in {"cancelled", "loaded", "before", "standard"}
        \/ scan.pc = "verified" /\ scan'.pc = "summarize"
    BY <1>0, <1>2 DEF Prepare, Baseline, AccountAndProtection, Summarizing, Checkpoint, Goto, Ending, NoScan
  <2> QED
    BY <1>0, <2>1, <2>2, MovesOn
<1>3. CASE BeforeStorage \/ BeforeInventory
  <2>1. Same
    BY <1>0, <1>3 DEF BeforeStorage, BeforeInventory, BetweenGroups, Goto, Ending, NoScan
  <2>2. \/ scan'.pc = "unwind"
        \/ scan.pc = "probed" /\ scan'.pc = "storage"
        \/ scan.pc = "stored" /\ scan'.pc = "inventory"
    BY <1>0, <1>3 DEF BeforeStorage, BeforeInventory, BetweenGroups, Goto, Ending, NoScan
  <2> QED
    BY <1>0, <2>1, <2>2, MovesOn
<1>4. ASSUME NEW run \in SnapshotRuns, CaptureBefore(run) \/ VerifySettings(run) \/ Unwind(run)
      PROVE  EvidenceInv'
  <2>1. Same
    BY <1>0, <1>4 DEF CaptureBefore, VerifySettings, Unwind, Goto, Ending, NoScan, TakeSnapshot
  <2>2. \/ scan'.pc \in {"captured", "failed", "cancelled"}
        \/ scan.pc = "verify" /\ scan'.pc = "verified"
    BY <1>0, <1>4 DEF CaptureBefore, VerifySettings, Unwind, Goto, Ending, NoScan, TakeSnapshot
  <2> QED
    BY <1>0, <2>1, <2>2, MovesOn
<1>5. ASSUME NEW run \in StandardRuns, RunStandardProbes(run) PROVE EvidenceInv'
  BY <1>0, <1>5, RunStandardProbesKeeps
<1>6. ASSUME NEW run \in StorageRuns, RunStorageProbes(run) PROVE EvidenceInv'
  BY <1>0, <1>6, RunStorageProbesKeeps
<1>7. ASSUME NEW run \in InventoryRuns, CollectInventory(run) PROVE EvidenceInv'
  <2>1. Same /\ scan.pc = "inventory" /\ scan'.pc = "verify"
    BY <1>0, <1>7 DEF CollectInventory
  <2> QED
    BY <1>0, <2>1, MovesOn
<1>8. CASE Assess
  BY <1>0, <1>8, AssessKeeps
<1>9. CASE Commit \/ EndCancelled \/ EndFailed
  BY <1>0, <1>9 DEF Commit, EndCancelled, EndFailed, Goto, Ending, NoScan, EvidenceInv
<1>10. CASE ThreadExits
  BY <1>0, <1>10 DEF ThreadExits, NoScan, EvidenceInv
<1> QED
  BY <1>1, <1>2, <1>3, <1>4, <1>5, <1>6, <1>7, <1>8, <1>9, <1>10 DEF ScanStep

-----------------------------------------------------------------------------
(* The results of the elevated children.                                   *)

\* What JudgedFromEvidence asks of the result of a child.
ResultJudged(result) ==
  result # <<>> =>
    \A c \in DOMAIN result[1].verdicts :
      LET verdict == result[1].verdicts[c]
      IN verdict.status \in Judged \/ verdict.additional \in Judged => verdict.collected

\* An elevated child judges only what it read, whatever its run brought.
LEMMA AdministratorResultJudged ==
  ASSUME NEW run, NEW safe, NEW selected, NEW criteria
  PROVE  ResultJudged(AdministratorResult(run, safe, selected, criteria))
<1> DEFINE plan == PlanOf(selected, "ADMINISTRATOR")
           outcome == ExpandedExecute(plan, "ADMINISTRATOR", Host, Script, run.p, run.out, Adapters)
           printed == {run.out.results[i] : i \in DOMAIN run.out.results}
           observations == {Observation(r, run.out.context, TRUE) : r \in printed}
           controls == {ControlOf[selected[i]] : i \in DOMAIN selected}
           collected(c) == \E o \in observations : o.control = c /\ o.status = "COLLECTED"
           verdicts == [c \in controls |->
                          [collected |-> collected(c),
                           status |-> LiveDecision(c, observations, criteria).status,
                           additional |-> LiveAdditional(c, observations, criteria).status]]
           result == AdministratorResult(run, safe, selected, criteria)
<1>1. CASE outcome # Accepted \/ ~safe \/ LiveAborts(observations)
  <2>1. \E stage : result = <<[status |-> "FAILED", stage |-> stage, verdicts |-> <<>>]>>
    BY <1>1 DEF AdministratorResult
  <2> HIDE DEF result
  <2>2. DOMAIN result[1].verdicts = {}
    BY <2>1
  <2> QED
    BY <2>2 DEF ResultJudged, result
<1>2. CASE outcome = Accepted /\ safe /\ ~LiveAborts(observations)
  <2>1. result = <<[status |-> "COMPLETED", stage |-> "RESULT_BUILD", verdicts |-> verdicts]>>
    BY <1>2 DEF AdministratorResult
  <2>2. \A o \in observations : o.admin = TRUE
    BY DEF Observation
  <2>3. controls \subseteq AdministratorControls
    <3>1. DOMAIN plan = DOMAIN selected /\ \A i \in DOMAIN selected : plan[i].id = selected[i]
      BY DEF PlanOf, Request
    <3> HIDE DEF plan
    <3>2. PlanIsExact(plan, "ADMINISTRATOR")
      BY <1>2, ExpandedAccepted DEF plan
    <3> DEFINE ids == [i \in DOMAIN plan |-> plan[i].id]
    <3>3. InOrder(ids, AdministratorProbes)
      BY <3>2 DEF PlanIsExact, GroupIsExact
    <3>4. \A i \in DOMAIN selected : \E k \in DOMAIN AdministratorProbes : selected[i] = AdministratorProbes[k]
      BY <3>1, <3>3 DEF InOrder
    <3> QED
      BY <3>4, ProbeTable
  <2> HIDE DEF observations, controls
  <2>4. ASSUME NEW c \in controls, ~collected(c)
        PROVE  verdicts[c].status \notin Judged /\ verdicts[c].additional \notin Judged
    <3>1. \A o \in observations : o.control = c => o.status # "COLLECTED"
      BY <2>4
    <3> QED
      BY <2>2, <2>3, <3>1, AdministratorUnread
  <2>5. \A c \in controls : verdicts[c].collected = collected(c)
    OBVIOUS
  <2>6. result # <<>> /\ result[1].verdicts = verdicts /\ DOMAIN verdicts = controls
    <3> HIDE DEF result
    <3> QED
      BY <2>1
  <2> HIDE DEF verdicts, result, collected
  <2> QED
    BY <2>4, <2>5, <2>6 DEF ResultJudged, result
<1> QED
  BY <1>1, <1>2

\* The results that are served.
ChildrenInv == \A i \in DOMAIN children : ResultJudged(children[i].result)

\* A child without a result.
LEMMA NoResult == ResultJudged(<<>>)
  BY DEF ResultJudged

\* The administrator and the children serve judged results only.
LEMMA LaunchStepChildren ==
  ASSUME ConsentInv, ChildrenInv, LaunchStep
  PROVE  ChildrenInv'
<1> USE DEF ConsentInv, ChildrenInv
<1>1. ASSUME NEW request \in Consents, LaunchAdministrator(request) PROVE ChildrenInv'
  BY <1>1, LaunchAdministratorKeeps
<1>2. ASSUME NEW outcome \in {"STARTED", "CANCELLED", "UNAVAILABLE", "FAILED"}, Elevate(outcome)
      PROVE  ChildrenInv'
  BY <1>2, ElevateKeeps, NoResult
<1>3. CASE RecordElevation \/ ResetAdministrator
  BY <1>3, RecordElevationKeeps, ResetAdministratorKeeps
<1>4. ASSUME NEW i \in DOMAIN children, ChildCaptures(i) \/ ChildEnds(i) PROVE ChildrenInv'
  BY <1>4, ChildCapturesKeeps, ChildEndsKeeps, NoResult
<1>5. ASSUME NEW i \in DOMAIN children, NEW run \in AdministratorRuns, NEW snapshot \in SnapshotRuns,
             ChildCollects(i, run, snapshot)
      PROVE  ChildrenInv'
  <2>1. /\ DOMAIN children' = DOMAIN children
        /\ \A j \in DOMAIN children : j # i => children'[j] = children[j]
    BY <1>5, ChildCollectsKeeps
  <2>2. ResultJudged(children'[i].result)
    BY <1>5, ChildCollectsKeeps, AdministratorResultJudged, NoResult
  <2> QED
    BY <2>1, <2>2
<1> QED
  BY <1>1, <1>2, <1>3, <1>4, <1>5 DEF LaunchStep

-----------------------------------------------------------------------------
(* The settings the probes meet.                                           *)

\* How often the settings changed since the first snapshot: never, and they are
\* what it met; once, and they are not; more often, and nothing is known.
SettingsInv ==
  /\ scan.pc \in Watched =>
       /\ scan.changes \in Nat
       /\ scan.changes = 0 => settings = scan.before
       /\ scan.changes = 1 => settings # scan.before
  /\ scan.pc \in {"stored", "inventory", "verify", "verified", "summarize", "commit"} =>
       /\ scan.changes \in Nat
       /\ scan.changes = 0 => scan.seen = {scan.before}
  /\ scan.pc \in {"verified", "summarize", "commit"} => scan.changes # 1
  /\ scan.pc \in {"created", "prepare", "loaded", "before"} => scan.changes = 0

\* Every step of the scan keeps SettingsInv.
LEMMA ScanStepSettings ==
  ASSUME LauncherShape, ThreadInv, SettingsInv, ScanStep
  PROVE  SettingsInv'
<1>0. ScanFields = DOMAIN scan /\ settings' = settings
  BY ScanStepFrame DEF LauncherShape, ScanFrame
<1> USE DEF ScanFields, SettingsInv, Watched
<1>1. CASE StartWorker
  BY <1>0, <1>1 DEF StartWorker
<1>2. CASE Prepare \/ Baseline \/ AccountAndProtection \/ Summarizing
  BY <1>0, <1>2 DEF Prepare, Baseline, AccountAndProtection, Summarizing, Checkpoint, Goto, Ending, NoScan
<1>3. CASE BeforeStorage \/ BeforeInventory
  BY <1>0, <1>3 DEF BeforeStorage, BeforeInventory, BetweenGroups, Goto, Ending, NoScan
<1>4. ASSUME NEW run \in SnapshotRuns, CaptureBefore(run) \/ Unwind(run) PROVE SettingsInv'
  <2>1. \/ scan'.pc \in {"failed", "cancelled"}
        \/ /\ scan.pc = "before" /\ scan'.pc = "captured"
           /\ scan'.before = settings /\ scan'.changes = scan.changes
    BY <1>0, <1>4 DEF CaptureBefore, Unwind, Goto, Ending, NoScan, TakeSnapshot
  <2> QED
    BY <1>0, <2>1
<1>5. ASSUME NEW run \in SnapshotRuns, VerifySettings(run) PROVE SettingsInv'
  <2>1. /\ scan.pc = "verify"
        /\ \/ scan'.pc \in {"failed", "cancelled"}
           \/ /\ scan'.pc = "verified" /\ settings = scan.before
              /\ scan'.seen = scan.seen /\ scan'.before = scan.before /\ scan'.changes = scan.changes
    BY <1>0, <1>5 DEF VerifySettings, Goto, Ending, NoScan
  <2>2. settings = scan.before => scan.changes # 1
    BY <2>1
  <2> QED
    BY <2>1, <2>2
<1>6. ASSUME NEW run \in StandardRuns, RunStandardProbes(run) PROVE SettingsInv'
  <2>1. /\ scan.pc = "standard"
        /\ \/ scan'.pc = "failed"
           \/ scan'.pc = "probed" /\ scan'.before = scan.before /\ scan'.changes = scan.changes
    BY <1>0, <1>6 DEF RunStandardProbes, Goto, Ending, NoScan
  <2> QED
    BY <1>0, <2>1
<1>7. ASSUME NEW run \in StorageRuns, RunStorageProbes(run) PROVE SettingsInv'
  <2>1. /\ scan.pc = "storage" /\ scan'.pc = "stored" /\ scan'.seen = {settings}
        /\ scan'.before = scan.before /\ scan'.changes = scan.changes
    BY <1>0, <1>7 DEF RunStorageProbes
  <2> QED
    BY <1>0, <2>1
<1>8. ASSUME NEW run \in InventoryRuns, CollectInventory(run) PROVE SettingsInv'
  BY <1>0, <1>8 DEF CollectInventory
<1>9. CASE Assess
  <2>1. /\ scan.pc = "summarize"
        /\ \/ scan'.pc \in {"cancelled", "failed"}
           \/ /\ scan'.pc = "commit" /\ scan'.seen = scan.seen
              /\ scan'.before = scan.before /\ scan'.changes = scan.changes
    BY <1>0, <1>9 DEF Assess, Goto, Ending, NoScan
  <2> QED
    BY <2>1
<1>10. CASE Commit \/ EndCancelled \/ EndFailed
  BY <1>0, <1>10 DEF Commit, EndCancelled, EndFailed, Goto, Ending, NoScan
<1>11. CASE ThreadExits
  BY <1>0, <1>11 DEF ThreadExits, NoScan
<1> QED
  BY <1>1, <1>2, <1>3, <1>4, <1>5, <1>6, <1>7, <1>8, <1>9, <1>10, <1>11 DEF ScanStep

\* A change under the scan is counted, and a first one leaves other settings.
LEMMA ChangeSettingsCounted ==
  ASSUME LauncherShape, ThreadInv, SettingsInv, ChangeSettings
  PROVE  SettingsInv'
<1>1. settings' # settings /\ ScanFields = DOMAIN scan
  BY ChangeSettingsKeeps DEF LauncherShape
<1>2. CASE scan.pc \notin Watched /\ scan' = scan
  BY <1>2 DEF SettingsInv
<1>3. CASE scan.pc \in Watched /\ scan' = [scan EXCEPT !.changes = @ + 1]
  <2>1. /\ scan'.pc = scan.pc /\ scan'.before = scan.before /\ scan'.seen = scan.seen
        /\ scan'.changes = scan.changes + 1 /\ scan.changes \in Nat
    BY <1>1, <1>3 DEF ScanFields, SettingsInv
  <2>2. scan'.changes \in Nat \ {0} /\ (scan'.changes = 1 => settings' # scan'.before)
    BY <1>1, <1>3, <2>1 DEF SettingsInv
  <2> QED
    BY <1>3, <2>1, <2>2 DEF SettingsInv, Watched
<1> QED
  BY <1>2, <1>3, ChangeSettingsKeeps

-----------------------------------------------------------------------------
(* The history of the bridge.                                              *)

\* What StoredScanIsWhole asks of the i-th entry.
EntryWhole(h, i) ==
  /\ h[i].counts.collected + h[i].counts.review + h[i].counts.administrator = 18
  /\ (i > 1) <=> (h[i].comparison # <<>>)
  /\ i > 1 => /\ ValidateComparison(h[i].comparison[1]) = Accepted
              /\ h[i].comparison[1].previous.id = h[i - 1].id

\* An entry of the history at its place.
EntryStored(h, i, attempt) ==
  /\ h[i].id \in Nat /\ h[i].id <= attempt /\ h[i].sequence = i
  /\ RowsWhole(h[i].rows) /\ RowsJudged(h[i].rows, h[i].criteria) /\ EntryWhole(h, i)

\* The entries are whole and in order, a scan that works has an attempt of its
\* own, and COMPLETED shows the entry of the latest attempt.
HistoryInv ==
  /\ \A i \in DOMAIN bridge.history :
       /\ EntryStored(bridge.history, i, bridge.attempt)
       /\ scan.pc \in Working => bridge.history[i].id < bridge.attempt
  /\ bridge.status = "COMPLETED" =>
       bridge.history # <<>> /\ bridge.history[Len(bridge.history)].id = bridge.attempt

\* A result that is appended to a whole history leaves it whole.
LEMMA CommitKeeps ==
  ASSUME LauncherShape, ThreadInv, EvidenceInv, HistoryInv, Commit
  PROVE  HistoryInv'
<1> DEFINE h == bridge.history
           n == Len(h)
           new == [id |-> bridge.attempt, sequence |-> n + 1, rows |-> scan.rows]
           comparison == IF h = <<>> THEN <<>> ELSE <<BuildComparison(h[n], new)>>
           built == n = 0 \/ ComparisonBuilds(h[n], new)
<1>1. /\ scan.pc = "commit" /\ scan'.pc = "over" /\ bridge'.status = "COMPLETED" /\ bridge'.attempt = bridge.attempt
      /\ bridge'.history = IF built THEN Append(h, Entry) ELSE h
  BY DEF Commit, Goto, Ending, NoScan, LauncherShape, ScanFields, BridgeFields
<1>2. RowsWhole(scan.rows) /\ RowsJudged(scan.rows, bridge.criteria) /\ bridge.attempt \in Nat
  BY <1>1 DEF EvidenceInv, LauncherShape
<1>3. /\ Entry.id = bridge.attempt /\ Entry.sequence = n + 1 /\ Entry.rows = scan.rows
      /\ Entry.criteria = bridge.criteria /\ Entry.counts = SummarizeControls(scan.rows)
      /\ Entry.comparison = comparison
  BY DEF Entry
<1>4. IsSequence(h) /\ n \in Nat /\ DOMAIN h = 1..n /\ (h = <<>> <=> n = 0)
  BY SequenceFacts DEF LauncherShape
<1>5. \A i \in DOMAIN h : EntryStored(h, i, bridge.attempt) /\ h[i].id < bridge.attempt
  BY <1>1 DEF HistoryInv, Working, ScanPcs
<1>6. new.id = bridge.attempt /\ new.sequence = n + 1 /\ new.rows = scan.rows
  OBVIOUS
<1> HIDE DEF new, h, n
<1>7. n # 0 => /\ ComparisonBuilds(h[n], new)
               /\ ValidateComparison(BuildComparison(h[n], new)) = Accepted
               /\ BuildComparison(h[n], new).previous.id = h[n].id
  <2> SUFFICES ASSUME n # 0
               PROVE  /\ ComparisonBuilds(h[n], new)
                      /\ ValidateComparison(BuildComparison(h[n], new)) = Accepted
                      /\ BuildComparison(h[n], new).previous.id = h[n].id
    OBVIOUS
  <2>1. n \in DOMAIN h /\ n >= 1
    BY <1>4
  <2>2. RowsWhole(h[n].rows) /\ h[n].id < bridge.attempt /\ h[n].id \in Nat /\ h[n].sequence = n
    BY <1>5, <2>1 DEF EntryStored
  <2>3. h[n].id # new.id
    BY <1>2, <1>6, <2>2
  <2> QED
    BY <1>2, <1>4, <1>6, <2>1, <2>2, <2>3, ComparisonValid
<1>8. bridge'.history = Append(h, Entry)
  BY <1>1, <1>7 DEF h, n
<1> DEFINE g == Append(h, Entry)
<1>9. /\ IsSequence(g) /\ Len(g) = n + 1 /\ DOMAIN g = 1..(n + 1)
      /\ \A i \in DOMAIN h : g[i] = h[i]
      /\ g[n + 1] = Entry
  BY <1>4, AppendSequence DEF n
<1> HIDE DEF g
<1>10. EntryWhole(g, n + 1)
  <2>1. Entry.counts.collected + Entry.counts.review + Entry.counts.administrator = 18
    BY <1>2, <1>3, CountsSum
  <2>2. CASE n = 0
    BY <1>3, <1>4, <1>9, <2>1, <2>2 DEF EntryWhole, h
  <2>3. CASE n # 0
    <3>1. comparison = <<BuildComparison(h[n], new)>>
      BY <1>4, <2>3 DEF h, n, new
    <3>2. g[n] = h[n] /\ (n + 1) - 1 = n /\ n + 1 > 1
      BY <1>4, <1>9, <2>3
    <3>3. Entry.comparison # <<>> /\ Entry.comparison[1] = BuildComparison(h[n], new)
      BY <1>3, <3>1
    <3> QED
      BY <1>7, <1>9, <2>1, <2>3, <3>2, <3>3 DEF EntryWhole
  <2> QED
    BY <2>2, <2>3
<1>11. EntryStored(g, n + 1, bridge.attempt)
  BY <1>2, <1>3, <1>9, <1>10 DEF EntryStored
<1>12. ASSUME NEW i \in DOMAIN h PROVE EntryStored(g, i, bridge.attempt)
  <2>1. g[i] = h[i] /\ (i > 1 => g[i - 1] = h[i - 1])
    BY <1>4, <1>9
  <2> QED
    BY <1>5, <2>1 DEF EntryStored, EntryWhole
<1>13. \A i \in DOMAIN g : EntryStored(g, i, bridge.attempt)
  BY <1>4, <1>9, <1>11, <1>12
<1>14. g # <<>> /\ g[Len(g)].id = bridge.attempt
  BY <1>3, <1>4, <1>9
<1> QED
  BY <1>1, <1>8, <1>13, <1>14 DEF HistoryInv, Working, g

\* A step that stores nothing.
LEMMA HistoryFrame ==
  ASSUME HistoryInv, bridge'.history = bridge.history, bridge'.attempt = bridge.attempt,
         bridge'.status = "COMPLETED" => bridge.status = "COMPLETED",
         scan'.pc \in Working => scan.pc \in Working
  PROVE  HistoryInv'
  BY DEF HistoryInv

\* The inductive invariant of the results.
WholeInv == SettingsInv /\ EvidenceInv /\ ChildrenInv /\ HistoryInv

\* A program that has just started has no result.
LEMMA WholeInit == LauncherInit => WholeInv
<1> SUFFICES ASSUME LauncherInit PROVE WholeInv
  OBVIOUS
<1>1. bridge = Ready /\ scan = NoScan /\ children = <<>>
  BY DEF LauncherInit
<1>2. SettingsInv /\ EvidenceInv /\ HistoryInv
  BY <1>1, ReadyFacts DEF SettingsInv, Watched, EvidenceInv, HistoryInv, Gathering
<1>3. ChildrenInv
  BY <1>1 DEF ChildrenInv
<1> QED
  BY <1>2, <1>3 DEF WholeInv

\* Every step keeps WholeInv.
LEMMA WholeStep ==
  ASSUME ConsentInv, WholeInv, [LauncherNext]_launcherVars
  PROVE  WholeInv'
<1> USE DEF ConsentInv, WholeInv
<1>1. CASE ScanStep
  <2>1. children' = children /\ ChildrenInv'
    BY <1>1, ScanStepFrame DEF ScanFrame, ConsentFrame, ChildrenInv
  <2>2. HistoryInv'
    <3>1. CASE Commit
      BY <3>1, CommitKeeps
    <3>2. CASE ~Commit
      <4>1. /\ bridge'.history = bridge.history /\ bridge'.attempt = bridge.attempt
            /\ bridge'.status = "COMPLETED" => bridge.status = "COMPLETED"
        BY <1>1, <3>2, ScanStepFrame DEF ScanFrame, StoresNothing
      <4>2. scan'.pc \in Working => scan.pc \in Working
        BY <1>1, ScanStartsWorking
      <4> QED
        BY <4>1, <4>2, HistoryFrame
    <3> QED
      BY <3>1, <3>2
  <2> QED
    BY <1>1, <2>1, <2>2, ScanStepSettings, ScanStepEvidence
<1>2. ASSUME NEW action \in DOMAIN Allowed, NEW criteria \in Criteria \cup {<<>>}, BeginScan(action, criteria)
      PROVE  WholeInv'
  <2>1. /\ bridge'.history = bridge.history /\ bridge'.attempt = bridge.attempt + 1 /\ bridge.attempt \in Nat
        /\ bridge'.status = "RUNNING" /\ scan' = [NoScan EXCEPT !.pc = "created"] /\ children' = children
    BY <1>2, BeginScanKeeps DEF ConsentFrame, LauncherShape
  <2>2. scan'.pc = "created"
    BY <2>1 DEF NoScan
  <2>3. SettingsInv' /\ EvidenceInv' /\ ChildrenInv'
    BY <2>1, <2>2 DEF NoScan, SettingsInv, Watched, EvidenceInv, ChildrenInv, Gathering
  <2>4. HistoryInv'
    BY <2>1, <2>2 DEF HistoryInv, EntryStored
  <2> QED
    BY <2>3, <2>4
<1>3. CASE CancelScan
  <2>1. /\ bridge'.history = bridge.history /\ bridge'.attempt = bridge.attempt
        /\ bridge'.criteria = bridge.criteria /\ bridge'.status = "CANCELLING"
        /\ UNCHANGED <<scan, settings, children>>
    BY <1>3, CancelScanKeeps DEF ConsentFrame
  <2>2. SettingsInv' /\ EvidenceInv' /\ ChildrenInv'
    BY <2>1 DEF SettingsInv, EvidenceInv, ChildrenInv
  <2> QED
    BY <2>1, <2>2, HistoryFrame
<1>4. CASE LaunchStep
  <2>1. LaunchFrame
    BY <1>4, LaunchStepKeeps
  <2>2. SettingsInv' /\ EvidenceInv'
    BY <2>1 DEF LaunchFrame, SettingsInv, EvidenceInv
  <2>3. HistoryInv'
    BY <2>1, HistoryFrame DEF LaunchFrame
  <2> QED
    BY <1>4, <2>2, <2>3, LaunchStepChildren
<1>5. CASE ChangeSettings
  <2>1. /\ UNCHANGED <<bridge, children>>
        /\ scan' = scan \/ scan' = [scan EXCEPT !.changes = @ + 1]
    BY <1>5, ChangeSettingsKeeps DEF ConsentFrame
  <2>2. /\ scan'.pc = scan.pc /\ scan'.context = scan.context /\ scan'.observations = scan.observations
        /\ scan'.collected = scan.collected /\ scan'.rows = scan.rows
    BY <2>1 DEF LauncherShape, ScanFields
  <2>3. EvidenceInv' /\ ChildrenInv'
    BY <2>1, <2>2 DEF EvidenceInv, ChildrenInv
  <2> QED
    BY <1>5, <2>1, <2>2, <2>3, HistoryFrame, ChangeSettingsCounted
<1>6. CASE Relaunch
  <2>1. bridge' = Ready /\ scan' = NoScan /\ children' = children
    BY <1>6, RelaunchKeeps
  <2>2. SettingsInv' /\ EvidenceInv' /\ HistoryInv'
    BY <2>1, ReadyFacts DEF SettingsInv, Watched, EvidenceInv, HistoryInv, Gathering
  <2> QED
    BY <2>1, <2>2 DEF ChildrenInv
<1>7. CASE UNCHANGED launcherVars
  BY <1>7, HistoryFrame DEF launcherVars, SettingsInv, EvidenceInv, ChildrenInv
<1> QED
  BY <1>1, <1>2, <1>3, <1>4, <1>5, <1>6, <1>7, LauncherCases

\* COMPLETED shows the result of the latest attempt; no single change of the
\* digested surfaces goes unnoticed under a stored scan, and its storage probes met
\* others than the snapshots only where a change was undone; and the comparison
\* with the result before it is one the server accepts (_run_scan_job,
\* _verify_settings_unchanged, validate_recheck_comparison).
THEOREM StoredScansWhole == LauncherSpec => []StoredScanIsWhole
<1>1. WholeInv => StoredScanIsWhole
  BY DEF WholeInv, SettingsInv, HistoryInv, EntryStored, EntryWhole, StoredScanIsWhole
<1> QED
  BY <1>1, WholeInit, WholeStep, ConsentInvariant, PTL DEF LauncherSpec

\* No control is PASS, FAIL or N/A without its evidence, in the stored scans and
\* in the results of elevated children, whatever the scripts print and whatever
\* the criteria are (_selected_criteria_decision, evaluate_live_draft_observations).
THEOREM VerdictsHaveEvidence == LauncherSpec => []JudgedFromEvidence
<1>1. WholeInv => JudgedFromEvidence
  BY DEF WholeInv, ChildrenInv, ResultJudged, HistoryInv, EntryStored, RowsJudged, JudgedFromEvidence
<1> QED
  BY <1>1, WholeInit, WholeStep, ConsentInvariant, PTL DEF LauncherSpec
=============================================================================
