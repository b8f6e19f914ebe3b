------------------------- MODULE LinuxOneshotProofs -------------------------
(***************************************************************************)
(* Proofs about LinuxOneshot for every number of handlers, runs,           *)
(* distributions and packages and for every limit of attempts.             *)
(***************************************************************************)
EXTENDS LinuxOneshot, TLAPS

RunRow == [status : {"NONE", "WAITING_UPLOAD", "COMPLETED"}, dist : Dists \cup {"AUTO"},
           deleted : BOOLEAN, expired : BOOLEAN, sealed : BOOLEAN]
SubmissionRow == [archive : Archives, dist : Dists, profile : {"ONLINE", "OFFLINE"}]
CodeRow == [state : {"none", "issued", "used"}, failed : Nat]
CredRow == [state : {"none", "issued", "held", "used"}, failed : Nat,
            receipt : Archives \cup {None}]
Request == [pc : Pc, r : Runs \cup {None}, d : Dists \cup {None},
            rec : Dists \cup {"AUTO", None}, kind : {"ONLINE", "OFFLINE", None},
            archive : Archives \cup {None}]

\* Where a handler has loaded the run its package is for.
Packaged == {"staging", "validate", "commit", "receipt"}

\* What a handler has read of its run still holds: a distribution, once bound,
\* is never changed, and a submission never replaced.
Carries(q, runs, submissions) ==
  /\ q.pc # "idle" => q.r \in Runs /\ runs[q.r].status # "NONE"
  /\ q.pc = "load" => q.kind = "ONLINE"
  /\ q.pc \in Packaged => /\ q.kind \in {"ONLINE", "OFFLINE"}
                          /\ q.rec \in Dists \cup {"AUTO"}
                          /\ q.rec # "AUTO" => runs[q.r].dist = q.rec
  /\ q.pc \in Packaged \cup {"load"} /\ q.kind = "ONLINE" =>
       q.d \in Dists /\ runs[q.r].dist = q.d
  /\ q.pc \in {"validate", "commit", "receipt"} => q.archive \in Archives
  /\ q.pc = "commit" => q.rec # "AUTO" /\ runs[q.r].sealed
  /\ q.pc = "receipt" => /\ q.kind = "ONLINE"
                         /\ submissions[q.r] # None
                         /\ submissions[q.r].archive = q.archive
Carrying == \A h \in Handlers : Carries(req[h], run, submission)

\* A run whose code nobody has exchanged.
Unexchanged(r) ==
  /\ run[r].dist = "AUTO"
  /\ \A d \in Dists : cred[<<r, d>>].state = "none"
  /\ \A h \in Handlers : ~(req[h].pc = "bind" /\ req[h].r = r)

\* The code of a run is issued once and exchanged once, and the exchange is
\* followed by at most one binding.
CodeIssuedOnce ==
  /\ \A r \in Runs :
       /\ run[r].status = "NONE" => code[r].state = "none" /\ submission[r] = None
       /\ run[r].status = "NONE" \/ code[r].state = "issued" => Unexchanged(r)
  /\ \A h \in Handlers : req[h].pc = "issue" =>
       /\ code[req[h].r].state = "none"
       /\ Unexchanged(req[h].r)
       /\ \A g \in Handlers : req[g].pc = "issue" /\ req[g].r = req[h].r => g = h
BoundOnce ==
  \A h \in Handlers : req[h].pc = "bind" =>
    /\ req[h].d \in Dists
    /\ run[req[h].r].dist = "AUTO"
    /\ \A d \in Dists : d # req[h].d => cred[<<req[h].r, d>>].state = "none"
    /\ \A g \in Handlers : req[g].pc = "bind" /\ req[g].r = req[h].r => g = h

IInv ==
  TypeOK /\ Carrying /\ CodeIssuedOnce /\ BoundOnce /\ RunMatchesItsTables /\ ReceiptProvesResult

-----------------------------------------------------------------------------
(* What steps leave alone, and what that keeps of the invariant.           *)

\* No step takes back what a handler may have read.
Frame ==
  \A r \in Runs :
    /\ run[r].status # "NONE" => run'[r].status # "NONE"
    /\ run[r].dist # "AUTO" => run'[r].dist = run[r].dist
    /\ run[r].sealed => run'[r].sealed
    /\ submission[r] # None => submission'[r] = submission[r]

\* A step that neither creates, exchanges nor binds.
NoNewCode ==
  /\ \A r \in Runs : /\ run'[r].dist = run[r].dist
                     /\ run'[r].status = "NONE" <=> run[r].status = "NONE"
                     /\ code'[r].state = code[r].state
                     /\ run[r].status = "NONE" => submission'[r] = submission[r]
  /\ \A s \in Scopes : cred[s].state = "none" => cred'[s].state = "none"
  /\ \A h \in Handlers : req'[h] = req[h] \/ req'[h].pc \notin {"issue", "bind"}

\* A step that changes no submission and hands out no receipt.
NoNewResult ==
  /\ \A r \in Runs : run'[r].dist = run[r].dist /\ run'[r].status = run[r].status
  /\ submission' = submission
  /\ \A s \in Scopes : cred'[s].state = cred[s].state /\ cred'[s].receipt = cred[s].receipt

\* The types of the tables, as the invariant has them.
LEMMA Types ==
  ASSUME IInv
  PROVE  /\ run \in [Runs -> RunRow]
         /\ submission \in [Runs -> SubmissionRow \cup {None}]
         /\ code \in [Runs -> CodeRow]
         /\ cred \in [Scopes -> CredRow]
         /\ req \in [Handlers -> Request]
  BY DEF IInv, TypeOK, RunRow, SubmissionRow, CodeRow, CredRow, Request

\* The same functions give the type invariant of the next state.
LEMMA TypesSuffice ==
  ASSUME run' \in [Runs -> RunRow], submission' \in [Runs -> SubmissionRow \cup {None}],
         code' \in [Runs -> CodeRow], cred' \in [Scopes -> CredRow],
         req' \in [Handlers -> Request]
  PROVE  TypeOK'
  BY DEF TypeOK, RunRow, SubmissionRow, CodeRow, CredRow, Request

\* What the other handlers have read survives the step.
LEMMA CarryingKept ==
  ASSUME IInv, Frame,
         \A h \in Handlers : req'[h] = req[h] \/ Carries(req'[h], run', submission')
  PROVE  Carrying'
<1> SUFFICES ASSUME NEW h \in Handlers, Carries(req[h], run, submission)
             PROVE  Carries(req[h], run', submission')
  BY DEF Carrying, IInv
<1>1. req[h].pc # "idle" => req[h].r \in Runs
  BY DEF Carries
<1> QED
  BY <1>1, OneshotAssumption DEF Carries, Frame, Packaged

\* The rules of issuing, exchanging and binding survive a step without them.
LEMMA CodeRulesKept == ASSUME IInv, NoNewCode PROVE CodeIssuedOnce' /\ BoundOnce'
<1>1. ASSUME NEW h \in Handlers, req'[h].pc \in {"issue", "bind"}
      PROVE  /\ req'[h] = req[h] /\ req[h].r \in Runs
             /\ req[h].pc \in {"issue", "bind"}
  BY <1>1 DEF NoNewCode, IInv, Carrying, Carries
<1>2. ASSUME NEW r \in Runs, Unexchanged(r)
      PROVE  Unexchanged(r)'
  BY <1>1, <1>2 DEF Unexchanged, NoNewCode, Scopes
<1>3. CodeIssuedOnce'
  <2>1. ASSUME NEW r \in Runs
        PROVE  /\ run'[r].status = "NONE" => code'[r].state = "none" /\ submission'[r] = None
               /\ run'[r].status = "NONE" \/ code'[r].state = "issued" => Unexchanged(r)'
    BY <1>2 DEF IInv, CodeIssuedOnce, NoNewCode
  <2>2. ASSUME NEW h \in Handlers, req'[h].pc = "issue"
        PROVE  /\ code'[req'[h].r].state = "none"
               /\ Unexchanged(req[h].r)'
               /\ \A g \in Handlers : req'[g].pc = "issue" /\ req'[g].r = req'[h].r => g = h
    <3>1. req'[h] = req[h] /\ req[h].r \in Runs
      BY <1>1, <2>2
    <3>2. code[req[h].r].state = "none" /\ Unexchanged(req[h].r)
      BY <2>2, <3>1 DEF IInv, CodeIssuedOnce
    <3>3. ASSUME NEW g \in Handlers, req'[g].pc = "issue", req'[g].r = req'[h].r
          PROVE  g = h
      BY <1>1, <2>2, <3>1, <3>3 DEF IInv, CodeIssuedOnce
    <3>4. Unexchanged(req[h].r)'
      <4>1. PICK r \in Runs : r = req[h].r
        BY <3>1
      <4>2. Unexchanged(r)'
        BY <1>2, <3>2, <4>1
      <4> QED
        BY <3>1, <4>1, <4>2 DEF Unexchanged
    <3> QED
      BY <3>1, <3>2, <3>3, <3>4 DEF NoNewCode
  <2> QED
    BY <2>1, <2>2 DEF CodeIssuedOnce
<1>4. BoundOnce'
  <2> SUFFICES ASSUME NEW h \in Handlers, req'[h].pc = "bind"
               PROVE  /\ req'[h].d \in Dists
                      /\ run'[req'[h].r].dist = "AUTO"
                      /\ \A d \in Dists : d # req'[h].d => cred'[<<req'[h].r, d>>].state = "none"
                      /\ \A g \in Handlers :
                           req'[g].pc = "bind" /\ req'[g].r = req'[h].r => g = h
    BY DEF BoundOnce
  <2>1. req'[h] = req[h] /\ req[h].r \in Runs
    BY <1>1
  <2>2. req[h].d \in Dists /\ run'[req[h].r].dist = "AUTO"
    BY <2>1 DEF IInv, BoundOnce, NoNewCode
  <2>3. \A d \in Dists : d # req[h].d => cred'[<<req[h].r, d>>].state = "none"
    BY <2>1 DEF IInv, BoundOnce, NoNewCode, Scopes
  <2>4. ASSUME NEW g \in Handlers, req'[g].pc = "bind", req'[g].r = req'[h].r
        PROVE  g = h
    BY <1>1, <2>1, <2>4 DEF IInv, BoundOnce
  <2> QED
    BY <2>1, <2>2, <2>3, <2>4
<1> QED
  BY <1>3, <1>4

\* The tables keep agreeing when no result is stored and no receipt given.
LEMMA TablesKept ==
  ASSUME IInv, NoNewResult
  PROVE  RunMatchesItsTables' /\ ReceiptProvesResult'
<1>1. \A s \in Scopes : s[1] \in Runs
  BY DEF Scopes
<1> QED
  BY <1>1 DEF IInv, RunMatchesItsTables, ReceiptProvesResult, NoNewResult

\* A handler that only reads, or that waits for a file: everything but its own
\* place is left alone.
LEMMA ReadStep ==
  ASSUME IInv, NEW h \in Handlers, NEW q \in Request, Goto(h, q),
         q.pc \notin {"issue", "bind"}, Carries(q, run, submission),
         UNCHANGED <<run, submission, code, cred>>
  PROVE  IInv'
<1>1. TypeOK'
  BY Types, TypesSuffice DEF Goto
<1>2. \A g \in Handlers : req'[g] = IF g = h THEN q ELSE req[g]
  BY Types DEF Goto
<1>3. Carrying'
  <2>1. Frame
    BY DEF Frame
  <2>2. \A g \in Handlers : req'[g] = req[g] \/ Carries(req'[g], run', submission')
    BY <1>2
  <2> QED
    BY <2>1, <2>2, CarryingKept
<1>4. CodeIssuedOnce' /\ BoundOnce'
  BY <1>2, CodeRulesKept DEF NoNewCode
<1>5. RunMatchesItsTables' /\ ReceiptProvesResult'
  BY TablesKept DEF NoNewResult
<1> QED
  BY <1>1, <1>3, <1>4, <1>5 DEF IInv

\* A handler at rest has read nothing.
LEMMA IdleCarries ==
  ASSUME NEW runs, NEW submissions
  PROVE  Idle \in Request /\ Idle.pc = "idle" /\ Carries(Idle, runs, submissions)
  BY DEF Idle, Request, Pc, Carries, Packaged

\* A handler that ends, leaving everything else alone.
LEMMA FinishStep ==
  ASSUME IInv, NEW h \in Handlers, Finish(h), UNCHANGED <<run, submission, code, cred>>
  PROVE  IInv'
  BY IdleCarries, ReadStep DEF Finish

-----------------------------------------------------------------------------
(* Creating, exchanging and binding: one lemma per operation.              *)

\* The run inserted is one that nothing yet refers to; the runs replaced only
\* lose their place in the index.
LEMMA ProvisionKeeps == ASSUME IInv, NEW h \in Handlers, Provision(h) PROVE IInv'
<1> DEFINE pending == {p \in Runs : Active(p) /\ run[p].dist = "AUTO"}
<1>1. PICK r \in Runs :
        /\ run[r].status = "NONE"
        /\ run' = [x \in Runs |->
             IF x = r THEN [NoRun EXCEPT !.status = "WAITING_UPLOAD", !.sealed = TRUE]
             ELSE IF x \in pending THEN [run[x] EXCEPT !.deleted = TRUE]
             ELSE run[x]]
        /\ Goto(h, [Idle EXCEPT !.pc = "issue", !.r = r])
  BY DEF Provision
<1> HIDE DEF pending
<1>2. /\ run' \in [Runs -> RunRow]
      /\ run'[r].status = "WAITING_UPLOAD" /\ run'[r].dist = "AUTO"
      /\ \A x \in Runs : x # r => /\ run'[x].status = run[x].status
                                  /\ run'[x].dist = run[x].dist
                                  /\ run'[x].sealed = run[x].sealed
  <2>1. ASSUME NEW x \in Runs
        PROVE  /\ run'[x] \in RunRow
               /\ x = r => run'[x].status = "WAITING_UPLOAD" /\ run'[x].dist = "AUTO"
               /\ x # r => /\ run'[x].status = run[x].status
                           /\ run'[x].dist = run[x].dist
                           /\ run'[x].sealed = run[x].sealed
    <3>1. run[x] \in RunRow
      BY Types
    <3>2. CASE x = r
      BY <1>1, <3>2 DEF NoRun, RunRow
    <3>3. CASE x # r /\ x \in pending
      BY <1>1, <3>1, <3>3 DEF RunRow
    <3>4. CASE x # r /\ x \notin pending
      BY <1>1, <3>1, <3>4 DEF RunRow
    <3> QED
      BY <3>2, <3>3, <3>4
  <2> QED
    BY <1>1, <2>1
<1>3. /\ submission' = submission /\ code' = code /\ cred' = cred
      /\ req' \in [Handlers -> Request]
      /\ req'[h].pc = "issue" /\ req'[h].r = r
      /\ \A g \in Handlers : g # h => req'[g] = req[g]
  BY <1>1, Types DEF Provision, Goto, Idle, Request, Pc
<1>4. /\ code[r].state = "none" /\ submission[r] = None /\ Unexchanged(r)
      /\ run[r].dist = "AUTO"
  BY <1>1 DEF IInv, CodeIssuedOnce, Unexchanged
<1>5. TypeOK'
  BY <1>2, <1>3, Types, TypesSuffice
<1>6. Carrying'
  <2>1. Frame
    BY <1>1, <1>2, <1>3, <1>4 DEF Frame
  <2>2. Carries(req'[h], run', submission')
    BY <1>2, <1>3 DEF Carries, Packaged
  <2> QED
    BY <1>3, <2>1, <2>2, CarryingKept
<1>7. \A x \in Runs : Unexchanged(x) => Unexchanged(x)'
  BY <1>2, <1>3, <1>4 DEF Unexchanged
<1>8. CodeIssuedOnce'
  <2>1. ASSUME NEW x \in Runs
        PROVE  /\ run'[x].status = "NONE" => code'[x].state = "none" /\ submission'[x] = None
               /\ run'[x].status = "NONE" \/ code'[x].state = "issued" => Unexchanged(x)'
    BY <1>2, <1>3, <1>4, <1>7 DEF IInv, CodeIssuedOnce
  <2>2. ASSUME NEW g \in Handlers, req'[g].pc = "issue"
        PROVE  \E x \in Runs : /\ x = req'[g].r
                               /\ code'[x].state = "none" /\ Unexchanged(x)'
                               /\ \A f \in Handlers :
                                    req'[f].pc = "issue" /\ req'[f].r = x => f = g
    <3>1. \A f \in Handlers : f # h /\ req'[f].pc = "issue" =>
            req[f].r \in Runs /\ req'[f].r = req[f].r /\ req[f].r # r
      BY <1>1, <1>3 DEF IInv, Carrying, Carries
    <3>2. CASE g = h
      BY <1>3, <1>4, <1>7, <3>1, <3>2
    <3>3. CASE g # h
      BY <1>3, <1>7, <2>2, <3>1, <3>3 DEF IInv, CodeIssuedOnce
    <3> QED
      BY <3>2, <3>3
  <2> QED
    BY <2>1, <2>2 DEF CodeIssuedOnce, Unexchanged
<1>9. BoundOnce'
  <2>1. \A g \in Handlers : req'[g].pc = "bind" => req'[g] = req[g] /\ req[g].r \in Runs
    BY <1>3 DEF IInv, Carrying, Carries
  <2>2. \A x \in Runs : run'[x].dist = run[x].dist
    BY <1>2, <1>4
  <2> QED
    BY <1>3, <2>1, <2>2 DEF IInv, BoundOnce
<1>10. RunMatchesItsTables' /\ ReceiptProvesResult'
  <2>1. \A s \in Scopes : s[1] \in Runs
    BY DEF Scopes
  <2>2. \A x \in Runs : /\ run'[x].dist = run[x].dist
                        /\ run'[x].status = "COMPLETED" <=> run[x].status = "COMPLETED"
    BY <1>1, <1>2, <1>4
  <2> QED
    BY <1>3, <2>1, <2>2 DEF IInv, RunMatchesItsTables, ReceiptProvesResult
<1> QED
  BY <1>5, <1>6, <1>8, <1>9, <1>10 DEF IInv

\* The transaction of Provision has committed; the code of its run is issued.
LEMMA IssueChoicesKeeps == ASSUME IInv, NEW h \in Handlers, IssueChoices(h) PROVE IInv'
<1> DEFINE r == req[h].r
<1>1. /\ r \in Runs /\ run[r].status # "NONE"
      /\ code[r].state = "none" /\ Unexchanged(r)
      /\ \A g \in Handlers : req[g].pc = "issue" /\ req[g].r = r => g = h
  BY DEF IssueChoices, At, IInv, Carrying, Carries, CodeIssuedOnce
<1> HIDE DEF r
<1>2. /\ run' = run /\ submission' = submission /\ cred' = cred
      /\ code' \in [Runs -> CodeRow]
      /\ code'[r].state = "issued"
      /\ \A x \in Runs : x # r => code'[x] = code[x]
  BY <1>1, Types DEF IssueChoices, CodeRow, r
<1>3. /\ req' \in [Handlers -> Request]
      /\ \A g \in Handlers : req'[g] = IF g = h THEN Idle ELSE req[g]
  BY IdleCarries, Types DEF IssueChoices, Finish, Goto
<1>4. TypeOK'
  BY <1>2, <1>3, Types, TypesSuffice
<1>5. Carrying'
  BY <1>2, <1>3, IdleCarries, CarryingKept DEF Frame
<1>6. \A x \in Runs : Unexchanged(x) => Unexchanged(x)'
  BY <1>2, <1>3, IdleCarries DEF Unexchanged
<1>7. CodeIssuedOnce'
  <2>1. ASSUME NEW x \in Runs
        PROVE  /\ run'[x].status = "NONE" => code'[x].state = "none" /\ submission'[x] = None
               /\ run'[x].status = "NONE" \/ code'[x].state = "issued" => Unexchanged(x)'
    BY <1>1, <1>2, <1>6 DEF IInv, CodeIssuedOnce
  <2>2. ASSUME NEW g \in Handlers, req'[g].pc = "issue"
        PROVE  \E x \in Runs : /\ x = req'[g].r
                               /\ code'[x].state = "none" /\ Unexchanged(x)'
                               /\ \A f \in Handlers :
                                    req'[f].pc = "issue" /\ req'[f].r = x => f = g
    <3>1. g # h /\ req'[g] = req[g] /\ req[g].r \in Runs /\ req[g].r # r
      BY <1>1, <1>3, <2>2, IdleCarries DEF IInv, Carrying, Carries
    <3>2. \A f \in Handlers : req'[f].pc = "issue" => req'[f] = req[f]
      BY <1>3, IdleCarries
    <3> QED
      BY <1>2, <1>6, <2>2, <3>1, <3>2 DEF IInv, CodeIssuedOnce
  <2> QED
    BY <2>1, <2>2 DEF CodeIssuedOnce, Unexchanged
<1>8. BoundOnce'
  BY <1>2, <1>3, IdleCarries DEF IInv, BoundOnce
<1>9. RunMatchesItsTables' /\ ReceiptProvesResult'
  BY <1>2, TablesKept DEF NoNewResult
<1> QED
  BY <1>4, <1>5, <1>7, <1>8, <1>9 DEF IInv

\* The code is consumed before the credential is stored: no second exchange of
\* the run can follow, and no credential of it existed.
LEMMA ExchangeKeeps == ASSUME IInv, NEW h \in Handlers, Exchange(h) PROVE IInv'
<1>1. PICK r \in Runs, d \in Dists :
        /\ Consumable(r)
        /\ code' = [code EXCEPT ![r].state = "used"]
        /\ cred' = [cred EXCEPT ![<<r, d>>].state = "issued"]
        /\ Goto(h, [Idle EXCEPT !.pc = "bind", !.r = r, !.d = d])
  BY DEF Exchange
<1>2. code[r].state = "issued" /\ Unexchanged(r) /\ run[r].status # "NONE"
  BY <1>1 DEF Consumable, IInv, CodeIssuedOnce
<1>3. /\ run' = run /\ submission' = submission
      /\ code' \in [Runs -> CodeRow]
      /\ code'[r].state = "used"
      /\ \A x \in Runs : x # r => code'[x] = code[x]
  BY <1>1, Types DEF Exchange, CodeRow
<1>4. /\ <<r, d>> \in Scopes
      /\ cred' \in [Scopes -> CredRow]
      /\ cred'[<<r, d>>].state = "issued"
      /\ cred'[<<r, d>>].receipt = cred[<<r, d>>].receipt
      /\ \A s \in Scopes : s # <<r, d>> => cred'[s] = cred[s]
  <2>1. <<r, d>> \in Scopes
    BY DEF Scopes
  <2> HIDE DEF Scopes
  <2> QED
    BY <1>1, <2>1, Types DEF CredRow
<1>5. /\ req' \in [Handlers -> Request]
      /\ req'[h].pc = "bind" /\ req'[h].r = r /\ req'[h].d = d
      /\ \A g \in Handlers : g # h => req'[g] = req[g]
  BY <1>1, Types DEF Goto, Idle, Request, Pc
<1>6. TypeOK'
  BY <1>3, <1>4, <1>5, Types, TypesSuffice
<1>7. Carrying'
  <2>1. Carries(req'[h], run', submission')
    BY <1>2, <1>3, <1>5 DEF Carries, Packaged
  <2> QED
    BY <1>3, <1>5, <2>1, CarryingKept DEF Frame
<1>8. \A x \in Runs : x # r /\ Unexchanged(x) => Unexchanged(x)'
  <2> SUFFICES ASSUME NEW x \in Runs, x # r, Unexchanged(x)
               PROVE  Unexchanged(x)'
    OBVIOUS
  <2>1. ASSUME NEW e \in Dists PROVE cred'[<<x, e>>] = cred[<<x, e>>]
    BY <1>4 DEF Scopes
  <2> QED
    BY <1>3, <1>5, <2>1 DEF Unexchanged
<1>9. CodeIssuedOnce'
  <2>1. ASSUME NEW x \in Runs
        PROVE  /\ run'[x].status = "NONE" => code'[x].state = "none" /\ submission'[x] = None
               /\ run'[x].status = "NONE" \/ code'[x].state = "issued" => Unexchanged(x)'
    BY <1>2, <1>3, <1>8 DEF IInv, CodeIssuedOnce
  <2>2. ASSUME NEW g \in Handlers, req'[g].pc = "issue"
        PROVE  \E x \in Runs : /\ x = req'[g].r
                               /\ code'[x].state = "none" /\ Unexchanged(x)'
                               /\ \A f \in Handlers :
                                    req'[f].pc = "issue" /\ req'[f].r = x => f = g
    <3>1. g # h /\ req'[g] = req[g] /\ req[g].r \in Runs
      BY <1>5, <2>2 DEF IInv, Carrying, Carries
    <3>2. code[req[g].r].state = "none" /\ Unexchanged(req[g].r) /\ req[g].r # r
      BY <1>2, <2>2, <3>1 DEF IInv, CodeIssuedOnce
    <3>3. \A f \in Handlers : req'[f].pc = "issue" => req'[f] = req[f]
      BY <1>5
    <3> QED
      BY <1>3, <1>8, <2>2, <3>1, <3>2, <3>3 DEF IInv, CodeIssuedOnce
  <2> QED
    BY <2>1, <2>2 DEF CodeIssuedOnce, Unexchanged
<1>10. BoundOnce'
  <2> SUFFICES ASSUME NEW g \in Handlers, req'[g].pc = "bind"
               PROVE  /\ req'[g].d \in Dists
                      /\ run'[req'[g].r].dist = "AUTO"
                      /\ \A e \in Dists : e # req'[g].d => cred'[<<req'[g].r, e>>].state = "none"
                      /\ \A f \in Handlers :
                           req'[f].pc = "bind" /\ req'[f].r = req'[g].r => f = g
    BY DEF BoundOnce
  <2>1. \A f \in Handlers : f # h /\ req'[f].pc = "bind" =>
          req'[f] = req[f] /\ req[f].r \in Runs /\ req[f].r # r
    BY <1>2, <1>5 DEF IInv, Carrying, Carries, Unexchanged
  <2>2. CASE g = h
    <3>1. \A e \in Dists : e # d => cred'[<<r, e>>].state = "none"
      BY <1>2, <1>4 DEF Unexchanged, Scopes
    <3> QED
      BY <1>2, <1>3, <1>5, <2>1, <2>2, <3>1 DEF Unexchanged
  <2>3. CASE g # h
    <3>1. \A e \in Dists : cred'[<<req[g].r, e>>] = cred[<<req[g].r, e>>]
      BY <1>4, <2>1, <2>3 DEF Scopes
    <3> QED
      BY <1>3, <1>5, <2>1, <2>3, <3>1 DEF IInv, BoundOnce
  <2> QED
    BY <2>2, <2>3
<1>11. RunMatchesItsTables'
  <2>1. ASSUME NEW s \in Scopes, cred'[s].state # "none"
        PROVE  /\ run'[s[1]].dist \in {"AUTO", s[2]}
               /\ cred'[s].state \in {"held", "used"} => run'[s[1]].dist = s[2]
    <3>1. CASE s = <<r, d>>
      BY <1>2, <1>3, <1>4, <3>1 DEF Unexchanged
    <3>2. CASE s # <<r, d>>
      BY <1>3, <1>4, <2>1, <3>2 DEF IInv, RunMatchesItsTables
    <3> QED
      BY <3>1, <3>2
  <2> QED
    BY <1>3, <2>1 DEF IInv, RunMatchesItsTables
<1>12. ReceiptProvesResult'
  BY <1>3, <1>4 DEF IInv, ReceiptProvesResult
<1> QED
  BY <1>6, <1>7, <1>9, <1>10, <1>11, <1>12 DEF IInv

\* Binding names the distribution of a run that had none, and gives the
\* collector the only credential of the run.
LEMMA BindPlatformKeeps == ASSUME IInv, NEW h \in Handlers, BindPlatform(h) PROVE IInv'
<1> DEFINE r == req[h].r
           d == req[h].d
<1>1. /\ r \in Runs /\ d \in Dists
      /\ run[r].status = "WAITING_UPLOAD" /\ run[r].dist = "AUTO"
      /\ \A e \in Dists : e # d => cred[<<r, e>>].state = "none"
      /\ \A g \in Handlers : req[g].pc = "bind" /\ req[g].r = r => g = h
  BY DEF BindPlatform, At, Bindable, IInv, Carrying, Carries, BoundOnce
<1>2. ~Unexchanged(r)
  BY DEF BindPlatform, At, Unexchanged
<1>3. /\ submission' = submission /\ code' = code
      /\ run' = [run EXCEPT ![r].dist = d]
      /\ cred' = [cred EXCEPT ![<<r, d>>].state = "held"] \/ cred' = cred
  BY DEF BindPlatform, Scope
<1>4. /\ req' \in [Handlers -> Request]
      /\ \A g \in Handlers : req'[g] = IF g = h THEN Idle ELSE req[g]
  BY IdleCarries, Types DEF BindPlatform, Finish, Goto
<1> HIDE DEF r, d
<1>5. /\ run' \in [Runs -> RunRow]
      /\ run'[r].dist = d /\ d # "AUTO" /\ run'[r].status = run[r].status
      /\ run'[r].sealed = run[r].sealed
      /\ \A x \in Runs : x # r => run'[x] = run[x]
  BY <1>1, <1>3, Types, OneshotAssumption DEF RunRow
<1>6. /\ <<r, d>> \in Scopes
      /\ cred' \in [Scopes -> CredRow]
      /\ cred'[<<r, d>>].receipt = cred[<<r, d>>].receipt
      /\ \A s \in Scopes : s # <<r, d>> => cred'[s] = cred[s]
  <2>1. <<r, d>> \in Scopes
    BY <1>1 DEF Scopes
  <2> QED
    BY <1>3, <2>1, Types DEF CredRow
<1>7. TypeOK'
  BY <1>3, <1>4, <1>5, <1>6, Types, TypesSuffice
<1>8. Carrying'
  <2>1. Frame
    BY <1>1, <1>3, <1>5 DEF Frame
  <2> QED
    BY <1>4, <2>1, IdleCarries, CarryingKept
<1>9. \A x \in Runs : Unexchanged(x) => x # r /\ Unexchanged(x)'
  <2> SUFFICES ASSUME NEW x \in Runs, Unexchanged(x), x # r
               PROVE  Unexchanged(x)'
    BY <1>2
  <2>1. ASSUME NEW e \in Dists PROVE cred'[<<x, e>>] = cred[<<x, e>>]
    BY <1>6 DEF Scopes
  <2> QED
    BY <1>4, <1>5, <2>1, IdleCarries DEF Unexchanged
<1>10. CodeIssuedOnce'
  <2>1. ASSUME NEW x \in Runs
        PROVE  /\ run'[x].status = "NONE" => code'[x].state = "none" /\ submission'[x] = None
               /\ run'[x].status = "NONE" \/ code'[x].state = "issued" => Unexchanged(x)'
    BY <1>1, <1>3, <1>5, <1>9 DEF IInv, CodeIssuedOnce
  <2>2. ASSUME NEW g \in Handlers, req'[g].pc = "issue"
        PROVE  \E x \in Runs : /\ x = req'[g].r
                               /\ code'[x].state = "none" /\ Unexchanged(x)'
                               /\ \A f \in Handlers :
                                    req'[f].pc = "issue" /\ req'[f].r = x => f = g
    <3>1. g # h /\ req'[g] = req[g] /\ req[g].r \in Runs
      BY <1>4, <2>2, IdleCarries DEF IInv, Carrying, Carries
    <3>2. \A f \in Handlers : req'[f].pc = "issue" => req'[f] = req[f]
      BY <1>4, IdleCarries
    <3> QED
      BY <1>3, <1>9, <2>2, <3>1, <3>2 DEF IInv, CodeIssuedOnce
  <2> QED
    BY <2>1, <2>2 DEF CodeIssuedOnce, Unexchanged
<1>11. BoundOnce'
  <2> SUFFICES ASSUME NEW g \in Handlers, req'[g].pc = "bind"
               PROVE  /\ req'[g].d \in Dists
                      /\ run'[req'[g].r].dist = "AUTO"
                      /\ \A e \in Dists : e # req'[g].d => cred'[<<req'[g].r, e>>].state = "none"
                      /\ \A f \in Handlers :
                           req'[f].pc = "bind" /\ req'[f].r = req'[g].r => f = g
    BY DEF BoundOnce
  <2>1. \A f \in Handlers : req'[f].pc = "bind" =>
          req'[f] = req[f] /\ req[f].r \in Runs /\ req[f].r # r
    BY <1>1, <1>4, IdleCarries DEF IInv, Carrying, Carries
  <2>2. \A e \in Dists : cred'[<<req[g].r, e>>] = cred[<<req[g].r, e>>]
    BY <1>6, <2>1 DEF Scopes
  <2> QED
    BY <1>5, <2>1, <2>2 DEF IInv, BoundOnce
<1>12. RunMatchesItsTables'
  <2>1. submission[r] = None
    BY <1>1 DEF IInv, RunMatchesItsTables
  <2>2. ASSUME NEW s \in Scopes, cred'[s].state # "none"
        PROVE  /\ run'[s[1]].dist \in {"AUTO", s[2]}
               /\ cred'[s].state \in {"held", "used"} => run'[s[1]].dist = s[2]
    <3>1. CASE s = <<r, d>>
      BY <1>5, <3>1
    <3>2. CASE s # <<r, d>>
      <4>1. cred'[s] = cred[s]
        BY <1>6, <3>2
      <4>2. s[1] # r
        BY <1>1, <2>2, <3>2, <4>1 DEF Scopes
      <4>3. run'[s[1]] = run[s[1]]
        BY <1>5, <4>2 DEF Scopes
      <4> QED
        BY <2>2, <4>1, <4>3 DEF IInv, RunMatchesItsTables
    <3> QED
      BY <3>1, <3>2
  <2> QED
    BY <1>1, <1>3, <1>5, <2>1, <2>2 DEF IInv, RunMatchesItsTables
<1>13. ReceiptProvesResult'
  BY <1>3, <1>5, <1>6 DEF IInv, ReceiptProvesResult, Scopes
<1> QED
  BY <1>7, <1>8, <1>10, <1>11, <1>12, <1>13 DEF IInv

-----------------------------------------------------------------------------
(* Submitting: one lemma per operation.                                    *)

\* A submission is for the scope of a credential its collector holds, and the
\* run of that scope is bound to its distribution.
LEMMA SubmitKeeps == ASSUME IInv, NEW h \in Handlers, Submit(h) PROVE IInv'
<1>1. PICK s \in Scopes :
        /\ CredentialLive(s)
        /\ Goto(h, [Idle EXCEPT !.pc = "load", !.r = s[1], !.d = s[2], !.kind = "ONLINE"])
  BY DEF Submit
<1> DEFINE q == [Idle EXCEPT !.pc = "load", !.r = s[1], !.d = s[2], !.kind = "ONLINE"]
<1>2. /\ s[1] \in Runs /\ s[2] \in Dists
      /\ run[s[1]].dist = s[2] /\ s[2] # "AUTO"
  BY <1>1, OneshotAssumption DEF Scopes, CredentialLive, IInv, RunMatchesItsTables
<1>3. run[s[1]].status # "NONE"
  BY <1>2 DEF IInv, CodeIssuedOnce, Unexchanged
<1>4. /\ q \in Request /\ q.pc = "load" /\ q.r = s[1] /\ q.d = s[2] /\ q.kind = "ONLINE"
  BY <1>2 DEF Idle, Request, Pc
<1>5. Goto(h, q)
  BY <1>1
<1> HIDE DEF q
<1>6. Carries(q, run, submission)
  BY <1>2, <1>3, <1>4 DEF Carries, Packaged
<1> QED
  BY <1>4, <1>5, <1>6, ReadStep DEF Submit

\* The distribution loaded is the one the run is bound to; a run found deleted
\* ends the request.
LEMMA LoadRunKeeps == ASSUME IInv, NEW h \in Handlers, LoadRun(h) PROVE IInv'
<1> DEFINE q == [req[h] EXCEPT !.pc = "staging", !.rec = run[req[h].r].dist]
<1>1. req[h] \in Request /\ req[h].pc = "load" /\ Carries(req[h], run, submission)
  BY Types DEF LoadRun, At, IInv, Carrying
<1>2. CASE Finish(h)
  BY <1>2, FinishStep DEF LoadRun
<1>3. CASE Goto(h, q)
  <2>1. req[h].r \in Runs /\ run[req[h].r].dist \in Dists \cup {"AUTO"}
    BY <1>1, Types DEF Carries, RunRow
  <2>2. /\ q \in Request /\ q.pc = "staging" /\ q.r = req[h].r /\ q.d = req[h].d
        /\ q.kind = req[h].kind /\ q.rec = run[req[h].r].dist
    BY <1>1, <2>1 DEF Request, Pc
  <2> HIDE DEF q
  <2>3. Carries(q, run, submission)
    BY <1>1, <2>1, <2>2 DEF Carries, Packaged
  <2> QED
    BY <1>3, <2>2, <2>3, ReadStep DEF LoadRun
<1> QED
  BY <1>2, <1>3 DEF LoadRun

\* The owner uploads for a run as it is bound now, or not bound at all.
LEMMA UploadKeeps == ASSUME IInv, NEW h \in Handlers, Upload(h) PROVE IInv'
<1>1. PICK r \in Runs :
        /\ run[r].status # "NONE"
        /\ Goto(h, [Idle EXCEPT !.pc = "staging", !.r = r, !.rec = run[r].dist,
                                !.kind = "OFFLINE"])
  BY DEF Upload
<1> DEFINE q == [Idle EXCEPT !.pc = "staging", !.r = r, !.rec = run[r].dist,
                             !.kind = "OFFLINE"]
<1>2. run[r].dist \in Dists \cup {"AUTO"}
  BY Types DEF RunRow
<1>3. /\ q \in Request /\ q.pc = "staging" /\ q.r = r /\ q.kind = "OFFLINE"
      /\ q.rec = run[r].dist
  BY <1>2 DEF Idle, Request, Pc
<1>4. Goto(h, q)
  BY <1>1
<1> HIDE DEF q
<1>5. Carries(q, run, submission)
  BY <1>1, <1>2, <1>3 DEF Carries, Packaged
<1> QED
  BY <1>3, <1>4, <1>5, ReadStep DEF Upload

\* The distribution was read before the file was awaited, and still holds.
LEMMA StageUploadKeeps == ASSUME IInv, NEW h \in Handlers, StageUpload(h) PROVE IInv'
<1>1. req[h] \in Request /\ req[h].pc = "staging" /\ Carries(req[h], run, submission)
  BY Types DEF StageUpload, At, IInv, Carrying
<1>2. CASE Finish(h)
  BY <1>2, FinishStep DEF StageUpload
<1>3. ASSUME NEW a \in Archives, Goto(h, [req[h] EXCEPT !.pc = "validate", !.archive = a])
      PROVE  IInv'
  <2> DEFINE q == [req[h] EXCEPT !.pc = "validate", !.archive = a]
  <2>1. /\ q \in Request /\ q.pc = "validate" /\ q.r = req[h].r /\ q.d = req[h].d
        /\ q.kind = req[h].kind /\ q.rec = req[h].rec /\ q.archive = a
    BY <1>1 DEF Request, Pc
  <2>2. Goto(h, q)
    BY <1>3
  <2> HIDE DEF q
  <2>3. Carries(q, run, submission)
    BY <1>1, <2>1 DEF Carries, Packaged
  <2> QED
    BY <2>1, <2>2, <2>3, ReadStep DEF StageUpload
<1> QED
  BY <1>2, <1>3 DEF StageUpload

\* A package passes only when the run is bound and its manifest was signed by
\* the key of this process.
LEMMA ValidateKeeps == ASSUME IInv, NEW h \in Handlers, Validate(h) PROVE IInv'
<1>1. req[h] \in Request /\ req[h].pc = "validate" /\ Carries(req[h], run, submission)
  BY Types DEF Validate, At, IInv, Carrying
<1>2. CASE Finish(h)
  BY <1>2, FinishStep DEF Validate
<1>3. CASE /\ Identified(req[h].rec) /\ SignedHere(req[h].r)
           /\ To(h, AfterValidation(req[h].kind))
  <2> DEFINE q == [req[h] EXCEPT !.pc = "commit"]
  <2>1. /\ q \in Request /\ q.pc = "commit" /\ q.r = req[h].r /\ q.d = req[h].d
        /\ q.kind = req[h].kind /\ q.rec = req[h].rec /\ q.archive = req[h].archive
    BY <1>1 DEF Request, Pc
  <2>2. Goto(h, q)
    BY <1>3 DEF To, AfterValidation
  <2> HIDE DEF q
  <2>3. Carries(q, run, submission)
    BY <1>1, <1>3, <2>1 DEF Carries, Packaged, Identified, SignedHere
  <2> QED
    BY <2>1, <2>2, <2>3, ReadStep DEF Validate
<1> QED
  BY <1>2, <1>3 DEF Validate

\* The row of the run is locked: whoever commits first stores the result, and
\* the same package again is answered from the row that is there.
LEMMA CommitResultKeeps == ASSUME IInv, NEW h \in Handlers, CommitResult(h) PROVE IInv'
<1> DEFINE r == req[h].r
           q == [req[h] EXCEPT !.pc = "receipt"]
<1>1. /\ req[h] \in Request /\ req[h].pc = "commit" /\ Carries(req[h], run, submission)
      /\ r \in Runs /\ run[r] \in RunRow
  BY Types DEF CommitResult, At, IInv, Carrying, Carries
<1>2. /\ q \in Request /\ q.pc = "receipt" /\ q.r = r /\ q.d = req[h].d
      /\ q.kind = req[h].kind /\ q.rec = req[h].rec /\ q.archive = req[h].archive
  BY <1>1 DEF Request, Pc
<1>3. AfterCommit(h) => (Goto(h, q) /\ q.kind = "ONLINE") \/ Finish(h)
  BY <1>2 DEF AfterCommit, To
<1> HIDE DEF q
<1>4. ASSUME UNCHANGED <<run, submission, code, cred>>, Finish(h)
      PROVE  IInv'
  BY <1>4, FinishStep
<1>5. ASSUME submission[r] # None, submission[r].archive = req[h].archive, AfterCommit(h),
             UNCHANGED <<run, submission, code, cred>>
      PROVE  IInv'
  <2>1. ASSUME Goto(h, q), q.kind = "ONLINE"
        PROVE  IInv'
    <3>1. Carries(q, run, submission)
      BY <1>1, <1>2, <1>5, <2>1 DEF Carries, Packaged
    <3> QED
      BY <1>2, <1>5, <2>1, <3>1, ReadStep
  <2> QED
    BY <1>3, <1>4, <1>5, <2>1
<1>6. ASSUME submission[r] = None, run[r].status = "WAITING_UPLOAD",
             submission' = [submission EXCEPT ![r] = Stored(h)],
             run' = [run EXCEPT ![r] = Completed(@)],
             AfterCommit(h), UNCHANGED <<code, cred>>
      PROVE  IInv'
  <2>1. /\ req[h].rec \in Dists /\ run[r].dist = req[h].rec /\ req[h].rec # "AUTO"
        /\ req[h].archive \in Archives /\ req[h].kind \in {"ONLINE", "OFFLINE"}
    BY <1>1 DEF Carries, Packaged
  <2>2. /\ Stored(h) \in SubmissionRow
        /\ Stored(h).dist = req[h].rec /\ Stored(h).archive = req[h].archive
    BY <2>1 DEF Stored, SubmissionRow
  <2>3. Stored(h) # None
    BY <2>2, OneshotAssumption DEF SubmissionRow
  <2> HIDE DEF r
  <2>4. /\ submission' \in [Runs -> SubmissionRow \cup {None}]
        /\ submission'[r] = Stored(h)
        /\ \A x \in Runs : x # r => submission'[x] = submission[x]
    BY <1>1, <1>6, <2>2, Types
  <2>5. /\ run' \in [Runs -> RunRow]
        /\ run'[r].status = "COMPLETED" /\ run'[r].dist = run[r].dist
        /\ run'[r].sealed = run[r].sealed
        /\ \A x \in Runs : x # r => run'[x] = run[x]
    BY <1>1, <1>6, Types DEF Completed, RunRow
  <2>6. PICK p \in {q, Idle} : /\ Goto(h, p)
                               /\ p = q => q.kind = "ONLINE"
    BY <1>2, <1>3, <1>6, IdleCarries DEF Finish
  <2>7. /\ p \in Request /\ p.pc \notin {"issue", "bind"}
        /\ Carries(p, run', submission')
    <3>1. CASE p = Idle
      BY <3>1, IdleCarries
    <3>2. CASE p = q
      BY <1>1, <1>2, <2>1, <2>2, <2>3, <2>4, <2>5, <2>6, <3>2 DEF Carries, Packaged, r
    <3> QED
      BY <2>6, <3>1, <3>2
  <2>8. /\ req' \in [Handlers -> Request]
        /\ \A g \in Handlers : req'[g] = IF g = h THEN p ELSE req[g]
    BY <2>6, <2>7, Types DEF Goto
  <2>9. TypeOK'
    BY <1>6, <2>4, <2>5, <2>8, Types, TypesSuffice
  <2>10. Carrying'
    <3>1. Frame
      BY <1>6, <2>4, <2>5 DEF Frame
    <3> QED
      BY <2>7, <2>8, <3>1, CarryingKept
  <2>11. CodeIssuedOnce' /\ BoundOnce'
    <3>1. NoNewCode
      BY <1>6, <2>4, <2>5, <2>7, <2>8 DEF NoNewCode
    <3> QED
      BY <3>1, CodeRulesKept
  <2>12. RunMatchesItsTables'
    <3>1. \A x \in Runs : run'[x].dist = run[x].dist
      BY <2>5
    <3>2. \A s \in Scopes : s[1] \in Runs
      BY DEF Scopes
    <3>3. \A x \in Runs : /\ run'[x].status = "COMPLETED" <=> submission'[x] # None
                          /\ submission'[x] # None => /\ run'[x].dist # "AUTO"
                                                      /\ submission'[x].dist = run'[x].dist
      BY <2>1, <2>2, <2>3, <2>4, <2>5 DEF IInv, RunMatchesItsTables
    <3> QED
      BY <1>6, <3>1, <3>2, <3>3 DEF IInv, RunMatchesItsTables
  <2>13. ReceiptProvesResult'
    BY <1>6, <2>4, <2>5 DEF IInv, ReceiptProvesResult, Scopes
  <2> QED
    BY <2>9, <2>10, <2>11, <2>12, <2>13 DEF IInv
<1> QED
  BY <1>4, <1>5, <1>6 DEF CommitResult

\* The receipt is for the package that the database already holds.
LEMMA CommitCredentialKeeps ==
  ASSUME IInv, NEW h \in Handlers, CommitCredential(h)
  PROVE  IInv'
<1> DEFINE s == Scope(h)
<1>1. /\ req[h].r \in Runs /\ req[h].d \in Dists /\ req[h].archive \in Archives
      /\ run[req[h].r].dist = req[h].d
      /\ submission[req[h].r] # None /\ submission[req[h].r].archive = req[h].archive
  BY DEF CommitCredential, At, IInv, Carrying, Carries, Packaged
<1>2. s \in Scopes /\ s[1] = req[h].r /\ s[2] = req[h].d
  BY <1>1 DEF Scope, Scopes
<1>3. CASE UNCHANGED cred
  BY <1>3, FinishStep DEF CommitCredential
<1>4. CASE /\ CredentialLive(s)
           /\ cred' = [cred EXCEPT ![s].state = "used", ![s].receipt = req[h].archive]
  <2>1. cred[s].state = "held"
    BY <1>4 DEF CredentialLive
  <2> HIDE DEF s
  <2>2. /\ cred' \in [Scopes -> CredRow]
        /\ cred'[s].state = "used" /\ cred'[s].receipt = req[h].archive
        /\ \A t \in Scopes : t # s => cred'[t] = cred[t]
    BY <1>1, <1>2, <1>4, Types DEF CredRow
  <2>3. /\ req' \in [Handlers -> Request]
        /\ \A g \in Handlers : req'[g] = IF g = h THEN Idle ELSE req[g]
    BY IdleCarries, Types DEF CommitCredential, Finish, Goto
  <2>4. UNCHANGED <<run, submission, code>>
    BY DEF CommitCredential
  <2>5. TypeOK'
    BY <2>2, <2>3, <2>4, Types, TypesSuffice
  <2>6. Carrying'
    <3>1. Frame
      BY <2>4 DEF Frame
    <3> QED
      BY <2>3, <3>1, IdleCarries, CarryingKept
  <2>7. CodeIssuedOnce' /\ BoundOnce'
    <3>1. NoNewCode
      BY <2>1, <2>2, <2>3, <2>4, IdleCarries DEF NoNewCode
    <3> QED
      BY <3>1, CodeRulesKept
  <2>8. RunMatchesItsTables'
    BY <1>1, <1>2, <2>2, <2>4 DEF IInv, RunMatchesItsTables
  <2>9. ReceiptProvesResult'
    <3>1. /\ submission[s[1]].dist = s[2] /\ run[s[1]].status = "COMPLETED"
      BY <1>1, <1>2 DEF IInv, RunMatchesItsTables
    <3> QED
      BY <1>1, <1>2, <2>2, <2>4, <3>1 DEF IInv, ReceiptProvesResult
  <2> QED
    BY <2>5, <2>6, <2>7, <2>8, <2>9 DEF IInv
<1> QED
  BY <1>3, <1>4 DEF CommitCredential

-----------------------------------------------------------------------------
(* Attempts, deletion, time and the restart.                               *)

\* A wrong code and a damaged credential only count.
LEMMA AttemptKeeps ==
  ASSUME IInv, (\E r \in Runs : WrongCode(r)) \/ (\E s \in Scopes : DamagedToken(s))
  PROVE  IInv'
<1>1. UNCHANGED <<run, submission, req>>
  BY DEF WrongCode, DamagedToken
<1>2. /\ code' \in [Runs -> CodeRow]
      /\ \A r \in Runs : code'[r].state = code[r].state
  BY Types DEF WrongCode, DamagedToken, CodeRow
<1>3. /\ cred' \in [Scopes -> CredRow]
      /\ \A s \in Scopes : cred'[s].state = cred[s].state /\ cred'[s].receipt = cred[s].receipt
  <2>1. CASE \E r \in Runs : WrongCode(r)
    BY <2>1, Types DEF WrongCode
  <2>2. CASE \E s \in Scopes : DamagedToken(s)
    BY <2>2, Types DEF DamagedToken, CredRow
  <2> QED
    BY <2>1, <2>2
<1>4. TypeOK'
  BY <1>1, <1>2, <1>3, Types, TypesSuffice
<1>5. Carrying'
  BY <1>1, CarryingKept DEF Frame
<1>6. CodeIssuedOnce' /\ BoundOnce'
  BY <1>1, <1>2, <1>3, CodeRulesKept DEF NoNewCode
<1>7. RunMatchesItsTables' /\ ReceiptProvesResult'
  BY <1>1, <1>3, TablesKept DEF NoNewResult
<1> QED
  BY <1>4, <1>5, <1>6, <1>7 DEF IInv

\* A deleted run, and one whose manifest expires, keeps its binding and its
\* result.
LEMMA MarkKeeps ==
  ASSUME IInv, NEW r \in Runs, MarkDeleted(r) \/ ManifestExpires(r)
  PROVE  IInv'
<1>1. UNCHANGED <<submission, code, cred, req>>
  BY DEF MarkDeleted, ManifestExpires
<1>2. /\ run' \in [Runs -> RunRow]
      /\ \A x \in Runs : /\ run'[x].status = run[x].status
                         /\ run'[x].dist = run[x].dist
                         /\ run'[x].sealed = run[x].sealed
  <2>1. CASE run' = [run EXCEPT ![r].deleted = TRUE]
    BY <2>1, Types DEF RunRow
  <2>2. CASE run' = [run EXCEPT ![r].expired = TRUE]
    BY <2>2, Types DEF RunRow
  <2> QED
    BY <2>1, <2>2 DEF MarkDeleted, ManifestExpires
<1>3. TypeOK'
  BY <1>1, <1>2, Types, TypesSuffice
<1>4. Carrying'
  BY <1>1, <1>2, CarryingKept DEF Frame
<1>5. CodeIssuedOnce' /\ BoundOnce'
  BY <1>1, <1>2, CodeRulesKept DEF NoNewCode
<1>6. RunMatchesItsTables' /\ ReceiptProvesResult'
  BY <1>1, <1>2, TablesKept DEF NoNewResult
<1> QED
  BY <1>3, <1>4, <1>5, <1>6 DEF IInv

\* A restart forgets codes, credentials and requests; the rows stay, and a run
\* whose code is gone is never issued another.
LEMMA RestartKeeps == ASSUME IInv, Restart PROVE IInv'
<1>1. /\ run' \in [Runs -> RunRow]
      /\ \A r \in Runs : run'[r].status = run[r].status /\ run'[r].dist = run[r].dist
  BY Types DEF Restart, RunRow
<1>2. /\ submission' = submission
      /\ code' \in [Runs -> CodeRow] /\ \A r \in Runs : code'[r].state = "none"
  BY DEF Restart, NoCode, CodeRow
<1>3. /\ cred' \in [Scopes -> CredRow]
      /\ \A s \in Scopes : cred'[s].state = "none" /\ cred'[s].receipt = None
  BY DEF Restart, NoCred, CredRow
<1>4. /\ req' \in [Handlers -> Request] /\ \A h \in Handlers : req'[h] = Idle
  BY IdleCarries DEF Restart
<1>5. TypeOK'
  BY <1>1, <1>2, <1>3, <1>4, Types, TypesSuffice
<1>6. Carrying'
  BY <1>4, IdleCarries DEF Carrying
<1>7. CodeIssuedOnce' /\ BoundOnce'
  <2>1. \A r \in Runs : run[r].status = "NONE" => run[r].dist = "AUTO" /\ submission[r] = None
    BY DEF IInv, CodeIssuedOnce, Unexchanged
  <2>2. \A r \in Runs, d \in Dists : cred'[<<r, d>>].state = "none"
    BY <1>3 DEF Scopes
  <2> QED
    BY <1>1, <1>2, <1>4, <2>1, <2>2, IdleCarries DEF CodeIssuedOnce, BoundOnce, Unexchanged
<1>8. RunMatchesItsTables' /\ ReceiptProvesResult'
  BY <1>1, <1>2, <1>3 DEF IInv, RunMatchesItsTables, ReceiptProvesResult
<1> QED
  BY <1>5, <1>6, <1>7, <1>8 DEF IInv

-----------------------------------------------------------------------------
\* Nothing exists when the process starts with an empty database.
LEMMA InitEstablishes == Init => IInv
<1> SUFFICES ASSUME Init PROVE IInv
  OBVIOUS
<1>1. /\ \A r \in Runs : run[r] = NoRun /\ submission[r] = None /\ code[r] = NoCode
      /\ \A s \in Scopes : cred[s] = NoCred
      /\ \A h \in Handlers : req[h] = Idle
  BY DEF Init
<1>2. TypeOK
  BY DEF Init, NoRun, NoCode, NoCred, Idle, TypeOK, Pc
<1>3. Carrying
  BY <1>1, IdleCarries DEF Carrying
<1>4. CodeIssuedOnce /\ BoundOnce
  <2>1. \A r \in Runs, d \in Dists : cred[<<r, d>>].state = "none"
    BY <1>1 DEF NoCred, Scopes
  <2> QED
    BY <1>1, <2>1, IdleCarries DEF CodeIssuedOnce, BoundOnce, Unexchanged, NoRun, NoCode
<1>5. RunMatchesItsTables /\ ReceiptProvesResult
  BY <1>1 DEF RunMatchesItsTables, ReceiptProvesResult, NoRun, NoCred
<1> QED
  BY <1>2, <1>3, <1>4, <1>5 DEF IInv

\* Every handler, clock tick and restart keeps the invariant.
LEMMA NextKeeps == ASSUME IInv, [Next]_vars PROVE IInv'
<1>1. ASSUME NEW h \in Handlers, Provision(h) \/ IssueChoices(h) \/ Exchange(h)
      PROVE  IInv'
  BY <1>1, ProvisionKeeps, IssueChoicesKeeps, ExchangeKeeps
<1>2. ASSUME NEW h \in Handlers, BindPlatform(h) \/ BindRefused(h)
      PROVE  IInv'
  BY <1>2, BindPlatformKeeps, FinishStep DEF BindRefused
<1>3. ASSUME NEW h \in Handlers,
             Submit(h) \/ LoadRun(h) \/ Upload(h) \/ StageUpload(h) \/ Validate(h)
      PROVE  IInv'
  BY <1>3, SubmitKeeps, LoadRunKeeps, UploadKeeps, StageUploadKeeps, ValidateKeeps
<1>4. ASSUME NEW h \in Handlers, CommitResult(h) \/ CommitCredential(h)
      PROVE  IInv'
  BY <1>4, CommitResultKeeps, CommitCredentialKeeps
<1>5. ASSUME NEW r \in Runs, MarkDeleted(r) \/ ManifestExpires(r)
      PROVE  IInv'
  BY <1>5, MarkKeeps
<1>6. CASE (\E r \in Runs : WrongCode(r)) \/ (\E s \in Scopes : DamagedToken(s))
  BY <1>6, AttemptKeeps
<1>7. CASE Restart
  BY <1>7, RestartKeeps
<1>8. CASE UNCHANGED vars
  <2>1. UNCHANGED <<run, submission, code, cred, req>>
    BY <1>8 DEF vars
  <2>2. TypeOK'
    BY <2>1, Types, TypesSuffice
  <2>3. Carrying'
    BY <2>1, CarryingKept DEF Frame
  <2>4. CodeIssuedOnce' /\ BoundOnce'
    BY <2>1, CodeRulesKept DEF NoNewCode
  <2>5. RunMatchesItsTables' /\ ReceiptProvesResult'
    BY <2>1, TablesKept DEF NoNewResult
  <2> QED
    BY <2>2, <2>3, <2>4, <2>5 DEF IInv
<1> QED
  BY <1>1, <1>2, <1>3, <1>4, <1>5, <1>6, <1>7, <1>8 DEF Next

\* The rows, records and requests keep their types.
THEOREM TypeCorrect == Spec => []TypeOK
<1>1. IInv => TypeOK
  BY DEF IInv
<1> QED
  BY <1>1, InitEstablishes, NextKeeps, PTL DEF Spec

\* Runs, submissions and credentials agree, however exchanges, uploads,
\* deletions and restarts interleave.
THEOREM RunMatchesItsTablesAlways == Spec => []RunMatchesItsTables
<1>1. IInv => RunMatchesItsTables
  BY DEF IInv
<1> QED
  BY <1>1, InitEstablishes, NextKeeps, PTL DEF Spec

\* A receipt in a collector's hands names the package stored as the result of
\* its run.
THEOREM ReceiptProvesResultAlways == Spec => []ReceiptProvesResult
<1>1. IInv => ReceiptProvesResult
  BY DEF IInv
<1> QED
  BY <1>1, InitEstablishes, NextKeeps, PTL DEF Spec

\* Only CommitResult completes a run, and its handler found the manifest signed
\* by the key of this process; a restart in between ends the handler.
LEMMA CompletesOnlySigned ==
  ASSUME IInv, [Next]_vars, NEW r \in Runs,
         run[r].status = "WAITING_UPLOAD", run'[r].status = "COMPLETED"
  PROVE  run[r].sealed
<1>1. ASSUME NEW h \in Handlers, CommitResult(h)
      PROVE  run[r].sealed
  <2>1. run' # run
    OBVIOUS
  <2>2. run' = [run EXCEPT ![req[h].r] = Completed(@)]
    BY <1>1, <2>1 DEF CommitResult
  <2>3. req[h].r = r
    BY <2>2, Types
  <2> QED
    BY <1>1, <2>3 DEF CommitResult, At, IInv, Carrying, Carries
<1>2. ASSUME NEW h \in Handlers, Provision(h)
      PROVE  FALSE
  <2> DEFINE pending == {p \in Runs : Active(p) /\ run[p].dist = "AUTO"}
  <2>1. PICK x \in Runs :
          /\ run[x].status = "NONE"
          /\ run' = [y \in Runs |->
               IF y = x THEN [NoRun EXCEPT !.status = "WAITING_UPLOAD", !.sealed = TRUE]
               ELSE IF y \in pending THEN [run[y] EXCEPT !.deleted = TRUE]
               ELSE run[y]]
    BY <1>2 DEF Provision
  <2> HIDE DEF pending
  <2>2. run'[r] = run[r] \/ run'[r] = [run[r] EXCEPT !.deleted = TRUE]
    BY <2>1
  <2>3. run[r] \in RunRow
    BY Types
  <2> QED
    BY <2>2, <2>3 DEF RunRow
<1>3. ASSUME NEW h \in Handlers, BindPlatform(h)
      PROVE  FALSE
  BY <1>3, Types DEF BindPlatform, RunRow
<1>4. ASSUME NEW x \in Runs, MarkDeleted(x) \/ ManifestExpires(x)
      PROVE  FALSE
  BY <1>4, Types DEF MarkDeleted, ManifestExpires, RunRow
<1>5. ASSUME Restart
      PROVE  FALSE
  BY <1>5, Types DEF Restart, RunRow
<1> QED
  BY <1>1, <1>2, <1>3, <1>4, <1>5 DEF Next, vars, IssueChoices, Exchange, BindRefused, Submit,
     LoadRun, Upload, StageUpload, Validate, CommitCredential, WrongCode, DamagedToken

\* What was started under an earlier signing key does not complete under the
\* next one.
THEOREM CompletesUnderItsKeyAlways == Spec => CompletesUnderItsKey
<1>1. IInv /\ [Next]_vars =>
        [\A r \in Runs :
           run[r].status = "WAITING_UPLOAD" /\ run'[r].status = "COMPLETED"
             => run[r].sealed]_vars
  BY CompletesOnlySigned
<1> QED
  BY <1>1, InitEstablishes, NextKeeps, PTL DEF Spec, CompletesUnderItsKey

=============================================================================
