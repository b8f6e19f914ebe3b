---------------------------- MODULE LinuxOneshot ----------------------------
(***************************************************************************)
(* The Linux one-shot self scan of one owner: a run waits in the database, *)
(* a one-time code is exchanged for a collector credential, the run is     *)
(* bound to the distribution found, and one package is submitted online or *)
(* uploaded by hand.                                                       *)
(*                                                                         *)
(* Runs and submissions are in PostgreSQL; codes, credentials and the key  *)
(* that signs manifests live in the memory of the one API process and are  *)
(* gone when it restarts. Plain handlers run on a thread pool and          *)
(* interleave freely. The submit and upload handlers are coroutines: they  *)
(* keep the event loop except while they await the uploaded file, so two   *)
(* of them never interleave elsewhere.                                     *)
(*                                                                         *)
(* A manifest is named by its run and distribution, and so is the nonce in *)
(* it and the credential scoped to it. Refusals that change nothing are    *)
(* not actions, except where a request that already did something ends.    *)
(***************************************************************************)
EXTENDS Naturals

CONSTANTS
  Handlers,     \* server threads and coroutines
  Runs,         \* run ids
  Dists,        \* LinuxDistribution
  Archives,     \* package contents
  None,
  MaxAttempts   \* MAX_DEVICE_CODE_ATTEMPTS and MAX_FAILED_ATTEMPTS, 5 each

ASSUME OneshotAssumption ==
  /\ "AUTO" \notin Dists
  /\ None \notin Dists \cup Archives
  /\ None \notin [archive : Archives, dist : Dists, profile : {"ONLINE", "OFFLINE"}]
  /\ MaxAttempts \in Nat \ {0}

VARIABLES
  run,         \* linux_audit_runs
  submission,  \* linux_oneshot_submissions
  code,        \* InMemoryDeviceCodeStore, by run
  cred,        \* InMemoryCollectorCredentialStore, by run and distribution
  req          \* what each handler is about to do, and what it has read

vars == <<run, submission, code, cred, req>>

Scopes == Runs \X Dists
Pc == {"idle", "issue", "bind", "load", "staging", "validate", "commit", "receipt"}

NoRun == [status |-> "NONE", dist |-> "AUTO", deleted |-> FALSE,
          expired |-> FALSE, sealed |-> FALSE]
NoCode == [state |-> "none", failed |-> 0]
\* A credential is "issued" when it is in the store and "held" once the
\* response that carries it has reached the collector.
NoCred == [state |-> "none", failed |-> 0, receipt |-> None]
\* d is the distribution a handler was asked for, rec the one it has loaded.
Idle == [pc |-> "idle", r |-> None, d |-> None, rec |-> None, kind |-> None,
         archive |-> None]

Init ==
  /\ run = [r \in Runs |-> NoRun]
  /\ submission = [r \in Runs |-> None]
  /\ code = [r \in Runs |-> NoCode]
  /\ cred = [s \in Scopes |-> NoCred]
  /\ req = [h \in Handlers |-> Idle]

At(h, pc) == req[h].pc = pc
Goto(h, rec) == req' = [req EXCEPT ![h] = rec]
To(h, pc) == Goto(h, [req[h] EXCEPT !.pc = pc])
Finish(h) == Goto(h, Idle)
Scope(h) == <<req[h].r, req[h].d>>

\* No coroutine is between two awaits.
LoopFree == \A h \in Handlers : req[h].pc \notin {"load", "validate", "commit", "receipt"}

\* The rows that uq_linux_oneshot_one_active covers.
Active(r) == run[r].status = "WAITING_UPLOAD" /\ ~run[r].deleted

-----------------------------------------------------------------------------
(* The decisions of the code, each with the slip it is protected from.     *)

\* consume: a code works once, within its attempts and its ten minutes,
\* which end before the manifest expires.
Consumable(r) ==
  code[r].state = "issued" /\ code[r].failed < MaxAttempts /\ ~run[r].expired

\* _check_record_state without the time.
CredentialLive(s) == cred[s].state = "held" /\ cred[s].failed < MaxAttempts

\* LinuxDistribution(record.distribution) fails for a run not yet bound.
Identified(d) == d # "AUTO"

\* verify_linux_collector_manifest accepts the signature.
SignedHereAnyKey(r) == TRUE
SignedHere(r) == run[r].sealed

\* The package is processed, then stored; the credential is spent after that.
AfterValidationReceiptFirst(kind) == IF kind = "ONLINE" THEN "receipt" ELSE "commit"
AfterValidation(kind) == "commit"

\* The last UPDATE of commit_linux_oneshot_result.
CompletedSubmissionOnly(row) == row
Completed(row) == [row EXCEPT !.status = "COMPLETED"]

-----------------------------------------------------------------------------
(* The owner creates and deletes runs *)

\* provision_linux_self_scan, its transaction: an expired pending AUTO run is
\* replaced, any other is a conflict.
Provision(h) ==
  LET pending == {p \in Runs : Active(p) /\ run[p].dist = "AUTO"}
  IN /\ At(h, "idle")
     /\ \A p \in pending : run[p].expired
     /\ \E r \in {x \in Runs : run[x].status = "NONE"} :
          /\ run' = [x \in Runs |->
               IF x = r THEN [NoRun EXCEPT !.status = "WAITING_UPLOAD", !.sealed = TRUE]
               ELSE IF x \in pending THEN [run[x] EXCEPT !.deleted = TRUE]
               ELSE run[x]]
          /\ Goto(h, [Idle EXCEPT !.pc = "issue", !.r = r])
     /\ UNCHANGED <<submission, code, cred>>

\* issue_choices, after that transaction.
IssueChoices(h) ==
  /\ At(h, "issue")
  /\ code' = [code EXCEPT ![req[h].r].state = "issued"]
  /\ Finish(h)
  /\ UNCHANGED <<run, submission, cred>>

MarkDeleted(r) ==
  /\ run[r].status # "NONE"
  /\ ~run[r].deleted
  /\ run' = [run EXCEPT ![r].deleted = TRUE]
  /\ UNCHANGED <<submission, code, cred, req>>

-----------------------------------------------------------------------------
(* The collector exchanges its code *)

\* A wrong secret for a known code; after the code was used the count no
\* longer matters.
WrongCode(r) ==
  /\ code[r].state = "issued"
  /\ code[r].failed < MaxAttempts
  /\ code' = [code EXCEPT ![r].failed = @ + 1]
  /\ UNCHANGED <<run, submission, cred, req>>

\* The code is consumed and the credential for the chosen manifest stored.
Exchange(h) ==
  /\ At(h, "idle")
  /\ \E r \in Runs, d \in Dists :
       /\ Consumable(r)
       /\ code' = [code EXCEPT ![r].state = "used"]
       /\ cred' = [cred EXCEPT ![<<r, d>>].state = "issued"]
       /\ Goto(h, [Idle EXCEPT !.pc = "bind", !.r = r, !.d = d])
  /\ UNCHANGED <<run, submission>>

\* bind_linux_oneshot_platform; it does not look at deleted_at, and the index
\* only covers rows that are not deleted.
Bindable(r, d) ==
  /\ run[r].status = "WAITING_UPLOAD"
  /\ run[r].dist = "AUTO"
  /\ ~run[r].deleted => \A p \in Runs : Active(p) => run[p].dist # d

BindPlatform(h) ==
  /\ At(h, "bind")
  /\ Bindable(req[h].r, req[h].d)
  /\ run' = [run EXCEPT ![req[h].r].dist = req[h].d]
  /\ \/ cred' = [cred EXCEPT ![Scope(h)].state = "held"]
     \/ UNCHANGED cred   \* the response is lost
  /\ Finish(h)
  /\ UNCHANGED <<submission, code>>

\* PLATFORM_BIND_CONFLICT, or an IntegrityError of the index.
BindRefused(h) ==
  /\ At(h, "bind")
  /\ ~Bindable(req[h].r, req[h].d)
  /\ Finish(h)
  /\ UNCHANGED <<run, submission, code, cred>>

-----------------------------------------------------------------------------
(* A package is submitted with the credential, or uploaded by the owner *)

\* authorize with a damaged secret: read and replaced without an await.
DamagedToken(s) ==
  /\ LoopFree
  /\ cred[s].state = "held"
  /\ cred[s].failed < MaxAttempts
  /\ cred' = [cred EXCEPT ![s].failed = @ + 1]
  /\ UNCHANGED <<run, submission, code, req>>

\* authorize_connection; the credential expires with its manifest.
Submit(h) ==
  /\ At(h, "idle")
  /\ LoopFree
  /\ \E s \in Scopes :
       /\ CredentialLive(s)
       /\ ~run[s[1]].expired
       /\ Goto(h, [Idle EXCEPT !.pc = "load", !.r = s[1], !.d = s[2], !.kind = "ONLINE"])
  /\ UNCHANGED <<run, submission, code, cred>>

\* load_linux_oneshot_run; the distribution bound to the run is kept.
LoadRun(h) ==
  /\ At(h, "load")
  /\ IF run[req[h].r].deleted THEN Finish(h)
     ELSE Goto(h, [req[h] EXCEPT !.pc = "staging", !.rec = run[req[h].r].dist])
  /\ UNCHANGED <<run, submission, code, cred>>

Upload(h) ==
  /\ At(h, "idle")
  /\ LoopFree
  /\ \E r \in Runs :
       /\ run[r].status # "NONE"
       /\ ~run[r].deleted
       /\ Goto(h, [Idle EXCEPT !.pc = "staging", !.r = r, !.rec = run[r].dist,
                               !.kind = "OFFLINE"])
  /\ UNCHANGED <<run, submission, code, cred>>

\* The file has arrived, or was refused; an upload takes its time of receipt
\* now, a submission took it before it was authorized.
StageUpload(h) ==
  /\ At(h, "staging")
  /\ LoopFree
  /\ \/ Finish(h)
     \/ /\ req[h].kind = "OFFLINE" => ~run[req[h].r].expired
        /\ \E a \in Archives :
             Goto(h, [req[h] EXCEPT !.pc = "validate", !.archive = a])
  /\ UNCHANGED <<run, submission, code, cred>>

\* _validate_and_commit up to its commit: every gate may refuse; the nonce is
\* fresh while no submission of the run carries it.
FreshNonce(r, d) == submission[r] # None => submission[r].dist # d

Validate(h) ==
  /\ At(h, "validate")
  /\ \/ Finish(h)
     \/ /\ Identified(req[h].rec)
        /\ SignedHere(req[h].r)
        /\ FreshNonce(req[h].r, req[h].rec)
        /\ To(h, AfterValidation(req[h].kind))
  /\ UNCHANGED <<run, submission, code, cred>>

\* commit_linux_oneshot_result: one transaction, the run's row locked.
Stored(h) == [archive |-> req[h].archive, dist |-> req[h].rec, profile |-> req[h].kind]

AfterCommit(h) == IF req[h].kind = "ONLINE" THEN To(h, "receipt") ELSE Finish(h)

CommitResult(h) ==
  LET r == req[h].r IN
  /\ At(h, "commit")
  /\ IF submission[r] # None
       THEN /\ IF submission[r].archive = req[h].archive THEN AfterCommit(h) ELSE Finish(h)
            /\ UNCHANGED <<submission, run>>
       ELSE IF run[r].status # "WAITING_UPLOAD"
       THEN Finish(h) /\ UNCHANGED <<submission, run>>
       ELSE /\ submission' = [submission EXCEPT ![r] = Stored(h)]
            /\ run' = [run EXCEPT ![r] = Completed(@)]
            /\ AfterCommit(h)
  /\ UNCHANGED <<code, cred>>

\* CollectorCredentialService.commit spends the credential for a receipt; it
\* is refused when the attempts ran out while the file was uploaded.
CommitCredential(h) ==
  /\ At(h, "receipt")
  /\ cred' = IF CredentialLive(Scope(h))
               THEN [cred EXCEPT ![Scope(h)].state = "used",
                                 ![Scope(h)].receipt = req[h].archive]
               ELSE cred
  /\ Finish(h)
  /\ UNCHANGED <<run, submission, code>>

-----------------------------------------------------------------------------
(* The environment *)

ManifestExpires(r) ==
  /\ run[r].status # "NONE"
  /\ ~run[r].expired
  /\ run' = [run EXCEPT ![r].expired = TRUE]
  /\ UNCHANGED <<submission, code, cred, req>>

\* A restart forgets every code and credential and makes a new signing key.
Restart ==
  /\ code' = [r \in Runs |-> NoCode]
  /\ cred' = [s \in Scopes |-> NoCred]
  /\ req' = [h \in Handlers |-> Idle]
  /\ run' = [r \in Runs |-> [run[r] EXCEPT !.sealed = FALSE]]
  /\ UNCHANGED submission

Next ==
  \/ \E h \in Handlers :
       \/ Provision(h) \/ IssueChoices(h) \/ Exchange(h) \/ BindPlatform(h)
       \/ BindRefused(h) \/ Submit(h) \/ LoadRun(h) \/ Upload(h)
       \/ StageUpload(h) \/ Validate(h) \/ CommitResult(h) \/ CommitCredential(h)
  \/ \E r \in Runs : MarkDeleted(r) \/ WrongCode(r) \/ ManifestExpires(r)
  \/ \E s \in Scopes : DamagedToken(s)
  \/ Restart

Spec == Init /\ [][Next]_vars

-----------------------------------------------------------------------------
\* The rows and records keep their types.
TypeOK ==
  /\ run \in [Runs -> [status : {"NONE", "WAITING_UPLOAD", "COMPLETED"},
                       dist : Dists \cup {"AUTO"}, deleted : BOOLEAN,
                       expired : BOOLEAN, sealed : BOOLEAN]]
  /\ submission \in [Runs -> [archive : Archives, dist : Dists,
                              profile : {"ONLINE", "OFFLINE"}] \cup {None}]
  /\ code \in [Runs -> [state : {"none", "issued", "used"}, failed : Nat]]
  /\ cred \in [Scopes -> [state : {"none", "issued", "held", "used"},
                          failed : Nat, receipt : Archives \cup {None}]]
  /\ req \in [Handlers -> [pc : Pc, r : Runs \cup {None},
                           d : Dists \cup {None}, rec : Dists \cup {"AUTO", None},
                           kind : {"ONLINE", "OFFLINE", None},
                           archive : Archives \cup {None}]]

\* A receipt handed to a collector names the package that is stored as the
\* result of its run, although package and credential are committed in two
\* steps, in the database and in memory.
ReceiptProvesResult ==
  \A s \in Scopes : cred[s].receipt # None =>
    /\ submission[s[1]] # None
    /\ submission[s[1]].archive = cred[s].receipt
    /\ submission[s[1]].dist = s[2]
    /\ run[s[1]].status = "COMPLETED"

\* A run, its submission and its credentials agree, whatever exchanges,
\* deletions and replacements race: it is COMPLETED exactly when it has a
\* submission, which is for the distribution it is bound to; it has credentials
\* for no other one, and the collector holds one only after the binding.
RunMatchesItsTables ==
  /\ \A r \in Runs :
       /\ run[r].status = "COMPLETED" <=> submission[r] # None
       /\ submission[r] # None =>
            /\ run[r].dist # "AUTO"
            /\ submission[r].dist = run[r].dist
  /\ \A s \in Scopes : cred[s].state # "none" =>
       /\ run[s[1]].dist \in {"AUTO", s[2]}
       /\ cred[s].state \in {"held", "used"} => run[s[1]].dist = s[2]

\* A run only completes with a manifest this process has signed: what was
\* started before a restart is refused after it.
CompletesUnderItsKey ==
  [][\A r \in Runs :
       run[r].status = "WAITING_UPLOAD" /\ run'[r].status = "COMPLETED"
         => run[r].sealed]_vars

=============================================================================
