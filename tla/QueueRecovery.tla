--------------------------- MODULE QueueRecovery ---------------------------
(***************************************************************************)
(* The outbox, the broker and the late-acknowledging workers of IMP-044,   *)
(* for one workflow step and its one outbox event.  Rows of different      *)
(* steps share neither locks nor idempotency keys, so one step is enough.  *)
(*                                                                         *)
(* A transaction is split where PostgreSQL can make it wait: a worker's    *)
(* begin takes event, then step, then the RUNNING execution rows, and its  *)
(* complete takes the execution row, then the step.  The two orders are    *)
(* opposite, so a deadlock is possible and PostgreSQL aborts one party.    *)
(***************************************************************************)
EXTENDS Naturals, Sequences, FiniteSets

CONSTANTS
  Workers,      \* pool children of the maintenance worker
  Dispatchers,  \* concurrent runs of "recovery_cli dispatch"
  Deliveries,   \* task ids (uuid4) that dispatch may draw
  None,         \* no delivery, no attempt
  MaxPublish,   \* bound on outbox_events.publish_attempts
  MaxCrashes,   \* bound on worker losses
  MaxErrors     \* bound on transactions that fail for another reason

ASSUME NoneAssumption == None \notin Nat /\ None \notin Deliveries
ASSUME BoundsAssumption ==
  MaxPublish \in Nat /\ MaxCrashes \in Nat /\ MaxErrors \in Nat

VARIABLES
  event,       \* outbox_events row: status and publish_attempts
  step,        \* workflow_steps row: status and attempt_count
  executions,  \* task_executions.status, indexed by attempt_no
  results,     \* attempts whose insert into workflow_results took place
  broker,      \* where each delivery id is
  dispatcher,  \* progress of each dispatch run
  worker,      \* progress of each pool child
  crashes,     \* worker losses so far
  errors       \* failed transactions so far

vars == <<event, step, executions, results, broker, dispatcher, worker,
          crashes, errors>>
rows == <<event, step, executions, results>>

Pending == {"PENDING", "RETRY_PENDING"}
EventStatus == Pending \cup {"PUBLISHED"}
StepStatus == {"DISPATCH_PENDING", "QUEUED", "RUNNING", "SUCCEEDED"}
ExecutionStatus == {"RUNNING", "WORKER_LOST", "SUCCEEDED", "RETURN_EXISTING"}

WorkerState ==
  [pc : {"idle", "begin", "lockStep", "reconcile", "hold", "complete", "ack"},
   delivery : Deliveries \cup {None},
   attempt : Nat \cup {None}]
Idle == [pc |-> "idle", delivery |-> None, attempt |-> None]

-----------------------------------------------------------------------------
(* The decisions of the code, each with the slip it is protected from.     *)

\* reject_on_worker_lost: the message of a lost worker returns to the queue.
OnWorkerLostAcked == "acked"
OnWorkerLost == "queued"

\* complete_recovery_attempt accepts only an attempt that is still RUNNING.
MayCompleteAnyway(n) == TRUE
MayComplete(n) == executions[n] = "RUNNING"

\* begin_recovery_attempt looks for a result under the step's lock.
ResultExists == results # {}

\* begin_recovery_attempt declares every RUNNING attempt of the step lost.
ReconciledNothing(es) == es
ReconciledLostToo(es) ==
  [n \in DOMAIN es |-> CASE es[n] = "RUNNING" -> "WORKER_LOST"
                         [] es[n] = "WORKER_LOST" -> "RETURN_EXISTING"
                         [] OTHER -> es[n]]
Reconciled(es) ==
  [n \in DOMAIN es |-> IF es[n] = "RUNNING" THEN "WORKER_LOST" ELSE es[n]]

\* The step status begin_recovery_attempt writes.
StepAfterBeginEager(exists) == "SUCCEEDED"
StepAfterBegin(exists) == IF exists THEN "SUCCEEDED" ELSE "RUNNING"

\* The step status mark_event_published writes, whatever it was before.
StepAfterPublishEvent == "PUBLISHED"
StepAfterPublish == "QUEUED"

-----------------------------------------------------------------------------
(* prepare_recovery_probe: job, step and outbox event in one transaction *)
Init ==
  /\ event = [status |-> "PENDING", attempts |-> 0]
  /\ step = [status |-> "DISPATCH_PENDING", attempts |-> 0]
  /\ executions = <<>>
  /\ results = {}
  /\ broker = [d \in Deliveries |-> "unused"]
  /\ dispatcher = [p \in Dispatchers |-> "start"]
  /\ worker = [w \in Workers |-> Idle]
  /\ crashes = 0
  /\ errors = 0

-----------------------------------------------------------------------------
(* Row locks are held by the open transactions, so they are derived.       *)

EventFree == \A w \in Workers : worker[w].pc \notin {"lockStep", "reconcile"}
StepFree == \A w \in Workers : worker[w].pc # "reconcile"
ExecutionFree(n) ==
  \A w \in Workers : ~(worker[w].pc = "complete" /\ worker[w].attempt = n)
RunningFree ==
  \A n \in DOMAIN executions : executions[n] = "RUNNING" => ExecutionFree(n)

-----------------------------------------------------------------------------
(* recovery_cli._dispatch: four transactions around one broker call.       *)

DispatchAt(p, from, to) ==
  /\ dispatcher[p] = from
  /\ dispatcher' = [dispatcher EXCEPT ![p] = to]

PendingEventPayload(p) ==
  /\ DispatchAt(p, "start", "read")
  /\ event.status \in Pending
  /\ UNCHANGED <<rows, broker, worker, crashes, errors>>

RecordEventPublishAttempt(p) ==
  /\ EventFree
  /\ event.attempts < MaxPublish
  /\ \/ /\ event.status \in Pending
        /\ event' = [status |-> "PENDING", attempts |-> event.attempts + 1]
        /\ DispatchAt(p, "read", "recorded")
     \/ /\ event.status \notin Pending      \* QueueRecoveryError
        /\ DispatchAt(p, "read", "start")
        /\ UNCHANGED event
  /\ UNCHANGED <<step, executions, results, broker, worker, crashes, errors>>

\* send_task: a fresh task id enters the queue.  When it raises, the broker
\* may or may not have accepted the message.
SendTask(p) ==
  /\ \/ /\ DispatchAt(p, "recorded", "sent")
        /\ \E d \in Deliveries :
             broker[d] = "unused" /\ broker' = [broker EXCEPT ![d] = "queued"]
     \/ /\ DispatchAt(p, "recorded", "failed")
        /\ \/ UNCHANGED broker
           \/ \E d \in Deliveries :
                broker[d] = "unused" /\ broker' = [broker EXCEPT ![d] = "queued"]
  /\ UNCHANGED <<rows, worker, crashes, errors>>

\* The step becomes QUEUED whatever it was.
MarkEventPublished(p) ==
  /\ EventFree
  /\ StepFree
  /\ DispatchAt(p, "sent", "start")
  /\ \/ /\ event.status \in Pending
        /\ event' = [event EXCEPT !.status = "PUBLISHED"]
        /\ step' = [step EXCEPT !.status = StepAfterPublish]
     \/ /\ event.status \notin Pending      \* QueueRecoveryError
        /\ UNCHANGED <<event, step>>
  /\ UNCHANGED <<executions, results, broker, worker, crashes, errors>>

MarkEventRetryPending(p) ==
  /\ EventFree
  /\ DispatchAt(p, "failed", "start")
  /\ event' = IF event.status = "PENDING"
                THEN [event EXCEPT !.status = "RETRY_PENDING"] ELSE event
  /\ UNCHANGED <<step, executions, results, broker, worker, crashes, errors>>

\* The process dies, or --simulate-publish-crash skips the acknowledgement.
DispatchCrash(p) ==
  /\ dispatcher[p] # "start"
  /\ dispatcher' = [dispatcher EXCEPT ![p] = "start"]
  /\ UNCHANGED <<rows, broker, worker, crashes, errors>>

-----------------------------------------------------------------------------
(* tasks.verify_delivery: two transactions with a pause between them.      *)

WorkerAt(w, from, to) ==
  /\ worker[w].pc = from
  /\ worker' = [worker EXCEPT ![w].pc = to]

\* The task function is left: late acknowledgement, success or exception.
Acknowledge(w) ==
  /\ broker' = [broker EXCEPT ![worker[w].delivery] = "acked"]
  /\ worker' = [worker EXCEPT ![w] = Idle]

Take(w) ==
  /\ worker[w].pc = "idle"
  /\ \E d \in Deliveries :
       /\ broker[d] = "queued"
       /\ broker' = [broker EXCEPT ![d] = "taken"]
       /\ worker' = [worker EXCEPT
                       ![w] = [pc |-> "begin", delivery |-> d, attempt |-> None]]
  /\ UNCHANGED <<rows, dispatcher, crashes, errors>>

BeginLockEventPublished(w) ==
  /\ EventFree
  /\ event.status = "PUBLISHED"
  /\ WorkerAt(w, "begin", "lockStep")
  /\ UNCHANGED <<rows, broker, dispatcher, crashes, errors>>

BeginLockEvent(w) ==
  /\ EventFree
  /\ WorkerAt(w, "begin", "lockStep")
  /\ UNCHANGED <<rows, broker, dispatcher, crashes, errors>>

BeginLockStep(w) ==
  /\ StepFree
  /\ WorkerAt(w, "lockStep", "reconcile")
  /\ UNCHANGED <<rows, broker, dispatcher, crashes, errors>>

\* Every RUNNING execution of the step is declared lost, then the delivery
\* is recorded as the next attempt.
BeginRecoveryAttempt(w) ==
  LET exists == ResultExists
      n == step.attempts + 1
  IN /\ worker[w].pc = "reconcile"
     /\ RunningFree
     /\ executions' = Append(Reconciled(executions),
                             IF exists THEN "RETURN_EXISTING" ELSE "RUNNING")
     /\ step' = [status |-> StepAfterBegin(exists), attempts |-> n]
     /\ worker' = [worker EXCEPT
          ![w] = [pc |-> IF exists THEN "ack" ELSE "hold",
                  delivery |-> worker[w].delivery, attempt |-> n]]
     /\ UNCHANGED <<event, results, broker, dispatcher, crashes, errors>>

\* complete_recovery_attempt locks its execution row and insists on RUNNING.
CompleteLockExecution(w) ==
  /\ worker[w].pc = "hold"
  /\ ExecutionFree(worker[w].attempt)
  /\ \/ /\ MayComplete(worker[w].attempt)
        /\ WorkerAt(w, "hold", "complete")
        /\ UNCHANGED broker
     \/ /\ ~MayComplete(worker[w].attempt)   \* DELIVERY_NOT_FOUND
        /\ Acknowledge(w)
  /\ UNCHANGED <<rows, dispatcher, crashes, errors>>

\* Insert with ON CONFLICT (idempotency_key) DO NOTHING.
CompleteRecoveryAttempt(w) ==
  LET n == worker[w].attempt
  IN /\ StepFree
     /\ WorkerAt(w, "complete", "ack")
     /\ results' = IF results = {} THEN {n} ELSE results
     /\ executions' = [executions EXCEPT
          ![n] = IF results = {} THEN "SUCCEEDED" ELSE "RETURN_EXISTING"]
     /\ step' = [step EXCEPT !.status = "SUCCEEDED"]
     /\ UNCHANGED <<event, broker, dispatcher, crashes, errors>>

Ack(w) ==
  /\ worker[w].pc = "ack"
  /\ Acknowledge(w)
  /\ UNCHANGED <<rows, dispatcher, crashes, errors>>

\* PostgreSQL finds begin and complete waiting for each other and aborts
\* one of them; the task raises and its message is acknowledged.
DeadlockAbort(w) ==
  /\ \E v \in Workers :
       /\ worker[v].pc \in {"reconcile", "complete"}
       /\ {worker[v].pc, worker[w].pc} = {"reconcile", "complete"}
  /\ Acknowledge(w)
  /\ UNCHANGED <<rows, dispatcher, crashes, errors>>

\* Any other failure of an open transaction (connection lost, time limit).
TransactionError(w) ==
  /\ errors < MaxErrors
  /\ worker[w].pc \notin {"idle", "ack"}
  /\ errors' = errors + 1
  /\ Acknowledge(w)
  /\ UNCHANGED <<rows, dispatcher, crashes>>

\* The pool child is lost, by kill-child or otherwise: its transaction is
\* rolled back and the unacknowledged message returns to the queue.
WorkerLostIsReported(w) ==
  /\ crashes < MaxCrashes
  /\ worker[w].pc # "idle"
  /\ crashes' = crashes + 1
  /\ executions' = Reconciled(executions)
  /\ step' = [step EXCEPT !.status = "QUEUED"]
  /\ broker' = [broker EXCEPT ![worker[w].delivery] = OnWorkerLost]
  /\ worker' = [worker EXCEPT ![w] = Idle]
  /\ UNCHANGED <<event, results, dispatcher, errors>>

WorkerLost(w) ==
  /\ crashes < MaxCrashes
  /\ worker[w].pc # "idle"
  /\ crashes' = crashes + 1
  /\ broker' = [broker EXCEPT ![worker[w].delivery] = OnWorkerLost]
  /\ worker' = [worker EXCEPT ![w] = Idle]
  /\ UNCHANGED <<rows, dispatcher, errors>>

-----------------------------------------------------------------------------
Dispatch(p) ==
  \/ PendingEventPayload(p) \/ RecordEventPublishAttempt(p) \/ SendTask(p)
  \/ MarkEventPublished(p) \/ MarkEventRetryPending(p) \/ DispatchCrash(p)

VerifyDelivery(w) ==
  \/ Take(w) \/ BeginLockEvent(w) \/ BeginLockStep(w)
  \/ BeginRecoveryAttempt(w) \/ CompleteLockExecution(w)
  \/ CompleteRecoveryAttempt(w) \/ Ack(w) \/ DeadlockAbort(w)

Next ==
  \/ \E p \in Dispatchers : Dispatch(p)
  \/ \E w \in Workers :
       VerifyDelivery(w) \/ TransactionError(w) \/ WorkerLost(w)

Spec == Init /\ [][Next]_vars

\* The worker service is always running; dispatch is a manual command, so
\* nothing is assumed of it.
FairSpec == Spec /\ \A w \in Workers : WF_vars(VerifyDelivery(w))

-----------------------------------------------------------------------------
Running == {n \in DOMAIN executions : executions[n] = "RUNNING"}
Succeeded == {n \in DOMAIN executions : executions[n] = "SUCCEEDED"}
Live == {d \in Deliveries : broker[d] \in {"queued", "taken"}}

TypeOK ==
  /\ event \in [status : EventStatus, attempts : Nat]
  /\ step \in [status : StepStatus, attempts : Nat]
  /\ executions \in Seq(ExecutionStatus)
  /\ results \subseteq Nat
  /\ broker \in [Deliveries -> {"unused", "queued", "taken", "acked"}]
  /\ dispatcher \in
       [Dispatchers -> {"start", "read", "recorded", "sent", "failed"}]
  /\ worker \in [Workers -> WorkerState]
  /\ crashes \in Nat
  /\ errors \in Nat

\* Attempts are numbered without gaps and only the newest can be RUNNING:
\* begin_recovery_attempt leaves no abandoned attempt behind.
OnlyNewestRuns ==
  /\ Len(executions) = step.attempts
  /\ Running \subseteq {step.attempts}

\* The stored result and the attempt history agree: the one row, if there
\* is one, belongs to the one SUCCEEDED attempt, no attempt still runs, and
\* every attempt after it was answered with the existing result.
ResultMatchesHistory ==
  /\ results = Succeeded
  /\ \A n \in results :
       /\ Running = {}
       /\ \A m \in DOMAIN executions :
            /\ m < n => executions[m] = "WORKER_LOST"
            /\ m > n => executions[m] = "RETURN_EXISTING"

\* The step row never claims more than the other tables show: SUCCEEDED
\* needs a result, RUNNING needs a RUNNING attempt.
StepMatchesTables ==
  /\ step.status = "SUCCEEDED" => results # {}
  /\ step.status = "RUNNING" => Running # {}
  /\ Running # {} => step.status \in {"RUNNING", "QUEUED"}

\* Until the result exists the work is still to be found somewhere: the
\* event can be dispatched again or a delivery is queued or in a worker's
\* hands.  A RUNNING attempt in particular always has a live delivery.
\* Only a failed transaction, whose message is acknowledged, can break this.
WorkIsNeverLost ==
  \/ errors > 0
  \/ /\ results # {} \/ event.status \in Pending \/ Live # {}
     /\ Running # {} => Live # {}

\* The attempt history is append-only: a finished attempt is never rewritten.
AttemptHistoryIsFinal ==
  [][/\ Len(executions') >= Len(executions)
     /\ \A n \in DOMAIN executions :
          executions[n] # "RUNNING" => executions'[n] = executions[n]]_vars

\* A message that reached the queue is eventually answered by a result, in
\* spite of lost workers, duplicates and deadlocks. Only the message of a
\* failed transaction is given up.
DeliveredWorkCompletes == Live # {} ~> results # {} \/ errors > 0

-----------------------------------------------------------------------------
\* Refinement: this protocol gives the exactly-once promise.
Abstract == INSTANCE ExactlyOnce WITH
  NoAttempt <- None,
  started <- Len(executions),
  inFlight <- IF Running = {} THEN None ELSE CHOOSE n \in Running : TRUE,
  winner <- IF results = {} THEN None ELSE CHOOSE n \in results : TRUE

\* A step of the outbox and its workers is a step of ExactlyOnce or changes
\* nothing there: the result is produced once, by the attempt in flight.
ImplementsExactlyOnce == Abstract!AbsSpec
=============================================================================
