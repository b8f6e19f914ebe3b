------------------------ MODULE QueueRecoveryProofs ------------------------
(***************************************************************************)
(* Proofs about QueueRecovery for every set of workers, dispatch runs and  *)
(* task ids.                                                               *)
(***************************************************************************)
EXTENDS QueueRecovery, SequenceTheorems, TLAPS

\* Between the transactions of one task: a worker that carries a delivery
\* took it from the queue, nobody else carries it, and the attempt it is
\* working on is recorded; only a RUNNING attempt is being completed.
WorkersConsistent ==
  \A w \in Workers :
    /\ worker[w].pc # "idle" =>
         /\ worker[w].delivery \in Deliveries
         /\ broker[worker[w].delivery] = "taken"
    /\ worker[w].pc \in {"hold", "complete"} =>
         worker[w].attempt \in DOMAIN executions
    /\ worker[w].pc = "complete" => executions[worker[w].attempt] = "RUNNING"
    /\ worker[w].pc = "ack" => results # {}

NothingShared ==
  \A v, w \in Workers :
    v # w => /\ ~(worker[v].pc = "complete" /\ worker[w].pc = "complete")
             /\ worker[v].pc # "idle" /\ worker[w].pc # "idle" =>
                  worker[v].delivery # worker[w].delivery

\* The shape of the attempt history: lost attempts, then either the RUNNING
\* attempt, or the SUCCEEDED one followed by answered duplicates.
HistoryShape ==
  /\ Len(executions) = step.attempts
  /\ results \subseteq DOMAIN executions
  /\ results = {} =>
       \A n \in DOMAIN executions :
         executions[n] = IF n = step.attempts THEN "RUNNING" ELSE "WORKER_LOST"
  /\ \A k \in results : \A n \in DOMAIN executions :
       executions[n] = IF n < k THEN "WORKER_LOST"
                       ELSE IF n = k THEN "SUCCEEDED" ELSE "RETURN_EXISTING"

StepShape ==
  /\ step.status = "SUCCEEDED" => results # {}
  /\ step.status = "RUNNING" => results = {} /\ step.attempts > 0
  /\ step.status = "DISPATCH_PENDING" => step.attempts = 0

\* Somebody still carries the work: a queued message, a worker about to
\* start an attempt, or a worker on the newest attempt.
Carries(w) ==
  \/ worker[w].pc \in {"begin", "lockStep", "reconcile"}
  \/ worker[w].pc \in {"hold", "complete"} /\ worker[w].attempt = step.attempts

Carried ==
  (/\ errors = 0
   /\ results = {}
   /\ \/ event.status = "PUBLISHED"
      \/ step.attempts > 0
      \/ \E p \in Dispatchers : dispatcher[p] = "sent")
    => \/ \E d \in Deliveries : broker[d] = "queued"
       \/ \E w \in Workers : Carries(w)

IInv ==
  /\ TypeOK
  /\ WorkersConsistent
  /\ NothingShared
  /\ HistoryShape
  /\ StepShape
  /\ Carried

-----------------------------------------------------------------------------
\* Extending the history keeps every index and adds one: what
\* begin_recovery_attempt writes to task_executions.
LEMMA BeginHistory ==
  ASSUME NEW es \in Seq(ExecutionStatus), NEW x \in ExecutionStatus
  PROVE  LET fs == Append(Reconciled(es), x)
         IN /\ fs \in Seq(ExecutionStatus)
            /\ Len(fs) = Len(es) + 1
            /\ DOMAIN es = 1..Len(es)
            /\ DOMAIN fs = 1..Len(es) + 1
            /\ fs[Len(es) + 1] = x
            /\ \A n \in 1..Len(es) :
                 fs[n] = IF es[n] = "RUNNING" THEN "WORKER_LOST" ELSE es[n]
<1> DEFINE rs == Reconciled(es)
<1>1. /\ rs \in Seq(ExecutionStatus)
      /\ Len(rs) = Len(es)
      /\ \A n \in 1..Len(es) :
           rs[n] = IF es[n] = "RUNNING" THEN "WORKER_LOST" ELSE es[n]
  <2>1. DOMAIN es = 1..Len(es) /\ Len(es) \in Nat
    OBVIOUS
  <2>2. rs \in [1..Len(es) -> ExecutionStatus]
    BY <2>1 DEF Reconciled, ExecutionStatus
  <2> QED
    BY <2>1, <2>2, SeqDef DEF Reconciled
<1> HIDE DEF rs
<1> QED
  BY <1>1 DEF rs

\* Completing attempt n rewrites that row only.
LEMMA CompleteHistory ==
  ASSUME NEW es \in Seq(ExecutionStatus), NEW n \in DOMAIN es,
         NEW x \in ExecutionStatus
  PROVE  LET fs == [es EXCEPT ![n] = x]
         IN /\ fs \in Seq(ExecutionStatus)
            /\ Len(fs) = Len(es)
            /\ DOMAIN es = 1..Len(es)
            /\ DOMAIN fs = 1..Len(es)
            /\ fs[n] = x
            /\ \A m \in 1..Len(es) : m # n => fs[m] = es[m]
  OBVIOUS

\* What leaving the task function does to the message and to the worker.
Released(w, x) ==
  /\ worker[w].delivery \in Deliveries
  /\ broker[worker[w].delivery] = "taken"
  /\ broker' \in [Deliveries -> {"unused", "queued", "taken", "acked"}]
  /\ broker'[worker[w].delivery] = x
  /\ \A d \in Deliveries : d # worker[w].delivery => broker'[d] = broker[d]
  /\ worker'[w].pc = "idle"
  /\ \A v \in Workers : v # w => worker'[v] = worker[v]
  /\ worker' \in [Workers -> WorkerState]

\* Acknowledging a message, or losing its worker, frees that worker alone.
LEMMA AcknowledgeFacts ==
  ASSUME TypeOK, WorkersConsistent, NEW w \in Workers, worker[w].pc # "idle",
         NEW x \in {"acked", "queued"},
         broker' = [broker EXCEPT ![worker[w].delivery] = x],
         worker' = [worker EXCEPT ![w] = Idle]
  PROVE  Released(w, x)
<1>1. worker[w].delivery \in Deliveries /\ broker[worker[w].delivery] = "taken"
  BY DEF WorkersConsistent
<1>2. Idle \in WorkerState /\ Idle.pc = "idle"
  BY DEF Idle, WorkerState
<1>3. /\ broker \in [Deliveries -> {"unused", "queued", "taken", "acked"}]
      /\ worker \in [Workers -> WorkerState]
  BY DEF TypeOK
<1> QED
  BY <1>1, <1>2, <1>3 DEF Released

\* Releasing a message disturbs nobody else.
LEMMA ReleaseKeeps ==
  ASSUME WorkersConsistent, NothingShared, NEW w \in Workers,
         worker[w].pc # "idle", NEW x \in {"acked", "queued"},
         Released(w, x), UNCHANGED <<executions, results>>
  PROVE  WorkersConsistent' /\ NothingShared'
<1>1. ASSUME NEW v \in Workers, worker'[v].pc # "idle"
      PROVE  /\ v # w
             /\ worker'[v] = worker[v]
             /\ worker[v].delivery \in Deliveries
             /\ broker'[worker[v].delivery] = "taken"
  BY <1>1 DEF WorkersConsistent, NothingShared, Released
<1>2. WorkersConsistent'
  BY <1>1 DEF WorkersConsistent
<1>3. NothingShared'
  BY <1>1 DEF NothingShared
<1> QED
  BY <1>2, <1>3

\* The dispatch run reads the payload: no row changes.
LEMMA PendingEventPayloadStep ==
  ASSUME IInv, NEW p \in Dispatchers, PendingEventPayload(p)
  PROVE  IInv'
<1> USE DEF IInv, rows
<1>1. TypeOK'
  BY DEF TypeOK, WorkerState, EventStatus, Pending, StepStatus, ExecutionStatus, PendingEventPayload, DispatchAt
<1>2. WorkersConsistent'
  BY DEF TypeOK, WorkerState, WorkersConsistent, PendingEventPayload, DispatchAt
<1>3. NothingShared'
  BY DEF TypeOK, WorkerState, NothingShared, PendingEventPayload, DispatchAt
<1>4. HistoryShape'
  BY DEF HistoryShape, PendingEventPayload, DispatchAt
<1>5. StepShape'
  BY DEF StepShape, PendingEventPayload, DispatchAt
<1>6. Carried'
  BY DEF TypeOK, WorkerState, Carried, Carries, PendingEventPayload, DispatchAt
<1> QED
  BY <1>1, <1>2, <1>3, <1>4, <1>5, <1>6

\* The publish attempt is counted; a PUBLISHED event is left alone.
LEMMA RecordEventPublishAttemptStep ==
  ASSUME IInv, NEW p \in Dispatchers, RecordEventPublishAttempt(p)
  PROVE  IInv'
<1> USE DEF IInv, rows
<1>1. TypeOK'
  BY DEF TypeOK, WorkerState, EventStatus, Pending, StepStatus, ExecutionStatus, RecordEventPublishAttempt, DispatchAt, Pending
<1>2. WorkersConsistent'
  BY DEF TypeOK, WorkerState, WorkersConsistent, RecordEventPublishAttempt, DispatchAt, Pending
<1>3. NothingShared'
  BY DEF TypeOK, WorkerState, NothingShared, RecordEventPublishAttempt, DispatchAt, Pending
<1>4. HistoryShape'
  BY DEF HistoryShape, RecordEventPublishAttempt, DispatchAt, Pending
<1>5. StepShape'
  BY DEF StepShape, RecordEventPublishAttempt, DispatchAt, Pending
<1>6. Carried'
  BY DEF TypeOK, WorkerState, Carried, Carries, RecordEventPublishAttempt, DispatchAt, Pending
<1> QED
  BY <1>1, <1>2, <1>3, <1>4, <1>5, <1>6

\* A fresh task id is queued, so somebody carries the work.
LEMMA SendTaskStep ==
  ASSUME IInv, NEW p \in Dispatchers, SendTask(p)
  PROVE  IInv'
<1> USE DEF IInv, rows
<1>1. TypeOK'
  BY DEF TypeOK, WorkerState, EventStatus, Pending, StepStatus, ExecutionStatus, SendTask, DispatchAt
<1>2. WorkersConsistent'
  BY DEF TypeOK, WorkerState, WorkersConsistent, SendTask, DispatchAt
<1>3. NothingShared'
  BY DEF TypeOK, WorkerState, NothingShared, SendTask, DispatchAt
<1>4. HistoryShape'
  BY DEF HistoryShape, SendTask, DispatchAt
<1>5. StepShape'
  BY DEF StepShape, SendTask, DispatchAt
<1>6. Carried'
  BY DEF TypeOK, WorkerState, Carried, Carries, SendTask, DispatchAt
<1> QED
  BY <1>1, <1>2, <1>3, <1>4, <1>5, <1>6

\* The step is QUEUED again: StepShape allows that at any time.
LEMMA MarkEventPublishedStep ==
  ASSUME IInv, NEW p \in Dispatchers, MarkEventPublished(p)
  PROVE  IInv'
<1> USE DEF IInv, rows
<1>1. TypeOK'
  BY DEF TypeOK, WorkerState, EventStatus, Pending, StepStatus, ExecutionStatus, MarkEventPublished, DispatchAt, StepAfterPublish
<1>2. WorkersConsistent'
  BY DEF TypeOK, WorkerState, WorkersConsistent, MarkEventPublished, DispatchAt, StepAfterPublish
<1>3. NothingShared'
  BY DEF TypeOK, WorkerState, NothingShared, MarkEventPublished, DispatchAt, StepAfterPublish
<1>4. HistoryShape'
  BY DEF HistoryShape, TypeOK, MarkEventPublished, DispatchAt, StepAfterPublish
<1>5. StepShape'
  BY DEF StepShape, TypeOK, MarkEventPublished, DispatchAt, StepAfterPublish
<1>6. Carried'
  BY DEF TypeOK, WorkerState, Carried, Carries, MarkEventPublished, DispatchAt, StepAfterPublish
<1> QED
  BY <1>1, <1>2, <1>3, <1>4, <1>5, <1>6

\* A failed publication is noted on the event only.
LEMMA MarkEventRetryPendingStep ==
  ASSUME IInv, NEW p \in Dispatchers, MarkEventRetryPending(p)
  PROVE  IInv'
<1> USE DEF IInv, rows
<1>1. TypeOK'
  BY DEF TypeOK, WorkerState, EventStatus, Pending, StepStatus, ExecutionStatus, MarkEventRetryPending, DispatchAt
<1>2. WorkersConsistent'
  BY DEF TypeOK, WorkerState, WorkersConsistent, MarkEventRetryPending, DispatchAt
<1>3. NothingShared'
  BY DEF TypeOK, WorkerState, NothingShared, MarkEventRetryPending, DispatchAt
<1>4. HistoryShape'
  BY DEF HistoryShape, MarkEventRetryPending, DispatchAt
<1>5. StepShape'
  BY DEF StepShape, MarkEventRetryPending, DispatchAt
<1>6. Carried'
  BY DEF TypeOK, WorkerState, Carried, Carries, MarkEventRetryPending, DispatchAt
<1> QED
  BY <1>1, <1>2, <1>3, <1>4, <1>5, <1>6

\* A dispatch run that dies leaves every row as it was.
LEMMA DispatchCrashStep ==
  ASSUME IInv, NEW p \in Dispatchers, DispatchCrash(p)
  PROVE  IInv'
<1> USE DEF IInv, rows
<1>1. TypeOK'
  BY DEF TypeOK, WorkerState, EventStatus, Pending, StepStatus, ExecutionStatus, DispatchCrash
<1>2. WorkersConsistent'
  BY DEF TypeOK, WorkerState, WorkersConsistent, DispatchCrash
<1>3. NothingShared'
  BY DEF TypeOK, WorkerState, NothingShared, DispatchCrash
<1>4. HistoryShape'
  BY DEF HistoryShape, DispatchCrash
<1>5. StepShape'
  BY DEF StepShape, DispatchCrash
<1>6. Carried'
  BY DEF TypeOK, WorkerState, Carried, Carries, DispatchCrash
<1> QED
  BY <1>1, <1>2, <1>3, <1>4, <1>5, <1>6

\* A queued message moves into a worker's hands.
LEMMA TakeStep ==
  ASSUME IInv, NEW w \in Workers, Take(w)
  PROVE  IInv'
<1> USE DEF IInv, rows
<1>1. TypeOK'
  BY DEF TypeOK, WorkerState, EventStatus, Pending, StepStatus, ExecutionStatus, Take
<1>2. WorkersConsistent'
  BY DEF TypeOK, WorkerState, WorkersConsistent, Take
<1>3. NothingShared'
  BY DEF TypeOK, WorkerState, NothingShared, WorkersConsistent, Take
<1>4. HistoryShape'
  BY DEF HistoryShape, Take
<1>5. StepShape'
  BY DEF StepShape, Take
<1>6. Carried'
  BY DEF TypeOK, WorkerState, Carried, Carries, Take
<1> QED
  BY <1>1, <1>2, <1>3, <1>4, <1>5, <1>6

\* Locks only.
LEMMA BeginLockEventStep ==
  ASSUME IInv, NEW w \in Workers, BeginLockEvent(w)
  PROVE  IInv'
<1> USE DEF IInv, rows
<1>1. TypeOK'
  BY DEF TypeOK, WorkerState, EventStatus, Pending, StepStatus, ExecutionStatus, BeginLockEvent, WorkerAt
<1>2. WorkersConsistent'
  BY DEF TypeOK, WorkerState, WorkersConsistent, BeginLockEvent, WorkerAt
<1>3. NothingShared'
  BY DEF TypeOK, WorkerState, NothingShared, BeginLockEvent, WorkerAt
<1>4. HistoryShape'
  BY DEF HistoryShape, BeginLockEvent, WorkerAt
<1>5. StepShape'
  BY DEF StepShape, BeginLockEvent, WorkerAt
<1>6. Carried'
  BY DEF TypeOK, WorkerState, Carried, Carries, BeginLockEvent, WorkerAt
<1> QED
  BY <1>1, <1>2, <1>3, <1>4, <1>5, <1>6

\* Locks only.
LEMMA BeginLockStepStep ==
  ASSUME IInv, NEW w \in Workers, BeginLockStep(w)
  PROVE  IInv'
<1> USE DEF IInv, rows
<1>1. TypeOK'
  BY DEF TypeOK, WorkerState, EventStatus, Pending, StepStatus, ExecutionStatus, BeginLockStep, WorkerAt
<1>2. WorkersConsistent'
  BY DEF TypeOK, WorkerState, WorkersConsistent, BeginLockStep, WorkerAt
<1>3. NothingShared'
  BY DEF TypeOK, WorkerState, NothingShared, BeginLockStep, WorkerAt
<1>4. HistoryShape'
  BY DEF HistoryShape, BeginLockStep, WorkerAt
<1>5. StepShape'
  BY DEF StepShape, BeginLockStep, WorkerAt
<1>6. Carried'
  BY DEF TypeOK, WorkerState, Carried, Carries, BeginLockStep, WorkerAt
<1> QED
  BY <1>1, <1>2, <1>3, <1>4, <1>5, <1>6

\* The new attempt ends the history; nobody is completing an older one.
LEMMA BeginRecoveryAttemptStep ==
  ASSUME IInv, NEW w \in Workers, BeginRecoveryAttempt(w)
  PROVE  IInv'
<1> USE DEF IInv, rows
<1> DEFINE x == IF results # {} THEN "RETURN_EXISTING" ELSE "RUNNING"
<1>a. /\ executions' \in Seq(ExecutionStatus)
      /\ Len(executions') = Len(executions) + 1
      /\ DOMAIN executions = 1..Len(executions)
      /\ DOMAIN executions' = 1..Len(executions) + 1
      /\ executions'[Len(executions) + 1] = x
      /\ \A n \in 1..Len(executions) :
           executions'[n] = IF executions[n] = "RUNNING" THEN "WORKER_LOST"
                                                         ELSE executions[n]
  <2>1. x \in ExecutionStatus /\ executions \in Seq(ExecutionStatus)
    BY DEF TypeOK, ExecutionStatus
  <2>2. executions' = Append(Reconciled(executions), x)
    BY DEF BeginRecoveryAttempt, ResultExists
  <2> HIDE DEF x
  <2> QED
    BY <2>1, <2>2, BeginHistory
<1>b. /\ Len(executions) = step.attempts
      /\ step.attempts \in Nat
      /\ step'.attempts = step.attempts + 1
      /\ step'.status = IF results # {} THEN "SUCCEEDED" ELSE "RUNNING"
      /\ step' \in [status : StepStatus, attempts : Nat]
      /\ UNCHANGED <<event, results, broker, dispatcher, crashes, errors>>
  BY DEF BeginRecoveryAttempt, ResultExists, StepAfterBegin, TypeOK,
         HistoryShape, StepStatus
<1>c. /\ worker[w].pc = "reconcile"
      /\ worker'[w].pc = IF results # {} THEN "ack" ELSE "hold"
      /\ worker'[w].attempt = step.attempts + 1
      /\ worker'[w].delivery = worker[w].delivery
      /\ \A v \in Workers : v # w => worker'[v] = worker[v]
      /\ worker' \in [Workers -> WorkerState]
  <2>1. worker \in [Workers -> WorkerState] /\ step.attempts + 1 \in Nat
    BY <1>b DEF TypeOK, WorkerState
  <2>2. /\ worker[w].pc = "reconcile"
        /\ worker' = [worker EXCEPT
             ![w] = [pc |-> IF results # {} THEN "ack" ELSE "hold",
                     delivery |-> worker[w].delivery,
                     attempt |-> step.attempts + 1]]
    BY DEF BeginRecoveryAttempt, ResultExists
  <2> DEFINE y == IF results # {} THEN "ack" ELSE "hold"
  <2>3. y \in {"ack", "hold"}
    OBVIOUS
  <2>4. [pc |-> y, delivery |-> worker[w].delivery,
         attempt |-> step.attempts + 1] \in WorkerState
    BY <2>1, <2>3 DEF WorkerState
  <2> QED
    BY <2>1, <2>2, <2>4
<1>d. \A v \in Workers : worker[v].pc # "complete"
  BY DEF BeginRecoveryAttempt, RunningFree, ExecutionFree, WorkersConsistent
<1>1. TypeOK'
  BY <1>a, <1>b, <1>c DEF TypeOK
<1>2. WorkersConsistent'
  BY <1>a, <1>b, <1>c, <1>d DEF WorkersConsistent
<1>3. NothingShared'
  BY <1>c, <1>d DEF NothingShared
<1>4. HistoryShape'
  <2>1. Len(executions') = step'.attempts /\ results' \subseteq DOMAIN executions'
    BY <1>a, <1>b DEF HistoryShape
  <2>2. ASSUME results = {}, NEW n \in DOMAIN executions'
        PROVE  executions'[n] = IF n = step'.attempts THEN "RUNNING"
                                                      ELSE "WORKER_LOST"
    BY <1>a, <1>b, <2>2 DEF HistoryShape
  <2>3. ASSUME NEW k \in results, NEW n \in DOMAIN executions'
        PROVE  executions'[n] = IF n < k THEN "WORKER_LOST"
                                ELSE IF n = k THEN "SUCCEEDED"
                                ELSE "RETURN_EXISTING"
    BY <1>a, <1>b, <2>3 DEF HistoryShape
  <2> QED
    BY <1>b, <2>1, <2>2, <2>3 DEF HistoryShape
<1>5. StepShape'
  BY <1>b DEF StepShape
<1>6. Carried'
  BY <1>b, <1>c DEF Carried, Carries
<1> QED
  BY <1>1, <1>2, <1>3, <1>4, <1>5, <1>6

\* Only the newest attempt can be RUNNING, and its row lock is exclusive.
LEMMA CompleteLockExecutionStep ==
  ASSUME IInv, NEW w \in Workers, CompleteLockExecution(w)
  PROVE  IInv'
<1> USE DEF IInv, rows
<1>a. /\ worker[w].pc = "hold"
      /\ worker[w].attempt \in DOMAIN executions
      /\ UNCHANGED <<event, step, executions, results, dispatcher, crashes, errors>>
  BY DEF CompleteLockExecution, WorkersConsistent
<1>b. CASE /\ executions[worker[w].attempt] = "RUNNING"
           /\ worker' = [worker EXCEPT ![w].pc = "complete"]
           /\ UNCHANGED broker
  <2>1. /\ worker'[w].pc = "complete"
        /\ worker'[w].attempt = worker[w].attempt
        /\ worker'[w].delivery = worker[w].delivery
        /\ \A v \in Workers : v # w => worker'[v] = worker[v]
    BY <1>b DEF TypeOK, WorkerState
  <2>2. TypeOK'
    BY <1>a, <1>b DEF TypeOK, WorkerState
  <2>3. WorkersConsistent'
    BY <1>a, <1>b, <2>1 DEF WorkersConsistent
  <2>4. ASSUME NEW v \in Workers, v # w PROVE worker[v].pc # "complete"
    <3> SUFFICES ASSUME worker[v].pc = "complete" PROVE FALSE
      OBVIOUS
    <3>1. /\ executions[worker[v].attempt] = "RUNNING"
          /\ worker[v].attempt \in DOMAIN executions
      BY DEF WorkersConsistent
    <3>2. worker[v].attempt = step.attempts /\ worker[w].attempt = step.attempts
      <4>1. ASSUME NEW n \in DOMAIN executions, executions[n] = "RUNNING"
            PROVE  n = step.attempts
        <5>1. results = {}
          BY <4>1 DEF HistoryShape
        <5> QED
          BY <4>1, <5>1 DEF HistoryShape
      <4> QED
        BY <1>a, <1>b, <3>1, <4>1
    <3> QED
      BY <3>2, <2>4 DEF CompleteLockExecution, ExecutionFree
  <2>5. NothingShared'
    BY <2>1, <2>4, <1>a DEF NothingShared
  <2>6. HistoryShape' /\ StepShape'
    BY <1>a DEF HistoryShape, StepShape
  <2>7. Carried'
    BY <1>a, <1>b, <2>1 DEF Carried, Carries
  <2> QED
    BY <2>2, <2>3, <2>5, <2>6, <2>7
<1>c. CASE executions[worker[w].attempt] # "RUNNING" /\ Acknowledge(w)
  <2>r. Released(w, "acked")
    BY <1>a, <1>c, AcknowledgeFacts DEF Acknowledge
  <2>1. TypeOK' /\ WorkersConsistent' /\ NothingShared'
    <3>1. TypeOK'
      BY <1>a, <2>r DEF TypeOK, Released
    <3> QED
      BY <1>a, <2>r, <3>1, ReleaseKeeps
  <2>2. HistoryShape' /\ StepShape'
    BY <1>a DEF HistoryShape, StepShape
  <2>3. results = {} => worker[w].attempt # step.attempts
    BY <1>a, <1>c DEF HistoryShape
  <2>4. Carried'
    BY <1>a, <2>r, <2>3 DEF Carried, Carries, Released
  <2> QED
    BY <2>1, <2>2, <2>4
<1> QED
  BY <1>a, <1>b, <1>c DEF CompleteLockExecution, MayComplete, WorkerAt

\* The attempt being completed is the newest, and there is no result yet.
LEMMA CompleteRecoveryAttemptStep ==
  ASSUME IInv, NEW w \in Workers, CompleteRecoveryAttempt(w)
  PROVE  IInv'
<1> USE DEF IInv, rows
<1> DEFINE n == worker[w].attempt
<1>a. /\ worker[w].pc = "complete"
      /\ n \in DOMAIN executions
      /\ executions[n] = "RUNNING"
      /\ executions \in Seq(ExecutionStatus)
  BY DEF CompleteRecoveryAttempt, WorkerAt, WorkersConsistent, TypeOK
<1>b. /\ results = {}
      /\ n = step.attempts
      /\ n \in Nat
      /\ DOMAIN executions = 1..step.attempts
  BY <1>a DEF HistoryShape, TypeOK
<1>c. /\ results' = {n}
      /\ executions' = [executions EXCEPT ![n] = "SUCCEEDED"]
      /\ step'.status = "SUCCEEDED"
      /\ step'.attempts = step.attempts
      /\ step' \in [status : StepStatus, attempts : Nat]
      /\ UNCHANGED <<event, broker, dispatcher, crashes, errors>>
  BY <1>b DEF CompleteRecoveryAttempt, TypeOK, StepStatus
<1>d. /\ executions' \in Seq(ExecutionStatus)
      /\ Len(executions') = Len(executions)
      /\ DOMAIN executions' = DOMAIN executions
      /\ executions'[n] = "SUCCEEDED"
      /\ \A m \in DOMAIN executions : m # n => executions'[m] = executions[m]
  BY <1>a, <1>c, CompleteHistory DEF ExecutionStatus
<1>e. /\ worker'[w].pc = "ack"
      /\ worker'[w].attempt = n
      /\ worker'[w].delivery = worker[w].delivery
      /\ \A v \in Workers : v # w => worker'[v] = worker[v] /\ worker[v].pc # "complete"
      /\ worker' \in [Workers -> WorkerState]
  BY <1>a DEF CompleteRecoveryAttempt, WorkerAt, TypeOK, WorkerState, NothingShared
<1> HIDE DEF n
<1>1. TypeOK'
  BY <1>b, <1>c, <1>d, <1>e DEF TypeOK
<1>2. WorkersConsistent'
  BY <1>a, <1>c, <1>d, <1>e DEF WorkersConsistent
<1>3. NothingShared'
  BY <1>a, <1>e DEF NothingShared
<1>4. HistoryShape'
  BY <1>a, <1>b, <1>c, <1>d DEF HistoryShape
<1>5. StepShape'
  BY <1>b, <1>c DEF StepShape
<1>6. Carried'
  BY <1>c DEF Carried
<1> QED
  BY <1>1, <1>2, <1>3, <1>4, <1>5, <1>6

\* A message is acknowledged after the result exists.
LEMMA AckStep ==
  ASSUME IInv, NEW w \in Workers, Ack(w)
  PROVE  IInv'
<1> USE DEF IInv, rows
<1>a. worker[w].pc # "idle"
  BY DEF Ack
<1>r. Released(w, "acked")
  BY <1>a, AcknowledgeFacts DEF Ack, Acknowledge
<1>1. TypeOK'
  BY <1>r DEF TypeOK, Released, Ack
<1>2. WorkersConsistent'
  BY <1>a, <1>r, ReleaseKeeps DEF Ack
<1>3. NothingShared'
  BY <1>a, <1>r, ReleaseKeeps DEF Ack
<1>4. HistoryShape'
  BY DEF HistoryShape, Ack, Released
<1>5. StepShape'
  BY DEF StepShape, Ack, Released
<1>6. Carried'
  BY <1>a, <1>r DEF TypeOK, WorkerState, Carried, Carries, WorkersConsistent, Ack, Released
<1> QED
  BY <1>1, <1>2, <1>3, <1>4, <1>5, <1>6

\* The victim's message is gone, but the other party carries the work.
LEMMA DeadlockAbortStep ==
  ASSUME IInv, NEW w \in Workers, DeadlockAbort(w)
  PROVE  IInv'
<1> USE DEF IInv, rows
<1>a. worker[w].pc \in {"reconcile", "complete"} /\ worker[w].pc # "idle"
  BY DEF DeadlockAbort
<1>b. PICK v \in Workers : /\ worker[v].pc \in {"reconcile", "complete"}
                           /\ worker[v].pc # worker[w].pc
  BY DEF DeadlockAbort
<1>c. ASSUME results = {} PROVE Carries(v)
  <2>1. CASE worker[v].pc = "complete"
    BY <1>c, <2>1 DEF WorkersConsistent, HistoryShape, Carries
  <2> QED
    BY <1>b, <2>1 DEF Carries
<1>r. Released(w, "acked")
  BY <1>a, AcknowledgeFacts DEF DeadlockAbort, Acknowledge
<1>d. v # w /\ worker'[v] = worker[v] /\ UNCHANGED <<step, results>>
  BY <1>b, <1>r DEF DeadlockAbort, Released
<1>1. TypeOK'
  BY <1>r DEF TypeOK, Released, DeadlockAbort
<1>2. WorkersConsistent'
  BY <1>a, <1>r, ReleaseKeeps DEF DeadlockAbort
<1>3. NothingShared'
  BY <1>a, <1>r, ReleaseKeeps DEF DeadlockAbort
<1>4. HistoryShape'
  BY DEF HistoryShape, DeadlockAbort
<1>5. StepShape'
  BY DEF StepShape, DeadlockAbort
<1>6. Carried'
  BY <1>c, <1>d DEF Carried, Carries
<1> QED
  BY <1>1, <1>2, <1>3, <1>4, <1>5, <1>6

\* A failed transaction is counted.
LEMMA TransactionErrorStep ==
  ASSUME IInv, NEW w \in Workers, TransactionError(w)
  PROVE  IInv'
<1> USE DEF IInv, rows
<1>a. worker[w].pc # "idle"
  BY DEF TransactionError
<1>r. Released(w, "acked")
  BY <1>a, AcknowledgeFacts DEF TransactionError, Acknowledge
<1>1. TypeOK'
  BY <1>r DEF TypeOK, Released, TransactionError
<1>2. WorkersConsistent'
  BY <1>a, <1>r, ReleaseKeeps DEF TransactionError
<1>3. NothingShared'
  BY <1>a, <1>r, ReleaseKeeps DEF TransactionError
<1>4. HistoryShape'
  BY DEF HistoryShape, TransactionError
<1>5. StepShape'
  BY DEF StepShape, TransactionError
<1>6. Carried'
  BY DEF TransactionError, Carried, TypeOK
<1> QED
  BY <1>1, <1>2, <1>3, <1>4, <1>5, <1>6

\* The message of a lost worker is queued again.
LEMMA WorkerLostStep ==
  ASSUME IInv, NEW w \in Workers, WorkerLost(w)
  PROVE  IInv'
<1> USE DEF IInv, rows
<1>a. worker[w].pc # "idle"
  BY DEF WorkerLost
<1>r. Released(w, "queued")
  BY <1>a, AcknowledgeFacts DEF WorkerLost, OnWorkerLost
<1>1. TypeOK'
  BY <1>r DEF TypeOK, Released, WorkerLost
<1>2. WorkersConsistent'
  BY <1>a, <1>r, ReleaseKeeps DEF WorkerLost
<1>3. NothingShared'
  BY <1>a, <1>r, ReleaseKeeps DEF WorkerLost
<1>4. HistoryShape'
  BY DEF HistoryShape, WorkerLost, Released
<1>5. StepShape'
  BY DEF StepShape, WorkerLost, Released
<1>6. Carried'
  BY <1>r DEF TypeOK, WorkerState, Carried, Carries, WorkerLost, Released
<1> QED
  BY <1>1, <1>2, <1>3, <1>4, <1>5, <1>6

-----------------------------------------------------------------------------
\* prepare_recovery_probe leaves a pending event and nothing else.
LEMMA Initially == Init => IInv
<1> SUFFICES ASSUME Init PROVE IInv
  OBVIOUS
<1>1. TypeOK
  BY DEF Init, TypeOK, Idle, WorkerState, EventStatus, Pending, StepStatus
<1>2. WorkersConsistent /\ NothingShared
  BY DEF Init, Idle, WorkersConsistent, NothingShared
<1>3. HistoryShape /\ StepShape /\ Carried
  BY DEF Init, HistoryShape, StepShape, Carried
<1> QED
  BY <1>1, <1>2, <1>3 DEF IInv

\* Every step of the dispatch runs and of the workers keeps the invariant.
LEMMA Inductive == IInv /\ [Next]_vars => IInv'
<1> SUFFICES ASSUME IInv, [Next]_vars PROVE IInv'
  OBVIOUS
<1>1. CASE UNCHANGED vars
  BY <1>1 DEF vars, IInv, TypeOK, WorkersConsistent, NothingShared,
              HistoryShape, StepShape, Carried, Carries
<1>2. ASSUME NEW p \in Dispatchers, Dispatch(p) PROVE IInv'
  BY <1>2, PendingEventPayloadStep, RecordEventPublishAttemptStep,
     SendTaskStep, MarkEventPublishedStep, MarkEventRetryPendingStep,
     DispatchCrashStep
     DEF Dispatch
<1>3. ASSUME NEW w \in Workers, VerifyDelivery(w) PROVE IInv'
  BY <1>3, TakeStep, BeginLockEventStep, BeginLockStepStep,
     BeginRecoveryAttemptStep, CompleteLockExecutionStep,
     CompleteRecoveryAttemptStep, AckStep, DeadlockAbortStep
     DEF VerifyDelivery
<1> QED
  BY <1>1, <1>2, <1>3, TransactionErrorStep, WorkerLostStep DEF Next

\* So it holds of every run of the queue.
THEOREM InductiveInvariant == Spec => []IInv
  BY Initially, Inductive, PTL DEF Spec

-----------------------------------------------------------------------------
\* Type correctness of the rows, the broker and the processes.
THEOREM TypeCorrect == Spec => []TypeOK
<1>1. IInv => TypeOK
  BY DEF IInv
<1> QED
  BY <1>1, InductiveInvariant, PTL

\* Attempts are numbered without gaps and at most the newest is RUNNING,
\* however many workers handle duplicates of the event at once.
THEOREM NewestOnly == Spec => []OnlyNewestRuns
<1>1. IInv => OnlyNewestRuns
  BY DEF IInv, HistoryShape, OnlyNewestRuns, Running
<1> QED
  BY <1>1, InductiveInvariant, PTL

\* The result table and the attempt history always tell the same story, so
\* there is at most one logical result per idempotency key.
THEOREM ResultsAgree == Spec => []ResultMatchesHistory
<1>1. ASSUME IInv PROVE ResultMatchesHistory
  <2>1. CASE results = {}
    BY <1>1, <2>1 DEF IInv, HistoryShape, ResultMatchesHistory, Succeeded
  <2>2. CASE results # {}
    <3>1. PICK k \in results : TRUE
      BY <2>2
    <3>2. /\ k \in DOMAIN executions
          /\ DOMAIN executions \subseteq Nat
          /\ results \subseteq DOMAIN executions
      BY <1>1, <3>1 DEF IInv, HistoryShape, TypeOK
    <3>3. \A j \in results : \A n \in DOMAIN executions :
            executions[n] = IF n < j THEN "WORKER_LOST"
                            ELSE IF n = j THEN "SUCCEEDED" ELSE "RETURN_EXISTING"
      BY <1>1 DEF IInv, HistoryShape
    <3>4. Succeeded = results
      BY <3>1, <3>2, <3>3 DEF Succeeded
    <3>5. Running = {}
      BY <3>1, <3>2, <3>3 DEF Running
    <3> QED
      BY <3>2, <3>3, <3>4, <3>5 DEF ResultMatchesHistory
  <2> QED
    BY <2>1, <2>2
<1> QED
  BY <1>1, InductiveInvariant, PTL

\* The step row never claims more than the attempt and result tables show.
THEOREM StepAgrees == Spec => []StepMatchesTables
<1>1. ASSUME IInv PROVE StepMatchesTables
  <2>1. step.attempts \in Nat /\ DOMAIN executions = 1..step.attempts
    BY <1>1 DEF IInv, TypeOK, HistoryShape
  <2>2. step.status = "RUNNING" => Running # {}
    BY <1>1, <2>1 DEF IInv, HistoryShape, StepShape, Running
  <2>3. Running # {} => step.status \in {"RUNNING", "QUEUED"}
    <3>1. ASSUME NEW n \in Running PROVE results = {} /\ step.attempts > 0
      BY <1>1, <2>1, <3>1 DEF IInv, HistoryShape, Running
    <3>2. /\ step.status \in {"DISPATCH_PENDING", "QUEUED", "RUNNING", "SUCCEEDED"}
          /\ step.status = "SUCCEEDED" => results # {}
          /\ step.status = "DISPATCH_PENDING" => ~(step.attempts > 0)
      BY <1>1, <2>1 DEF IInv, TypeOK, StepShape, StepStatus
    <3> QED
      BY <3>1, <3>2
  <2> QED
    BY <1>1, <2>2, <2>3 DEF IInv, StepShape, StepMatchesTables
<1> QED
  BY <1>1, InductiveInvariant, PTL

\* At-least-once: until the result exists, the event can be dispatched again
\* or somebody still carries the message, whatever workers and dispatch runs
\* are lost and whichever party a database deadlock aborts.
THEOREM WorkSurvives == Spec => []WorkIsNeverLost
<1>1. ASSUME IInv PROVE WorkIsNeverLost
  <2> SUFFICES ASSUME errors = 0
               PROVE  /\ results # {} \/ event.status \in Pending \/ Live # {}
                      /\ Running # {} => Live # {}
    BY <1>1 DEF IInv, TypeOK, WorkIsNeverLost
  <2>1. (\/ \E d \in Deliveries : broker[d] = "queued"
         \/ \E w \in Workers : Carries(w)) => Live # {}
    BY <1>1 DEF IInv, WorkersConsistent, Carries, Live
  <2>2. Running # {} => results = {} /\ step.attempts > 0
    <3>1. ASSUME NEW n \in Running PROVE results = {} /\ step.attempts > 0
      <4>1. step.attempts \in Nat /\ DOMAIN executions = 1..step.attempts
        BY <1>1 DEF IInv, TypeOK, HistoryShape
      <4> QED
        BY <1>1, <3>1, <4>1 DEF IInv, HistoryShape, Running
    <3> QED
      BY <3>1
  <2>3. event.status \in Pending \/ event.status = "PUBLISHED"
    BY <1>1 DEF IInv, TypeOK, EventStatus
  <2> QED
    BY <1>1, <2>1, <2>2, <2>3 DEF IInv, Carried
<1> QED
  BY <1>1, InductiveInvariant, PTL

\* A finished attempt is never rewritten and none disappears: reconciliation
\* and completion touch RUNNING rows only.
THEOREM HistoryIsFinal == Spec => AttemptHistoryIsFinal
<1> DEFINE Kept == /\ Len(executions') >= Len(executions)
                   /\ \A n \in DOMAIN executions :
                        executions[n] # "RUNNING" => executions'[n] = executions[n]
<1>1. ASSUME IInv, [Next]_vars PROVE Kept
  <2>0. executions \in Seq(ExecutionStatus) /\ DOMAIN executions = 1..Len(executions)
    BY <1>1 DEF IInv, TypeOK
  <2>1. CASE UNCHANGED executions
    BY <2>0, <2>1
  <2>2. ASSUME NEW w \in Workers, BeginRecoveryAttempt(w) PROVE Kept
    <3> DEFINE x == IF ResultExists THEN "RETURN_EXISTING" ELSE "RUNNING"
    <3>1. x \in ExecutionStatus /\ executions' = Append(Reconciled(executions), x)
      BY <2>2 DEF BeginRecoveryAttempt, ExecutionStatus
    <3> HIDE DEF x
    <3> QED
      BY <2>0, <3>1, BeginHistory
  <2>3. ASSUME NEW w \in Workers, CompleteRecoveryAttempt(w) PROVE Kept
    <3>1. /\ worker[w].attempt \in DOMAIN executions
          /\ executions[worker[w].attempt] = "RUNNING"
      BY <1>1, <2>3 DEF IInv, WorkersConsistent, CompleteRecoveryAttempt, WorkerAt
    <3> DEFINE x == IF results = {} THEN "SUCCEEDED" ELSE "RETURN_EXISTING"
    <3>2. /\ x \in ExecutionStatus
          /\ executions' = [executions EXCEPT ![worker[w].attempt] = x]
      BY <2>3 DEF CompleteRecoveryAttempt, ExecutionStatus
    <3> HIDE DEF x
    <3> QED
      BY <2>0, <3>1, <3>2, CompleteHistory
  <2>4. ASSUME NEW p \in Dispatchers, Dispatch(p) PROVE UNCHANGED executions
    BY <2>4 DEF Dispatch, PendingEventPayload, RecordEventPublishAttempt,
       SendTask, MarkEventPublished, MarkEventRetryPending, DispatchCrash, rows
  <2>5. ASSUME NEW w \in Workers,
               \/ Take(w) \/ BeginLockEvent(w) \/ BeginLockStep(w)
               \/ CompleteLockExecution(w) \/ Ack(w) \/ DeadlockAbort(w)
               \/ TransactionError(w) \/ WorkerLost(w)
        PROVE  UNCHANGED executions
    BY <2>5 DEF Take, BeginLockEvent, BeginLockStep, CompleteLockExecution,
       Ack, DeadlockAbort, TransactionError, WorkerLost, rows
  <2> QED
    BY <1>1, <2>1, <2>2, <2>3, <2>4, <2>5 DEF Next, VerifyDelivery, vars
<1> QED
  BY <1>1, InductiveInvariant, PTL DEF Spec, AttemptHistoryIsFinal

-----------------------------------------------------------------------------
(* The outbox and its workers implement ExactlyOnce.                       *)

InFlight == IF Running = {} THEN None ELSE CHOOSE n \in Running : TRUE
Winner == IF results = {} THEN None ELSE CHOOSE n \in results : TRUE

\* The invariant says what ExactlyOnce sees: before the result the newest attempt
\* is in flight, if there is one; after it none is, and one attempt has won.
LEMMA WhatIsSeen ==
  ASSUME IInv
  PROVE  /\ step.attempts \in Nat /\ Len(executions) = step.attempts
         /\ DOMAIN executions = 1..step.attempts
         /\ results = {} => /\ Winner = None
                            /\ InFlight = IF step.attempts = 0 THEN None ELSE step.attempts
         /\ results # {} => Winner \in Nat /\ results = {Winner} /\ InFlight = None
<1>1. /\ step.attempts \in Nat /\ Len(executions) = step.attempts
      /\ DOMAIN executions = 1..step.attempts
  BY DEF IInv, TypeOK, HistoryShape
<1>2. ASSUME results = {}
      PROVE  Winner = None /\ InFlight = IF step.attempts = 0 THEN None ELSE step.attempts
  <2>1. Running = IF step.attempts = 0 THEN {} ELSE {step.attempts}
    BY <1>1, <1>2 DEF IInv, HistoryShape, Running
  <2>2. step.attempts # 0 => InFlight = step.attempts
    BY <2>1 DEF InFlight
  <2>3. step.attempts = 0 => InFlight = None
    BY <2>1 DEF InFlight
  <2> QED
    BY <1>2, <2>2, <2>3 DEF Winner
<1>3. ASSUME results # {}
      PROVE  Winner \in Nat /\ results = {Winner} /\ InFlight = None
  <2>1. \A j \in results : /\ j \in DOMAIN executions
                           /\ \A n \in DOMAIN executions :
                                executions[n] = IF n < j THEN "WORKER_LOST"
                                                ELSE IF n = j THEN "SUCCEEDED" ELSE "RETURN_EXISTING"
    BY DEF IInv, HistoryShape
  <2>2. Winner \in results
    BY <1>3 DEF Winner
  <2>3. \A j \in results : j \in Nat /\ executions[j] = "SUCCEEDED"
    BY <1>1, <2>1
  <2>4. \A j \in results : j = Winner
    BY <1>1, <2>1, <2>2, <2>3
  <2>5. Running = {}
    BY <1>1, <1>3, <2>1 DEF Running
  <2>6. InFlight = None
    BY <2>5 DEF InFlight
  <2> QED
    BY <2>2, <2>3, <2>4, <2>6
<1> QED
  BY <1>1, <1>2, <1>3

\* A RUNNING attempt shows that no result exists yet.
LEMMA RunningShows == ASSUME IInv, Running # {} PROVE results = {}
<1>1. DOMAIN executions = 1..step.attempts /\ step.attempts \in Nat
  BY DEF IInv, TypeOK, HistoryShape
<1>2. PICK n \in DOMAIN executions : executions[n] = "RUNNING"
  BY DEF Running
<1> QED
  BY <1>1, <1>2 DEF IInv, HistoryShape

\* What ExactlyOnce sees, as one predicate of a state.
Seen ==
  /\ results = {} => /\ Winner = None
                     /\ InFlight = IF step.attempts = 0 THEN None ELSE step.attempts
  /\ results # {} => Winner \in Nat /\ results = {Winner} /\ InFlight = None
\* The invariant gives it.
LEMMA SeenNow == IInv => Seen
BY WhatIsSeen DEF Seen

\* The same of the next state.
LEMMA SeenNext == IInv' => Seen'
BY SeenNow, PTL

\* Nothing has been tried before the first delivery.
LEMMA InitialRefines == Init => Abstract!AbsInit
<1> SUFFICES ASSUME Init PROVE Abstract!AbsInit
  OBVIOUS
<1>1. Len(executions) = 0 /\ Running = {} /\ results = {}
  BY DEF Init, Running
<1> QED
  BY <1>1 DEF Abstract!AbsInit

\* begin_recovery_attempt supersedes the attempt in flight, or is the duplicate
\* that finds the result.
LEMMA BeginRefines ==
  ASSUME IInv, IInv', NEW w \in Workers, BeginRecoveryAttempt(w)
  PROVE  Abstract!Supersede \/ Abstract!Duplicate
<1>1. /\ step'.attempts = step.attempts + 1 /\ results' = results
      /\ step.attempts \in Nat
  BY WhatIsSeen DEF BeginRecoveryAttempt
<1>2. Len(executions) = step.attempts /\ Len(executions') = step'.attempts
  BY WhatIsSeen DEF IInv, HistoryShape
<1>3. /\ results' = {} => /\ Winner' = None
                          /\ InFlight' = IF step'.attempts = 0 THEN None ELSE step'.attempts
      /\ results' # {} => InFlight' = None /\ Winner' \in Nat
  BY SeenNext DEF Seen
<1>4. CASE results = {}
  <2>1. /\ Winner = None /\ Winner' = None
        /\ InFlight' = Len(executions) + 1 /\ Len(executions') = Len(executions) + 1
    BY <1>1, <1>2, <1>3, <1>4, WhatIsSeen
  <2> QED
    BY <2>1 DEF Abstract!Supersede, Winner, InFlight
<1>5. CASE results # {}
  <2>1. Winner # None /\ Winner' = Winner
    BY <1>1, <1>5, WhatIsSeen, NoneAssumption DEF Winner
  <2>2. InFlight' = InFlight /\ Len(executions') = Len(executions) + 1
    BY <1>1, <1>2, <1>3, <1>5, WhatIsSeen
  <2> QED
    BY <2>1, <2>2 DEF Abstract!Duplicate, Winner, InFlight
<1> QED
  BY <1>4, <1>5

\* complete_recovery_attempt produces the result, with the attempt in flight.
LEMMA CompleteRefines ==
  ASSUME IInv, IInv', NEW w \in Workers, CompleteRecoveryAttempt(w)
  PROVE  Abstract!Finish
<1> DEFINE n == worker[w].attempt
<1>1. /\ worker[w].pc = "complete"
      /\ results' = IF results = {} THEN {n} ELSE results
      /\ step'.attempts = step.attempts
  BY DEF CompleteRecoveryAttempt, WorkerAt, IInv, TypeOK
<1>2. n \in DOMAIN executions /\ executions[n] = "RUNNING"
  BY <1>1 DEF IInv, WorkersConsistent
<1>3. results = {}
  <2>1. Running # {}
    BY <1>2 DEF Running
  <2> QED
    BY <2>1, WhatIsSeen, RunningShows
<1>4. n = step.attempts /\ step.attempts # 0 /\ n \in Nat
  BY <1>2, <1>3, WhatIsSeen DEF IInv, HistoryShape
<1>5. Winner = None /\ InFlight = n /\ n # None
  BY <1>3, <1>4, WhatIsSeen, NoneAssumption
<1>6. Winner' = n /\ InFlight' = None
  BY <1>1, <1>3, SeenNext DEF Seen
<1>7. Len(executions') = Len(executions)
  BY <1>1 DEF IInv, HistoryShape
<1> QED
  BY <1>5, <1>6, <1>7 DEF Abstract!Finish, Winner, InFlight

\* Every step is one of ExactlyOnce or changes nothing there.
LEMMA StepRefines ==
  ASSUME IInv, IInv', [Next]_vars PROVE [Abstract!AbsNext]_(Abstract!absVars)
<1>1. ASSUME UNCHANGED <<executions, results>> PROVE UNCHANGED Abstract!absVars
  BY <1>1 DEF Abstract!absVars, Running
<1>2. ASSUME NEW p \in Dispatchers, Dispatch(p) PROVE UNCHANGED <<executions, results>>
  BY <1>2 DEF Dispatch, PendingEventPayload, RecordEventPublishAttempt,
     SendTask, MarkEventPublished, MarkEventRetryPending, DispatchCrash, rows
<1>3. ASSUME NEW w \in Workers,
             \/ Take(w) \/ BeginLockEvent(w) \/ BeginLockStep(w)
             \/ CompleteLockExecution(w) \/ Ack(w) \/ DeadlockAbort(w)
             \/ TransactionError(w) \/ WorkerLost(w)
      PROVE  UNCHANGED <<executions, results>>
  BY <1>3 DEF Take, BeginLockEvent, BeginLockStep, CompleteLockExecution,
     Ack, DeadlockAbort, TransactionError, WorkerLost, rows
<1>4. ASSUME NEW w \in Workers, BeginRecoveryAttempt(w) PROVE Abstract!AbsNext
  BY <1>4, BeginRefines DEF Abstract!AbsNext
<1>5. ASSUME NEW w \in Workers, CompleteRecoveryAttempt(w) PROVE Abstract!AbsNext
  BY <1>5, CompleteRefines DEF Abstract!AbsNext
<1>6. UNCHANGED vars => UNCHANGED <<executions, results>>
  BY DEF vars
<1> QED
  BY <1>1, <1>2, <1>3, <1>4, <1>5, <1>6 DEF Next, VerifyDelivery

\* The outbox, the broker and the late-acknowledging workers keep the promise of
\* ExactlyOnce: one attempt, the one in flight, produces the one result, however
\* often the event is delivered and workers are lost.
THEOREM QueueImplementsExactlyOnce == Spec => ImplementsExactlyOnce
<1>1. IInv /\ [Next]_vars => [Abstract!AbsNext]_(Abstract!absVars)
  BY Inductive, StepRefines
<1> QED
  BY <1>1, InitialRefines, InductiveInvariant, PTL DEF Spec, ImplementsExactlyOnce, Abstract!AbsSpec

=============================================================================
