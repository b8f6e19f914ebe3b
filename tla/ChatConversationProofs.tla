----------------------- MODULE ChatConversationProofs -----------------------
(***************************************************************************)
(* Proofs about ChatConversation for every number of messages,             *)
(* generations, idempotency keys, labels and server threads.               *)
(***************************************************************************)
EXTENDS ChatConversation, FiniteSetTheorems, TLAPS

ThreadRow == [status : {"ACTIVE", "ARCHIVED", "TOMBSTONED"},
              before : {"NONE", "ACTIVE", "ARCHIVED"}, label : Labels, undoable : BOOLEAN]
MessageRow == [role : {"NONE", "USER", "ASSISTANT"}, status : {"COMPLETED", "SUPERSEDED"},
               key : ({"send", "edit"} \X Keys) \cup {NoKey}, editOf : Messages \cup {None},
               parent : Messages \cup {None}, gen : Generations \cup {None}]
GenerationRow == [status : {"NONE"} \cup Open \cup Terminal, question : Messages \cup {None},
                  key : ({"send", "edit", "retry"} \X Keys) \cup {NoKey},
                  answer : Messages \cup {None}]
RunnerRow == [pc : {"idle", "mark", "load", "complete", "fail"}, g : Generations \cup {None}]

\* The edits of a message.
Successors(m) == {n \in Messages : message[n].editOf = m}

\* A message is superseded by one edit, and a row not yet used has none.
OneSuccessor ==
  \A m \in Messages :
    /\ message[m].status = "COMPLETED" => Successors(m) = {}
    /\ message[m].status = "SUPERSEDED" => \E n \in Messages : Successors(m) = {n}
    /\ message[m].role = "NONE" => message[m].status = "COMPLETED" /\ message[m].editOf = None

\* The thread keeps the status it had when it was deleted, and so does the
\* event of the deletion, which is then the newest one.
DeletionRemembered ==
  /\ event # NoEvent => event.after = Snapshot(thread)
  /\ Visible => thread.before = "NONE"
  /\ ~Visible => /\ thread.before # "NONE"
                 /\ event.action = "TOMBSTONE"
                 /\ event.before = <<thread.before, thread.label, "NONE">>

\* A generation that exists answers a question, and a task has one that exists.
QuestionsKnown ==
  /\ \A g \in Generations : generation[g].status # "NONE" => generation[g].question \in Messages
  /\ \A r \in Runners : runner[r].pc # "idle" => generation[runner[r].g].status # "NONE"

IInv ==
  /\ TypeOK /\ faults \in Nat /\ QuestionsKnown /\ DeletionRemembered
  /\ OneSuccessor /\ AnswersMatchGenerations /\ StreamingHasATask

-----------------------------------------------------------------------------
(* What a step leaves of the history, of the tasks and of the thread.      *)

\* The types of the tables, as the invariant has them.
LEMMA Types ==
  ASSUME IInv
  PROVE  /\ thread \in ThreadRow
         /\ message \in [Messages -> MessageRow]
         /\ generation \in [Generations -> GenerationRow]
         /\ runner \in [Runners -> RunnerRow]
         /\ \A r \in Runners : runner[r].pc # "idle" => runner[r].g \in Generations
  BY DEF IInv, TypeOK, At, ThreadRow, MessageRow, GenerationRow, RunnerRow

\* The same functions give the type invariant of the next state.
LEMMA TypesSuffice ==
  ASSUME thread' \in ThreadRow, message' \in [Messages -> MessageRow],
         generation' \in [Generations -> GenerationRow], runner' \in [Runners -> RunnerRow],
         \A r \in Runners : runner'[r].pc # "idle" => runner'[r].g # None
  PROVE  TypeOK'
  BY DEF TypeOK, At, ThreadRow, MessageRow, GenerationRow, RunnerRow

\* A fresh identity is one of the unused ones.
LEMMA FreshIsUnused == ASSUME NEW S, NEW x \in Fresh(S) PROVE x \in S
  BY DEF Fresh

\* A row inserted is one that was not used before.
LEMMA NewRows ==
  /\ \A m \in NewMessage : m \in Messages /\ message[m].role = "NONE"
  /\ \A g \in NewGeneration : g \in Generations /\ generation[g].status = "NONE"
  BY FreshIsUnused DEF NewMessage, NewGeneration

\* What a generation may become: it has a question, it has an answer exactly when
\* it is completed, and an answer it had stays with its question.
GenerationStep(g, rec) ==
  /\ generation' = [generation EXCEPT ![g] = rec]
  /\ rec \in GenerationRow
  /\ rec.status # "NONE" /\ rec.question \in Messages
  /\ rec.status = "COMPLETED" <=> rec.answer # None
  /\ generation[g].answer # None =>
       rec.answer = generation[g].answer /\ rec.question = generation[g].question

\* Generations that exist go on existing, with a question.
LEMMA QuestionsKept ==
  ASSUME IInv, NEW g \in Generations, NEW rec, GenerationStep(g, rec),
         \A r \in Runners : runner'[r].pc # "idle" =>
           runner'[r].g = g \/ (runner[r].pc # "idle" /\ runner'[r].g = runner[r].g)
  PROVE  QuestionsKnown'
<1>1. /\ generation'[g] = rec
      /\ \A x \in Generations : x # g => generation'[x] = generation[x]
  BY Types DEF GenerationStep
<1>2. \A x \in Generations : generation[x].status # "NONE" => generation'[x].status # "NONE"
  BY <1>1 DEF GenerationStep
<1>3. \A x \in Generations : generation'[x].status # "NONE" => generation'[x].question \in Messages
  BY <1>1 DEF GenerationStep, IInv, QuestionsKnown
<1>4. \A r \in Runners : runner'[r].pc # "idle" => generation'[runner'[r].g].status # "NONE"
  BY <1>1, <1>2, Types DEF GenerationStep, IInv, QuestionsKnown
<1> QED
  BY <1>3, <1>4 DEF QuestionsKnown

\* Answers keep the generation and the question they belong to, and a new one
\* is that of its generation.
LEMMA AnswersKept ==
  ASSUME IInv, NEW g \in Generations, NEW rec, GenerationStep(g, rec),
         \A m \in Messages : message'[m].role = "ASSISTANT" =>
           \/ /\ message[m].role = "ASSISTANT"
              /\ message'[m].gen = message[m].gen /\ message'[m].parent = message[m].parent
           \/ message'[m].gen = g /\ rec.answer = m /\ rec.question = message'[m].parent
  PROVE  AnswersMatchGenerations'
<1>1. /\ generation'[g] = rec
      /\ \A x \in Generations : x # g => generation'[x] = generation[x]
  BY Types DEF GenerationStep
<1>2. \A x \in Generations : generation[x].answer # None =>
        /\ generation'[x].answer = generation[x].answer
        /\ generation'[x].question = generation[x].question
  BY <1>1 DEF GenerationStep
<1>3. ASSUME NEW m \in Messages, message'[m].role = "ASSISTANT"
      PROVE  /\ message'[m].gen # None
             /\ generation'[message'[m].gen].answer = m
             /\ generation'[message'[m].gen].question = message'[m].parent
  <2>1. CASE /\ message[m].role = "ASSISTANT"
             /\ message'[m].gen = message[m].gen /\ message'[m].parent = message[m].parent
    <3>1. /\ message[m].gen \in Generations
          /\ generation[message[m].gen].answer = m
          /\ generation[message[m].gen].question = message[m].parent
      BY <2>1, Types DEF IInv, AnswersMatchGenerations, MessageRow
    <3>2. m # None /\ message[m].gen # None
      BY <3>1, ChatAssumption
    <3> QED
      BY <1>2, <2>1, <3>1, <3>2
  <2>2. CASE message'[m].gen = g /\ rec.answer = m /\ rec.question = message'[m].parent
    BY <1>1, <2>2, ChatAssumption
  <2> QED
    BY <1>3, <2>1, <2>2
<1>4. \A x \in Generations : generation'[x].status = "COMPLETED" <=> generation'[x].answer # None
  BY <1>1 DEF GenerationStep, IInv, AnswersMatchGenerations
<1> QED
  BY <1>3, <1>4 DEF AnswersMatchGenerations

\* No edit: nothing is superseded, and a row inserted is no revision.
LEMMA RevisionsKept ==
  ASSUME IInv,
         \A m \in Messages : /\ message'[m].status = message[m].status
                             /\ message'[m].editOf = message[m].editOf
                             /\ message'[m].role = "NONE" => message[m].role = "NONE"
  PROVE  OneSuccessor'
<1>1. \A m \in Messages : Successors(m)' = Successors(m)
  BY DEF Successors
<1>2. ASSUME NEW m \in Messages
      PROVE  /\ message'[m].status = "COMPLETED" => Successors(m)' = {}
             /\ message'[m].status = "SUPERSEDED" => \E n \in Messages : Successors(m)' = {n}
             /\ message'[m].role = "NONE" =>
                  message'[m].status = "COMPLETED" /\ message'[m].editOf = None
  BY <1>1 DEF IInv, OneSuccessor
<1> QED
  BY <1>2 DEF OneSuccessor

\* A task at work on generation g.
TaskOf(r, g) == runner[r].g = g /\ runner[r].pc \in {"load", "complete", "fail"}

\* A generation that streams after the step keeps a task it had, or has one.
LEMMA TasksKept ==
  ASSUME IInv, UNCHANGED faults,
         \A g \in Generations : generation'[g].status = "STREAMING" =>
           \/ \E r \in Runners : TaskOf(r, g)'
           \/ /\ generation[g].status = "STREAMING"
              /\ \A r \in Runners : TaskOf(r, g) => TaskOf(r, g)'
  PROVE  StreamingHasATask'
<1> SUFFICES ASSUME NEW g \in Generations, generation'[g].status = "STREAMING", faults' = 0
             PROVE  \E r \in Runners : TaskOf(r, g)'
  BY DEF StreamingHasATask, TaskOf
<1>1. generation[g].status = "STREAMING" => \E r \in Runners : TaskOf(r, g)
  BY DEF IInv, StreamingHasATask, TaskOf
<1> QED
  BY <1>1

\* A management step replaces the thread and leaves everything else.
LEMMA ThreadStep ==
  ASSUME IInv, thread' \in ThreadRow, DeletionRemembered',
         UNCHANGED <<message, generation, runner, faults>>
  PROVE  IInv'
<1>1. TypeOK'
  BY Types, TypesSuffice, ChatAssumption
<1>2. OneSuccessor'
  BY RevisionsKept
<1>3. QuestionsKnown' /\ AnswersMatchGenerations' /\ StreamingHasATask'
  BY DEF IInv, QuestionsKnown, AnswersMatchGenerations, StreamingHasATask
<1> QED
  BY <1>1, <1>2, <1>3 DEF IInv

\* A step that leaves the thread alone leaves its newest event alone.
LEMMA SameThread == ASSUME IInv, UNCHANGED <<thread, event>> PROVE DeletionRemembered'
  BY DEF IInv, DeletionRemembered, Visible, Snapshot

-----------------------------------------------------------------------------
(* Questions: one lemma per operation.                                     *)

\* A generation queued for a question, in a row that was not used before.
LEMMA QueuedStep ==
  ASSUME IInv, NEW m \in Messages, NEW operation \in {"send", "edit", "retry"},
         NEW k \in Keys, NEW g \in NewGeneration,
         generation' = [generation EXCEPT ![g] = Queued(m, <<operation, k>>)]
  PROVE  /\ g \in Generations
         /\ GenerationStep(g, Queued(m, <<operation, k>>))
         /\ \A x \in Generations : generation'[x].status = "STREAMING" =>
              generation[x].status = "STREAMING"
<1>1. g \in Generations /\ generation[g].status = "NONE"
  BY NewRows
<1>2. generation[g].answer = None
  BY <1>1 DEF IInv, AnswersMatchGenerations
<1> DEFINE rec == Queued(m, <<operation, k>>)
<1>3. rec \in GenerationRow /\ rec.status = "QUEUED" /\ rec.answer = None
  BY DEF Queued, NoGeneration, GenerationRow, Open, Terminal, NoKey
<1>6. rec.question = m
  BY DEF Queued, NoGeneration
<1> HIDE DEF rec
<1>4. GenerationStep(g, rec)
  BY <1>2, <1>3, <1>6 DEF GenerationStep, rec
<1>5. \A x \in Generations : generation'[x].status = "STREAMING" =>
        generation[x].status = "STREAMING"
  BY <1>1, <1>3, Types DEF rec
<1> QED
  BY <1>1, <1>4, <1>5 DEF rec

\* A question takes a fresh row; the history before it is left alone.
LEMMA SendMessageKeeps == ASSUME IInv, NEW k \in Keys, SendMessage(k) PROVE IInv'
<1>1. PICK m \in NewMessage, g \in NewGeneration :
        /\ message' = [message EXCEPT ![m] =
             [NoMessage EXCEPT !.role = "USER", !.key = <<"send", k>>]]
        /\ generation' = [generation EXCEPT ![g] = Queued(m, <<"send", k>>)]
  BY DEF SendMessage
<1>2. UNCHANGED <<thread, event, runner, faults>>
  BY DEF SendMessage
<1>3. /\ m \in Messages /\ message[m].role = "NONE"
      /\ message[m].status = "COMPLETED" /\ message[m].editOf = None
  BY NewRows DEF IInv, OneSuccessor
<1>4. /\ message' \in [Messages -> MessageRow]
      /\ message'[m].role = "USER" /\ message'[m].status = "COMPLETED"
      /\ message'[m].editOf = None
      /\ \A n \in Messages : n # m => message'[n] = message[n]
  BY <1>1, <1>3, Types DEF NoMessage, MessageRow, NoKey
<1>5. /\ g \in Generations /\ GenerationStep(g, Queued(m, <<"send", k>>))
      /\ \A x \in Generations : generation'[x].status = "STREAMING" =>
           generation[x].status = "STREAMING"
  BY <1>1, <1>3, QueuedStep
<1>6. TypeOK'
  BY <1>2, <1>4, <1>5, Types, TypesSuffice, ChatAssumption DEF GenerationStep
<1>7. AnswersMatchGenerations'
  BY <1>4, <1>5, AnswersKept
<1>8. OneSuccessor'
  BY <1>3, <1>4, RevisionsKept
<1>9. StreamingHasATask'
  BY <1>2, <1>5, TasksKept DEF TaskOf
<1>11. QuestionsKnown'
  BY <1>2, <1>5, QuestionsKept
<1>10. DeletionRemembered'
  BY <1>2, SameThread
<1> QED
  BY <1>2, <1>6, <1>7, <1>8, <1>9, <1>10, <1>11 DEF IInv

\* Only the current revision is editable, so it gets its one successor now.
LEMMA EditMessageKeeps ==
  ASSUME IInv, NEW m \in Messages, NEW k \in Keys, EditMessage(m, k)
  PROVE  IInv'
<1>1. PICK n \in NewMessage, g \in NewGeneration :
        /\ message' = [message EXCEPT
             ![m].status = "SUPERSEDED",
             ![n] = [NoMessage EXCEPT !.role = "USER", !.key = <<"edit", k>>, !.editOf = m]]
        /\ generation' = [generation EXCEPT ![g] = Queued(n, <<"edit", k>>)]
  BY DEF EditMessage
<1>2. UNCHANGED <<thread, event, runner, faults>>
  BY DEF EditMessage
<1>3. /\ n \in Messages /\ message[n].role = "NONE"
      /\ message[n].status = "COMPLETED" /\ message[n].editOf = None
      /\ message[m].role = "USER" /\ message[m].status = "COMPLETED" /\ m # n
  BY NewRows DEF EditMessage, Editable, IInv, OneSuccessor
<1>4. /\ message'[n] = [NoMessage EXCEPT !.role = "USER", !.key = <<"edit", k>>, !.editOf = m]
      /\ message'[m] = [message[m] EXCEPT !.status = "SUPERSEDED"]
      /\ \A x \in Messages : x \notin {m, n} => message'[x] = message[x]
      /\ DOMAIN message' = Messages
      /\ message' = [x \in Messages |-> message'[x]]
  BY <1>1, <1>3, Types
<1>5. /\ message'[n] \in MessageRow
      /\ message'[n].role = "USER" /\ message'[n].status = "COMPLETED"
      /\ message'[n].editOf = m
  <2>1. message'[n] = [role |-> "USER", status |-> "COMPLETED", key |-> <<"edit", k>>,
                       editOf |-> m, parent |-> None, gen |-> None]
    BY <1>4 DEF NoMessage
  <2>2. <<"edit", k>> \in {"send", "edit"} \X Keys
    OBVIOUS
  <2> QED
    BY <2>1, <2>2 DEF MessageRow
<1>6. message[m] \in MessageRow
  BY Types
<1>7. /\ message'[m] \in MessageRow
      /\ message'[m].role = "USER" /\ message'[m].status = "SUPERSEDED"
      /\ message'[m].editOf = message[m].editOf
  BY <1>3, <1>4, <1>6 DEF MessageRow
<1>8. message' \in [Messages -> MessageRow]
  BY <1>4, <1>5, <1>7, Types
<1>9. /\ g \in Generations /\ GenerationStep(g, Queued(n, <<"edit", k>>))
      /\ \A x \in Generations : generation'[x].status = "STREAMING" =>
           generation[x].status = "STREAMING"
  BY <1>1, <1>3, QueuedStep
<1>10. TypeOK'
  BY <1>2, <1>8, <1>9, Types, TypesSuffice, ChatAssumption DEF GenerationStep
<1>11. AnswersMatchGenerations'
  <2>1. \A x \in Messages : message'[x].role = "ASSISTANT" => message'[x] = message[x]
    BY <1>4, <1>5, <1>7
  <2> QED
    BY <1>9, <2>1, AnswersKept
<1>12. OneSuccessor'
  <2>1. \A x \in Messages : message'[x].editOf = IF x = n THEN m ELSE message[x].editOf
    BY <1>4, <1>5, <1>7
  <2>2. Successors(m) = {} /\ \A x \in Messages : n \notin Successors(x)
    BY <1>3, ChatAssumption DEF IInv, OneSuccessor, Successors
  <2>3. Successors(m)' = {n}
    BY <1>3, <2>1, <2>2 DEF Successors
  <2>4. \A x \in Messages : x # m => Successors(x)' = Successors(x)
    BY <2>1, <2>2 DEF Successors
  <2>5. ASSUME NEW x \in Messages
        PROVE  /\ message'[x].status = "COMPLETED" => Successors(x)' = {}
               /\ message'[x].status = "SUPERSEDED" => \E y \in Messages : Successors(x)' = {y}
               /\ message'[x].role = "NONE" =>
                    message'[x].status = "COMPLETED" /\ message'[x].editOf = None
    <3>1. CASE x = m
      BY <1>3, <1>7, <2>3, <3>1
    <3>2. CASE x = n
      BY <1>3, <1>5, <2>4, <3>2 DEF IInv, OneSuccessor
    <3>3. CASE x \notin {m, n}
      BY <1>4, <2>4, <3>3 DEF IInv, OneSuccessor
    <3> QED
      BY <3>1, <3>2, <3>3
  <2> QED
    BY <2>5 DEF OneSuccessor
<1>13. StreamingHasATask'
  BY <1>2, <1>9, TasksKept DEF TaskOf
<1>14. DeletionRemembered'
  BY <1>2, SameThread
<1>15. QuestionsKnown'
  BY <1>2, <1>9, QuestionsKept
<1> QED
  BY <1>2, <1>10, <1>11, <1>12, <1>13, <1>14, <1>15 DEF IInv

\* A retry only queues a generation.
LEMMA RetryMessageKeeps ==
  ASSUME IInv, NEW a \in Messages, NEW k \in Keys, RetryMessage(a, k)
  PROVE  IInv'
<1> DEFINE m == message[a].parent
<1>1. PICK g \in NewGeneration :
        generation' = [generation EXCEPT ![g] = Queued(m, <<"retry", k>>)]
  BY DEF RetryMessage
<1>2. UNCHANGED <<thread, event, message, runner, faults>>
  BY DEF RetryMessage
<1>4. m \in Messages
  <2>1. message[a].role = "ASSISTANT"
    BY DEF RetryMessage
  <2>2. /\ message[a].gen \in Generations
        /\ generation[message[a].gen].answer = a /\ a # None
        /\ generation[message[a].gen].question = m
    BY <2>1, Types, ChatAssumption DEF MessageRow, IInv, AnswersMatchGenerations
  <2>3. generation[message[a].gen].status = "COMPLETED"
    BY <2>2 DEF IInv, AnswersMatchGenerations
  <2> QED
    BY <2>2, <2>3 DEF IInv, QuestionsKnown
<1>5. /\ g \in Generations /\ GenerationStep(g, Queued(m, <<"retry", k>>))
      /\ \A x \in Generations : generation'[x].status = "STREAMING" =>
           generation[x].status = "STREAMING"
  BY <1>1, <1>4, QueuedStep
<1>6. TypeOK'
  BY <1>2, <1>5, Types, TypesSuffice, ChatAssumption DEF GenerationStep
<1>7. AnswersMatchGenerations'
  BY <1>2, <1>5, AnswersKept
<1>8. OneSuccessor'
  BY <1>2, RevisionsKept
<1>9. StreamingHasATask'
  BY <1>2, <1>5, TasksKept DEF TaskOf
<1>11. QuestionsKnown'
  BY <1>2, <1>5, QuestionsKept
<1>10. DeletionRemembered'
  BY <1>2, SameThread
<1> QED
  BY <1>2, <1>6, <1>7, <1>8, <1>9, <1>10, <1>11 DEF IInv

-----------------------------------------------------------------------------
(* Generations: one lemma per operation.                                   *)

\* A runner that goes on with its generation, rests, or takes one that exists;
\* it rests only when its generation does not stream.
LEMMA RunnerStep ==
  ASSUME IInv, NEW r \in Runners, NEW row \in RunnerRow,
         runner' = [runner EXCEPT ![r] = row],
         row.pc # "idle" => /\ row.g \in Generations
                            /\ generation[row.g].status # "NONE",
         \A g \in Generations : TaskOf(r, g) =>
           \/ row.g = g /\ row.pc \in {"load", "complete", "fail"}
           \/ generation[g].status # "STREAMING",
         UNCHANGED <<thread, event, message, generation, faults>>
  PROVE  IInv'
<1>1. \A x \in Runners : runner'[x] = IF x = r THEN row ELSE runner[x]
  BY Types
<1>2. TypeOK'
  BY <1>1, Types, TypesSuffice, ChatAssumption
<1>3. QuestionsKnown'
  BY <1>1 DEF IInv, QuestionsKnown
<1>4. OneSuccessor' /\ AnswersMatchGenerations'
  BY RevisionsKept DEF IInv, AnswersMatchGenerations
<1>5. StreamingHasATask'
  <2> SUFFICES ASSUME NEW g \in Generations, generation[g].status = "STREAMING"
               PROVE  \A x \in Runners : TaskOf(x, g) => TaskOf(x, g)'
    BY TasksKept
  <2> QED
    BY <1>1 DEF TaskOf
<1>6. DeletionRemembered'
  BY SameThread
<1> QED
  BY <1>2, <1>3, <1>4, <1>5, <1>6 DEF IInv

\* The runner's own row, as the operations of a task write it.
LEMMA RunnerRows ==
  ASSUME IInv, NEW r \in Runners
  PROVE  /\ Idle \in RunnerRow /\ Idle.pc = "idle"
         /\ runner[r] \in RunnerRow
         /\ runner[r].pc # "idle" => /\ runner[r].g \in Generations
                                     /\ generation[runner[r].g].status # "NONE"
         /\ \A pc \in {"mark", "load", "complete", "fail"} :
              /\ [runner[r] EXCEPT !.pc = pc] \in RunnerRow
              /\ [runner[r] EXCEPT !.pc = pc].pc = pc
              /\ [runner[r] EXCEPT !.pc = pc].g = runner[r].g
  BY Types DEF Idle, RunnerRow, IInv, QuestionsKnown

\* A task that goes on with its generation.
LEMMA GoKeeps ==
  ASSUME IInv, NEW r \in Runners, NEW pc \in {"load", "complete", "fail"},
         runner[r].pc # "idle", Go(r, pc),
         UNCHANGED <<thread, event, message, generation, faults>>
  PROVE  IInv'
<1> DEFINE row == [runner[r] EXCEPT !.pc = pc]
<1>1. row \in RunnerRow /\ row.pc = pc /\ row.g = runner[r].g
  BY RunnerRows
<1>2. runner' = [runner EXCEPT ![r] = row]
  BY DEF Go
<1>3. /\ row.pc # "idle" => row.g \in Generations /\ generation[row.g].status # "NONE"
      /\ \A g \in Generations : TaskOf(r, g) => row.g = g /\ row.pc \in {"load", "complete", "fail"}
  BY <1>1, RunnerRows DEF TaskOf
<1> HIDE DEF row
<1> QED
  BY <1>1, <1>2, <1>3, RunnerStep

\* A runner that rests has not yet marked its generation, or finds that it does
\* not stream any more.
LEMMA RestKeeps ==
  ASSUME IInv, NEW r \in Runners, Rest(r),
         runner[r].pc \in {"idle", "mark"} \/ generation[runner[r].g].status # "STREAMING",
         UNCHANGED <<thread, event, message, generation, faults>>
  PROVE  IInv'
<1>1. runner' = [runner EXCEPT ![r] = Idle]
  BY DEF Rest
<1>2. Idle \in RunnerRow /\ Idle.pc = "idle"
  BY RunnerRows
<1>3. \A g \in Generations : TaskOf(r, g) => generation[g].status # "STREAMING"
  BY DEF TaskOf
<1> QED
  BY <1>1, <1>2, <1>3, RunnerStep

\* A request that has read QUEUED is about to mark the generation.
LEMMA ReadGenerationKeeps ==
  ASSUME IInv, NEW r \in Runners, NEW g \in Generations, ReadGeneration(r, g)
  PROVE  IInv'
<1> DEFINE row == [pc |-> "mark", g |-> g]
<1>1. row \in RunnerRow /\ row.pc = "mark" /\ row.g = g
  BY DEF RunnerRow
<1>2. runner' = [runner EXCEPT ![r] = row] /\ runner[r].pc = "idle"
      /\ generation[g].status = "QUEUED"
  BY DEF ReadGeneration, At
<1> HIDE DEF row
<1> QED
  BY <1>1, <1>2, RunnerStep DEF ReadGeneration, TaskOf

\* A step that writes one generation and its own runner.
LEMMA GenerationMoves ==
  ASSUME IInv, NEW g \in Generations, NEW rec, GenerationStep(g, rec),
         runner' \in [Runners -> RunnerRow],
         \A r \in Runners : runner'[r].pc # "idle" =>
           runner[r].pc # "idle" /\ runner'[r].g = runner[r].g,
         \A x \in Generations : x # g => \A r \in Runners : TaskOf(r, x) => TaskOf(r, x)',
         rec.status = "STREAMING" => \E r \in Runners : TaskOf(r, g)',
         UNCHANGED <<thread, event, message, faults>>
  PROVE  IInv'
<1>1. generation' \in [Generations -> GenerationRow]
      /\ \A x \in Generations : generation'[x] = IF x = g THEN rec ELSE generation[x]
  BY Types DEF GenerationStep
<1>2. TypeOK'
  BY <1>1, Types, TypesSuffice, ChatAssumption
<1>3. QuestionsKnown'
  BY QuestionsKept
<1>4. OneSuccessor'
  BY RevisionsKept
<1>5. AnswersMatchGenerations'
  BY AnswersKept
<1>6. StreamingHasATask'
  BY <1>1, TasksKept
<1>7. DeletionRemembered'
  BY SameThread
<1> QED
  BY <1>2, <1>3, <1>4, <1>5, <1>6, <1>7 DEF IInv

\* A generation that ends, or starts, without an answer keeps its question.
LEMMA NewStatus ==
  ASSUME IInv, NEW g \in Generations, NEW status \in {"STREAMING", "FAILED", "STOPPED"},
         generation[g].status \notin {"NONE", "COMPLETED"},
         generation' = [generation EXCEPT ![g].status = status]
  PROVE  /\ GenerationStep(g, [generation[g] EXCEPT !.status = status])
         /\ [generation[g] EXCEPT !.status = status].status = status
<1>1. /\ generation[g] \in GenerationRow /\ generation[g].answer = None
      /\ generation[g].question \in Messages
  BY Types DEF IInv, QuestionsKnown, AnswersMatchGenerations
<1> DEFINE rec == [generation[g] EXCEPT !.status = status]
<1>2. /\ rec \in GenerationRow /\ rec.status = status
      /\ rec.answer = None /\ rec.question = generation[g].question
  BY <1>1 DEF GenerationRow, Open, Terminal
<1>3. generation' = [generation EXCEPT ![g] = rec]
  OBVIOUS
<1> HIDE DEF rec
<1>4. GenerationStep(g, rec)
  BY <1>1, <1>2, <1>3 DEF GenerationStep
<1> QED
  BY <1>2, <1>4 DEF rec

\* Whoever marks the generation is the task that will end it.
LEMMA MarkStreamingKeeps == ASSUME IInv, NEW r \in Runners, MarkStreaming(r) PROVE IInv'
<1> DEFINE g == runner[r].g
<1>1. /\ runner[r].pc = "mark" /\ g \in Generations /\ generation[g].status # "NONE"
      /\ UNCHANGED <<thread, event, message, faults>>
  BY RunnerRows DEF MarkStreaming, At
<1>2. CASE MarkAccepted(g) /\ generation' = [generation EXCEPT ![g].status = "STREAMING"]
           /\ Go(r, "load")
  <2> DEFINE rec == [generation[g] EXCEPT !.status = "STREAMING"]
  <2>1. GenerationStep(g, rec)
    BY <1>1, <1>2, NewStatus DEF MarkAccepted, Terminal
  <2>2. /\ runner' \in [Runners -> RunnerRow]
        /\ runner'[r].pc = "load" /\ runner'[r].g = g
        /\ \A x \in Runners : x # r => runner'[x] = runner[x]
    BY <1>2, Types, RunnerRows DEF Go
  <2> HIDE DEF rec, g
  <2>3. \E x \in Runners : TaskOf(x, runner[r].g)'
    <3>1. runner'[r].g = runner[r].g /\ runner'[r].pc = "load"
      BY <2>2 DEF g
    <3> QED
      BY <3>1 DEF TaskOf
  <2>4. \A x \in Generations : \A y \in Runners : TaskOf(y, x) => TaskOf(y, x)'
    BY <1>1, <2>2 DEF TaskOf
  <2>5. \A x \in Runners : runner'[x].pc # "idle" =>
          runner[x].pc # "idle" /\ runner'[x].g = runner[x].g
    BY <1>1, <2>2 DEF g
  <2> QED
    BY <1>1, <2>1, <2>2, <2>3, <2>4, <2>5, GenerationMoves
<1>3. CASE UNCHANGED generation /\ Rest(r)
  BY <1>1, <1>3, RestKeeps
<1> QED
  BY <1>2, <1>3 DEF MarkStreaming

\* A task that finds its generation ended leaves it so.
LEMMA LoadContextKeeps == ASSUME IInv, NEW r \in Runners, LoadContext(r) PROVE IInv'
<1>1. runner[r].pc = "load" /\ UNCHANGED <<thread, event, message, generation, faults>>
  BY DEF LoadContext, At
<1>2. \/ Go(r, "fail") \/ Go(r, "complete")
      \/ Rest(r) /\ generation[runner[r].g].status # "STREAMING"
  BY DEF LoadContext
<1> QED
  BY <1>1, <1>2, GoKeeps, RestKeeps

\* The row complete_chat_generation inserts: an answer to the question.
LEMMA AnswerRow ==
  ASSUME NEW g \in Generations, NEW q \in Messages
  PROVE  LET row == [NoMessage EXCEPT !.role = "ASSISTANT", !.gen = g, !.parent = q]
         IN /\ row \in MessageRow
            /\ row.role = "ASSISTANT" /\ row.status = "COMPLETED" /\ row.editOf = None
            /\ row.parent = q /\ row.gen = g
BY DEF NoMessage, MessageRow, NoKey

\* An answer takes a fresh row and completes a generation that had none; a
\* second task of the generation finds it completed.
LEMMA CompleteKeeps == ASSUME IInv, NEW r \in Runners, Complete(r) PROVE IInv'
<1> DEFINE g == runner[r].g
           row == [NoMessage EXCEPT !.role = "ASSISTANT", !.gen = g,
                                    !.parent = generation[g].question]
<1>1. /\ runner[r].pc = "complete" /\ UNCHANGED <<thread, event, faults>>
      /\ g \in Generations /\ generation[g].status # "NONE"
  BY RunnerRows DEF Complete, At
<1>2. \/ \E m \in NewMessage : /\ AnswerWanted(g) /\ Rest(r)
                               /\ message' = [message EXCEPT ![m] = row]
                               /\ generation' = [generation EXCEPT ![g] = Answered(@, m)]
      \/ Go(r, "fail") /\ UNCHANGED <<message, generation>>
      \/ generation[g].status = "COMPLETED" /\ Rest(r) /\ UNCHANGED <<message, generation>>
  BY DEF Complete
<1>3. ASSUME NEW m \in NewMessage, AnswerWanted(g), Rest(r),
             message' = [message EXCEPT ![m] = row],
             generation' = [generation EXCEPT ![g] = Answered(@, m)]
      PROVE  IInv'
  <2> DEFINE rec == Answered(generation[g], m)
  <2>1. /\ m \in Messages /\ m # None /\ message[m].role = "NONE"
        /\ message[m].status = "COMPLETED" /\ message[m].editOf = None
    BY NewRows, ChatAssumption DEF IInv, OneSuccessor
  <2>2. /\ generation[g] \in GenerationRow /\ generation[g].question \in Messages
        /\ generation[g].answer = None
    BY <1>1, <1>3, Types DEF AnswerWanted, Open, IInv, QuestionsKnown, AnswersMatchGenerations
  <2>3. /\ rec \in GenerationRow /\ rec.status = "COMPLETED" /\ rec.answer = m
        /\ rec.question = generation[g].question
    BY <2>1, <2>2 DEF Answered, GenerationRow, Open, Terminal
  <2>4. /\ row \in MessageRow
        /\ row.role = "ASSISTANT" /\ row.status = "COMPLETED" /\ row.editOf = None
        /\ row.parent = generation[g].question /\ row.gen = g
    <3> HIDE DEF g
    <3> QED
      BY <1>1, <2>2, AnswerRow
  <2>5. generation' = [generation EXCEPT ![g] = rec]
    BY <1>3
  <2> HIDE DEF rec, row, g
  <2>7. /\ message' \in [Messages -> MessageRow] /\ message'[m] = row
        /\ \A n \in Messages : n # m => message'[n] = message[n]
    BY <1>3, <2>1, <2>4, Types
  <2>8. GenerationStep(g, rec)
    BY <2>1, <2>2, <2>3, <2>5 DEF GenerationStep
  <2>9. /\ runner' \in [Runners -> RunnerRow] /\ runner'[r].pc = "idle"
        /\ \A x \in Runners : x # r => runner'[x] = runner[x]
    BY <1>3, RunnerRows, Types DEF Rest
  <2>10. /\ generation' \in [Generations -> GenerationRow] /\ generation'[g] = rec
         /\ \A x \in Generations : x # g => generation'[x] = generation[x]
    BY <1>1, <2>3, <2>5, Types
  <2>11. TypeOK'
    BY <1>1, <2>7, <2>9, <2>10, Types, TypesSuffice, ChatAssumption
  <2>12. QuestionsKnown'
    BY <1>1, <2>8, <2>9, QuestionsKept
  <2>13. OneSuccessor'
    BY <2>1, <2>4, <2>7, RevisionsKept
  <2>14. AnswersMatchGenerations'
    <3>1. \A n \in Messages : message'[n].role = "ASSISTANT" =>
            \/ n # m /\ message'[n] = message[n]
            \/ message'[n].gen = g /\ rec.answer = n /\ rec.question = message'[n].parent
      BY <2>3, <2>4, <2>7
    <3> QED
      BY <1>1, <2>8, <3>1, AnswersKept
  <2>15. StreamingHasATask'
    <3>1. \A x \in Generations : generation'[x].status = "STREAMING" =>
            /\ generation[x].status = "STREAMING"
            /\ \A y \in Runners : TaskOf(y, x) => TaskOf(y, x)'
      BY <2>3, <2>9, <2>10 DEF TaskOf, g
    <3> QED
      BY <1>1, <3>1, TasksKept
  <2>16. DeletionRemembered'
    BY <1>1, SameThread
  <2> QED
    BY <1>1, <2>11, <2>12, <2>13, <2>14, <2>15, <2>16 DEF IInv
<1> QED
  BY <1>1, <1>2, <1>3, GoKeeps, RestKeeps

\* fail_chat_generation ends the generation before the task rests.
LEMMA FailKeeps == ASSUME IInv, NEW r \in Runners, Fail(r) PROVE IInv'
<1> DEFINE g == runner[r].g
<1>1. /\ runner[r].pc = "fail" /\ g \in Generations /\ generation[g].status # "NONE"
      /\ UNCHANGED <<thread, event, message, faults>> /\ Rest(r)
  BY RunnerRows DEF Fail, At
<1>2. CASE MayFail(g)
  <2> DEFINE rec == [generation[g] EXCEPT !.status = "FAILED"]
  <2>1. generation' = [generation EXCEPT ![g].status = "FAILED"]
    BY <1>2 DEF Fail
  <2>2. GenerationStep(g, rec) /\ rec.status = "FAILED"
    BY <1>1, <1>2, <2>1, NewStatus DEF MayFail, Open
  <2>3. /\ runner' \in [Runners -> RunnerRow] /\ runner'[r].pc = "idle"
        /\ \A x \in Runners : x # r => runner'[x] = runner[x]
    BY <1>1, RunnerRows, Types DEF Rest
  <2>4. \A x \in Generations : x # g => \A y \in Runners : TaskOf(y, x) => TaskOf(y, x)'
    BY <2>3 DEF TaskOf
  <2> HIDE DEF rec, g
  <2> QED
    BY <1>1, <2>2, <2>3, <2>4, GenerationMoves
<1>3. CASE ~MayFail(g)
  <2>1. UNCHANGED generation /\ generation[g].status # "STREAMING"
    BY <1>3 DEF Fail, MayFail, Open
  <2> QED
    BY <1>1, <2>1, RestKeeps
<1> QED
  BY <1>2, <1>3

\* Stopping takes no task away: the task finds the generation stopped.
LEMMA StopGenerationKeeps ==
  ASSUME IInv, NEW g \in Generations, StopGeneration(g)
  PROVE  IInv'
<1> DEFINE rec == [generation[g] EXCEPT !.status = "STOPPED"]
<1>1. GenerationStep(g, rec) /\ rec.status = "STOPPED"
  BY NewStatus DEF StopGeneration, Open
<1> HIDE DEF rec
<1> QED
  BY <1>1, Types, GenerationMoves DEF StopGeneration, TaskOf

\* A crash, and a failure that cannot be recorded, are counted.
LEMMA FaultKeeps ==
  ASSUME IInv, Crash \/ \E r \in Runners : FailureLost(r)
  PROVE  IInv'
<1>1. /\ UNCHANGED <<thread, event, message, generation>>
      /\ faults' \in Nat /\ faults' # 0
  BY DEF Crash, FailureLost, IInv
<1>2. /\ runner' \in [Runners -> RunnerRow]
      /\ \A r \in Runners : runner'[r].pc # "idle" => runner'[r] = runner[r]
  <2>1. Idle \in RunnerRow /\ Idle.pc = "idle"
    BY DEF Idle, RunnerRow
  <2>2. CASE Crash
    BY <2>1, <2>2 DEF Crash
  <2>3. CASE \E r \in Runners : FailureLost(r)
    BY <2>1, <2>3, Types DEF FailureLost, Rest
  <2> QED
    BY <2>2, <2>3
<1>3. TypeOK'
  BY <1>1, <1>2, Types, TypesSuffice, ChatAssumption
<1>4. QuestionsKnown' /\ AnswersMatchGenerations'
  BY <1>1, <1>2 DEF IInv, QuestionsKnown, AnswersMatchGenerations
<1>5. OneSuccessor'
  BY <1>1, RevisionsKept
<1>6. StreamingHasATask'
  BY <1>1 DEF StreamingHasATask
<1>7. DeletionRemembered'
  BY <1>1, SameThread
<1> QED
  BY <1>1, <1>3, <1>4, <1>5, <1>6, <1>7 DEF IInv

-----------------------------------------------------------------------------
(* Management of the conversation.                                         *)

\* A step that leaves an event behind ends where the event says.
LEMMA ManageStep ==
  ASSUME IInv, NEW action, NEW t \in ThreadRow, Manage(action, t),
         t.status # "TOMBSTONED" => t.before = "NONE",
         t.status = "TOMBSTONED" => /\ t.before # "NONE" /\ action = "TOMBSTONE"
                                    /\ Snapshot(thread) = <<t.before, t.label, "NONE">>
  PROVE  IInv'
<1>1. /\ thread' = t /\ UNCHANGED <<message, generation, runner, faults>>
      /\ event' = [action |-> action, before |-> Snapshot(thread), after |-> Snapshot(t)]
  BY DEF Manage
<1>2. /\ event'.action = action /\ event'.before = Snapshot(thread)
      /\ event'.after = Snapshot(t)
  BY <1>1
<1>3. DeletionRemembered'
  BY <1>1, <1>2 DEF DeletionRemembered, Visible, Snapshot
<1> QED
  BY <1>1, <1>3, ThreadStep

\* Renaming, pinning, moving, archiving and deleting start from a visible
\* conversation; an undo restores the status the deletion kept.
LEMMA ManagementKeeps ==
  ASSUME IInv,
         \/ \E l \in Labels : Relabel(l)
         \/ \E archived \in BOOLEAN : SetArchived(archived)
         \/ Tombstone \/ UndoTombstone \/ UndoWindowCloses
  PROVE  IInv'
<1>1. thread \in ThreadRow /\ (Visible => thread.before = "NONE")
  BY Types DEF IInv, DeletionRemembered
<1>2. ASSUME NEW l \in Labels, Relabel(l)
      PROVE  IInv'
  <2> DEFINE t == [thread EXCEPT !.label = l]
  <2>1. t \in ThreadRow /\ t.status # "TOMBSTONED" /\ t.before = "NONE"
    BY <1>1, <1>2 DEF Relabel, Visible, ThreadRow
  <2>2. Manage("RELABEL", t)
    BY <1>2 DEF Relabel
  <2> HIDE DEF t
  <2> QED
    BY <2>1, <2>2, ManageStep
<1>3. ASSUME NEW archived \in BOOLEAN, SetArchived(archived)
      PROVE  IInv'
  <2>1. PICK status \in {"ACTIVE", "ARCHIVED"} :
          Manage("ARCHIVE", [thread EXCEPT !.status = status])
    BY <1>3 DEF SetArchived
  <2> DEFINE t == [thread EXCEPT !.status = status]
  <2>2. t \in ThreadRow /\ t.status # "TOMBSTONED" /\ t.before = "NONE"
    BY <1>1, <1>3 DEF SetArchived, ThreadRow
  <2>3. Manage("ARCHIVE", t)
    BY <2>1
  <2> HIDE DEF t
  <2> QED
    BY <2>2, <2>3, ManageStep
<1>4. CASE Tombstone
  <2> DEFINE t == [thread EXCEPT !.status = "TOMBSTONED", !.before = thread.status,
                                 !.undoable = TRUE]
  <2>1. /\ t \in ThreadRow /\ t.status = "TOMBSTONED" /\ t.before = thread.status
        /\ t.label = thread.label /\ thread.before = "NONE" /\ t.before # "NONE"
    BY <1>1, <1>4 DEF Tombstone, Visible, ThreadRow
  <2>2. Manage("TOMBSTONE", t)
    BY <1>4 DEF Tombstone, StatusForUndo
  <2>3. Snapshot(thread) = <<t.before, t.label, "NONE">>
    BY <2>1 DEF Snapshot
  <2> HIDE DEF t
  <2> QED
    BY <2>1, <2>2, <2>3, ManageStep
<1>5. CASE UndoTombstone
  <2> DEFINE t == [thread EXCEPT !.status = thread.before, !.before = "NONE",
                                 !.undoable = FALSE]
  <2>1. thread.before \in {"ACTIVE", "ARCHIVED"}
    BY <1>1, <1>5 DEF UndoTombstone, IInv, DeletionRemembered, ThreadRow
  <2>2. t \in ThreadRow /\ t.status # "TOMBSTONED" /\ t.before = "NONE"
    BY <1>1, <2>1 DEF ThreadRow
  <2>3. Manage("UNDO_TOMBSTONE", t)
    BY <1>5 DEF UndoTombstone
  <2> HIDE DEF t
  <2> QED
    BY <2>2, <2>3, ManageStep
<1>6. CASE UndoWindowCloses
  <2>1. /\ thread' \in ThreadRow /\ thread'.status = thread.status
        /\ thread'.before = thread.before /\ thread'.label = thread.label
        /\ UNCHANGED <<event, message, generation, runner, faults>>
    BY <1>1, <1>6 DEF UndoWindowCloses, ThreadRow
  <2>2. DeletionRemembered'
    BY <2>1 DEF IInv, DeletionRemembered, Visible, Snapshot
  <2> QED
    BY <2>1, <2>2, ThreadStep
<1> QED
  BY <1>2, <1>3, <1>4, <1>5, <1>6

-----------------------------------------------------------------------------
\* A new conversation is active, has no event, no message and no generation.
LEMMA InitEstablishes == Init => IInv
<1> SUFFICES ASSUME Init PROVE IInv
  OBVIOUS
<1>1. TypeOK /\ faults \in Nat
  BY DEF Init, TypeOK, At, NoMessage, NoGeneration, Idle, NoKey, Open, Terminal
<1>2. /\ \A m \in Messages : message[m] = NoMessage
      /\ \A g \in Generations : generation[g] = NoGeneration
      /\ \A r \in Runners : runner[r] = Idle
      /\ event = NoEvent
      /\ thread.status = "ACTIVE" /\ thread.before = "NONE"
  BY DEF Init
<1>3. QuestionsKnown /\ AnswersMatchGenerations /\ StreamingHasATask
  BY <1>2 DEF QuestionsKnown, AnswersMatchGenerations, StreamingHasATask, NoMessage,
     NoGeneration, Idle
<1>4. OneSuccessor
  <2>1. \A m \in Messages : Successors(m) = {}
    BY <1>2, ChatAssumption DEF Successors, NoMessage
  <2> QED
    BY <1>2, <2>1 DEF OneSuccessor, NoMessage
<1>5. DeletionRemembered
  BY <1>2 DEF DeletionRemembered, Visible
<1> QED
  BY <1>1, <1>3, <1>4, <1>5 DEF IInv

\* Every question, generation step, management step and fault keeps the
\* invariant.
LEMMA NextKeeps == ASSUME IInv, [Next]_vars PROVE IInv'
<1>1. ASSUME NEW k \in Keys, SendMessage(k) PROVE IInv'
  BY <1>1, SendMessageKeeps
<1>2. ASSUME NEW m \in Messages, NEW k \in Keys, EditMessage(m, k) \/ RetryMessage(m, k)
      PROVE  IInv'
  BY <1>2, EditMessageKeeps, RetryMessageKeeps
<1>3. ASSUME NEW r \in Runners, NEW g \in Generations, ReadGeneration(r, g) PROVE IInv'
  BY <1>3, ReadGenerationKeeps
<1>4. ASSUME NEW r \in Runners, MarkStreaming(r) PROVE IInv'
  BY <1>4, MarkStreamingKeeps
<1>5. ASSUME NEW r \in Runners, Task(r) PROVE IInv'
  <2>1. CASE TaskError(r)
    BY <2>1, GoKeeps DEF TaskError
  <2> QED
    BY <1>5, <2>1, LoadContextKeeps, CompleteKeeps, FailKeeps DEF Task
<1>6. ASSUME NEW g \in Generations, StopGeneration(g) PROVE IInv'
  BY <1>6, StopGenerationKeeps
<1>7. CASE Crash \/ \E r \in Runners : FailureLost(r)
  BY <1>7, FaultKeeps
<1>8. CASE \/ \E l \in Labels : Relabel(l)
           \/ \E archived \in BOOLEAN : SetArchived(archived)
           \/ Tombstone \/ UndoTombstone \/ UndoWindowCloses
  BY <1>8, ManagementKeeps
<1>9. CASE UNCHANGED vars
  <2>1. UNCHANGED <<thread, event, message, generation, runner, faults>>
    BY <1>9 DEF vars
  <2>2. DeletionRemembered'
    BY <2>1, SameThread
  <2> QED
    BY <2>1, <2>2, Types, ThreadStep
<1> QED
  BY <1>1, <1>2, <1>3, <1>4, <1>5, <1>6, <1>7, <1>8, <1>9 DEF Next

\* The thread, its messages, generations and runners keep their types.
THEOREM TypeCorrect == Spec => []TypeOK
<1>1. IInv => TypeOK
  BY DEF IInv
<1> QED
  BY <1>1, InitEstablishes, NextKeeps, PTL DEF Spec

\* The history holds exactly the answers of the completed generations, however
\* requests, tasks, stops and retries of a generation interleave.
THEOREM AnswersMatchGenerationsAlways == Spec => []AnswersMatchGenerations
<1>1. IInv => AnswersMatchGenerations
  BY DEF IInv
<1> QED
  BY <1>1, InitEstablishes, NextKeeps, PTL DEF Spec

\* Until a fault, a streaming generation has a task that will end it.
THEOREM StreamingHasATaskAlways == Spec => []StreamingHasATask
<1>1. IInv => StreamingHasATask
  BY DEF IInv
<1> QED
  BY <1>1, InitEstablishes, NextKeeps, PTL DEF Spec

\* A question has one current revision: concurrent edits of it do not branch.
THEOREM OneCurrentRevisionAlways == Spec => []OneCurrentRevision
<1>1. ASSUME IInv PROVE OneCurrentRevision
  <2> SUFFICES ASSUME NEW m \in Messages
               PROVE  Cardinality(Successors(m)) =
                        IF message[m].status = "SUPERSEDED" THEN 1 ELSE 0
    BY DEF OneCurrentRevision, Successors
  <2>1. message[m].status \in {"COMPLETED", "SUPERSEDED"}
    BY <1>1, Types DEF MessageRow
  <2>2. CASE message[m].status = "COMPLETED"
    BY <1>1, <2>2, FS_EmptySet DEF IInv, OneSuccessor
  <2>3. CASE message[m].status = "SUPERSEDED"
    <3>1. PICK n \in Messages : Successors(m) = {n}
      BY <1>1, <2>3 DEF IInv, OneSuccessor
    <3> QED
      BY <2>3, <3>1, FS_Singleton
  <2> QED
    BY <2>1, <2>2, <2>3
<1> QED
  BY <1>1, InitEstablishes, NextKeeps, PTL DEF Spec

\* Every management step starts where the newest event ended, and an undo leads
\* back to the state that the event of the deletion began with.
LEMMA StepsReplay ==
  ASSUME IInv, [Next]_vars, IInv'
  PROVE  /\ event' # NoEvent => event'.after = Snapshot(thread')
         /\ event # NoEvent /\ event' # event =>
              /\ event'.before = event.after
              /\ event'.action = "UNDO_TOMBSTONE" =>
                   event.action = "TOMBSTONE" /\ event'.after = event.before
<1>1. event' # NoEvent => event'.after = Snapshot(thread')
  BY DEF IInv, DeletionRemembered, Snapshot
<1>2. ASSUME NEW action, NEW t, Manage(action, t), action # "UNDO_TOMBSTONE", event # NoEvent
      PROVE  event'.before = event.after /\ event'.action # "UNDO_TOMBSTONE"
  BY <1>2 DEF Manage, IInv, DeletionRemembered
<1>3. ASSUME UndoTombstone, event # NoEvent
      PROVE  /\ event'.before = event.after
             /\ event.action = "TOMBSTONE" /\ event'.after = event.before
  <2> DEFINE t == [thread EXCEPT !.status = thread.before, !.before = "NONE",
                                 !.undoable = FALSE]
  <2>1. /\ ~Visible
        /\ event' = [action |-> "UNDO_TOMBSTONE", before |-> Snapshot(thread),
                     after |-> Snapshot(t)]
    BY <1>3 DEF UndoTombstone, Manage
  <2>2. t.status = thread.before /\ t.label = thread.label /\ t.before = "NONE"
    BY Types DEF ThreadRow
  <2>3. /\ event.after = Snapshot(thread) /\ event.action = "TOMBSTONE"
        /\ event.before = <<thread.before, thread.label, "NONE">>
    BY <1>3, <2>1 DEF IInv, DeletionRemembered
  <2> HIDE DEF t
  <2> QED
    BY <2>1, <2>2, <2>3 DEF Snapshot
<1>4. \/ event' = event
      \/ \E t : Manage("RELABEL", t) \/ Manage("ARCHIVE", t) \/ Manage("TOMBSTONE", t)
      \/ UndoTombstone
  BY DEF Next, vars, SendMessage, EditMessage, RetryMessage, ReadGeneration, MarkStreaming,
     Task, LoadContext, TaskError, Complete, Fail, FailureLost, StopGeneration, Relabel,
     SetArchived, Tombstone, UndoWindowCloses, Crash
<1> QED
  BY <1>1, <1>2, <1>3, <1>4

\* The management events replay the conversation.
THEOREM EventsReplayAlways == Spec => EventsReplay
<1>1. IInv /\ [Next]_vars /\ IInv' =>
        [/\ event' # NoEvent => event'.after = Snapshot(thread')
         /\ event # NoEvent /\ event' # event =>
              /\ event'.before = event.after
              /\ event'.action = "UNDO_TOMBSTONE" =>
                   event.action = "TOMBSTONE" /\ event'.after = event.before]_vars
  BY StepsReplay
<1> QED
  BY <1>1, InitEstablishes, NextKeeps, PTL DEF Spec, EventsReplay

=============================================================================
