-------------------------- MODULE ChatConversation --------------------------
(***************************************************************************)
(* One conversation about the guides: its questions, edits and answers,    *)
(* the generations that write the answers, and the management of the       *)
(* conversation itself.                                                    *)
(*                                                                         *)
(* Everything is in PostgreSQL. A question, an edit, a retry, a stop and   *)
(* a management step are one transaction each. A generation is run by the  *)
(* request that starts it ("runner"): it reads the generation, marks it    *)
(* STREAMING under a row lock, and goes on as a background task. The mark  *)
(* decides on the status the request has read before it waited for the     *)
(* lock, because the ORM session does not reload an object it holds.       *)
(***************************************************************************)
EXTENDS Naturals, Sequences, FiniteSets

CONSTANTS
  Messages,
  Generations,
  Keys,        \* idempotency keys of the browser
  Labels,      \* title, pin and folder of the conversation
  Runners,     \* server threads that run generations
  None,
  MaxFaults    \* bound on crashes and on lost failure reports

ASSUME ChatAssumption ==
  /\ None \notin Messages \cup Generations
  /\ MaxFaults \in Nat

VARIABLES
  thread,      \* ChatThreadRecord
  event,       \* the newest ChatThreadManagementEventRecord
  message,     \* ChatMessageRecord
  generation,  \* ChatGenerationRunRecord
  runner,      \* run_generation and _run_generation_task
  faults

vars == <<thread, event, message, generation, runner, faults>>

NoKey == <<"none", None>>
NoMessage == [role |-> "NONE", status |-> "COMPLETED", key |-> NoKey, editOf |-> None,
              parent |-> None, gen |-> None]
NoGeneration == [status |-> "NONE", question |-> None, key |-> NoKey, answer |-> None]
NoEvent == [action |-> "NONE"]
Idle == [pc |-> "idle", g |-> None]
Open == {"QUEUED", "STREAMING"}
Terminal == {"COMPLETED", "STOPPED", "FAILED"}

Init ==
  /\ \E l \in Labels :
       thread = [status |-> "ACTIVE", before |-> "NONE", label |-> l, undoable |-> FALSE]
  /\ event = NoEvent
  /\ message = [m \in Messages |-> NoMessage]
  /\ generation = [g \in Generations |-> NoGeneration]
  /\ runner = [r \in Runners |-> Idle]
  /\ faults = 0

Visible == thread.status # "TOMBSTONED"
MessageKeys == {message[m].key : m \in Messages}
GenerationKeys == {generation[g].key : g \in Generations}

\* uuid4: which fresh identity a row or a request gets does not matter.
Fresh(unused) == IF unused = {} THEN {} ELSE {CHOOSE x \in unused : TRUE}
NewMessage == Fresh({m \in Messages : message[m].role = "NONE"})
NewGeneration == Fresh({g \in Generations : generation[g].status = "NONE"})
NewKey(operation, used) == Fresh({k \in Keys : <<operation, k>> \notin used})

-----------------------------------------------------------------------------
(* The decisions of the code, each with the slip it is protected from.     *)

\* edit_user_message
EditableAnyRevision(m) == message[m].role = "USER"
Editable(m) == message[m].role = "USER" /\ message[m].status = "COMPLETED"

\* start_chat_generation: only a retry may go back to a superseded question.
Answerable(m, retry) ==
  /\ message[m].role = "USER"
  /\ message[m].status \in IF retry THEN {"COMPLETED", "SUPERSEDED"} ELSE {"COMPLETED"}

\* ck_chat_generation_terminal_time: a generation with a completion time
\* cannot be STREAMING, so the update of a stale mark is rejected.
MarkAcceptedAlways(g) == TRUE
MarkAccepted(g) == generation[g].status \notin Terminal

\* complete_chat_generation returns the answer that is there, and refuses a
\* generation that was stopped or has failed.
AnswerWanted(g) == generation[g].status \in Open
Answered(rec, m) == [rec EXCEPT !.status = "COMPLETED", !.answer = m]

\* fail_chat_generation
MayFailQueued(g) == generation[g].status = "QUEUED"
MayFail(g) == generation[g].status \in Open

\* tombstone_chat_thread keeps the status for the undo.
StatusForUndoActive == "ACTIVE"
StatusForUndo == thread.status

-----------------------------------------------------------------------------
(* Questions *)

Queued(m, key) == [NoGeneration EXCEPT !.status = "QUEUED", !.question = m, !.key = key]

\* A repeated key finds the message and changes nothing.
SendMessage(k) ==
  /\ thread.status = "ACTIVE"
  /\ k \in NewKey("send", MessageKeys)
  /\ \E m \in NewMessage, g \in NewGeneration :
       /\ message' = [message EXCEPT ![m] =
            [NoMessage EXCEPT !.role = "USER", !.key = <<"send", k>>]]
       /\ generation' = [generation EXCEPT ![g] = Queued(m, <<"send", k>>)]
  /\ UNCHANGED <<thread, event, runner, faults>>

EditMessage(m, k) ==
  /\ Visible
  /\ k \in NewKey("edit", MessageKeys)
  /\ Editable(m)
  /\ \E n \in NewMessage, g \in NewGeneration :
       /\ message' = [message EXCEPT
            ![m].status = "SUPERSEDED",
            ![n] = [NoMessage EXCEPT !.role = "USER", !.key = <<"edit", k>>, !.editOf = m]]
       /\ generation' = [generation EXCEPT ![g] = Queued(n, <<"edit", k>>)]
  /\ UNCHANGED <<thread, event, runner, faults>>

RetryMessage(a, k) ==
  /\ Visible
  /\ message[a].role = "ASSISTANT"
  /\ k \in NewKey("retry", GenerationKeys)
  /\ Answerable(message[a].parent, TRUE)
  /\ \E g \in NewGeneration :
       generation' = [generation EXCEPT ![g] = Queued(message[a].parent, <<"retry", k>>)]
  /\ UNCHANGED <<thread, event, message, runner, faults>>

-----------------------------------------------------------------------------
(* Generations *)

Go(r, pc) == runner' = [runner EXCEPT ![r].pc = pc]
Rest(r) == runner' = [runner EXCEPT ![r] = Idle]
At(r, pc) == runner[r].pc = pc

\* run_generation: any other status is only reported.
ReadGeneration(r, g) ==
  /\ At(r, "idle")
  /\ Visible
  /\ generation[g].status = "QUEUED"
  /\ runner' = [runner EXCEPT ![r] = [pc |-> "mark", g |-> g]]
  /\ UNCHANGED <<thread, event, message, generation, faults>>

\* The request has seen QUEUED, whatever the status is by now.
MarkStreaming(r) ==
  LET g == runner[r].g IN
  /\ At(r, "mark")
  /\ IF MarkAccepted(g)
       THEN generation' = [generation EXCEPT ![g].status = "STREAMING"] /\ Go(r, "load")
       ELSE UNCHANGED generation /\ Rest(r)
  /\ UNCHANGED <<thread, event, message, faults>>

LoadContext(r) ==
  /\ At(r, "load")
  /\ \/ ~Visible /\ Go(r, "fail")
     \/ Visible /\ generation[runner[r].g].status = "STREAMING" /\ Go(r, "complete")
     \/ Visible /\ generation[runner[r].g].status # "STREAMING" /\ Rest(r)
  /\ UNCHANGED <<thread, event, message, generation, faults>>

\* Search, model and database errors all end in fail_chat_generation.
TaskError(r) ==
  /\ runner[r].pc \in {"load", "complete"}
  /\ Go(r, "fail")
  /\ UNCHANGED <<thread, event, message, generation, faults>>

Complete(r) ==
  LET g == runner[r].g
      Answer(m) == [NoMessage EXCEPT !.role = "ASSISTANT", !.gen = g,
                                     !.parent = generation[g].question]
  IN /\ At(r, "complete")
     /\ \/ /\ AnswerWanted(g)
           /\ Visible
           /\ \E m \in NewMessage :
                /\ message' = [message EXCEPT ![m] = Answer(m)]
                /\ generation' = [generation EXCEPT ![g] = Answered(@, m)]
           /\ Rest(r)
        \/ /\ AnswerWanted(g)
           /\ ~Visible
           /\ Go(r, "fail")
           /\ UNCHANGED <<message, generation>>
        \/ /\ ~AnswerWanted(g)
           /\ IF generation[g].status = "COMPLETED" THEN Rest(r) ELSE Go(r, "fail")
           /\ UNCHANGED <<message, generation>>
     /\ UNCHANGED <<thread, event, faults>>

Fail(r) ==
  LET g == runner[r].g IN
  /\ At(r, "fail")
  /\ generation' = IF MayFail(g) THEN [generation EXCEPT ![g].status = "FAILED"]
                                 ELSE generation
  /\ Rest(r)
  /\ UNCHANGED <<thread, event, message, faults>>

StopGeneration(g) ==
  /\ generation[g].status \in Open
  /\ generation' = [generation EXCEPT ![g].status = "STOPPED"]
  /\ UNCHANGED <<thread, event, message, runner, faults>>

\* The transaction that should record the failure fails as well.
FailureLost(r) ==
  /\ At(r, "fail")
  /\ faults < MaxFaults
  /\ faults' = faults + 1
  /\ Rest(r)
  /\ UNCHANGED <<thread, event, message, generation>>

Crash ==
  /\ faults < MaxFaults
  /\ faults' = faults + 1
  /\ runner' = [r \in Runners |-> Idle]
  /\ UNCHANGED <<thread, event, message, generation>>

-----------------------------------------------------------------------------
(* Management: each step locks the thread and leaves an event.             *)

Snapshot(t) == <<t.status, t.label, t.before>>

Manage(action, t) ==
  /\ thread' = t
  /\ event' = [action |-> action, before |-> Snapshot(thread), after |-> Snapshot(t)]
  /\ UNCHANGED <<message, generation, runner, faults>>

\* rename, pin and move
Relabel(l) == Visible /\ Manage("RELABEL", [thread EXCEPT !.label = l])

SetArchived(archived) ==
  /\ Visible
  /\ Manage("ARCHIVE", [thread EXCEPT !.status = IF archived THEN "ARCHIVED" ELSE "ACTIVE"])

Tombstone ==
  /\ Visible
  /\ Manage("TOMBSTONE", [thread EXCEPT !.status = "TOMBSTONED", !.before = StatusForUndo,
                                        !.undoable = TRUE])

UndoTombstone ==
  /\ ~Visible
  /\ thread.undoable
  /\ Manage("UNDO_TOMBSTONE", [thread EXCEPT !.status = thread.before, !.before = "NONE",
                                             !.undoable = FALSE])

\* CHAT_DELETE_UNDO_WINDOW
UndoWindowCloses ==
  /\ thread.undoable
  /\ thread' = [thread EXCEPT !.undoable = FALSE]
  /\ UNCHANGED <<event, message, generation, runner, faults>>

Task(r) == LoadContext(r) \/ TaskError(r) \/ Complete(r) \/ Fail(r)

Next ==
  \/ \E k \in Keys : SendMessage(k)
  \/ \E m \in Messages, k \in Keys : EditMessage(m, k) \/ RetryMessage(m, k)
  \/ \E r \in Runners, g \in Generations : ReadGeneration(r, g)
  \/ \E r \in Runners : MarkStreaming(r) \/ Task(r) \/ FailureLost(r)
  \/ \E g \in Generations : StopGeneration(g)
  \/ \E l \in Labels : Relabel(l)
  \/ \E archived \in BOOLEAN : SetArchived(archived)
  \/ Tombstone \/ UndoTombstone \/ UndoWindowCloses
  \/ Crash

Spec == Init /\ [][Next]_vars

-----------------------------------------------------------------------------
\* The records keep their types.
TypeOK ==
  /\ thread \in [status : {"ACTIVE", "ARCHIVED", "TOMBSTONED"},
                 before : {"NONE", "ACTIVE", "ARCHIVED"}, label : Labels,
                 undoable : BOOLEAN]
  /\ message \in [Messages -> [role : {"NONE", "USER", "ASSISTANT"},
                               status : {"COMPLETED", "SUPERSEDED"},
                               key : ({"send", "edit"} \X Keys) \cup {NoKey},
                               editOf : Messages \cup {None},
                               parent : Messages \cup {None},
                               gen : Generations \cup {None}]]
  /\ generation \in [Generations -> [status : {"NONE"} \cup Open \cup Terminal,
                                     question : Messages \cup {None},
                                     key : ({"send", "edit", "retry"} \X Keys) \cup {NoKey},
                                     answer : Messages \cup {None}]]
  /\ runner \in [Runners -> [pc : {"idle", "mark", "load", "complete", "fail"},
                             g : Generations \cup {None}]]
  /\ \A r \in Runners : ~At(r, "idle") => runner[r].g # None

\* The answers in the history are exactly the answers of the completed
\* generations: two tasks of one generation leave one answer, and a generation
\* that was stopped or has failed leaves none.
AnswersMatchGenerations ==
  /\ \A m \in Messages : message[m].role = "ASSISTANT" =>
       /\ message[m].gen # None
       /\ generation[message[m].gen].answer = m
       /\ generation[message[m].gen].question = message[m].parent
  /\ \A g \in Generations :
       (generation[g].status = "COMPLETED") <=> (generation[g].answer # None)

\* Every superseded question has exactly one successor, so each question has
\* one current revision.
OneCurrentRevision ==
  \A m \in Messages :
    Cardinality({n \in Messages : message[n].editOf = m}) =
      IF message[m].status = "SUPERSEDED" THEN 1 ELSE 0

\* The management events replay the conversation: each begins where the one
\* before it ended, the newest ends where the thread is, and undoing a deletion
\* leads back to the state before it.
EventsReplay ==
  [][/\ event' # NoEvent => event'.after = Snapshot(thread')
     /\ event # NoEvent /\ event' # event =>
          /\ event'.before = event.after
          /\ event'.action = "UNDO_TOMBSTONE" =>
               event.action = "TOMBSTONE" /\ event'.after = event.before]_vars

\* A generation that is streaming has a task that will end it, unless the server
\* crashed or could not record a failure: no stop, edit, retry, deletion or
\* second request takes its task away.
StreamingHasATask ==
  \A g \in Generations :
    generation[g].status = "STREAMING" /\ faults = 0 =>
      \E r \in Runners : runner[r].g = g /\ runner[r].pc \in {"load", "complete", "fail"}

=============================================================================
