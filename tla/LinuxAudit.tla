----------------------------- MODULE LinuxAudit -----------------------------
(***************************************************************************)
(* The Linux audit over SSH. A request inserts a run and starts a daemon   *)
(* thread; the thread identifies the server, runs the read-only probes one *)
(* by one, evaluates the controls and writes the result, with one event    *)
(* per step in a transaction of its own. The browser follows the events    *)
(* over a stream that it reopens whenever it ends, and may cancel.         *)
(*                                                                         *)
(* One owner and one asset: runs of other owners or assets share no row.   *)
(* Between the check for a cancellation, the progress event and the        *)
(* command it announces, anything else may run.                            *)
(***************************************************************************)
EXTENDS Naturals, Sequences, FiniteSets

CONSTANTS
  Runs,         \* run ids
  Followed,     \* the runs whose page a browser has open
  Starters,     \* server threads in start_linux_audit
  Cancellers,   \* server threads in cancel_linux_audit
  None,
  Probes,       \* commands of the adapter's plan
  Controls,     \* controls evaluated, 67 in the code
  MaxBatch,     \* events per read of the stream, 200 in the code
  MaxFaults,    \* database transactions that fail
  MaxCrashes,   \* restarts of the API process
  MaxDrops      \* streams the network or the browser drops

ASSUME AuditAssumption ==
  /\ None \notin Runs
  /\ Followed \subseteq Runs
  /\ {Probes, Controls, MaxFaults, MaxCrashes, MaxDrops} \subseteq Nat
  /\ MaxBatch \in Nat \ {0}

VARIABLES
  runs,      \* linux_audit_runs
  events,    \* linux_audit_events of each run, by sequence
  cancel,    \* _CANCELLATIONS: the threading.Event of each run
  thread,    \* _run_linux_audit
  starter,   \* start_linux_audit
  canceller, \* cancel_linux_audit
  page,      \* the browser's EventSource and the stream that serves it
  count      \* faults, crashes and drops so far

vars == <<runs, events, cancel, thread, starter, canceller, page, count>>

Active == {"QUEUED", "RUNNING"}
Ended == {"COMPLETED", "FAILED", "CANCELLED"}
EndEvents == {"RUN_COMPLETED", "RUN_FAILED", "RUN_CANCELLED"}
EventTypes == EndEvents \cup {"RUN_STARTED", "PREFLIGHT_RETRY", "PLATFORM_IDENTIFIED",
                              "PROBE_PROGRESS", "CONTROL_COMPLETED"}

PreflightAttempts == 2
DetectionCommands == 2

NoRow == [status |-> "NONE", cancellation |-> FALSE, result |-> FALSE]
\* late counts the commands sent after the run's cancellation was committed.
NoThread == [pc |-> "none", n |-> 0, late |-> 0]
NoPage == [pc |-> "closed", cursor |-> 0, batch |-> <<>>, seen |-> <<>>]

Init ==
  /\ runs = [r \in Runs |-> NoRow]
  /\ events = [r \in Runs |-> <<>>]
  /\ cancel = [r \in Runs |-> None]
  /\ thread = [r \in Runs |-> NoThread]
  /\ starter = [s \in Starters |-> [pc |-> "idle", run |-> None]]
  /\ canceller = [c \in Cancellers |-> None]
  /\ page = [r \in Runs |-> NoPage]
  /\ count = [faults |-> 0, crashes |-> 0, drops |-> 0]

-----------------------------------------------------------------------------
(* Starting a run *)

\* active_linux_audit_run finds a run to follow, or none.
FindActive(s) ==
  /\ starter[s].pc = "idle"
  /\ starter' = [starter EXCEPT ![s].pc =
       IF \E r \in Runs : runs[r].status \in Active THEN "answered" ELSE "insert"]
  /\ UNCHANGED <<runs, events, cancel, thread, canceller, page, count>>

\* create_linux_audit_run: uq_linux_audit_one_active admits one active run.
Admitted == \A r \in Runs : runs[r].status \notin Active

InsertRun(s) ==
  /\ starter[s].pc = "insert"
  /\ \/ /\ Admitted
        /\ \E r \in Runs :
             /\ runs[r].status = "NONE"
             /\ runs' = [runs EXCEPT ![r].status = "QUEUED"]
             /\ starter' = [starter EXCEPT ![s] = [pc |-> "start", run |-> r]]
     \/ /\ ~Admitted
        /\ starter' = [starter EXCEPT ![s].pc = "answered"]
        /\ UNCHANGED runs
  /\ UNCHANGED <<events, cancel, thread, canceller, page, count>>

\* start_linux_audit_thread registers the run before its thread starts.
StartThread(s) ==
  LET r == starter[s].run IN
  /\ starter[s].pc = "start"
  /\ cancel' = [cancel EXCEPT ![r] = "clear"]
  /\ thread' = [thread EXCEPT ![r].pc = "mark"]
  /\ starter' = [starter EXCEPT ![s] = [pc |-> "answered", run |-> None]]
  /\ UNCHANGED <<runs, events, canceller, page, count>>

-----------------------------------------------------------------------------
(* The thread *)

\* After its row's commit, a step goes on at pc with counter n.
Goto(r, pc, n) == thread' = [thread EXCEPT ![r].pc = pc, ![r].n = n]
Tell(r, event) == events' = [events EXCEPT ![r] = Append(@, event)]

\* should_cancel, asked before every command: the run's event or its row. The
\* event is set after the row is written, so what the row says decides.
ShouldCancelAsksEventOnly(r) == cancel[r] = "set"
ShouldCancel(r) == cancel[r] = "set" \/ runs[r].cancellation

\* finish_linux_audit_run changes a run that has not ended.
FinishAnyway(r, status) ==
  runs' = [runs EXCEPT ![r].status = status, ![r].result = @ \/ status = "COMPLETED"]
Finish(r, status) ==
  runs' = IF runs[r].status \in Active
          THEN [runs EXCEPT ![r].status = status, ![r].result = @ \/ status = "COMPLETED"]
          ELSE runs

MarkRunning(r) ==
  /\ thread[r].pc = "mark"
  /\ runs' = IF runs[r].status = "QUEUED" THEN [runs EXCEPT ![r].status = "RUNNING"]
                                          ELSE runs
  /\ Goto(r, "RUN_STARTED", 0)
  /\ UNCHANGED <<events, cancel>>

TellStarted(r) ==
  /\ thread[r].pc = "RUN_STARTED"
  /\ Tell(r, "RUN_STARTED")
  /\ Goto(r, "preflight", 0)
  /\ UNCHANGED <<runs, cancel>>

\* collect_plan_over_ssh asks before the next command of the detection, ...
AskDetection(r) ==
  /\ thread[r].pc = "preflight"
  /\ Goto(r, IF ShouldCancel(r) THEN "interrupt" ELSE "detect", thread[r].n)
  /\ UNCHANGED <<runs, events, cancel>>

\* ... and sends it: a command of the detection, or of the plan.
SendCommand(r) ==
  /\ thread[r].pc \in {"detect", "spawn"}
  /\ thread' = [thread EXCEPT
       ![r].pc = IF @ = "detect" THEN "detecting" ELSE "running",
       ![r].late = IF runs[r].cancellation THEN @ + 1 ELSE @]
  /\ UNCHANGED <<runs, events, cancel>>

\* The detection is repeated while an attempt is left; n of its commands ended.
AttemptLeft(n) == n < PreflightAttempts * DetectionCommands
AttemptOver(n) == n % DetectionCommands = 0

EndDetection(r) ==
  LET n == thread[r].n + 1 IN
  /\ thread[r].pc = "detecting"
  /\ \/ ~AttemptOver(n) /\ Goto(r, "preflight", n)
     \/ AttemptOver(n) /\ Goto(r, "PLATFORM_IDENTIFIED", 0)
     \/ AttemptOver(n) /\ AttemptLeft(n) /\ Goto(r, "PREFLIGHT_RETRY", n)
     \/ AttemptOver(n) /\ ~AttemptLeft(n) /\ Goto(r, "fail", 0)
  /\ UNCHANGED <<runs, events, cancel>>

TellRetry(r) ==
  /\ thread[r].pc = "PREFLIGHT_RETRY"
  /\ Tell(r, "PREFLIGHT_RETRY")
  /\ Goto(r, "preflight", thread[r].n)
  /\ UNCHANGED <<runs, cancel>>

TellIdentified(r) ==
  /\ thread[r].pc = "PLATFORM_IDENTIFIED"
  /\ Tell(r, "PLATFORM_IDENTIFIED")
  /\ Goto(r, "probe", 0)
  /\ UNCHANGED <<runs, cancel>>

\* The same of the plan: before a command the check, then its progress event.
AskProbe(r) ==
  /\ thread[r].pc = "probe" /\ thread[r].n < Probes
  /\ Goto(r, IF ShouldCancel(r) THEN "interrupt" ELSE "PROBE_PROGRESS", thread[r].n)
  /\ UNCHANGED <<runs, events, cancel>>

TellProbe(r) ==
  /\ thread[r].pc = "PROBE_PROGRESS"
  /\ Tell(r, "PROBE_PROGRESS")
  /\ Goto(r, "spawn", thread[r].n)
  /\ UNCHANGED <<runs, cancel>>

\* A command that fails, times out or answers too much only counts as failed.
EndProbe(r) ==
  /\ thread[r].pc = "running"
  /\ Tell(r, "PROBE_PROGRESS")
  /\ Goto(r, "probe", thread[r].n + 1)
  /\ UNCHANGED <<runs, cancel>>

\* After the last command only the run's event is looked at.
Evaluate(r) ==
  /\ thread[r].pc = "probe" /\ thread[r].n >= Probes
  /\ Goto(r, IF cancel[r] = "set" THEN "interrupt" ELSE "control", 0)
  /\ UNCHANGED <<runs, events, cancel>>

TellControl(r) ==
  LET n == thread[r].n IN
  /\ thread[r].pc = "control"
  /\ \/ n < Controls /\ Tell(r, "CONTROL_COMPLETED") /\ Goto(r, "control", n + 1)
     \/ n >= Controls /\ Goto(r, "complete", 0) /\ UNCHANGED events
  /\ UNCHANGED <<runs, cancel>>

Complete(r) ==
  /\ thread[r].pc = "complete"
  /\ Finish(r, "COMPLETED")
  /\ Goto(r, "RUN_COMPLETED", 0)
  /\ UNCHANGED <<events, cancel>>

\* except InterruptedError
InterruptForgets(r) ==
  /\ thread[r].pc = "interrupt"
  /\ Goto(r, "pop", 0)
  /\ UNCHANGED <<runs, events, cancel>>

Interrupt(r) ==
  /\ thread[r].pc = "interrupt"
  /\ Finish(r, "CANCELLED")
  /\ Goto(r, "RUN_CANCELLED", 0)
  /\ UNCHANGED <<events, cancel>>

\* except Exception
Fail(r) ==
  /\ thread[r].pc = "fail"
  /\ Finish(r, "FAILED")
  /\ Goto(r, "RUN_FAILED", 0)
  /\ UNCHANGED <<events, cancel>>

\* The last event of a run, and the event its handler forgets.
EndEventUnlessCancelled(r) ==
  IF thread[r].pc = "RUN_CANCELLED" THEN events[r] ELSE Append(events[r], thread[r].pc)
EndEvent(r) == Append(events[r], thread[r].pc)

TellEnd(r) ==
  /\ thread[r].pc \in EndEvents
  /\ events' = [events EXCEPT ![r] = EndEvent(r)]
  /\ Goto(r, "pop", 0)
  /\ UNCHANGED <<runs, cancel>>

\* finally
Unregister(r) ==
  /\ thread[r].pc = "pop"
  /\ cancel' = [cancel EXCEPT ![r] = None]
  /\ Goto(r, "ended", 0)
  /\ UNCHANGED <<runs, events>>

\* An error other than the database's: no key file, an unknown or mismatched
\* distribution, a command that cannot be spawned, an invalid result.
CollectionFails(r) ==
  /\ thread[r].pc \in {"preflight", "detect", "PLATFORM_IDENTIFIED", "probe", "spawn",
                       "complete"}
  /\ Goto(r, "fail", 0)
  /\ UNCHANGED <<runs, events, cancel>>

ThreadStep(r) ==
  /\ \/ MarkRunning(r) \/ TellStarted(r) \/ AskDetection(r) \/ SendCommand(r)
     \/ EndDetection(r) \/ TellRetry(r) \/ TellIdentified(r) \/ AskProbe(r)
     \/ TellProbe(r) \/ EndProbe(r) \/ Evaluate(r) \/ TellControl(r) \/ Complete(r) \/ Interrupt(r) \/ Fail(r) \/ TellEnd(r)
     \/ Unregister(r)
  /\ UNCHANGED <<starter, canceller, page, count>>

InHandler == {"interrupt", "RUN_CANCELLED", "fail", "RUN_FAILED"}

\* Where the thread opens no transaction.
NoTransaction == {"none", "detect", "detecting", "spawn", "pop", "ended", "dead"}

\* A transaction fails: the except clause takes over, but not over its own
\* handlers, which only reach the finally clause.
TransactionFails(r) ==
  /\ count.faults < MaxFaults
  /\ thread[r].pc \notin NoTransaction
  /\ count' = [count EXCEPT !.faults = @ + 1]
  /\ Goto(r, IF thread[r].pc \in InHandler THEN "pop" ELSE "fail", 0)
  /\ UNCHANGED <<runs, events, cancel, starter, canceller, page>>

-----------------------------------------------------------------------------
(* Cancelling: the row first, then the event of the running thread. *)

RequestCancel(c) ==
  /\ canceller[c] = None
  /\ \E r \in Runs :
       /\ runs[r].status \in Active
       /\ runs' = [runs EXCEPT ![r].cancellation = TRUE]
       /\ canceller' = [canceller EXCEPT ![c] = r]
  /\ UNCHANGED <<events, cancel, thread, starter, page, count>>

SetCancelEvent(c) ==
  LET r == canceller[c] IN
  /\ r # None
  /\ cancel' = IF cancel[r] = None THEN cancel ELSE [cancel EXCEPT ![r] = "set"]
  /\ canceller' = [canceller EXCEPT ![c] = None]
  /\ UNCHANGED <<runs, events, thread, starter, page, count>>

-----------------------------------------------------------------------------
(* The browser's stream of a run *)

LastSeen(r) == IF page[r].seen = <<>> THEN 0 ELSE page[r].seen[Len(page[r].seen)]

\* The handlers of the end events close the EventSource for good.
PageDone(r) == \E i \in 1..Len(page[r].seen) : events[r][page[r].seen[i]] \in EndEvents

\* EventSource opens, or reopens with the last id it has seen.
Connect(r) ==
  /\ r \in Followed
  /\ page[r].pc = "closed"
  /\ runs[r].status # "NONE"
  /\ ~PageDone(r)
  /\ page' = [page EXCEPT ![r].pc = "list", ![r].cursor = LastSeen(r)]
  /\ UNCHANGED <<runs, events, cancel, thread, starter, canceller, count>>

\* list_linux_audit_events and load_linux_audit_run are two statements.
ListEvents(r) ==
  LET last == IF Len(events[r]) < page[r].cursor + MaxBatch
              THEN Len(events[r]) ELSE page[r].cursor + MaxBatch
  IN
  /\ page[r].pc = "list"
  /\ page' = [page EXCEPT ![r].pc = "load",
                          ![r].batch = [i \in 1..(last - page[r].cursor) |-> page[r].cursor + i]]
  /\ UNCHANGED <<runs, events, cancel, thread, starter, canceller, count>>

LoadRun(r) ==
  /\ page[r].pc = "load"
  /\ page' = [page EXCEPT ![r].pc =
       IF runs[r].status \in Ended /\ page[r].batch = <<>> THEN "closed" ELSE "send"]
  /\ UNCHANGED <<runs, events, cancel, thread, starter, canceller, count>>

\* The stream remembers the last event it has sent.
CursorStays(r) == page[r].cursor
NextCursor(r) == Head(page[r].batch)

Send(r) ==
  /\ page[r].pc = "send"
  /\ \/ /\ page[r].batch = <<>>
        /\ page' = [page EXCEPT ![r].pc = "list"]
     \/ /\ page[r].batch # <<>>
        /\ page' = [page EXCEPT
             ![r].cursor = NextCursor(r),
             ![r].batch = Tail(@),
             ![r].seen = Append(@, Head(page[r].batch)),
             ![r].pc = IF events[r][Head(page[r].batch)] \in EndEvents
                       THEN "closed" ELSE "send"]
  /\ UNCHANGED <<runs, events, cancel, thread, starter, canceller, count>>

StreamDrops(r) ==
  /\ page[r].pc # "closed"
  /\ count.drops < MaxDrops
  /\ count' = [count EXCEPT !.drops = @ + 1]
  /\ page' = [page EXCEPT ![r].pc = "closed", ![r].batch = <<>>]
  /\ UNCHANGED <<runs, events, cancel, thread, starter, canceller>>

StreamStep(r) == Connect(r) \/ ListEvents(r) \/ LoadRun(r) \/ Send(r)

-----------------------------------------------------------------------------
\* The API process restarts; nothing resumes a thread that died with it.
Crash ==
  /\ count.crashes < MaxCrashes
  /\ count' = [count EXCEPT !.crashes = @ + 1]
  /\ cancel' = [r \in Runs |-> None]
  /\ thread' = [r \in Runs |-> IF thread[r].pc \in {"none", "ended"} THEN thread[r]
                               ELSE [thread[r] EXCEPT !.pc = "dead", !.n = 0]]
  /\ starter' = [s \in Starters |-> IF starter[s].pc \in {"insert", "start"}
                                    THEN [pc |-> "answered", run |-> None] ELSE starter[s]]
  /\ canceller' = [c \in Cancellers |-> None]
  /\ page' = [r \in Runs |-> [page[r] EXCEPT !.pc = "closed", !.batch = <<>>]]
  /\ UNCHANGED <<runs, events>>

Start(s) == FindActive(s) \/ InsertRun(s) \/ StartThread(s)

Next ==
  \/ \E s \in Starters : Start(s)
  \/ \E r \in Runs : ThreadStep(r) \/ StreamStep(r) \/ StreamDrops(r) \/ TransactionFails(r)
  \/ \E r \in Runs : CollectionFails(r) /\ UNCHANGED <<starter, canceller, page, count>>
  \/ \E c \in Cancellers : RequestCancel(c) \/ SetCancelEvent(c)
  \/ Crash

Spec == Init /\ [][Next]_vars

\* The interpreter runs every thread, every command has a timeout, a request
\* that was received is handled, and the browser polls and reopens its stream.
FairSpec ==
  /\ Spec
  /\ \A r \in Runs : WF_vars(ThreadStep(r)) /\ WF_vars(StreamStep(r))
  /\ \A s \in Starters : WF_vars(InsertRun(s) \/ StartThread(s))
  /\ \A c \in Cancellers : WF_vars(SetCancelEvent(c))

-----------------------------------------------------------------------------
\* The rows, the memory of the process and the pages keep their types.
TypeOK ==
  /\ runs \in [Runs -> [status : Active \cup Ended \cup {"NONE"},
                        cancellation : BOOLEAN, result : BOOLEAN]]
  /\ events \in [Runs -> Seq(EventTypes)]
  /\ cancel \in [Runs -> {None, "clear", "set"}]
  /\ thread \in [Runs -> [pc : EventTypes \cup {"none", "mark", "preflight", "detect",
                                "detecting", "probe", "spawn", "running", "control",
                                "complete", "interrupt", "fail", "pop", "ended", "dead"},
                          n : 0..(PreflightAttempts * DetectionCommands)
                                \cup 0..Probes \cup 0..Controls,
                          late : Nat]]
  /\ starter \in [Starters -> [pc : {"idle", "insert", "start", "answered"},
                               run : Runs \cup {None}]]
  /\ canceller \in [Cancellers -> Runs \cup {None}]
  /\ page \in [Runs -> [pc : {"closed", "list", "load", "send"}, cursor : Nat,
                        batch : Seq(Nat), seen : Seq(Nat)]]
  /\ count \in [faults : 0..MaxFaults, crashes : 0..MaxCrashes, drops : 0..MaxDrops]

\* The end a run's events tell is the last event, and the row agrees with it:
\* a page sent to the results finds them. Only a completed run whose last event
\* could not be written is reported as failed, and the handlers of that error do
\* not take its result away.
EventsEndWithTheRun ==
  \A r \in Runs :
    /\ runs[r].result <=> (runs[r].status = "COMPLETED")
    /\ \A i \in 1..Len(events[r]) :
         events[r][i] \in EndEvents =>
           /\ i = Len(events[r])
           /\ CASE events[r][i] = "RUN_COMPLETED" -> runs[r].status = "COMPLETED"
                [] events[r][i] = "RUN_CANCELLED" -> runs[r].status = "CANCELLED"
                [] OTHER -> \/ runs[r].status = "FAILED"
                            \/ runs[r].status = "COMPLETED" /\ count.faults > 0

\* The page shows every event once and in order, over any number of streams.
PageSeesEveryEventOnce ==
  \A r \in Runs :
    /\ page[r].seen = [i \in 1..Len(page[r].seen) |-> i]
    /\ Len(page[r].seen) <= Len(events[r])

\* After a cancellation is committed at most one more command goes to the
\* server: the one whose check was already past. This holds of the detection and
\* of the plan, and also when the request met no registered thread to tell.
OneCommandAfterCancel == \A r \in Runs : thread[r].late <= 1

\* A transaction has failed or the process was restarted.
Disturbed == count.faults > 0 \/ count.crashes > 0

\* While nothing fails, every run ends.
RunEnds == \A r \in Runs : runs[r].status \in Active ~> runs[r].status \in Ended \/ Disturbed

\* While nothing fails, every page learns how its run ended, although the
\* stream may end between the commit of the status and that of the last event.
PageLearnsEnd == \A r \in Followed : runs[r].status # "NONE" ~> PageDone(r) \/ Disturbed

=============================================================================
