-------------------------- MODULE LinuxAuditProofs --------------------------
(***************************************************************************)
(* Proofs about LinuxAudit, for any number of runs, server threads, probes,*)
(* controls, faults, restarts and dropped streams: the types, that the     *)
(* events of a run end with the end its row tells, that a page sees every  *)
(* event once and in order over all its streams, and that at most one      *)
(* command is sent after a cancellation.                                   *)
(*                                                                         *)
(* What the invariant adds to them: where the thread of a run stands       *)
(* determines what its row says and whether an end event is told already   *)
(* (ThreadMatchesRow, EndTold), a run whose thread is not started yet has  *)
(* told nothing and is one starter's (Unstarted, OneStarter), and a stream *)
(* holds the events just after the last one its page has seen (Following). *)
(***************************************************************************)
EXTENDS LinuxAudit, TLAPS

RunRow == [status : Active \cup Ended \cup {"NONE"}, cancellation : BOOLEAN, result : BOOLEAN]
Places == EventTypes \cup {"none", "mark", "preflight", "detect", "detecting", "probe", "spawn",
                           "running", "control", "complete", "interrupt", "fail", "pop",
                           "ended", "dead"}
Steps == 0..(PreflightAttempts * DetectionCommands) \cup 0..Probes \cup 0..Controls
Place == [pc : Places, n : Steps]
ThreadRow == [pc : Places, n : Steps, late : Nat]
StarterRow == [pc : {"idle", "insert", "start", "answered"},
               run : Runs \cup {None}]
PageRow == [pc : {"closed", "list", "load", "send"}, cursor : Nat,
            batch : Seq(Nat), seen : Seq(Nat)]
Count == [faults : 0..MaxFaults, crashes : 0..MaxCrashes, drops : 0..MaxDrops]

\* Before its end is stored, a thread works; after its end is told, it is over.
Working == {"mark", "RUN_STARTED", "preflight", "detect", "detecting", "PREFLIGHT_RETRY",
            "PLATFORM_IDENTIFIED", "probe", "PROBE_PROGRESS", "spawn", "running", "control",
            "complete", "interrupt"}

\* Where a thread stands before a command that is sent in any case, and where a
\* command of the detection, or of the plan, is still to be counted.
Asked == {"detect", "PROBE_PROGRESS", "spawn"}
Detecting == {"preflight", "detect", "detecting", "PREFLIGHT_RETRY"}
Probing == {"PROBE_PROGRESS", "spawn", "running"}
Over == {"pop", "ended", "dead"}

\* What the row says where the thread stands at pc; faults: so many transactions failed.
RowAt(pc, status, faults) ==
  /\ pc # "CONTROL_COMPLETED"
  /\ pc \in Working => status \in Active
  /\ pc = "RUN_COMPLETED" => status = "COMPLETED"
  /\ pc = "RUN_CANCELLED" => status = "CANCELLED"
  /\ pc = "fail" => status \in Active \/ (status = "COMPLETED" /\ faults > 0)
  /\ pc = "RUN_FAILED" => status = "FAILED" \/ (status = "COMPLETED" /\ faults > 0)

\* The end an event tells is the one the row says.
TellsTruth(e, status, faults) ==
  /\ e = "RUN_COMPLETED" => status = "COMPLETED"
  /\ e = "RUN_CANCELLED" => status = "CANCELLED"
  /\ e = "RUN_FAILED" => status = "FAILED" \/ (status = "COMPLETED" /\ faults > 0)

\* The commands counted so far leave room for the one at hand.
Counted(pc, n) ==
  /\ pc \in Detecting => n < PreflightAttempts * DetectionCommands
  /\ pc \in Probing => n < Probes

ThreadMatchesRow(r) ==
  /\ RowAt(thread[r].pc, runs[r].status, count.faults)
  /\ runs[r].result <=> (runs[r].status = "COMPLETED")
  /\ Counted(thread[r].pc, thread[r].n)

EndTold(r) ==
  \A i \in 1..Len(events[r]) : events[r][i] \in EndEvents =>
    /\ i = Len(events[r])
    /\ thread[r].pc \in Over
    /\ TellsTruth(events[r][i], runs[r].status, count.faults)

Fresh(r) == thread[r].pc = "none" /\ events[r] = <<>>

Unstarted == \A r \in Runs : runs[r].status = "NONE" => Fresh(r)
OneStarter ==
  \A s \in Starters : starter[s].pc = "start" =>
    /\ starter[s].run \in Runs
    /\ Fresh(starter[s].run)
    /\ runs[starter[s].run].status \in Active
    /\ \A t \in Starters : starter[t].pc = "start" /\ starter[t].run = starter[s].run => t = s

Following(r) ==
  /\ \A i \in 1..Len(page[r].seen) : page[r].seen[i] = i
  /\ Len(page[r].seen) <= Len(events[r])
  /\ page[r].pc # "closed" => page[r].cursor = Len(page[r].seen)
  /\ page[r].pc \in {"load", "send"} =>
       /\ \A i \in 1..Len(page[r].batch) : page[r].batch[i] = page[r].cursor + i
       /\ page[r].cursor + Len(page[r].batch) <= Len(events[r])

IInv ==
  /\ TypeOK
  /\ \A r \in Runs : ThreadMatchesRow(r) /\ EndTold(r) /\ Following(r)
  /\ Unstarted
  /\ OneStarter

-----------------------------------------------------------------------------
(* Types                                                                   *)

\* The type invariant, one function at a time.
LEMMA Types ==
  ASSUME IInv
  PROVE  /\ runs \in [Runs -> RunRow] /\ events \in [Runs -> Seq(EventTypes)]
         /\ cancel \in [Runs -> {None, "clear", "set"}] /\ thread \in [Runs -> ThreadRow]
         /\ starter \in [Starters -> StarterRow] /\ canceller \in [Cancellers -> Runs \cup {None}]
         /\ page \in [Runs -> PageRow] /\ count \in Count
         /\ count.faults \in Nat
BY AuditAssumption DEF IInv, TypeOK, RunRow, ThreadRow, Places, Steps, StarterRow, PageRow, Count

\* The same functions give the type invariant of the next state.
LEMMA TypesSuffice ==
  ASSUME runs' \in [Runs -> RunRow], events' \in [Runs -> Seq(EventTypes)],
         cancel' \in [Runs -> {None, "clear", "set"}], thread' \in [Runs -> ThreadRow],
         starter' \in [Starters -> StarterRow], canceller' \in [Cancellers -> Runs \cup {None}],
         page' \in [Runs -> PageRow], count' \in Count
  PROVE  TypeOK'
BY DEF TypeOK, RunRow, ThreadRow, Places, Steps, StarterRow, PageRow, Count

\* What the invariant says of the rows, the memory and the events depends on the
\* pages not at all, and of the pages on the events only by their number.
LEMMA PagesKept ==
  ASSUME NEW r \in Runs, Following(r), page'[r] = page[r],
         Len(events[r]) \in Nat, Len(events'[r]) \in Nat, Len(events[r]) <= Len(events'[r]),
         page[r].cursor \in Nat, page[r].batch \in Seq(Nat), page[r].seen \in Seq(Nat)
  PROVE  Following(r)'
<1>1. Len(page[r].batch) \in Nat /\ Len(page[r].seen) \in Nat
  OBVIOUS
<1>2. page[r].cursor + Len(page[r].batch) <= Len(events[r])
      => page[r].cursor + Len(page[r].batch) <= Len(events'[r])
  BY <1>1
<1>3. Len(page[r].seen) <= Len(events[r]) => Len(page[r].seen) <= Len(events'[r])
  BY <1>1
<1> QED
  BY <1>2, <1>3 DEF Following

\* The bounds of the counters are numbers.
LEMMA Bounds ==
  /\ MaxFaults \in Nat /\ MaxCrashes \in Nat /\ MaxDrops \in Nat
  /\ Probes \in Nat /\ Controls \in Nat /\ MaxBatch \in Nat /\ MaxBatch > 0
BY AuditAssumption

-----------------------------------------------------------------------------
(* The thread                                                              *)

\* The thread of one run goes on to pc p with counter k.
MovesTo(r, p, k) ==
  /\ thread' \in [Runs -> ThreadRow] /\ thread'[r].pc = p /\ thread'[r].n = k
  /\ \A x \in Runs : x # r => thread'[x] = thread[x]

\* It does so by Goto.
LEMMA GotoMoves ==
  ASSUME IInv, NEW r \in Runs, NEW p, NEW k, [pc |-> p, n |-> k] \in Place, Goto(r, p, k)
  PROVE  MovesTo(r, p, k)
<1>1. thread \in [Runs -> ThreadRow] /\ p \in Places /\ k \in Steps
  BY Types DEF Place
<1> DEFINE row == [thread[r] EXCEPT !.pc = p, !.n = k]
<1>2. row \in ThreadRow /\ row.pc = p /\ row.n = k
  BY <1>1 DEF ThreadRow
<1>3. thread' = [thread EXCEPT ![r] = row]
  BY DEF Goto
<1> HIDE DEF row
<1> QED
  BY <1>1, <1>2, <1>3 DEF MovesTo

\* A step of the thread of one run: it goes on to pc p with counter k, and what
\* its row and its events then say fits p. The other runs are left alone.
LEMMA ThreadMoves ==
  ASSUME IInv, NEW r \in Runs, NEW p, NEW k, NEW row \in RunRow, NEW ev \in Seq(EventTypes),
         thread[r].pc # "none", p # "none", MovesTo(r, p, k),
         runs' \in [Runs -> RunRow], runs'[r] = row,
         \A x \in Runs : x # r => runs'[x] = runs[x],
         events' \in [Runs -> Seq(EventTypes)], events'[r] = ev,
         \A x \in Runs : x # r => events'[x] = events[x],
         Len(events[r]) <= Len(ev),
         cancel' \in [Runs -> {None, "clear", "set"}],
         count' \in Count, count'.faults >= count.faults,
         UNCHANGED <<starter, canceller, page>>,
         row.status # "NONE",
         RowAt(p, row.status, count'.faults),
         row.result <=> (row.status = "COMPLETED"),
         Counted(p, k),
         \A i \in 1..Len(ev) : ev[i] \in EndEvents =>
           i = Len(ev) /\ p \in Over /\ TellsTruth(ev[i], row.status, count'.faults)
  PROVE  IInv'
<1>1. thread' \in [Runs -> ThreadRow] /\ thread'[r].pc = p /\ thread'[r].n = k
      /\ \A x \in Runs : x # r => thread'[x] = thread[x]
  BY DEF MovesTo
<1>2. count'.faults \in Nat
  BY AuditAssumption DEF Count
<1>3. TypeOK'
  BY <1>1, Types, TypesSuffice
<1>4. ASSUME NEW x \in Runs PROVE ThreadMatchesRow(x)'
  <2>1. CASE x = r
    BY <1>1, <2>1 DEF ThreadMatchesRow
  <2>2. CASE x # r
    BY <1>1, <1>2, <2>2, Types DEF IInv, ThreadMatchesRow, RowAt
  <2> QED
    BY <2>1, <2>2
<1>5. ASSUME NEW x \in Runs PROVE EndTold(x)'
  <2>1. CASE x = r
    BY <1>1, <2>1 DEF EndTold
  <2>2. CASE x # r
    BY <1>1, <1>2, <2>2, Types DEF IInv, EndTold, TellsTruth
  <2> QED
    BY <2>1, <2>2
<1>6. ASSUME NEW x \in Runs PROVE Following(x)'
  <2>1. /\ page'[x] = page[x] /\ page[x] \in PageRow
        /\ Len(events[x]) \in Nat /\ Len(events'[x]) \in Nat
        /\ Len(events[x]) <= Len(events'[x])
    <3>1. page'[x] = page[x] /\ page[x] \in PageRow
      BY Types
    <3>2. events[x] \in Seq(EventTypes) /\ events'[x] \in Seq(EventTypes)
      BY Types
    <3>3. Len(events[x]) \in Nat /\ Len(events'[x]) \in Nat
      BY <3>2
    <3>4. CASE x = r
      BY <3>1, <3>3, <3>4
    <3>5. CASE x # r
      <4>1. events'[x] = events[x]
        BY <3>5
      <4> QED
        BY <3>1, <3>3, <4>1
    <3> QED
      BY <3>4, <3>5
  <2> QED
    BY <2>1, PagesKept DEF IInv, PageRow
<1>7. Unstarted'
  BY <1>1 DEF IInv, Unstarted, Fresh
<1>8. OneStarter'
  BY <1>1 DEF IInv, OneStarter, Fresh
<1> QED
  BY <1>3, <1>4, <1>5, <1>6, <1>7, <1>8 DEF IInv

\* Such a step that writes nothing.
LEMMA ThreadGoesOn ==
  ASSUME IInv, NEW r \in Runs, NEW p, NEW k,
         thread[r].pc # "none", p # "none",
         MovesTo(r, p, k), UNCHANGED <<runs, events, starter, canceller, page>>,
         cancel' \in [Runs -> {None, "clear", "set"}],
         count' \in Count, count'.faults >= count.faults,
         RowAt(p, runs[r].status, count'.faults),
         thread[r].pc \in Over => p \in Over,
         Counted(p, k)
  PROVE  IInv'
<1>1. /\ runs[r] \in RunRow /\ events[r] \in Seq(EventTypes)
      /\ runs[r].status # "NONE"
      /\ runs[r].result <=> (runs[r].status = "COMPLETED")
      /\ count'.faults \in Nat
  BY Types, AuditAssumption DEF IInv, Unstarted, Fresh, ThreadMatchesRow, Count
<1>2. \A i \in 1..Len(events[r]) : events[r][i] \in EndEvents =>
        i = Len(events[r]) /\ p \in Over /\ TellsTruth(events[r][i], runs[r].status, count'.faults)
  BY <1>1, Types DEF IInv, EndTold, TellsTruth
<1>3. /\ Len(events[r]) <= Len(events[r])
      /\ runs' \in [Runs -> RunRow] /\ runs'[r] = runs[r]
      /\ events' \in [Runs -> Seq(EventTypes)] /\ events'[r] = events[r]
  BY <1>1, Types
<1> QED
  BY <1>1, <1>2, <1>3, ThreadMoves

\* The same where it goes there by Goto.
LEMMA ThreadGoes ==
  ASSUME IInv, NEW r \in Runs, NEW p, NEW k,
         thread[r].pc # "none", p # "none", [pc |-> p, n |-> k] \in Place,
         Goto(r, p, k), UNCHANGED <<runs, events, starter, canceller, page>>,
         cancel' \in [Runs -> {None, "clear", "set"}],
         count' \in Count, count'.faults >= count.faults,
         RowAt(p, runs[r].status, count'.faults),
         thread[r].pc \in Over => p \in Over,
         Counted(p, k)
  PROVE  IInv'
BY GotoMoves, ThreadGoesOn

\* Such a step that tells an event other than an end.
LEMMA ThreadTells ==
  ASSUME IInv, NEW r \in Runs, NEW p, NEW k, NEW e \in EventTypes \ EndEvents,
         thread[r].pc \in Working, p \in Working, [pc |-> p, n |-> k] \in Place,
         Goto(r, p, k), Tell(r, e), UNCHANGED <<runs, cancel, starter, canceller, page, count>>,
         Counted(p, k)
  PROVE  IInv'
<1> DEFINE ev == Append(events[r], e)
<1>1. /\ runs[r] \in RunRow /\ events[r] \in Seq(EventTypes) /\ ev \in Seq(EventTypes)
      /\ runs[r].status \in Active
      /\ runs[r].result <=> (runs[r].status = "COMPLETED")
      /\ count'.faults \in Nat /\ count'.faults >= count.faults
      /\ p # "none" /\ thread[r].pc # "none"
  BY Types DEF IInv, ThreadMatchesRow, RowAt, Working
<1>2. Len(ev) = Len(events[r]) + 1 /\ ev[Len(ev)] = e
      /\ \A i \in 1..Len(events[r]) : ev[i] = events[r][i]
  BY <1>1
<1>3. \A i \in 1..Len(ev) : ev[i] \notin EndEvents
  BY <1>1, <1>2 DEF IInv, EndTold, Working, Over
<1>4. events' = [events EXCEPT ![r] = ev]
  BY DEF Tell
<1> HIDE DEF ev
<1>5. /\ events' \in [Runs -> Seq(EventTypes)] /\ events'[r] = ev
      /\ \A x \in Runs : x # r => events'[x] = events[x]
  BY <1>1, <1>4, Types
<1>6. RowAt(p, runs[r].status, count'.faults)
  BY <1>1 DEF RowAt, Working
<1>7. runs[r].status # "NONE" /\ Len(events[r]) <= Len(ev)
  BY <1>1, <1>2 DEF Active
<1> QED
  BY <1>1, <1>3, <1>5, <1>6, <1>7, Types, GotoMoves, ThreadMoves

\* The handlers end an active run; an ended one keeps its status and result.
LEMMA FinishFacts ==
  ASSUME IInv, NEW r \in Runs, NEW status \in Ended, Finish(r, status)
  PROVE  /\ runs' \in [Runs -> RunRow]
         /\ \A x \in Runs : x # r => runs'[x] = runs[x]
         /\ runs'[r].status = IF runs[r].status \in Active THEN status ELSE runs[r].status
         /\ runs'[r].result <=> (runs'[r].status = "COMPLETED")
<1>1. runs[r] \in RunRow /\ (runs[r].result <=> (runs[r].status = "COMPLETED"))
  BY Types DEF IInv, ThreadMatchesRow
<1>2. CASE runs[r].status \in Active
  <2> DEFINE row == [runs[r] EXCEPT !.status = status, !.result = @ \/ status = "COMPLETED"]
  <2>1. row \in RunRow /\ row.status = status /\ (row.result <=> (status = "COMPLETED"))
    BY <1>1, <1>2 DEF RunRow, Active, Ended
  <2>2. runs' = [runs EXCEPT ![r] = row]
    BY <1>2 DEF Finish
  <2> HIDE DEF row
  <2> QED
    BY <1>2, <2>1, <2>2, Types
<1>3. CASE runs[r].status \notin Active
  BY <1>1, <1>3, Types DEF Finish
<1> QED
  BY <1>2, <1>3

\* Such a step that stores an end.
LEMMA ThreadFinishes ==
  ASSUME IInv, NEW r \in Runs, NEW status \in Ended, NEW p \in EndEvents,
         thread[r].pc \in Working \cup {"fail"},
         Finish(r, status), Goto(r, p, 0),
         UNCHANGED <<events, cancel, starter, canceller, page, count>>,
         RowAt(p, runs'[r].status, count.faults)
  PROVE  IInv'
<1>1. /\ runs' \in [Runs -> RunRow]
      /\ \A x \in Runs : x # r => runs'[x] = runs[x]
      /\ runs'[r].status = IF runs[r].status \in Active THEN status ELSE runs[r].status
      /\ runs'[r].result <=> (runs'[r].status = "COMPLETED")
      /\ runs'[r] \in RunRow
  BY FinishFacts
<1>2. /\ events[r] \in Seq(EventTypes) /\ thread[r].pc \notin Over /\ thread[r].pc # "none"
      /\ runs[r].status # "NONE" /\ runs'[r].status # "NONE"
  BY <1>1, Types DEF IInv, Unstarted, Fresh, Working, Over, Ended, Active
<1>3. \A i \in 1..Len(events[r]) : events[r][i] \notin EndEvents
  BY <1>2 DEF IInv, EndTold
<1>4. [pc |-> p, n |-> 0] \in Place /\ p # "none" /\ Counted(p, 0)
  BY AuditAssumption DEF Place, Places, Steps, EventTypes, EndEvents, Counted, Detecting, Probing,
       PreflightAttempts, DetectionCommands
<1>5. /\ count' \in Count /\ count'.faults >= count.faults
      /\ RowAt(p, runs'[r].status, count'.faults)
  BY Types
<1>6. Len(events[r]) <= Len(events[r])
  BY <1>2
<1> QED
  BY <1>1, <1>2, <1>3, <1>4, <1>5, <1>6, Types, GotoMoves, ThreadMoves

\* TellEnd is the only step that tells an end, and the thread is over then.
LEMMA TellEndKeeps ==
  ASSUME IInv, NEW r \in Runs, TellEnd(r), UNCHANGED <<starter, canceller, page, count>>
  PROVE  IInv'
<1> DEFINE e == thread[r].pc
           ev == Append(events[r], e)
<1>1. e \in EndEvents /\ Goto(r, "pop", 0) /\ UNCHANGED <<runs, cancel>>
      /\ events' = [events EXCEPT ![r] = ev]
  BY DEF TellEnd, EndEvent
<1>2. /\ events[r] \in Seq(EventTypes) /\ e \in EventTypes
      /\ e \notin Over /\ e # "none" /\ e \notin Working
      /\ runs[r] \in RunRow /\ runs[r].status # "NONE"
      /\ runs[r].result <=> (runs[r].status = "COMPLETED")
      /\ RowAt(e, runs[r].status, count.faults)
  BY <1>1, Types DEF IInv, Unstarted, Fresh, Over, Working, EndEvents, EventTypes, ThreadMatchesRow
<1>3. /\ ev \in Seq(EventTypes) /\ Len(ev) = Len(events[r]) + 1 /\ ev[Len(ev)] = e
      /\ Len(events[r]) \in Nat
      /\ \A i \in 1..Len(events[r]) : ev[i] = events[r][i]
  BY <1>2
<1>4. TellsTruth(e, runs[r].status, count.faults)
  BY <1>2 DEF RowAt, TellsTruth
<1>5. \A i \in 1..Len(events[r]) : events[r][i] \notin EndEvents
  BY <1>2 DEF IInv, EndTold
<1> HIDE DEF ev, e
<1>6. \A i \in 1..Len(ev) : ev[i] \in EndEvents =>
        i = Len(ev) /\ "pop" \in Over /\ TellsTruth(ev[i], runs[r].status, count.faults)
  BY <1>3, <1>4, <1>5 DEF Over
<1>7. /\ events' \in [Runs -> Seq(EventTypes)] /\ events'[r] = ev
      /\ \A x \in Runs : x # r => events'[x] = events[x]
  BY <1>1, <1>3, Types
<1>8. [pc |-> "pop", n |-> 0] \in Place /\ RowAt("pop", runs[r].status, count'.faults)
      /\ Counted("pop", 0)
  BY AuditAssumption DEF Place, Places, Steps, PreflightAttempts, DetectionCommands, RowAt, Working,
       Counted, Detecting, Probing
<1>9. /\ Len(events[r]) <= Len(ev) /\ thread[r].pc # "none"
      /\ count'.faults = count.faults /\ count'.faults >= count.faults /\ count' \in Count
      /\ cancel' \in [Runs -> {None, "clear", "set"}]
      /\ runs' \in [Runs -> RunRow] /\ runs'[r] = runs[r]
  BY <1>1, <1>2, <1>3, Types DEF e
<1> QED
  BY <1>1, <1>2, <1>3, <1>6, <1>7, <1>8, <1>9, GotoMoves, ThreadMoves

\* The counters a step goes on with.
LEMMA Counters ==
  /\ PreflightAttempts * DetectionCommands = 4
  /\ \A k \in 0..4 \cup 0..Probes \cup 0..Controls, p \in Places : [pc |-> p, n |-> k] \in Place
  /\ \A k, p : p \notin Detecting \cup Probing => Counted(p, k)
  /\ \A k \in Steps : k \in Nat
  /\ 0 \in 0..4 /\ Probes \in Nat /\ Controls \in Nat
BY AuditAssumption DEF Place, Steps, PreflightAttempts, DetectionCommands, Counted

\* Every step of a thread keeps the invariant.
LEMMA ThreadKeeps == ASSUME IInv, NEW r \in Runs, ThreadStep(r) PROVE IInv'
<1>1. UNCHANGED <<starter, canceller, page, count>>
  BY DEF ThreadStep
<1>2. /\ thread[r] \in ThreadRow /\ RowAt(thread[r].pc, runs[r].status, count.faults)
      /\ count' \in Count /\ count'.faults = count.faults /\ count.faults \in Nat
      /\ count'.faults >= count.faults
      /\ cancel \in [Runs -> {None, "clear", "set"}]
  BY <1>1, Types DEF IInv, ThreadMatchesRow
<1>3. CASE MarkRunning(r)
  <2> DEFINE row == IF runs[r].status = "QUEUED" THEN [runs[r] EXCEPT !.status = "RUNNING"]
                                                 ELSE runs[r]
  <2>1. /\ thread[r].pc = "mark" /\ Goto(r, "RUN_STARTED", 0) /\ UNCHANGED <<events, cancel>>
        /\ runs[r] \in RunRow /\ runs[r].status \in Active
        /\ runs[r].result <=> (runs[r].status = "COMPLETED")
    BY <1>2, <1>3, Types DEF MarkRunning, RowAt, Working, IInv, ThreadMatchesRow
  <2>2. row \in RunRow /\ row.status \in Active /\ (row.result <=> (row.status = "COMPLETED"))
    BY <2>1 DEF RunRow, Active
  <2>3. runs' = [runs EXCEPT ![r] = row]
    <3>1. CASE runs[r].status = "QUEUED"
      BY <1>3, <3>1 DEF MarkRunning
    <3>2. CASE runs[r].status # "QUEUED"
      BY <1>3, <3>2, Types DEF MarkRunning
    <3> QED
      BY <3>1, <3>2
  <2> HIDE DEF row
  <2>4. /\ runs' \in [Runs -> RunRow] /\ runs'[r] = row
        /\ \A x \in Runs : x # r => runs'[x] = runs[x]
    BY <2>2, <2>3, Types
  <2>5. /\ events[r] \in Seq(EventTypes) /\ Len(events[r]) <= Len(events[r])
        /\ events' \in [Runs -> Seq(EventTypes)] /\ events'[r] = events[r]
        /\ \A x \in Runs : x # r => events'[x] = events[x]
        /\ cancel' \in [Runs -> {None, "clear", "set"}]
    BY <1>2, <2>1, Types
  <2>6. \A i \in 1..Len(events[r]) : events[r][i] \notin EndEvents
    BY <2>1 DEF IInv, EndTold, Over
  <2>7. /\ row.status # "NONE" /\ RowAt("RUN_STARTED", row.status, count'.faults)
        /\ [pc |-> "RUN_STARTED", n |-> 0] \in Place
    BY <2>2, Counters DEF Active, RowAt, EventTypes, Places
  <2>8. MovesTo(r, "RUN_STARTED", 0) /\ Counted("RUN_STARTED", 0)
    BY <2>1, <2>7, GotoMoves, Counters DEF Detecting, Probing
  <2> QED
    BY <1>1, <1>2, <2>1, <2>2, <2>4, <2>5, <2>6, <2>7, <2>8, ThreadMoves
<1>4. CASE TellStarted(r)
  <2>1. Counted("preflight", 0)
    BY Counters DEF Counted, Detecting, Probing
  <2> QED
    BY <1>1, <1>4, <2>1, ThreadTells, Counters DEF TellStarted, Places, EventTypes, EndEvents, Working
<1>5. CASE AskDetection(r)
  <2>1. /\ thread[r].pc = "preflight" /\ UNCHANGED <<runs, events, cancel>>
        /\ runs[r].status \in Active /\ thread[r].n \in Steps
        /\ Counted("preflight", thread[r].n)
    BY <1>2, <1>5 DEF AskDetection, RowAt, Working, ThreadRow, IInv, ThreadMatchesRow
  <2>2. PICK p \in {"interrupt", "detect"} : Goto(r, p, thread[r].n)
    BY <1>5 DEF AskDetection
  <2>3. RowAt(p, runs[r].status, count'.faults) /\ Counted(p, thread[r].n)
        /\ [pc |-> p, n |-> thread[r].n] \in Place
    BY <2>1 DEF RowAt, Counted, Detecting, Probing, Place, Places
  <2> QED
    BY <1>1, <1>2, <2>1, <2>2, <2>3, ThreadGoes DEF Over
<1>6. CASE SendCommand(r)
  <2> DEFINE p == IF thread[r].pc = "detect" THEN "detecting" ELSE "running"
             row == [thread[r] EXCEPT !.pc = p,
                       !.late = IF runs[r].cancellation THEN @ + 1 ELSE @]
  <2>1. /\ thread[r].pc \in {"detect", "spawn"} /\ UNCHANGED <<runs, events, cancel>>
        /\ runs[r].status \in Active /\ thread[r].n \in Steps
        /\ Counted(thread[r].pc, thread[r].n)
    BY <1>2, <1>6 DEF SendCommand, RowAt, Working, ThreadRow, IInv, ThreadMatchesRow
  <2>2. row \in ThreadRow /\ row.pc = p /\ row.n = thread[r].n
    <3> DEFINE late == IF runs[r].cancellation THEN thread[r].late + 1 ELSE thread[r].late
    <3>1. late \in Nat /\ p \in Places
      BY <1>2 DEF ThreadRow, Places
    <3>2. row = [thread[r] EXCEPT !.pc = p, !.late = late]
      OBVIOUS
    <3> HIDE DEF late, p, row
    <3> QED
      BY <1>2, <3>1, <3>2 DEF ThreadRow
  <2>3. thread' = [thread EXCEPT ![r] = row]
    BY <1>6 DEF SendCommand
  <2>4. RowAt(p, runs[r].status, count'.faults) /\ Counted(p, thread[r].n) /\ p # "none"
        /\ thread[r].pc \notin Over /\ thread[r].pc # "none"
    BY <2>1 DEF RowAt, Counted, Detecting, Probing, Over
  <2> HIDE DEF row, p
  <2>5. MovesTo(r, p, thread[r].n)
    BY <2>2, <2>3, Types DEF MovesTo
  <2> QED
    BY <1>1, <1>2, <2>1, <2>4, <2>5, ThreadGoesOn
<1>7. CASE EndDetection(r)
  <2> DEFINE n == thread[r].n + 1
  <2>1. /\ thread[r].pc = "detecting" /\ UNCHANGED <<runs, events, cancel>>
        /\ runs[r].status \in Active /\ n \in 0..4
    BY <1>2, <1>7, Counters
       DEF EndDetection, RowAt, Working, ThreadRow, IInv, ThreadMatchesRow, Counted, Detecting
  <2>2. RowAt("preflight", runs[r].status, count'.faults)
        /\ RowAt("PLATFORM_IDENTIFIED", runs[r].status, count'.faults)
        /\ RowAt("PREFLIGHT_RETRY", runs[r].status, count'.faults)
        /\ RowAt("fail", runs[r].status, count'.faults)
    BY <2>1 DEF RowAt
  <2> HIDE DEF n
  <2>3. CASE ~AttemptOver(n) /\ Goto(r, "preflight", n)
    <3>1. n # 4
      BY <2>3 DEF AttemptOver, DetectionCommands
    <3>2. Counted("preflight", n) /\ [pc |-> "preflight", n |-> n] \in Place
      BY <2>1, <3>1, Counters DEF Counted, Detecting, Probing, Places
    <3> QED
      BY <1>1, <1>2, <2>1, <2>2, <2>3, <3>2, ThreadGoes DEF Over
  <2>4. CASE Goto(r, "PLATFORM_IDENTIFIED", 0)
    BY <1>1, <1>2, <2>1, <2>2, <2>4, ThreadGoes, Counters DEF Over, EventTypes, Places, Detecting, Probing
  <2>5. CASE AttemptLeft(n) /\ Goto(r, "PREFLIGHT_RETRY", n)
    <3>1. Counted("PREFLIGHT_RETRY", n) /\ [pc |-> "PREFLIGHT_RETRY", n |-> n] \in Place
      BY <2>1, <2>5, Counters DEF AttemptLeft, Counted, Detecting, Probing, Places, EventTypes
    <3> QED
      BY <1>1, <1>2, <2>1, <2>2, <2>5, <3>1, ThreadGoes DEF Over
  <2>6. CASE Goto(r, "fail", 0)
    BY <1>1, <1>2, <2>1, <2>2, <2>6, ThreadGoes, Counters DEF Over, Places, Detecting, Probing
  <2> QED
    BY <1>7, <2>3, <2>4, <2>5, <2>6 DEF EndDetection, n
<1>8. CASE TellRetry(r)
  <2>1. /\ thread[r].pc = "PREFLIGHT_RETRY" /\ thread[r].n \in Steps
        /\ Counted("preflight", thread[r].n)
        /\ [pc |-> "preflight", n |-> thread[r].n] \in Place
    BY <1>2, <1>8
       DEF TellRetry, ThreadRow, IInv, ThreadMatchesRow, Counted, Detecting, Probing, Place, Places
  <2> QED
    BY <1>1, <1>8, <2>1, ThreadTells DEF TellRetry, EventTypes, EndEvents, Working
<1>9. CASE TellIdentified(r)
  BY <1>1, <1>9, ThreadTells, Counters
     DEF TellIdentified, EventTypes, EndEvents, Working, Places, Detecting, Probing
<1>10. CASE AskProbe(r)
  <2>1. /\ thread[r].pc = "probe" /\ thread[r].n < Probes /\ UNCHANGED <<runs, events, cancel>>
        /\ runs[r].status \in Active /\ thread[r].n \in Steps
    BY <1>2, <1>10 DEF AskProbe, RowAt, Working, ThreadRow
  <2>2. PICK p \in {"interrupt", "PROBE_PROGRESS"} : Goto(r, p, thread[r].n)
    BY <1>10 DEF AskProbe
  <2>3. RowAt(p, runs[r].status, count'.faults) /\ Counted(p, thread[r].n)
        /\ [pc |-> p, n |-> thread[r].n] \in Place
    BY <2>1 DEF RowAt, Counted, Detecting, Probing, Place, Places, EventTypes
  <2> QED
    BY <1>1, <1>2, <2>1, <2>2, <2>3, ThreadGoes DEF Over
<1>11. CASE TellProbe(r)
  <2>1. /\ thread[r].pc = "PROBE_PROGRESS" /\ thread[r].n \in Steps
        /\ Counted("spawn", thread[r].n)
        /\ [pc |-> "spawn", n |-> thread[r].n] \in Place
    BY <1>2, <1>11
       DEF TellProbe, ThreadRow, IInv, ThreadMatchesRow, Counted, Detecting, Probing, Place, Places
  <2> QED
    BY <1>1, <1>11, <2>1, ThreadTells DEF TellProbe, EventTypes, EndEvents, Working
<1>12. CASE EndProbe(r)
  <2>1. thread[r].n + 1 \in 0..4 \cup 0..Probes \cup 0..Controls
    BY <1>2, <1>12, Counters DEF EndProbe, ThreadRow, IInv, ThreadMatchesRow, Counted, Probing
  <2>2. [pc |-> "probe", n |-> thread[r].n + 1] \in Place /\ Counted("probe", thread[r].n + 1)
    BY <2>1, Counters DEF Places, Detecting, Probing
  <2> QED
    BY <1>1, <1>12, <2>2, ThreadTells DEF EndProbe, EventTypes, EndEvents, Working
<1>13. CASE Evaluate(r)
  <2>1. /\ thread[r].pc = "probe" /\ UNCHANGED <<runs, events, cancel>>
        /\ runs[r].status \in Active
    BY <1>2, <1>13 DEF Evaluate, RowAt, Working
  <2>2. RowAt("interrupt", runs[r].status, count'.faults)
        /\ RowAt("control", runs[r].status, count'.faults)
    BY <2>1 DEF RowAt
  <2>3. CASE Goto(r, "interrupt", 0)
    BY <1>1, <1>2, <2>1, <2>2, <2>3, ThreadGoes, Counters DEF Over, Places, Detecting, Probing
  <2>4. CASE Goto(r, "control", 0)
    BY <1>1, <1>2, <2>1, <2>2, <2>4, ThreadGoes, Counters DEF Over, Places, Detecting, Probing
  <2> QED
    BY <1>13, <2>3, <2>4 DEF Evaluate
<1>14. CASE TellControl(r)
  <2>1. /\ thread[r].pc = "control" /\ UNCHANGED <<runs, cancel>>
        /\ runs[r].status \in Active
    BY <1>2, <1>14 DEF TellControl, RowAt, Working
  <2>2. CASE thread[r].n < Controls /\ Tell(r, "CONTROL_COMPLETED")
             /\ Goto(r, "control", thread[r].n + 1)
    <3>1. thread[r].n + 1 \in 0..4 \cup 0..Probes \cup 0..Controls
      BY <1>2, <2>2, Counters DEF ThreadRow, Steps
    <3>2. [pc |-> "control", n |-> thread[r].n + 1] \in Place /\ Counted("control", thread[r].n + 1)
      BY <3>1, Counters DEF Places, Detecting, Probing
    <3> QED
      BY <1>1, <2>1, <2>2, <3>2, ThreadTells DEF EventTypes, EndEvents, Working
  <2>3. CASE Goto(r, "complete", 0) /\ UNCHANGED events
    <3>1. RowAt("complete", runs[r].status, count'.faults)
      BY <2>1 DEF RowAt
    <3> QED
      BY <1>1, <1>2, <2>1, <2>3, <3>1, ThreadGoes, Counters DEF Over, Places, Detecting, Probing
  <2> QED
    BY <1>14, <2>2, <2>3 DEF TellControl
<1>15. CASE Complete(r)
  <2>1. /\ thread[r].pc = "complete" /\ runs[r].status \in Active
        /\ Finish(r, "COMPLETED") /\ Goto(r, "RUN_COMPLETED", 0) /\ UNCHANGED <<events, cancel>>
    BY <1>2, <1>15 DEF Complete, RowAt, Working
  <2>2. RowAt("RUN_COMPLETED", runs'[r].status, count.faults)
    BY <2>1, FinishFacts DEF RowAt, Working, Ended
  <2> QED
    BY <1>1, <2>1, <2>2, ThreadFinishes DEF Working, Ended, EndEvents
<1>16. CASE Interrupt(r)
  <2>1. /\ thread[r].pc = "interrupt" /\ runs[r].status \in Active
        /\ Finish(r, "CANCELLED") /\ Goto(r, "RUN_CANCELLED", 0) /\ UNCHANGED <<events, cancel>>
    BY <1>2, <1>16 DEF Interrupt, RowAt, Working
  <2>2. RowAt("RUN_CANCELLED", runs'[r].status, count.faults)
    BY <2>1, FinishFacts DEF RowAt, Working, Ended
  <2> QED
    BY <1>1, <2>1, <2>2, ThreadFinishes DEF Working, Ended, EndEvents
<1>17. CASE Fail(r)
  <2>1. /\ thread[r].pc = "fail"
        /\ runs[r].status \in Active \/ (runs[r].status = "COMPLETED" /\ count.faults > 0)
        /\ Finish(r, "FAILED") /\ Goto(r, "RUN_FAILED", 0) /\ UNCHANGED <<events, cancel>>
    BY <1>2, <1>17 DEF Fail, RowAt
  <2>2. RowAt("RUN_FAILED", runs'[r].status, count.faults)
    BY <2>1, FinishFacts DEF RowAt, Working, Ended
  <2> QED
    BY <1>1, <2>1, <2>2, ThreadFinishes DEF Ended, EndEvents
<1>18. CASE TellEnd(r)
  BY <1>1, <1>18, TellEndKeeps
<1>19. CASE Unregister(r)
  <2>1. /\ thread[r].pc = "pop" /\ UNCHANGED <<runs, events>> /\ Goto(r, "ended", 0)
        /\ cancel' \in [Runs -> {None, "clear", "set"}]
    BY <1>2, <1>19 DEF Unregister
  <2>2. RowAt("ended", runs[r].status, count'.faults)
    BY DEF RowAt, Working
  <2> QED
    BY <1>1, <1>2, <2>1, <2>2, ThreadGoes, Counters DEF Over, Places, Detecting, Probing
<1> QED
  BY <1>3, <1>4, <1>5, <1>6, <1>7, <1>8, <1>9, <1>10, <1>11, <1>12, <1>13, <1>14, <1>15, <1>16,
     <1>17, <1>18, <1>19 DEF ThreadStep

\* A failed transaction sends the thread to its handler, or out of it.
LEMMA TransactionFailsKeeps == ASSUME IInv, NEW r \in Runs, TransactionFails(r) PROVE IInv'
<1>1. /\ count.faults < MaxFaults /\ count' = [count EXCEPT !.faults = @ + 1]
      /\ thread[r].pc \notin {"none", "pop", "ended", "dead"}
      /\ UNCHANGED <<runs, events, cancel, starter, canceller, page>>
  BY DEF TransactionFails, NoTransaction
<1>2. /\ count' \in Count /\ count'.faults = count.faults + 1 /\ count.faults \in Nat
      /\ count'.faults >= count.faults /\ count'.faults > 0
  <2>1. count.faults \in Nat /\ count.faults + 1 \in 0..MaxFaults
    BY <1>1, Types, Bounds DEF Count
  <2>2. count' = [faults |-> count.faults + 1, crashes |-> count.crashes, drops |-> count.drops]
    BY <1>1, Types DEF Count
  <2> QED
    BY <2>1, <2>2, Types DEF Count
<1>3. /\ thread[r] \in ThreadRow /\ RowAt(thread[r].pc, runs[r].status, count.faults)
      /\ cancel' \in [Runs -> {None, "clear", "set"}]
  BY <1>1, Types DEF IInv, ThreadMatchesRow
<1>4. CASE thread[r].pc \in InHandler /\ Goto(r, "pop", 0)
  <2>1. RowAt("pop", runs[r].status, count'.faults)
    BY DEF RowAt, Working
  <2> QED
    BY <1>1, <1>2, <1>3, <1>4, <2>1, ThreadGoes, Counters DEF Over, Places, Detecting, Probing
<1>5. CASE thread[r].pc \notin InHandler /\ Goto(r, "fail", 0)
  <2>1. RowAt("fail", runs[r].status, count'.faults)
    <3>1. thread[r].pc \in Working \cup {"RUN_COMPLETED"}
      BY <1>1, <1>3, <1>5 DEF RowAt, Working, InHandler, ThreadRow, Places, EventTypes, EndEvents
    <3>2. runs[r].status \in Active \cup {"COMPLETED"}
      BY <1>3, <3>1 DEF RowAt
    <3> QED
      BY <1>2, <3>2 DEF RowAt, Working
  <2> QED
    BY <1>1, <1>2, <1>3, <1>5, <2>1, ThreadGoes, Counters DEF Over, Places, Detecting, Probing
<1> QED
  BY <1>4, <1>5 DEF TransactionFails

\* Any other error of the collection goes to the handler too.
LEMMA CollectionFailsKeeps ==
  ASSUME IInv, NEW r \in Runs, CollectionFails(r), UNCHANGED <<starter, canceller, page, count>>
  PROVE  IInv'
<1>1. /\ thread[r].pc \in {"preflight", "detect", "PLATFORM_IDENTIFIED", "probe", "spawn", "complete"}
      /\ Goto(r, "fail", 0) /\ UNCHANGED <<runs, events, cancel>>
  BY DEF CollectionFails
<1>2. /\ RowAt(thread[r].pc, runs[r].status, count.faults)
      /\ count' \in Count /\ count'.faults = count.faults /\ count'.faults >= count.faults
      /\ cancel' \in [Runs -> {None, "clear", "set"}]
  BY <1>1, Types DEF IInv, ThreadMatchesRow
<1>3. RowAt("fail", runs[r].status, count'.faults)
  BY <1>1, <1>2 DEF RowAt, Working
<1> QED
  BY <1>1, <1>2, <1>3, ThreadGoes, Counters DEF Over, Places, Detecting, Probing

-----------------------------------------------------------------------------
(* Starting and cancelling                                                 *)

\* A step that touches neither threads, events nor pages, and of the rows no
\* status or result, needs only its types and its starters looked at.
LEMMA RowsKept ==
  ASSUME IInv, UNCHANGED <<thread, events, page, count>>, TypeOK', OneStarter',
         \A r \in Runs : runs'[r].status = runs[r].status /\ runs'[r].result = runs[r].result
  PROVE  IInv'
<1>1. \A r \in Runs : ThreadMatchesRow(r)' /\ EndTold(r)' /\ Following(r)'
  BY DEF IInv, ThreadMatchesRow, EndTold, Following
<1>2. Unstarted'
  BY DEF IInv, Unstarted, Fresh
<1> QED
  BY <1>1, <1>2 DEF IInv

\* A request that finds an active run follows it; another goes on to insert.
LEMMA FindActiveKeeps == ASSUME IInv, NEW s \in Starters, FindActive(s) PROVE IInv'
<1>1. UNCHANGED <<runs, events, cancel, thread, canceller, page, count>>
  BY DEF FindActive
<1>2. PICK pc \in {"answered", "insert"} : starter' = [starter EXCEPT ![s].pc = pc]
  BY DEF FindActive
<1>3. starter' \in [Starters -> StarterRow] /\ starter'[s].pc # "start"
      /\ \A x \in Starters : x # s => starter'[x] = starter[x]
  BY <1>2, Types DEF StarterRow
<1>4. TypeOK'
  BY <1>1, <1>3, Types, TypesSuffice
<1>5. OneStarter'
  BY <1>1, <1>3 DEF IInv, OneStarter, Fresh
<1> QED
  BY <1>1, <1>4, <1>5, RowsKept

\* The run a starter inserts was no run before, so no other starter holds it.
LEMMA InsertRunKeeps == ASSUME IInv, NEW s \in Starters, InsertRun(s) PROVE IInv'
<1>1. UNCHANGED <<events, cancel, thread, canceller, page, count>>
  BY DEF InsertRun
<1>2. ASSUME NEW r \in Runs, runs[r].status = "NONE",
             runs' = [runs EXCEPT ![r].status = "QUEUED"],
             starter' = [starter EXCEPT ![s] = [pc |-> "start", run |-> r]]
      PROVE  IInv'
  <2>1. /\ runs' \in [Runs -> RunRow] /\ runs'[r].status = "QUEUED"
        /\ runs'[r].result = runs[r].result
        /\ \A x \in Runs : x # r => runs'[x] = runs[x]
    BY <1>2, Types DEF RunRow, Active
  <2>2. /\ starter' \in [Starters -> StarterRow] /\ starter'[s].pc = "start"
        /\ starter'[s].run = r
        /\ \A x \in Starters : x # s => starter'[x] = starter[x]
    BY <1>2, Types DEF StarterRow
  <2>3. Fresh(r) /\ thread[r].pc = "none" /\ events[r] = <<>>
    BY <1>2 DEF IInv, Unstarted, Fresh
  <2>4. TypeOK'
    BY <1>1, <2>1, <2>2, Types, TypesSuffice
  <2>5. ASSUME NEW x \in Runs PROVE ThreadMatchesRow(x)' /\ EndTold(x)' /\ Following(x)'
    <3>1. CASE x = r
      BY <1>1, <1>2, <2>1, <2>3, <3>1
         DEF IInv, ThreadMatchesRow, EndTold, Following, RowAt, Working
    <3>2. CASE x # r
      BY <1>1, <2>1, <3>2 DEF IInv, ThreadMatchesRow, EndTold, Following
    <3> QED
      BY <3>1, <3>2
  <2>6. Unstarted'
    BY <1>1, <2>1 DEF IInv, Unstarted, Fresh
  <2>7. OneStarter'
    <3>1. \A t \in Starters : t # s /\ starter[t].pc = "start" => starter[t].run # r
      BY <1>2 DEF IInv, OneStarter, Active
    <3> QED
      BY <1>1, <2>1, <2>2, <2>3, <3>1 DEF IInv, OneStarter, Fresh, Active
  <2> QED
    BY <2>4, <2>5, <2>6, <2>7 DEF IInv
<1>3. ASSUME starter' = [starter EXCEPT ![s].pc = "answered"], UNCHANGED runs PROVE IInv'
  <2>1. starter' \in [Starters -> StarterRow] /\ starter'[s].pc # "start"
        /\ \A x \in Starters : x # s => starter'[x] = starter[x]
    BY <1>3, Types DEF StarterRow
  <2>2. TypeOK'
    BY <1>1, <1>3, <2>1, Types, TypesSuffice
  <2>3. OneStarter'
    BY <1>1, <1>3, <2>1 DEF IInv, OneStarter, Fresh
  <2> QED
    BY <1>1, <1>3, <2>2, <2>3, RowsKept
<1> QED
  BY <1>2, <1>3 DEF InsertRun

\* The thread of a run is started once, by the starter that inserted the run.
LEMMA StartThreadKeeps == ASSUME IInv, NEW s \in Starters, StartThread(s) PROVE IInv'
<1> DEFINE r == starter[s].run
<1>1. /\ starter[s].pc = "start" /\ UNCHANGED <<runs, events, canceller, page, count>>
      /\ cancel' = [cancel EXCEPT ![r] = "clear"]
      /\ thread' = [thread EXCEPT ![r].pc = "mark"]
      /\ starter' = [starter EXCEPT ![s] = [pc |-> "answered", run |-> None]]
  BY DEF StartThread
<1>2. /\ r \in Runs /\ thread[r].pc = "none" /\ events[r] = <<>>
      /\ runs[r].status \in Active
      /\ \A t \in Starters : starter[t].pc = "start" /\ starter[t].run = r => t = s
  BY <1>1 DEF IInv, OneStarter, Fresh
<1> HIDE DEF r
<1>3. /\ thread' \in [Runs -> ThreadRow] /\ thread'[r].pc = "mark"
      /\ \A x \in Runs : x # r => thread'[x] = thread[x]
  BY <1>1, <1>2, Types DEF ThreadRow, Places
<1>4. /\ starter' \in [Starters -> StarterRow] /\ starter'[s].pc = "answered"
      /\ \A x \in Starters : x # s => starter'[x] = starter[x]
  BY <1>1, Types DEF StarterRow
<1>5. cancel' \in [Runs -> {None, "clear", "set"}]
  BY <1>1, <1>2, Types
<1>6. TypeOK'
  BY <1>1, <1>3, <1>4, <1>5, Types, TypesSuffice
<1>7. ASSUME NEW x \in Runs PROVE ThreadMatchesRow(x)' /\ EndTold(x)' /\ Following(x)'
  <2>1. CASE x = r
    BY <1>1, <1>2, <1>3, <2>1 DEF IInv, ThreadMatchesRow, EndTold, Following, RowAt, Counted,
         Detecting, Probing
  <2>2. CASE x # r
    BY <1>1, <1>3, <2>2 DEF IInv, ThreadMatchesRow, EndTold, Following
  <2> QED
    BY <2>1, <2>2
<1>8. Unstarted'
  BY <1>1, <1>2, <1>3 DEF IInv, Unstarted, Fresh, Active
<1>9. OneStarter'
  BY <1>1, <1>2, <1>3, <1>4 DEF IInv, OneStarter, Fresh
<1> QED
  BY <1>6, <1>7, <1>8, <1>9 DEF IInv

\* Cancelling writes a flag of the row, then the event of the thread.
LEMMA CancelKeeps ==
  ASSUME IInv, NEW c \in Cancellers, RequestCancel(c) \/ SetCancelEvent(c) PROVE IInv'
<1>1. UNCHANGED <<events, thread, starter, page, count>>
  BY DEF RequestCancel, SetCancelEvent
<1>2. CASE RequestCancel(c)
  <2>1. PICK r \in Runs : /\ runs' = [runs EXCEPT ![r].cancellation = TRUE]
                          /\ canceller' = [canceller EXCEPT ![c] = r]
    BY <1>2 DEF RequestCancel
  <2>2. /\ runs' \in [Runs -> RunRow]
        /\ \A x \in Runs : runs'[x].status = runs[x].status /\ runs'[x].result = runs[x].result
    BY <2>1, Types DEF RunRow
  <2>3. UNCHANGED cancel /\ canceller' \in [Cancellers -> Runs \cup {None}]
    BY <1>2, <2>1, Types DEF RequestCancel
  <2>4. TypeOK'
    BY <1>1, <2>2, <2>3, Types, TypesSuffice
  <2>5. OneStarter'
    BY <1>1, <2>2 DEF IInv, OneStarter, Fresh
  <2> QED
    BY <1>1, <2>2, <2>4, <2>5, RowsKept
<1>3. CASE SetCancelEvent(c)
  <2>1. /\ UNCHANGED runs /\ canceller' \in [Cancellers -> Runs \cup {None}]
        /\ cancel' \in [Runs -> {None, "clear", "set"}]
    BY <1>3, Types DEF SetCancelEvent
  <2>2. TypeOK'
    BY <1>1, <2>1, Types, TypesSuffice
  <2>3. OneStarter'
    BY <1>1, <2>1 DEF IInv, OneStarter, Fresh
  <2> QED
    BY <1>1, <2>1, <2>2, <2>3, RowsKept
<1> QED
  BY <1>2, <1>3

-----------------------------------------------------------------------------
(* The page                                                                *)

\* A step of the stream of one run touches no other page.
LEMMA PageMoves ==
  ASSUME IInv, NEW r \in Runs, NEW row \in PageRow,
         page' = [page EXCEPT ![r] = row], UNCHANGED <<runs, events, cancel, thread, starter, canceller>>,
         count' \in Count, count'.faults = count.faults,
         Following(r)'
  PROVE  IInv'
<1>1. page' \in [Runs -> PageRow] /\ \A x \in Runs : x # r => page'[x] = page[x]
  BY Types
<1>2. TypeOK'
  BY <1>1, Types, TypesSuffice
<1>3. \A x \in Runs : ThreadMatchesRow(x)' /\ EndTold(x)'
  BY DEF IInv, ThreadMatchesRow, EndTold
<1>4. \A x \in Runs : Following(x)'
  BY <1>1 DEF IInv, Following
<1>5. Unstarted' /\ OneStarter'
  BY DEF IInv, Unstarted, OneStarter, Fresh
<1> QED
  BY <1>2, <1>3, <1>4, <1>5 DEF IInv

\* A page reopens its stream after the last event it has seen.
LEMMA ConnectKeeps == ASSUME IInv, NEW r \in Runs, Connect(r) PROVE IInv'
<1> DEFINE row == [page[r] EXCEPT !.pc = "list", !.cursor = LastSeen(r)]
<1>1. page' = [page EXCEPT ![r] = row]
      /\ UNCHANGED <<runs, events, cancel, thread, starter, canceller, count>>
  BY DEF Connect
<1>2. /\ page[r] \in PageRow /\ page[r].seen \in Seq(Nat) /\ Len(page[r].seen) \in Nat
      /\ \A i \in 1..Len(page[r].seen) : page[r].seen[i] = i
      /\ Len(page[r].seen) <= Len(events[r])
  BY Types DEF PageRow, IInv, Following
<1>3. LastSeen(r) = Len(page[r].seen)
  BY <1>2 DEF LastSeen
<1>4. /\ row \in PageRow /\ row.pc = "list" /\ row.cursor = Len(page[r].seen)
      /\ row.seen = page[r].seen
  BY <1>2, <1>3 DEF PageRow
<1> HIDE DEF row
<1>5. page'[r] = row
  BY <1>1, Types
<1>6. Following(r)'
  BY <1>1, <1>2, <1>4, <1>5 DEF Following
<1> QED
  BY <1>1, <1>4, <1>6, Types, PageMoves

\* What is listed is what follows the cursor.
LEMMA ListEventsKeeps == ASSUME IInv, NEW r \in Runs, ListEvents(r) PROVE IInv'
<1> DEFINE cur == page[r].cursor
           last == IF Len(events[r]) < cur + MaxBatch THEN Len(events[r]) ELSE cur + MaxBatch
           batch == [i \in 1..(last - cur) |-> cur + i]
           row == [page[r] EXCEPT !.pc = "load", !.batch = batch]
<1>1. /\ page' = [page EXCEPT ![r] = row] /\ page[r].pc = "list"
      /\ UNCHANGED <<runs, events, cancel, thread, starter, canceller, count>>
  BY DEF ListEvents
<1>2. /\ page[r] \in PageRow /\ cur \in Nat /\ events[r] \in Seq(EventTypes)
      /\ Len(events[r]) \in Nat
      /\ \A i \in 1..Len(page[r].seen) : page[r].seen[i] = i
      /\ Len(page[r].seen) <= Len(events[r]) /\ cur = Len(page[r].seen)
  BY <1>1, Types DEF PageRow, IInv, Following
<1>3. last \in Nat /\ last - cur \in Nat /\ last <= Len(events[r])
  <2>1. CASE Len(events[r]) < cur + MaxBatch
    BY <1>2, <2>1, Bounds
  <2>2. CASE ~(Len(events[r]) < cur + MaxBatch)
    BY <1>2, <2>2, Bounds
  <2> QED
    BY <2>1, <2>2
<1> HIDE DEF cur, last
<1>4. batch \in Seq(Nat) /\ Len(batch) = last - cur /\ \A i \in 1..Len(batch) : batch[i] = cur + i
  BY <1>2, <1>3
<1> HIDE DEF batch
<1>5. /\ row \in PageRow /\ row.pc = "load" /\ row.batch = batch /\ row.cursor = cur
      /\ row.seen = page[r].seen
  BY <1>2, <1>4 DEF PageRow, cur
<1> HIDE DEF row
<1>6. page'[r] = row
  BY <1>1, Types
<1>7. cur + Len(batch) <= Len(events[r])
  BY <1>2, <1>3, <1>4
<1>8. Following(r)'
  BY <1>1, <1>2, <1>4, <1>5, <1>6, <1>7 DEF Following
<1> QED
  BY <1>1, <1>5, <1>8, Types, PageMoves

\* The run decides whether an empty batch ends the stream.
LEMMA LoadRunKeeps == ASSUME IInv, NEW r \in Runs, LoadRun(r) PROVE IInv'
<1>1. /\ page[r].pc = "load"
      /\ UNCHANGED <<runs, events, cancel, thread, starter, canceller, count>>
  BY DEF LoadRun
<1>2. PICK pc \in {"closed", "send"} : page' = [page EXCEPT ![r].pc = pc]
  BY DEF LoadRun
<1> DEFINE row == [page[r] EXCEPT !.pc = pc]
<1>3. /\ row \in PageRow /\ row.pc = pc /\ row.batch = page[r].batch
      /\ row.cursor = page[r].cursor /\ row.seen = page[r].seen
  BY Types DEF PageRow
<1>4. page' = [page EXCEPT ![r] = row]
  BY <1>2
<1> HIDE DEF row
<1>5. page'[r] = row
  BY <1>4, Types
<1>6. Following(r)'
  BY <1>1, <1>3, <1>5 DEF IInv, Following
<1> QED
  BY <1>1, <1>3, <1>4, <1>6, Types, PageMoves

\* The stream sends the next event and remembers it as the page does.
LEMMA SendKeeps == ASSUME IInv, NEW r \in Runs, Send(r) PROVE IInv'
<1>1. /\ page[r].pc = "send"
      /\ UNCHANGED <<runs, events, cancel, thread, starter, canceller, count>>
  BY DEF Send
<1>2. /\ page[r] \in PageRow /\ page[r].batch \in Seq(Nat) /\ page[r].seen \in Seq(Nat)
      /\ page[r].cursor \in Nat /\ Len(events[r]) \in Nat
      /\ \A i \in 1..Len(page[r].seen) : page[r].seen[i] = i
      /\ Len(page[r].seen) <= Len(events[r])
      /\ page[r].cursor = Len(page[r].seen)
      /\ \A i \in 1..Len(page[r].batch) : page[r].batch[i] = page[r].cursor + i
      /\ page[r].cursor + Len(page[r].batch) <= Len(events[r])
  BY <1>1, Types DEF PageRow, IInv, Following
<1>3. CASE page[r].batch = <<>>
  <2> DEFINE row == [page[r] EXCEPT !.pc = "list"]
  <2>1. page' = [page EXCEPT ![r] = row]
    BY <1>3 DEF Send
  <2>2. /\ row \in PageRow /\ row.pc = "list" /\ row.cursor = page[r].cursor
        /\ row.seen = page[r].seen
    BY <1>2 DEF PageRow
  <2> HIDE DEF row
  <2>3. page'[r] = row
    BY <2>1, Types
  <2>4. Following(r)'
    BY <1>1, <1>2, <2>2, <2>3 DEF Following
  <2> QED
    BY <1>1, <2>1, <2>2, <2>4, Types, PageMoves
<1>4. CASE page[r].batch # <<>>
  <2>1. PICK pc \in {"closed", "send"} :
          page' = [page EXCEPT ![r].cursor = NextCursor(r), ![r].batch = Tail(@),
                               ![r].seen = Append(@, Head(page[r].batch)), ![r].pc = pc]
    BY <1>4 DEF Send
  <2> DEFINE next == Head(page[r].batch)
             rest == Tail(page[r].batch)
             seen == Append(page[r].seen, next)
             row == [page[r] EXCEPT !.cursor = next, !.batch = rest, !.seen = seen, !.pc = pc]
  <2>2. Len(page[r].batch) \in Nat \ {0} /\ Len(page[r].seen) \in Nat
    BY <1>2, <1>4
  <2>3. next = page[r].cursor + 1 /\ next \in Nat
    BY <1>2, <1>4, <2>2
  <2>4. /\ rest \in Seq(Nat) /\ Len(rest) = Len(page[r].batch) - 1
        /\ \A i \in 1..Len(rest) : rest[i] = page[r].batch[i + 1]
    BY <1>2, <1>4
  <2>5. /\ seen \in Seq(Nat) /\ Len(seen) = Len(page[r].seen) + 1 /\ seen[Len(seen)] = next
        /\ \A i \in 1..Len(page[r].seen) : seen[i] = page[r].seen[i]
    BY <1>2, <2>2, <2>3
  <2>6. page' = [page EXCEPT ![r] = row]
    BY <2>1, Types DEF NextCursor
  <2> HIDE DEF next, rest, seen
  <2>7. /\ row \in PageRow /\ row.pc = pc /\ row.cursor = next /\ row.batch = rest
        /\ row.seen = seen
    BY <1>2, <2>3, <2>4, <2>5 DEF PageRow
  <2> HIDE DEF row
  <2>8. page'[r] = row
    BY <2>6, Types
  <2>9. \A i \in 1..Len(seen) : seen[i] = i
    <3>1. seen[Len(seen)] = Len(seen)
      BY <1>2, <2>2, <2>3, <2>5
    <3>2. \A i \in 1..Len(seen) : i = Len(seen) \/ i \in 1..Len(page[r].seen)
      BY <2>2, <2>5
    <3> QED
      BY <1>2, <2>5, <3>1, <3>2
  <2>10. \A i \in 1..Len(rest) : rest[i] = next + i
    BY <1>2, <2>2, <2>3, <2>4
  <2>11. next = Len(seen) /\ Len(seen) <= Len(events[r]) /\ next + Len(rest) <= Len(events[r])
    <3>1. next = Len(seen)
      BY <1>2, <2>2, <2>3, <2>5
    <3>2. next + Len(rest) = page[r].cursor + Len(page[r].batch)
      <4> DEFINE b == Len(page[r].batch)
                 c == page[r].cursor
      <4>1. b \in Nat /\ c \in Nat /\ next = c + 1 /\ Len(rest) = b - 1
        BY <1>2, <2>2, <2>3, <2>4
      <4> HIDE DEF b, c
      <4>2. next + Len(rest) = c + b
        BY <4>1
      <4> QED
        BY <4>2 DEF b, c
    <3>3. next + Len(rest) <= Len(events[r])
      BY <1>2, <3>2
    <3>4. Len(rest) \in Nat
      BY <2>4
    <3>5. next <= Len(events[r])
      BY <1>2, <2>3, <3>3, <3>4
    <3> QED
      BY <3>1, <3>3, <3>5
  <2>12. Following(r)'
    BY <1>1, <2>7, <2>8, <2>9, <2>10, <2>11 DEF Following
  <2> QED
    BY <1>1, <2>6, <2>7, <2>12, Types, PageMoves
<1> QED
  BY <1>3, <1>4

\* A dropped stream forgets what it had not sent.
LEMMA StreamDropsKeeps == ASSUME IInv, NEW r \in Runs, StreamDrops(r) PROVE IInv'
<1> DEFINE row == [page[r] EXCEPT !.pc = "closed", !.batch = <<>>]
<1>1. /\ page' = [page EXCEPT ![r] = row]
      /\ count.drops < MaxDrops /\ count' = [count EXCEPT !.drops = @ + 1]
      /\ UNCHANGED <<runs, events, cancel, thread, starter, canceller>>
  BY DEF StreamDrops
<1>2. /\ row \in PageRow /\ row.pc = "closed" /\ row.seen = page[r].seen
  <2>1. page[r] \in PageRow /\ <<>> \in Seq(Nat)
    BY Types
  <2> QED
    BY <2>1 DEF PageRow
<1>3. count' \in Count /\ count'.faults = count.faults
  <2>1. count.drops + 1 \in 0..MaxDrops
    BY <1>1, Types, Bounds DEF Count
  <2>2. count' = [faults |-> count.faults, crashes |-> count.crashes, drops |-> count.drops + 1]
    BY <1>1, Types DEF Count
  <2> QED
    BY <2>1, <2>2, Types DEF Count
<1> HIDE DEF row
<1>4. page'[r] = row
  BY <1>1, Types
<1>5. Following(r)'
  BY <1>1, <1>2, <1>4 DEF IInv, Following
<1> QED
  BY <1>1, <1>2, <1>3, <1>5, PageMoves

-----------------------------------------------------------------------------
(* The specification                                                       *)

\* A restart ends what ran in the process; the rows and the events stay.
LEMMA CrashKeeps == ASSUME IInv, Crash PROVE IInv'
<1>1. UNCHANGED <<runs, events>>
  BY DEF Crash
<1>2. /\ thread' \in [Runs -> ThreadRow]
      /\ \A r \in Runs : \/ thread[r].pc \in {"none", "ended"} /\ thread'[r] = thread[r]
                         \/ thread[r].pc # "none" /\ thread'[r].pc = "dead"
  <2>1. \A r \in Runs : LET row == [thread[r] EXCEPT !.pc = "dead", !.n = 0]
                       IN row \in ThreadRow /\ row.pc = "dead"
    BY Types, Counters DEF ThreadRow, Places, Steps
  <2> QED
    BY <2>1, Types DEF Crash
<1>3. /\ starter' \in [Starters -> StarterRow]
      /\ \A s \in Starters : starter'[s].pc # "start"
  <2>1. [pc |-> "answered", run |-> None] \in StarterRow
    BY DEF StarterRow
  <2> QED
    BY <2>1, Types DEF Crash, StarterRow
<1>4. /\ page' \in [Runs -> PageRow]
      /\ \A r \in Runs : page'[r].pc = "closed" /\ page'[r].seen = page[r].seen
  <2>1. <<>> \in Seq(Nat)
    OBVIOUS
  <2>2. \A r \in Runs : LET row == [page[r] EXCEPT !.pc = "closed", !.batch = <<>>]
                       IN row \in PageRow /\ row.pc = "closed" /\ row.seen = page[r].seen
    BY <2>1, Types DEF PageRow
  <2> QED
    BY <2>2 DEF Crash
<1>5. count' \in Count /\ count'.faults = count.faults
  <2>1. count.crashes + 1 \in 0..MaxCrashes
    <3>1. count.crashes \in 0..MaxCrashes /\ count.crashes < MaxCrashes
      BY Types DEF Crash, Count
    <3> QED
      BY <3>1, Bounds
  <2>2. count' = [faults |-> count.faults, crashes |-> count.crashes + 1, drops |-> count.drops]
    BY Types DEF Crash, Count
  <2> QED
    BY <2>1, <2>2, Types DEF Count
<1>6. TypeOK'
  <2>1. cancel' \in [Runs -> {None, "clear", "set"}] /\ canceller' \in [Cancellers -> Runs \cup {None}]
    BY DEF Crash
  <2> QED
    BY <1>1, <1>2, <1>3, <1>4, <1>5, <2>1, Types, TypesSuffice
<1>7. ASSUME NEW r \in Runs PROVE ThreadMatchesRow(r)' /\ EndTold(r)' /\ Following(r)'
  <2>1. ThreadMatchesRow(r) /\ EndTold(r) /\ Following(r)
    BY DEF IInv
  <2>2. CASE thread'[r] = thread[r]
    BY <1>1, <1>4, <1>5, <2>1, <2>2 DEF ThreadMatchesRow, EndTold, Following
  <2>3. CASE thread'[r].pc = "dead"
    BY <1>1, <1>4, <1>5, <2>1, <2>3
       DEF ThreadMatchesRow, RowAt, EndTold, Following, Over, Working, Counted, Detecting, Probing
  <2> QED
    BY <1>2, <2>2, <2>3
<1>8. Unstarted' /\ OneStarter'
  BY <1>1, <1>2, <1>3 DEF IInv, Unstarted, OneStarter, Fresh
<1> QED
  BY <1>6, <1>7, <1>8 DEF IInv

\* Before the first request nothing is stored, told or shown.
LEMMA Initially == Init => IInv
<1> SUFFICES ASSUME Init PROVE IInv
  OBVIOUS
<1>1. /\ NoRow \in RunRow /\ NoThread \in ThreadRow /\ NoPage \in PageRow
      /\ [faults |-> 0, crashes |-> 0, drops |-> 0] \in Count
      /\ [pc |-> "idle", run |-> None] \in StarterRow
  BY Bounds, Counters DEF NoRow, NoThread, NoPage, RunRow, ThreadRow, Places, Steps, PageRow, Count, StarterRow
<1>2. TypeOK
  BY <1>1 DEF Init, TypeOK, RunRow, ThreadRow, Places, Steps, PageRow, Count, StarterRow
<1>3. \A r \in Runs : ThreadMatchesRow(r) /\ EndTold(r) /\ Following(r)
  BY DEF Init, NoRow, NoThread, NoPage, ThreadMatchesRow, RowAt, Working, EndTold, Following,
       Counted, Detecting, Probing
<1>4. Unstarted /\ OneStarter
  BY DEF Init, NoThread, Unstarted, OneStarter, Fresh
<1> QED
  BY <1>2, <1>3, <1>4 DEF IInv

\* Every step of the audit keeps the invariant.
LEMMA Inductive == IInv /\ [Next]_vars => IInv'
<1> SUFFICES ASSUME IInv, [Next]_vars PROVE IInv'
  OBVIOUS
<1>1. ASSUME NEW s \in Starters, Start(s) PROVE IInv'
  BY <1>1, FindActiveKeeps, InsertRunKeeps, StartThreadKeeps DEF Start
<1>2. ASSUME NEW r \in Runs, StreamStep(r) PROVE IInv'
  BY <1>2, ConnectKeeps, ListEventsKeeps, LoadRunKeeps, SendKeeps DEF StreamStep
<1>3. CASE UNCHANGED vars
  <2>1. TypeOK' /\ OneStarter'
    BY <1>3 DEF vars, IInv, TypeOK, OneStarter, Fresh
  <2> QED
    BY <1>3, <2>1, RowsKept DEF vars
<1> QED
  BY <1>1, <1>2, <1>3, ThreadKeeps, StreamDropsKeeps, TransactionFailsKeeps,
     CollectionFailsKeeps, CancelKeeps, CrashKeeps DEF Next

\* The invariant holds of every run of the audit.
THEOREM InductiveInvariant == Spec => []IInv
BY Initially, Inductive, PTL DEF Spec

\* The rows, the events, the memory of the process and the pages keep their
\* types, at any number of steps of linux_audit.py's threads and streams.
THEOREM TypeCorrect == Spec => []TypeOK
<1>1. IInv => TypeOK
  BY DEF IInv
<1> QED
  BY InductiveInvariant, <1>1, PTL

\* _run_linux_audit tells one end, last, and the row stores the same end: also
\* when the transaction of the last event or of a handler failed.
THEOREM EventsEndWithTheRunAlways == Spec => []EventsEndWithTheRun
<1>1. IInv => EventsEndWithTheRun
  <2> SUFFICES ASSUME IInv, NEW r \in Runs
               PROVE  /\ runs[r].result <=> (runs[r].status = "COMPLETED")
                      /\ \A i \in 1..Len(events[r]) : events[r][i] \in EndEvents =>
                           /\ i = Len(events[r])
                           /\ CASE events[r][i] = "RUN_COMPLETED" -> runs[r].status = "COMPLETED"
                                [] events[r][i] = "RUN_CANCELLED" -> runs[r].status = "CANCELLED"
                                [] OTHER -> \/ runs[r].status = "FAILED"
                                            \/ runs[r].status = "COMPLETED" /\ count.faults > 0
    BY DEF EventsEndWithTheRun
  <2> QED
    BY DEF IInv, ThreadMatchesRow, EndTold, TellsTruth, EndEvents
<1> QED
  BY InductiveInvariant, <1>1, PTL

\* The stream of linux_audit_events repeats nothing and leaves nothing out, over
\* reconnections, drops and restarts.
THEOREM PageSeesEveryEventOnceAlways == Spec => []PageSeesEveryEventOnce
<1>1. IInv => PageSeesEveryEventOnce
  <2> SUFFICES ASSUME IInv, NEW r \in Runs
               PROVE  /\ page[r].seen = [i \in 1..Len(page[r].seen) |-> i]
                      /\ Len(page[r].seen) <= Len(events[r])
    BY DEF PageSeesEveryEventOnce
  <2>1. /\ page[r].seen \in Seq(Nat) /\ Len(page[r].seen) <= Len(events[r])
        /\ \A i \in 1..Len(page[r].seen) : page[r].seen[i] = i
    BY Types DEF IInv, Following, PageRow
  <2> QED
    BY <2>1
<1> QED
  BY InductiveInvariant, <1>1, PTL

-----------------------------------------------------------------------------
(* Commands after a cancellation                                           *)

\* A run nobody has cancelled has no late command; a thread that has passed the
\* check has none either, since the check found the run not cancelled or no
\* command was sent since.
LateInv ==
  \A r \in Runs :
    /\ thread[r].late <= 1
    /\ ~runs[r].cancellation => thread[r].late = 0
    /\ thread[r].pc \in Asked => thread[r].late = 0

\* A step that sends nothing and passes no check keeps it.
LEMMA NothingSent ==
  ASSUME LateInv,
         \A r \in Runs :
           /\ thread'[r].late = thread[r].late
           /\ runs[r].cancellation => runs'[r].cancellation
           /\ thread'[r].pc \in Asked => thread[r].late = 0
  PROVE  LateInv'
BY DEF LateInv

\* Goto leaves the count alone.
LEMMA GoesTo ==
  ASSUME thread \in [Runs -> ThreadRow], NEW x \in Runs, NEW p, NEW k, Goto(x, p, k), NEW r \in Runs
  PROVE  /\ thread'[r].pc = IF r = x THEN p ELSE thread[r].pc
         /\ thread'[r].late = thread[r].late
BY DEF Goto, ThreadRow

\* A thread that goes where no check was passed keeps it.
LEMMA GoesUnasked ==
  ASSUME LateInv, thread \in [Runs -> ThreadRow], NEW x \in Runs, NEW p, NEW k, Goto(x, p, k),
         p \in Asked => thread[x].late = 0,
         \A r \in Runs : runs[r].cancellation => runs'[r].cancellation
  PROVE  LateInv'
<1>1. \A r \in Runs : /\ thread'[r].late = thread[r].late
                      /\ thread'[r].pc \in Asked => thread[r].late = 0
  BY GoesTo DEF LateInv
<1> QED
  BY <1>1, NothingSent

\* No step takes a cancellation back.
LEMMA CancellationStays ==
  ASSUME IInv, [Next]_vars
  PROVE  \A r \in Runs : runs[r].cancellation => runs'[r].cancellation
<1>1. runs \in [Runs -> RunRow]
  BY Types
<1>2. ASSUME NEW x \in Runs, NEW status, Finish(x, status)
      PROVE  \A r \in Runs : runs[r].cancellation => runs'[r].cancellation
  BY <1>1, <1>2 DEF Finish, RunRow
<1>3. CASE UNCHANGED runs
  BY <1>3
<1>4. ASSUME NEW s \in Starters, Start(s)
      PROVE  \A r \in Runs : runs[r].cancellation => runs'[r].cancellation
  BY <1>1, <1>4 DEF Start, FindActive, InsertRun, StartThread, RunRow
<1>5. ASSUME NEW x \in Runs, ThreadStep(x)
      PROVE  \A r \in Runs : runs[r].cancellation => runs'[r].cancellation
  <2>1. CASE MarkRunning(x)
    BY <1>1, <2>1 DEF MarkRunning, RunRow
  <2>2. CASE Complete(x) \/ Interrupt(x) \/ Fail(x)
    BY <1>2, <2>2 DEF Complete, Interrupt, Fail
  <2>3. CASE UNCHANGED runs
    BY <2>3
  <2> QED
    BY <1>5, <2>1, <2>2, <2>3
       DEF ThreadStep, TellStarted, AskDetection, SendCommand, EndDetection, TellRetry,
           TellIdentified, AskProbe, TellProbe, EndProbe, Evaluate, TellControl, TellEnd, Unregister
<1>6. ASSUME NEW c \in Cancellers, RequestCancel(c) \/ SetCancelEvent(c)
      PROVE  \A r \in Runs : runs[r].cancellation => runs'[r].cancellation
  BY <1>1, <1>6 DEF RequestCancel, SetCancelEvent, RunRow
<1> QED
  BY <1>3, <1>4, <1>5, <1>6
     DEF Next, vars, StreamStep, Connect, ListEvents, LoadRun, Send, StreamDrops, TransactionFails,
         CollectionFails, Crash

\* The check is the only way to a command, and a command ends the time it vouches for.
LEMMA LateKept == ASSUME IInv, LateInv, [Next]_vars PROVE LateInv'
<1>1. thread \in [Runs -> ThreadRow] /\ runs \in [Runs -> RunRow]
  BY Types
<1>2. \A r \in Runs : runs[r].cancellation => runs'[r].cancellation
  BY CancellationStays
<1>3. CASE UNCHANGED thread
  BY <1>2, <1>3, NothingSent DEF LateInv
<1>4. ASSUME NEW s \in Starters, Start(s) PROVE LateInv'
  <2>1. CASE StartThread(s)
    <3>1. \A r \in Runs : thread'[r].late = thread[r].late
                         /\ (thread'[r].pc = thread[r].pc \/ thread'[r].pc = "mark")
      BY <1>1, <2>1 DEF StartThread, ThreadRow
    <3> QED
      BY <1>2, <3>1, NothingSent DEF LateInv, Asked
  <2> QED
    BY <1>3, <1>4, <2>1 DEF Start, FindActive, InsertRun
<1>5. ASSUME NEW x \in Runs, ThreadStep(x) PROVE LateInv'
  <2>1. CASE SendCommand(x)
    <3>1. /\ thread[x].pc \in Asked /\ UNCHANGED runs
          /\ thread'[x].pc \in {"detecting", "running"}
          /\ thread'[x].late = IF runs[x].cancellation THEN thread[x].late + 1 ELSE thread[x].late
          /\ \A r \in Runs : r # x => thread'[r] = thread[r]
      BY <1>1, <2>1 DEF SendCommand, Asked, ThreadRow
    <3> QED
      BY <3>1 DEF LateInv, Asked
  <2>2. CASE AskDetection(x) \/ AskProbe(x)
    <3>1. PICK p \in Asked \cup {"interrupt"} :
            /\ Goto(x, p, thread[x].n)
            /\ p \in Asked => ~runs[x].cancellation
      BY <2>2 DEF AskDetection, AskProbe, Asked, ShouldCancel
    <3> QED
      BY <1>1, <1>2, <3>1, GoesUnasked DEF LateInv
  <2>3. CASE TellProbe(x)
    BY <1>1, <1>2, <2>3, GoesUnasked DEF TellProbe, LateInv, Asked
  <2>4. CASE MarkRunning(x) \/ TellStarted(x) \/ EndDetection(x) \/ TellRetry(x)
             \/ TellIdentified(x) \/ EndProbe(x) \/ Evaluate(x) \/ TellControl(x)
    <3>1. PICK p \in Places \ Asked : \E k : Goto(x, p, k)
      BY <2>4 DEF MarkRunning, TellStarted, EndDetection, TellRetry, TellIdentified, EndProbe,
                  Evaluate, TellControl, Places, EventTypes, Asked
    <3> QED
      BY <1>1, <1>2, <3>1, GoesUnasked
  <2>5. CASE Complete(x) \/ Interrupt(x) \/ Fail(x) \/ TellEnd(x) \/ Unregister(x)
    <3>1. PICK p \in Places \ Asked : \E k : Goto(x, p, k)
      BY <2>5 DEF Complete, Interrupt, Fail, TellEnd, Unregister, Places, EventTypes, EndEvents, Asked
    <3> QED
      BY <1>1, <1>2, <3>1, GoesUnasked
  <2> QED
    BY <1>5, <2>1, <2>2, <2>3, <2>4, <2>5 DEF ThreadStep
<1>6. ASSUME NEW x \in Runs, TransactionFails(x) \/ CollectionFails(x) PROVE LateInv'
  <2>1. PICK p \in {"pop", "fail"} : Goto(x, p, 0)
    BY <1>6 DEF TransactionFails, CollectionFails
  <2> QED
    BY <1>1, <1>2, <2>1, GoesUnasked DEF Asked
<1>7. CASE Crash
  <2>1. \A r \in Runs : thread'[r].late = thread[r].late
                       /\ (thread'[r].pc = thread[r].pc \/ thread'[r].pc = "dead")
    BY <1>1, <1>7 DEF Crash, ThreadRow
  <2> QED
    BY <1>2, <2>1, NothingSent DEF LateInv, Asked
<1> QED
  BY <1>3, <1>4, <1>5, <1>6, <1>7
     DEF Next, vars, StreamStep, Connect, ListEvents, LoadRun, Send, StreamDrops, RequestCancel,
         SetCancelEvent

\* collect_plan_over_ssh asks should_cancel before each command; between its
\* answer and the command a cancellation may commit, and that command is the
\* only one that still goes out, in the detection as in the plan.
THEOREM OneCommandAfterCancelAlways == Spec => []OneCommandAfterCancel
<1>1. Init => LateInv
  BY DEF Init, LateInv, NoThread
<1>2. IInv /\ LateInv /\ [Next]_vars => LateInv'
  BY LateKept
<1>3. LateInv => OneCommandAfterCancel
  BY DEF LateInv, OneCommandAfterCancel
<1> QED
  BY InductiveInvariant, <1>1, <1>2, <1>3, PTL DEF Spec

=============================================================================
