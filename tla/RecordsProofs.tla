---------------------------- MODULE RecordsProofs ----------------------------
(***************************************************************************)
(* Proofs about Records, for any number of browser tabs, documents,        *)
(* requests and faults.                                                    *)
(*                                                                         *)
(* What a transaction has read under its advisory lock is still what the   *)
(* tables say when it commits: the invariant states that for every open    *)
(* transaction, kind by kind. Frames says which kinds a step touches, so   *)
(* that each kind is then treated alone.                                   *)
(***************************************************************************)
EXTENDS Records, FiniteSetTheorems, SequenceTheorems, TLAPS

IsSequence(s) == s \in Seq({s[i] : i \in DOMAIN s})

RequestShape ==
  /\ DOMAIN request = Tabs
  /\ \A t \in Tabs : DOMAIN request[t] = {"op", "doc", "step", "read", "answer"}

Shape == RequestShape /\ DOMAIN restored = Tabs /\ IsSequence(selections)

\* A request that has read nothing, or has got an answer that promises nothing.
Rests(q) ==
  \/ q.step = "begun"
  \/ q.step = "answered" /\ q.answer \notin {"CREATED", "STORED", "VIOLATION", "SELECTED", "COMPLETED"}

\* Of the requests of this kind, none has moved but to rest.
Frame(op) ==
  \A u \in Tabs : request'[u].op = op => request'[u] = request[u] \/ Rests(request'[u])

\* What a step may touch.
Framed ==
  /\ (\E t \in Tabs : OpenPolicy(t) \/ CommitPolicy(t)) \/ Frame("POLICY")
  /\ (\E t \in Tabs : CommitPolicy(t) \/ CommitSnapshot(t)) \/ UNCHANGED policies
  /\ (\E t \in Tabs : OpenSnapshot(t) \/ CommitSnapshot(t)) \/ (Frame("SNAPSHOT") /\ UNCHANGED snapshots)
  /\ \/ \E t \in Tabs : OpenPresentation(t) \/ CommitPresentation(t)
     \/ Frame("PRESENTATION") /\ UNCHANGED presentations
  /\ (\E t \in Tabs : OpenReport(t) \/ CommitReport(t)) \/ (Frame("REPORT") /\ UNCHANGED reports)
  /\ (\E t \in Tabs : OpenCriteria(t) \/ CommitCriteria(t)) \/ (Frame("CRITERIA") /\ UNCHANGED profiles)
  /\ (\E t \in Tabs : OpenSelection(t) \/ CommitSelection(t)) \/ (Frame("SELECT") /\ UNCHANGED selections)
  /\ \/ \E t \in Tabs : PrepareAnalysis(t) \/ RunSection(t) \/ EndAnalysis(t)
     \/ /\ Frame("ANALYSIS") /\ UNCHANGED outputs
        /\ UNCHANGED restored \/ \E t \in Tabs : LoadCards(t)

\* What appending to a sequence gives; every selection is appended.
LEMMA AppendGrows ==
  ASSUME NEW s, IsSequence(s), NEW e
  PROVE /\ IsSequence(Append(s, e))
        /\ DOMAIN Append(s, e) = DOMAIN s \cup {Len(s) + 1}
        /\ \A i \in DOMAIN s : Append(s, e)[i] = s[i]
        /\ Append(s, e)[Len(s) + 1] = e
  <1> DEFINE S == {s[i] : i \in DOMAIN s} \cup {e}
             a == Append(s, e)
  <1>1. s \in Seq(S) /\ e \in S
    <2>1. s \in Seq({s[i] : i \in DOMAIN s})
      BY DEF IsSequence
    <2> QED BY <2>1, SeqDef
  <1>2. /\ a \in Seq(S) /\ Len(a) = Len(s) + 1 /\ Len(s) \in Nat
        /\ \A i \in 1..Len(s) : a[i] = s[i]
        /\ a[Len(s) + 1] = e
    BY <1>1, AppendProperties, LenProperties
  <1>3. DOMAIN s = 1..Len(s) /\ DOMAIN a = 1..Len(a)
    BY <1>1, <1>2, LenProperties
  <1>4. DOMAIN a = DOMAIN s \cup {Len(s) + 1}
    BY <1>2, <1>3
  <1>5. a \in Seq({a[i] : i \in DOMAIN a})
    BY <1>2, <1>3, ElementOfSeq, SeqDef, Z3
  <1> QED BY <1>2, <1>3, <1>4, <1>5 DEF IsSequence

\* A step is of one tab: it leaves the other requests alone.
OneTab(t) == RequestShape' /\ \A u \in Tabs : u # t => request'[u] = request[u]

\* What a tab that opens its transaction has read.
LEMMA Opened ==
  ASSUME RequestShape, NEW t \in Tabs, NEW read, OpenWith(t, read)
  PROVE /\ OneTab(t)
        /\ request'[t].op = request[t].op /\ request'[t].doc = request[t].doc
        /\ request'[t].step = "open" /\ request'[t].read = read /\ request'[t].answer = request[t].answer
  BY DEF RequestShape, OneTab, OpenWith

\* What a tab that is answered has got; what it asked and read stays.
LEMMA Answered ==
  ASSUME RequestShape, NEW t \in Tabs, NEW code, AnswerAs(t, code)
  PROVE /\ OneTab(t)
        /\ request'[t].op = request[t].op /\ request'[t].doc = request[t].doc
        /\ request'[t].read = request[t].read
        /\ request'[t].step = "answered" /\ request'[t].answer = code
  BY DEF RequestShape, OneTab, AnswerAs

\* What a tab that asks anew asks.
LEMMA AsksAnew ==
  ASSUME RequestShape, NEW t \in Tabs, NEW op, NEW doc,
         request' = [request EXCEPT ![t] = Asked(op, doc)]
  PROVE /\ OneTab(t)
        /\ request'[t].op = op /\ request'[t].doc = doc
        /\ request'[t].step = "begun" /\ Rests(request'[t])
  BY DEF RequestShape, OneTab, Asked, Rests

\* A tab that asks for an analysis says whether it knows the kept result.
LEMMA AsksLinked ==
  ASSUME RequestShape, NEW t \in Tabs, NEW doc, NEW linked,
         request' = [request EXCEPT ![t] = [Asked("ANALYSIS", doc) EXCEPT !.read = linked]]
  PROVE /\ OneTab(t)
        /\ request'[t].op = "ANALYSIS" /\ request'[t].doc = doc
        /\ request'[t].answer = "none" /\ Rests(request'[t])
  <1> DEFINE q == [Asked("ANALYSIS", doc) EXCEPT !.read = linked]
  <1>1. /\ q.op = "ANALYSIS" /\ q.doc = doc /\ q.step = "begun" /\ q.answer = "none"
        /\ DOMAIN q = {"op", "doc", "step", "read", "answer"}
    BY DEF Asked
  <1> HIDE DEF q
  <1>2. request' = [request EXCEPT ![t] = q]
    BY DEF q
  <1> QED BY <1>1, <1>2 DEF RequestShape, OneTab, Rests

\* An analysis that goes on to its next section.
LEMMA Advanced ==
  ASSUME RequestShape, NEW t \in Tabs, NEW made, NEW lost, Advance(t, made, lost)
  PROVE /\ OneTab(t)
        /\ request'[t].op = request[t].op /\ request'[t].doc = request[t].doc
        /\ request'[t].step = request[t].step /\ request'[t].answer = request[t].answer
        /\ request'[t].read = [linked |-> request[t].read.linked, next |-> request[t].read.next + 1,
                               made |-> request[t].read.made \cup made, lost |-> request[t].read.lost \cup lost]
  BY DEF RequestShape, OneTab, Advance

\* A step of one tab moves at most the kind of request it has then.
LEMMA FrameOf ==
  ASSUME NEW t \in Tabs, OneTab(t), NEW op, request'[t].op # op \/ Rests(request'[t])
  PROVE Frame(op)
  BY DEF OneTab, Frame

\* The tab of a step and the kind of its request, action by action.
LEMMA Moves ==
  ASSUME RequestShape, NEW t \in Tabs
  PROVE
    /\ OpenPolicy(t) => OneTab(t) /\ (request'[t].op = "POLICY" \/ Rests(request'[t]))
    /\ CommitPolicy(t) => OneTab(t) /\ (request'[t].op = "POLICY" \/ Rests(request'[t]))
    /\ OpenSnapshot(t) => OneTab(t) /\ (request'[t].op = "SNAPSHOT" \/ Rests(request'[t]))
    /\ CommitSnapshot(t) => OneTab(t) /\ (request'[t].op = "SNAPSHOT" \/ Rests(request'[t]))
    /\ OpenPresentation(t) => OneTab(t) /\ (request'[t].op = "PRESENTATION" \/ Rests(request'[t]))
    /\ CommitPresentation(t) => OneTab(t) /\ (request'[t].op = "PRESENTATION" \/ Rests(request'[t]))
    /\ OpenReport(t) => OneTab(t) /\ (request'[t].op = "REPORT" \/ Rests(request'[t]))
    /\ CommitReport(t) => OneTab(t) /\ (request'[t].op = "REPORT" \/ Rests(request'[t]))
    /\ LoadReport(t) => OneTab(t) /\ (request'[t].op = "DOWNLOAD" \/ Rests(request'[t]))
    /\ Deliver(t) => OneTab(t) /\ (request'[t].op = "DOWNLOAD" \/ Rests(request'[t]))
    /\ OpenCriteria(t) => OneTab(t) /\ (request'[t].op = "CRITERIA" \/ Rests(request'[t]))
    /\ CommitCriteria(t) => OneTab(t) /\ (request'[t].op = "CRITERIA" \/ Rests(request'[t]))
    /\ OpenSelection(t) => OneTab(t) /\ (request'[t].op = "SELECT" \/ Rests(request'[t]))
    /\ CommitSelection(t) => OneTab(t) /\ (request'[t].op = "SELECT" \/ Rests(request'[t]))
    /\ PrepareAnalysis(t) => OneTab(t) /\ (request'[t].op = "ANALYSIS" \/ Rests(request'[t]))
    /\ RunSection(t) => OneTab(t) /\ (request'[t].op = "ANALYSIS" \/ Rests(request'[t]))
    /\ EndAnalysis(t) => OneTab(t) /\ (request'[t].op = "ANALYSIS" \/ Rests(request'[t]))
    /\ Ask(t) => OneTab(t) /\ Rests(request'[t])
    /\ AskDownload(t) => OneTab(t) /\ Rests(request'[t])
    /\ AskSelection(t) => OneTab(t) /\ Rests(request'[t])
    /\ AskAnalysis(t) => OneTab(t) /\ Rests(request'[t])
    /\ StorageFails(t) => OneTab(t) /\ Rests(request'[t])
  <1>1. ASSUME OpenPolicy(t) PROVE OneTab(t) /\ (request'[t].op = "POLICY" \/ Rests(request'[t]))
    BY <1>1, Opened DEF OpenPolicy, Is, Begins
  <1>2. ASSUME CommitPolicy(t) PROVE OneTab(t) /\ (request'[t].op = "POLICY" \/ Rests(request'[t]))
    BY <1>2, Answered DEF CommitPolicy, Is, Begins
  <1>3. ASSUME OpenSnapshot(t) PROVE OneTab(t) /\ (request'[t].op = "SNAPSHOT" \/ Rests(request'[t]))
    BY <1>3, Opened DEF OpenSnapshot, Is, Begins
  <1>4. ASSUME CommitSnapshot(t) PROVE OneTab(t) /\ (request'[t].op = "SNAPSHOT" \/ Rests(request'[t]))
    BY <1>4, Answered DEF CommitSnapshot, Is, Begins
  <1>5. ASSUME OpenPresentation(t) PROVE OneTab(t) /\ (request'[t].op = "PRESENTATION" \/ Rests(request'[t]))
    BY <1>5, Opened, Answered DEF OpenPresentation, Is, Begins
  <1>6. ASSUME CommitPresentation(t) PROVE OneTab(t) /\ (request'[t].op = "PRESENTATION" \/ Rests(request'[t]))
    BY <1>6, Answered DEF CommitPresentation, Is, Begins
  <1>7. ASSUME OpenReport(t) PROVE OneTab(t) /\ (request'[t].op = "REPORT" \/ Rests(request'[t]))
    BY <1>7, Opened DEF OpenReport, Is, Begins
  <1>8. ASSUME CommitReport(t) PROVE OneTab(t) /\ (request'[t].op = "REPORT" \/ Rests(request'[t]))
    BY <1>8, Answered DEF CommitReport, Is, Begins
  <1>9. ASSUME LoadReport(t) PROVE OneTab(t) /\ (request'[t].op = "DOWNLOAD" \/ Rests(request'[t]))
    BY <1>9, Opened, Answered DEF LoadReport, Is, Begins
  <1>10. ASSUME Deliver(t) PROVE OneTab(t) /\ (request'[t].op = "DOWNLOAD" \/ Rests(request'[t]))
    BY <1>10, Answered DEF Deliver, Is, Begins
  <1>11. ASSUME OpenCriteria(t) PROVE OneTab(t) /\ (request'[t].op = "CRITERIA" \/ Rests(request'[t]))
    BY <1>11, Opened DEF OpenCriteria, Is, Begins
  <1>12. ASSUME CommitCriteria(t) PROVE OneTab(t) /\ (request'[t].op = "CRITERIA" \/ Rests(request'[t]))
    BY <1>12, Answered, AsksAnew DEF CommitCriteria, Is, Begins
  <1>13. ASSUME OpenSelection(t) PROVE OneTab(t) /\ (request'[t].op = "SELECT" \/ Rests(request'[t]))
    BY <1>13, Opened DEF OpenSelection, Is, Begins
  <1>14. ASSUME CommitSelection(t) PROVE OneTab(t) /\ (request'[t].op = "SELECT" \/ Rests(request'[t]))
    BY <1>14, Answered DEF CommitSelection, Is, Begins
  <1>15. ASSUME PrepareAnalysis(t) PROVE OneTab(t) /\ (request'[t].op = "ANALYSIS" \/ Rests(request'[t]))
    BY <1>15, Opened, Answered DEF PrepareAnalysis, Is, Begins
  <1>16. ASSUME RunSection(t) PROVE OneTab(t) /\ (request'[t].op = "ANALYSIS" \/ Rests(request'[t]))
    BY <1>16, Answered, Advanced DEF RunSection, Store, Is, Begins
  <1>17. ASSUME EndAnalysis(t) PROVE OneTab(t) /\ (request'[t].op = "ANALYSIS" \/ Rests(request'[t]))
    BY <1>17, Answered DEF EndAnalysis, Is, Begins
  <1>18. ASSUME Ask(t) PROVE OneTab(t) /\ Rests(request'[t])
    <2>1. PICK op, doc :
             \/ request' = [request EXCEPT ![t] = Asked(op, doc)]
             \/ request' = [request EXCEPT ![t] = [Asked(op, doc) EXCEPT !.step = "answered", !.answer = "REFUSED"]]
      BY <1>18 DEF Ask
    <2> DEFINE refused == [Asked(op, doc) EXCEPT !.step = "answered", !.answer = "REFUSED"]
    <2>2. /\ DOMAIN refused = {"op", "doc", "step", "read", "answer"}
          /\ refused.step = "answered" /\ refused.answer = "REFUSED"
      BY DEF Asked
    <2> HIDE DEF refused
    <2>3. CASE request' = [request EXCEPT ![t] = refused]
      BY <2>2, <2>3 DEF RequestShape, OneTab, Rests
    <2> QED BY <2>1, <2>3, AsksAnew DEF refused
  <1>19. ASSUME AskDownload(t) PROVE OneTab(t) /\ Rests(request'[t])
    BY <1>19, AsksAnew DEF AskDownload
  <1>20. ASSUME AskSelection(t) PROVE OneTab(t) /\ Rests(request'[t])
    BY <1>20, AsksAnew DEF AskSelection
  <1>21. ASSUME AskAnalysis(t) PROVE OneTab(t) /\ Rests(request'[t])
    <2>1. PICK doc \in DOMAIN Analyses, linked \in BOOLEAN :
             request' = [request EXCEPT ![t] = [Asked("ANALYSIS", doc) EXCEPT !.read = linked]]
      BY <1>21 DEF AskAnalysis
    <2> QED BY <2>1, AsksLinked
  <1>22. ASSUME StorageFails(t) PROVE OneTab(t) /\ Rests(request'[t])
    BY <1>22 DEF StorageFails, RequestShape, OneTab, Rests
  <1> QED BY <1>1, <1>2, <1>3, <1>4, <1>5, <1>6, <1>7, <1>8, <1>9, <1>10, <1>11, <1>12, <1>13, <1>14, <1>15, <1>16, <1>17, <1>18, <1>19, <1>20, <1>21, <1>22

\* What a step may touch, and that requests and selections keep their shape.
LEMMA Frames == Shape /\ [Next]_vars => Shape' /\ Framed
  <1> SUFFICES ASSUME Shape, [Next]_vars PROVE Shape' /\ Framed
    OBVIOUS
  <1> USE DEF Shape
  <1>1. ASSUME NEW t \in Tabs, Ask(t) PROVE Shape' /\ Framed
    <2>1. OneTab(t) BY <1>1, Moves
    <2>2. restored' = restored /\ selections' = selections BY <1>1 DEF Ask, tables, Begins, Untouched
    <2> QED BY <1>1, <2>1, <2>2, Moves, FrameOf DEF Ask, Framed, OneTab, tables, Begins, Untouched
  <1>2. ASSUME NEW t \in Tabs, AskDownload(t) PROVE Shape' /\ Framed
    <2>1. OneTab(t) BY <1>2, Moves
    <2>2. restored' = restored /\ selections' = selections BY <1>2 DEF AskDownload, tables, Begins, Untouched
    <2> QED BY <1>2, <2>1, <2>2, Moves, FrameOf DEF AskDownload, Framed, OneTab, tables, Begins, Untouched
  <1>3. ASSUME NEW t \in Tabs, AskSelection(t) PROVE Shape' /\ Framed
    <2>1. OneTab(t) BY <1>3, Moves
    <2>2. restored' = restored /\ selections' = selections BY <1>3 DEF AskSelection, tables, Begins, Untouched
    <2> QED BY <1>3, <2>1, <2>2, Moves, FrameOf DEF AskSelection, Framed, OneTab, tables, Begins, Untouched
  <1>4. ASSUME NEW t \in Tabs, AskAnalysis(t) PROVE Shape' /\ Framed
    <2>1. OneTab(t) BY <1>4, Moves
    <2>2. restored' = restored /\ selections' = selections BY <1>4 DEF AskAnalysis, tables, Begins, Untouched
    <2> QED BY <1>4, <2>1, <2>2, Moves, FrameOf DEF AskAnalysis, Framed, OneTab, tables, Begins, Untouched
  <1>5. ASSUME NEW t \in Tabs, StorageFails(t) PROVE Shape' /\ Framed
    <2>1. OneTab(t) BY <1>5, Moves
    <2>2. restored' = restored /\ selections' = selections BY <1>5 DEF StorageFails, tables, Begins, Untouched
    <2> QED BY <1>5, <2>1, <2>2, Moves, FrameOf DEF StorageFails, Framed, OneTab, tables, Begins, Untouched
  <1>6. ASSUME NEW t \in Tabs, OpenPolicy(t) PROVE Shape' /\ Framed
    <2>1. OneTab(t) BY <1>6, Moves
    <2>2. restored' = restored /\ selections' = selections BY <1>6 DEF OpenPolicy, tables, Begins, Untouched
    <2> QED BY <1>6, <2>1, <2>2, Moves, FrameOf DEF OpenPolicy, Framed, OneTab, tables, Begins, Untouched
  <1>7. ASSUME NEW t \in Tabs, CommitPolicy(t) PROVE Shape' /\ Framed
    <2>1. OneTab(t) BY <1>7, Moves
    <2>2. restored' = restored /\ selections' = selections BY <1>7 DEF CommitPolicy, tables, Begins, Untouched
    <2> QED BY <1>7, <2>1, <2>2, Moves, FrameOf DEF CommitPolicy, Framed, OneTab, tables, Begins, Untouched
  <1>8. ASSUME NEW t \in Tabs, OpenSnapshot(t) PROVE Shape' /\ Framed
    <2>1. OneTab(t) BY <1>8, Moves
    <2>2. restored' = restored /\ selections' = selections BY <1>8 DEF OpenSnapshot, tables, Begins, Untouched
    <2> QED BY <1>8, <2>1, <2>2, Moves, FrameOf DEF OpenSnapshot, Framed, OneTab, tables, Begins, Untouched
  <1>9. ASSUME NEW t \in Tabs, CommitSnapshot(t) PROVE Shape' /\ Framed
    <2>1. OneTab(t) BY <1>9, Moves
    <2>2. restored' = restored /\ selections' = selections BY <1>9 DEF CommitSnapshot, tables, Begins, Untouched
    <2> QED BY <1>9, <2>1, <2>2, Moves, FrameOf DEF CommitSnapshot, Framed, OneTab, tables, Begins, Untouched
  <1>10. ASSUME NEW t \in Tabs, OpenPresentation(t) PROVE Shape' /\ Framed
    <2>1. OneTab(t) BY <1>10, Moves
    <2>2. restored' = restored /\ selections' = selections BY <1>10 DEF OpenPresentation, tables, Begins, Untouched
    <2> QED BY <1>10, <2>1, <2>2, Moves, FrameOf DEF OpenPresentation, Framed, OneTab, tables, Begins, Untouched
  <1>11. ASSUME NEW t \in Tabs, CommitPresentation(t) PROVE Shape' /\ Framed
    <2>1. OneTab(t) BY <1>11, Moves
    <2>2. restored' = restored /\ selections' = selections BY <1>11 DEF CommitPresentation, tables, Begins, Untouched
    <2> QED BY <1>11, <2>1, <2>2, Moves, FrameOf DEF CommitPresentation, Framed, OneTab, tables, Begins, Untouched
  <1>12. ASSUME NEW t \in Tabs, OpenReport(t) PROVE Shape' /\ Framed
    <2>1. OneTab(t) BY <1>12, Moves
    <2>2. restored' = restored /\ selections' = selections BY <1>12 DEF OpenReport, tables, Begins, Untouched
    <2> QED BY <1>12, <2>1, <2>2, Moves, FrameOf DEF OpenReport, Framed, OneTab, tables, Begins, Untouched
  <1>13. ASSUME NEW t \in Tabs, CommitReport(t) PROVE Shape' /\ Framed
    <2>1. OneTab(t) BY <1>13, Moves
    <2>2. restored' = restored /\ selections' = selections BY <1>13 DEF CommitReport, tables, Begins, Untouched
    <2> QED BY <1>13, <2>1, <2>2, Moves, FrameOf DEF CommitReport, Framed, OneTab, tables, Begins, Untouched
  <1>14. ASSUME NEW t \in Tabs, LoadReport(t) PROVE Shape' /\ Framed
    <2>1. OneTab(t) BY <1>14, Moves
    <2>2. restored' = restored /\ selections' = selections BY <1>14 DEF LoadReport, tables, Begins, Untouched
    <2> QED BY <1>14, <2>1, <2>2, Moves, FrameOf DEF LoadReport, Framed, OneTab, tables, Begins, Untouched
  <1>15. ASSUME NEW t \in Tabs, Deliver(t) PROVE Shape' /\ Framed
    <2>1. OneTab(t) BY <1>15, Moves
    <2>2. restored' = restored /\ selections' = selections BY <1>15 DEF Deliver, tables, Begins, Untouched
    <2> QED BY <1>15, <2>1, <2>2, Moves, FrameOf DEF Deliver, Framed, OneTab, tables, Begins, Untouched
  <1>16. ASSUME NEW t \in Tabs, OpenCriteria(t) PROVE Shape' /\ Framed
    <2>1. OneTab(t) BY <1>16, Moves
    <2>2. restored' = restored /\ selections' = selections BY <1>16 DEF OpenCriteria, tables, Begins, Untouched
    <2> QED BY <1>16, <2>1, <2>2, Moves, FrameOf DEF OpenCriteria, Framed, OneTab, tables, Begins, Untouched
  <1>17. ASSUME NEW t \in Tabs, CommitCriteria(t) PROVE Shape' /\ Framed
    <2>1. OneTab(t) BY <1>17, Moves
    <2>2. restored' = restored /\ selections' = selections BY <1>17 DEF CommitCriteria, tables, Begins, Untouched
    <2> QED BY <1>17, <2>1, <2>2, Moves, FrameOf DEF CommitCriteria, Framed, OneTab, tables, Begins, Untouched
  <1>18. ASSUME NEW t \in Tabs, OpenSelection(t) PROVE Shape' /\ Framed
    <2>1. OneTab(t) BY <1>18, Moves
    <2>2. restored' = restored /\ selections' = selections BY <1>18 DEF OpenSelection, tables, Begins, Untouched
    <2> QED BY <1>18, <2>1, <2>2, Moves, FrameOf DEF OpenSelection, Framed, OneTab, tables, Begins, Untouched
  <1>19. ASSUME NEW t \in Tabs, CommitSelection(t) PROVE Shape' /\ Framed
    <2>1. OneTab(t) BY <1>19, Moves
    <2>2. restored' = restored /\ (selections' = selections \/ \E row : selections' = Append(selections, row))
      BY <1>19 DEF CommitSelection, Untouched
    <2>3. IsSequence(selections')
      <3>1. ASSUME NEW row, selections' = Append(selections, row) PROVE IsSequence(selections')
        <4>1. IsSequence(Append(selections, row)) BY AppendGrows
        <4> QED BY <3>1, <4>1
      <3> QED BY <2>2, <3>1
    <2> QED BY <1>19, <2>1, <2>2, <2>3, Moves, FrameOf DEF CommitSelection, Framed, OneTab, tables, Begins, Untouched
  <1>20. ASSUME NEW t \in Tabs, OpenPage(t) PROVE Shape' /\ Framed
    BY <1>20 DEF OpenPage, tables, RequestShape, Framed, Frame
  <1>21. ASSUME NEW t \in Tabs, LoadCards(t) PROVE Shape' /\ Framed
    BY <1>21 DEF LoadCards, tables, RequestShape, Framed, Frame
  <1>22. ASSUME NEW t \in Tabs, PrepareAnalysis(t) PROVE Shape' /\ Framed
    <2>1. OneTab(t) BY <1>22, Moves
    <2>2. restored' = restored /\ selections' = selections BY <1>22 DEF PrepareAnalysis, tables, Begins, Untouched
    <2> QED BY <1>22, <2>1, <2>2, Moves, FrameOf DEF PrepareAnalysis, Framed, OneTab, tables, Begins, Untouched
  <1>23. ASSUME NEW t \in Tabs, RunSection(t) PROVE Shape' /\ Framed
    <2>1. OneTab(t) BY <1>23, Moves
    <2>2. restored' = restored /\ selections' = selections BY <1>23 DEF RunSection, tables, Begins, Untouched
    <2> QED BY <1>23, <2>1, <2>2, Moves, FrameOf DEF RunSection, Framed, OneTab, tables, Begins, Untouched
  <1>24. ASSUME NEW t \in Tabs, EndAnalysis(t) PROVE Shape' /\ Framed
    <2>1. OneTab(t) BY <1>24, Moves
    <2>2. restored' = restored /\ selections' = selections BY <1>24 DEF EndAnalysis, tables, Begins, Untouched
    <2> QED BY <1>24, <2>1, <2>2, Moves, FrameOf DEF EndAnalysis, Framed, OneTab, tables, Begins, Untouched
  <1>25. CASE ChangeRole
    BY <1>25 DEF ChangeRole, tables, RequestShape, Framed, Frame
  <1>26. CASE UNCHANGED vars
    BY <1>26 DEF vars, tables, RequestShape, Framed, Frame
  <1> QED BY <1>1, <1>2, <1>3, <1>4, <1>5, <1>6, <1>7, <1>8, <1>9, <1>10, <1>11, <1>12, <1>13, <1>14, <1>15, <1>16, <1>17, <1>18, <1>19, <1>20, <1>21, <1>22, <1>23, <1>24, <1>25, <1>26 DEF Next

(* ------------------------------- numbers ------------------------------ *)
\* Finitely many rows, numbered 1 to n.
ByNumber(rows) == IsFiniteSet(rows) /\ {r.number : r \in rows} = 1..Cardinality(rows)
ByVersion(rows) == IsFiniteSet(rows) /\ {r.version : r \in rows} = 1..Cardinality(rows)

\* The next number of rows numbered 1 to n is n + 1 (append_audit_history_policy,
\* append_windows_audit_presentation, append, allocate_report_version).
LEMMA NextIsFresh ==
  ASSUME NEW numbers, NEW n \in Nat, numbers = 1..n
  PROVE  NextNumber(numbers) = n + 1
  <1>1. CASE n = 0
    BY <1>1 DEF NextNumber
  <1>2. CASE n # 0
    <2> DEFINE top == CHOOSE k \in numbers : \A m \in numbers : m <= k
    <2>1. n \in numbers /\ \A m \in numbers : m <= n
      BY <1>2
    <2>2. top \in numbers /\ \A m \in numbers : m <= top
      BY <2>1
    <2>3. top = n
      BY <2>1, <2>2
    <2> QED BY <1>2, <2>1, <2>3 DEF NextNumber
  <1> QED BY <1>1, <1>2

\* A row with the next number keeps the rows numbered from 1 without a gap.
LEMMA RowKeepsNumbers ==
  ASSUME NEW rows, ByNumber(rows), NEW row
  PROVE  /\ NextNumber({r.number : r \in rows}) = Cardinality(rows) + 1
         /\ NextNumber({r.number : r \in rows}) \notin {r.number : r \in rows}
         /\ row.number = Cardinality(rows) + 1 => ByNumber(rows \cup {row})
  <1> DEFINE numbers == {r.number : r \in rows}
             n == Cardinality(rows)
  <1>1. n \in Nat /\ numbers = 1..n
    BY FS_CardinalityType DEF ByNumber
  <1> HIDE DEF n
  <1>2. NextNumber(numbers) = n + 1
    BY <1>1, NextIsFresh
  <1>3. ASSUME row.number = n + 1 PROVE ByNumber(rows \cup {row})
    <2>1. row \notin rows
      BY <1>1, <1>3
    <2>2. Cardinality(rows \cup {row}) = n + 1 /\ IsFiniteSet(rows \cup {row})
      BY <2>1, FS_AddElement DEF ByNumber, n
    <2>3. {r.number : r \in rows \cup {row}} = numbers \cup {n + 1}
      BY <1>3
    <2> QED BY <1>1, <2>2, <2>3 DEF ByNumber
  <1> QED BY <1>1, <1>2, <1>3 DEF n

\* The same for the versions of the profiles of a name.
LEMMA RowKeepsVersions ==
  ASSUME NEW rows, ByVersion(rows), NEW row
  PROVE  /\ NextNumber({r.version : r \in rows}) = Cardinality(rows) + 1
         /\ NextNumber({r.version : r \in rows}) \notin {r.version : r \in rows}
         /\ row.version = Cardinality(rows) + 1 => ByVersion(rows \cup {row})
  <1> DEFINE numbers == {r.version : r \in rows}
             n == Cardinality(rows)
  <1>1. n \in Nat /\ numbers = 1..n
    BY FS_CardinalityType DEF ByVersion
  <1> HIDE DEF n
  <1>2. NextNumber(numbers) = n + 1
    BY <1>1, NextIsFresh
  <1>3. ASSUME row.version = n + 1 PROVE ByVersion(rows \cup {row})
    <2>1. row \notin rows
      BY <1>1, <1>3
    <2>2. Cardinality(rows \cup {row}) = n + 1 /\ IsFiniteSet(rows \cup {row})
      BY <2>1, FS_AddElement DEF ByVersion, n
    <2>3. {r.version : r \in rows \cup {row}} = numbers \cup {n + 1}
      BY <1>3
    <2>4. 1..(n + 1) = 1..n \cup {n + 1}
      BY <1>1
    <2> QED BY <1>1, <2>2, <2>3, <2>4 DEF ByVersion
  <1> QED BY <1>1, <1>2, <1>3 DEF n

(* ----------------------- policies and Windows results ------------------ *)
IsOpen(t, op) == request[t].op = op /\ request[t].step = "open"
Violated(t) == request[t].step = "answered" /\ request[t].answer = "VIOLATION"

\* Policies are numbered 1 to n, and an open transaction has read the next number,
\* unless the default policy, which takes no lock, has come since.
PoliciesStand ==
  /\ ByNumber(policies)
  /\ \A t, u \in Tabs : IsOpen(t, "POLICY") /\ IsOpen(u, "POLICY") => t = u
  /\ \A t \in Tabs : IsOpen(t, "POLICY") =>
       \/ request[t].read = Cardinality(policies) + 1
       \/ request[t].read = 1 /\ 1 \in PolicyNumbers
  /\ \A t \in Tabs : request[t].op = "POLICY" /\ Violated(t) => request[t].read = 1

\* The policy a result is kept under is one number.
NumbersOf(rows) == {p.number : p \in rows}
OneOf(numbers, all) == \E k \in all : numbers = {k}

\* A result has one row, its policy exists, and what is said to be kept is.
SnapshotsStand ==
  /\ \A s, r \in snapshots : s.result = r.result /\ s.version = r.version => s = r
  /\ \A s \in snapshots : OneOf(s.policy, PolicyNumbers)
  /\ \A t \in Tabs : IsOpen(t, "SNAPSHOT") =>
       request[t].read[2] = {} \/ OneOf(NumbersOf(request[t].read[2]), PolicyNumbers)
  /\ \A t \in Tabs :
       Answers(t, "SNAPSHOT", "CREATED") \/ Answers(t, "SNAPSHOT", "STORED") =>
         \E s \in snapshots :
           /\ s.result = Results[request[t].doc].result /\ s.version = Results[request[t].doc].version
           /\ KeptResult(Results[s.doc]) = KeptResult(Results[request[t].doc])

\* Of numbered policies one is effective, if there is any.
LEMMA OneIsEffective ==
  ASSUME NEW rows, ByNumber(rows)
  PROVE  /\ rows = {} => EffectivePolicy(rows) = {}
         /\ rows # {} => \E k \in {p.number : p \in rows} : NumbersOf(EffectivePolicy(rows)) = {k}
  <1> DEFINE n == Cardinality(rows)
  <1>1. n \in Nat /\ {p.number : p \in rows} = 1..n
    BY FS_CardinalityType DEF ByNumber
  <1>2. CASE rows # {}
    <2>1. n # 0
      BY <1>1, <1>2
    <2>2. PICK p \in rows : p.number = n
      BY <1>1, <2>1
    <2>3. \A q \in rows : q.number \in 1..n
      BY <1>1
    <2>4. p \in EffectivePolicy(rows) /\ \A q \in EffectivePolicy(rows) : q.number = n
      BY <2>2, <2>3, <1>1 DEF EffectivePolicy
    <2>5. NumbersOf(EffectivePolicy(rows)) = {n}
      BY <2>2, <2>4 DEF NumbersOf
    <2> QED BY <1>1, <1>2, <2>1, <2>5
  <1> QED BY <1>2 DEF EffectivePolicy

\* What the default policy does to numbered policies.
LEMMA DefaultKeepsNumbers ==
  ASSUME ByNumber(policies), NEW read
  PROVE  /\ ByNumber(PolicyAfter(read)) /\ policies \subseteq PolicyAfter(read)
         /\ \/ PolicyAfter(read) = policies
            \/ Cardinality(policies) = 0 /\ \E p \in PolicyAfter(read) : p.number = 1
         /\ read = {} => PolicyAfter(read) # {}
  <1> DEFINE first == [number |-> 1, policy |-> "default"]
             n == Cardinality(policies)
  <1>1. n \in Nat /\ PolicyNumbers = 1..n
    BY FS_CardinalityType DEF ByNumber, PolicyNumbers
  <1>2. first.number = 1
    OBVIOUS
  <1> HIDE DEF first
  <1>3. CASE read # {} \/ 1 \in PolicyNumbers
    <2>1. PolicyAfter(read) = policies
      BY <1>3 DEF PolicyAfter
    <2>2. read = {} => policies # {}
      BY <1>3 DEF PolicyNumbers
    <2> QED BY <2>1, <2>2
  <1>4. CASE ~(read # {} \/ 1 \in PolicyNumbers)
    <2>1. n = 0
      BY <1>1, <1>4
    <2>2. PolicyAfter(read) = policies \cup {first}
      BY <1>4 DEF PolicyAfter, first
    <2>3. first.number = n + 1
      BY <1>2, <2>1
    <2>4. ByNumber(policies \cup {first})
      BY <2>3, RowKeepsNumbers
    <2> QED BY <1>2, <2>1, <2>2, <2>4
  <1> QED BY <1>3, <1>4

\* A step that is not of the transactions of a kind opens none of them and answers
\* none of them with a promise.
LEMMA FrameKeeps ==
  ASSUME NEW op, Frame(op), NEW t \in Tabs, request'[t].op = op
  PROVE  /\ IsOpen(t, op)' => IsOpen(t, op) /\ request'[t] = request[t]
         /\ Violated(t)' => Violated(t) /\ request'[t] = request[t]
         /\ \A code \in {"CREATED", "STORED", "SELECTED", "COMPLETED"} :
              Answers(t, op, code)' => Answers(t, op, code) /\ request'[t] = request[t]
  BY DEF Frame, Rests, IsOpen, Violated, Answers

\* The policies stay numbered: under the lock of POLICY the number read is still the
\* next one, and the default policy only comes first (append_audit_history_policy,
\* ensure_default_audit_history_policy).
LEMMA PoliciesStay ==
  Shape /\ PoliciesStand /\ [Next]_vars => PoliciesStand' /\ policies \subseteq policies'
  <1> SUFFICES ASSUME Shape, PoliciesStand, [Next]_vars
               PROVE  PoliciesStand' /\ policies \subseteq policies'
    OBVIOUS
  <1>0. Shape' /\ Framed /\ RequestShape
    BY Frames DEF Shape
  <1> DEFINE n == Cardinality(policies)
  <1>1. n \in Nat /\ PolicyNumbers = 1..n
    BY FS_CardinalityType DEF PoliciesStand, ByNumber, PolicyNumbers
  <1>2. ASSUME NEW t \in Tabs, OpenPolicy(t) PROVE PoliciesStand' /\ policies' = policies
    <2>1. policies' = policies
      BY <1>2 DEF OpenPolicy, Begins, tables
    <2>2. /\ OneTab(t) /\ request[t].op = "POLICY" /\ request'[t].op = "POLICY"
          /\ request'[t].step = "open" /\ request'[t].read = NextNumber(PolicyNumbers)
      BY <1>0, <1>2, Opened DEF OpenPolicy, Begins, Is
    <2>3. NextNumber(PolicyNumbers) = n + 1
      BY <1>1, NextIsFresh
    <2>4. \A u \in Tabs \ {t} : ~IsOpen(u, "POLICY")
      BY <1>2, <2>2 DEF OpenPolicy, Begins, LockFree, LockOf, IsOpen
    <2> QED BY <2>1, <2>2, <2>3, <2>4 DEF PoliciesStand, PolicyNumbers, IsOpen, Violated, OneTab
  <1>3. ASSUME NEW t \in Tabs, CommitPolicy(t) PROVE PoliciesStand' /\ policies \subseteq policies'
    <2>1. IsOpen(t, "POLICY") /\ \A u \in Tabs \ {t} : ~IsOpen(u, "POLICY")
      BY <1>3 DEF CommitPolicy, Is, IsOpen, PoliciesStand
    <2> DEFINE row == [number |-> request[t].read, policy |-> request[t].doc]
    <2>2. CASE request[t].read \in PolicyNumbers
      <3>1. AnswerAs(t, "VIOLATION") /\ policies' = policies
        BY <1>3, <2>2 DEF CommitPolicy
      <3>2. request[t].read = 1
        BY <1>1, <2>1, <2>2 DEF PoliciesStand
      <3> QED BY <1>0, <2>1, <3>1, <3>2, Answered DEF PoliciesStand, PolicyNumbers, IsOpen, Violated, OneTab
    <2>3. CASE request[t].read \notin PolicyNumbers
      <3>1. AnswerAs(t, "CREATED") /\ policies' = policies \cup {row}
        BY <1>3, <2>3 DEF CommitPolicy
      <3>2. request[t].read = n + 1 /\ row.number = n + 1
        BY <2>1, <2>3 DEF PoliciesStand
      <3> HIDE DEF row
      <3>3. ByNumber(policies')
        BY <3>1, <3>2, RowKeepsNumbers DEF PoliciesStand
      <3> QED BY <1>0, <2>1, <3>1, <3>3, Answered DEF PoliciesStand, PolicyNumbers, IsOpen, Violated, OneTab
    <2> QED BY <2>2, <2>3
  <1>4. ASSUME NEW t \in Tabs, CommitSnapshot(t) PROVE PoliciesStand' /\ policies \subseteq policies'
    <2>1. policies' = policies \/ policies' = PolicyAfter(request[t].read[2])
      BY <1>4 DEF CommitSnapshot
    <2>2. /\ ByNumber(policies') /\ policies \subseteq policies'
          /\ policies' = policies \/ (n = 0 /\ 1 \in PolicyNumbers')
      BY <2>1, DefaultKeepsNumbers DEF PoliciesStand, PolicyNumbers
    <2>3. OneTab(t) /\ request'[t].op = "SNAPSHOT"
      <3>1. request[t].op = "SNAPSHOT" /\ \E code : AnswerAs(t, code)
        BY <1>4 DEF CommitSnapshot, Is
      <3> QED BY <1>0, <3>1, Answered
    <2>4. \A u \in Tabs : request'[u].op = "POLICY" => request'[u] = request[u]
      BY <2>3 DEF OneTab
    <2> QED BY <1>1, <2>2, <2>4 DEF PoliciesStand, PolicyNumbers, IsOpen, Violated
  <1>5. CASE policies' = policies /\ Frame("POLICY")
    BY <1>5, FrameKeeps DEF PoliciesStand, PolicyNumbers, IsOpen, Violated
  <1> QED BY <1>0, <1>2, <1>3, <1>4, <1>5 DEF Framed

\* Where the snapshots stay and no answer promises anew, they stand.
LEMMA SnapshotsUntouched ==
  ASSUME SnapshotsStand, snapshots' = snapshots, policies \subseteq policies',
         \A t \in Tabs : /\ IsOpen(t, "SNAPSHOT")' => IsOpen(t, "SNAPSHOT") /\ request'[t] = request[t]
                         /\ \A code \in {"CREATED", "STORED"} :
                              Answers(t, "SNAPSHOT", code)' => Answers(t, "SNAPSHOT", code) /\ request'[t] = request[t]
  PROVE  SnapshotsStand'
  <1>1. PolicyNumbers \subseteq PolicyNumbers'
    BY DEF PolicyNumbers
  <1>2. ASSUME NEW s \in snapshots' PROVE OneOf(s.policy, PolicyNumbers')
    BY <1>1, <1>2 DEF SnapshotsStand, OneOf
  <1>3. ASSUME NEW t \in Tabs, IsOpen(t, "SNAPSHOT")'
        PROVE  (request[t].read[2] = {} \/ OneOf(NumbersOf(request[t].read[2]), PolicyNumbers))'
    BY <1>1, <1>3 DEF SnapshotsStand, OneOf
  <1>4. ASSUME NEW t \in Tabs, Answers(t, "SNAPSHOT", "CREATED")' \/ Answers(t, "SNAPSHOT", "STORED")'
        PROVE  \E s \in snapshots' :
                 /\ s.result = Results[request'[t].doc].result /\ s.version = Results[request'[t].doc].version
                 /\ KeptResult(Results[s.doc]) = KeptResult(Results[request'[t].doc])
    BY <1>4 DEF SnapshotsStand
  <1>5. (\A s, r \in snapshots : s.result = r.result /\ s.version = r.version => s = r)'
    BY DEF SnapshotsStand
  <1> QED BY <1>2, <1>3, <1>4, <1>5 DEF SnapshotsStand

\* A result keeps one row under an existing policy, and a promise to keep it is only
\* made of the content that is there (append_windows_audit_snapshot).
LEMMA SnapshotsStay ==
  Shape /\ PoliciesStand /\ SnapshotsStand /\ [Next]_vars => SnapshotsStand'
  <1> SUFFICES ASSUME Shape, PoliciesStand, SnapshotsStand, [Next]_vars PROVE SnapshotsStand'
    OBVIOUS
  <1>0. Shape' /\ Framed /\ RequestShape
    BY Frames DEF Shape
  <1>1. PoliciesStand' /\ policies \subseteq policies' /\ PolicyNumbers \subseteq PolicyNumbers'
    BY PoliciesStay DEF PolicyNumbers
  <1>2. ASSUME NEW t \in Tabs, OpenSnapshot(t) PROVE SnapshotsStand'
    <2>1. snapshots' = snapshots /\ policies' = policies
      BY <1>2 DEF OpenSnapshot, Begins, tables
    <2>2. PICK asset \in Assets : OpenWith(t, <<asset, EffectivePolicy(policies)>>)
      BY <1>2 DEF OpenSnapshot
    <2>3. /\ OneTab(t) /\ request'[t].step = "open"
          /\ request'[t].read[2] = EffectivePolicy(policies)
      BY <1>0, <2>2, Opened
    <2>4. EffectivePolicy(policies) = {} \/ OneOf(NumbersOf(EffectivePolicy(policies)), PolicyNumbers')
      BY <2>1, OneIsEffective DEF PoliciesStand, OneOf, PolicyNumbers
    <2>5. ASSUME NEW u \in Tabs, u # t, IsOpen(u, "SNAPSHOT")'
          PROVE  (request[u].read[2] = {} \/ OneOf(NumbersOf(request[u].read[2]), PolicyNumbers))'
      <3>1. request'[u] = request[u] /\ IsOpen(u, "SNAPSHOT")
        BY <2>3, <2>5 DEF IsOpen, OneTab
      <3>2. request[u].read[2] = {} \/ OneOf(NumbersOf(request[u].read[2]), PolicyNumbers)
        BY <3>1 DEF SnapshotsStand
      <3> QED BY <1>1, <3>1, <3>2 DEF OneOf
    <2>6. \A u \in Tabs, code \in {"CREATED", "STORED"} :
            Answers(u, "SNAPSHOT", code)' => Answers(u, "SNAPSHOT", code) /\ request'[u] = request[u]
      BY <2>3 DEF Answers, OneTab
    <2>7. \A s \in snapshots : OneOf(s.policy, PolicyNumbers')
      BY <2>1 DEF SnapshotsStand, OneOf, PolicyNumbers
    <2>8. ASSUME NEW u \in Tabs, IsOpen(u, "SNAPSHOT")'
          PROVE  (request[u].read[2] = {} \/ OneOf(NumbersOf(request[u].read[2]), PolicyNumbers))'
      BY <2>3, <2>4, <2>5, <2>8
    <2> QED BY <2>1, <2>6, <2>7, <2>8 DEF SnapshotsStand
  <1>3. ASSUME NEW t \in Tabs, CommitSnapshot(t) PROVE SnapshotsStand'
    <2> DEFINE doc == request[t].doc
               r == Results[doc]
               read == request[t].read[2]
               there == SnapshotOf(r.result, r.version)
               kept == {s \in there : Keeps(s, doc, request[t].read[1])}
    <2>0. IsOpen(t, "SNAPSHOT")
      BY <1>3 DEF CommitSnapshot, Is, IsOpen
    <2>1. CASE /\ there = {} /\ policies' = PolicyAfter(read) /\ AnswerAs(t, "CREATED")
               /\ LET policy == IF read # {} THEN read ELSE EffectivePolicy(policies')
                  IN snapshots' = snapshots \cup
                       {[result |-> r.result, version |-> r.version, doc |-> doc,
                         asset |-> request[t].read[1], policy |-> {p.number : p \in policy}]}
      <3> DEFINE policy == IF read # {} THEN read ELSE EffectivePolicy(policies')
                 row == [result |-> r.result, version |-> r.version, doc |-> doc,
                         asset |-> request[t].read[1], policy |-> {p.number : p \in policy}]
      <3>1. /\ row.result = r.result /\ row.version = r.version /\ row.doc = doc
            /\ row.policy = NumbersOf(policy) /\ snapshots' = snapshots \cup {row}
        BY <2>1 DEF NumbersOf
      <3>2. OneOf(NumbersOf(policy), PolicyNumbers')
        <4>1. CASE read # {}
          <5>1. OneOf(NumbersOf(read), PolicyNumbers)
            BY <2>0, <4>1 DEF SnapshotsStand
          <5> QED BY <1>1, <4>1, <5>1 DEF OneOf
        <4>2. CASE read = {}
          <5>1. policies' # {} /\ ByNumber(policies')
            BY <1>1, <2>1, <4>2, DefaultKeepsNumbers DEF PoliciesStand
          <5>2. \E k \in {p.number : p \in policies'} : NumbersOf(EffectivePolicy(policies')) = {k}
            BY <5>1, OneIsEffective
          <5> QED BY <4>2, <5>2 DEF OneOf, PolicyNumbers
        <4> QED BY <4>1, <4>2
      <3> HIDE DEF policy, row
      <3>3. \A s \in snapshots : ~(s.result = r.result /\ s.version = r.version)
        BY <2>1 DEF SnapshotOf
      <3>4. (\A s, q \in snapshots : s.result = q.result /\ s.version = q.version => s = q)'
        BY <3>1, <3>3 DEF SnapshotsStand
      <3>5. \A s \in snapshots' : OneOf(s.policy, PolicyNumbers')
        BY <1>1, <3>1, <3>2 DEF SnapshotsStand, OneOf
      <3>6. /\ OneTab(t) /\ request'[t].doc = doc /\ request'[t].step = "answered"
        BY <1>0, <2>1, Answered
      <3>7. \A u \in Tabs : IsOpen(u, "SNAPSHOT")' => IsOpen(u, "SNAPSHOT") /\ request'[u] = request[u]
        BY <3>6 DEF IsOpen, OneTab
      <3>8. \A u \in Tabs : IsOpen(u, "SNAPSHOT")' =>
              (request[u].read[2] = {} \/ OneOf(NumbersOf(request[u].read[2]), PolicyNumbers))'
        BY <1>1, <3>7 DEF SnapshotsStand, OneOf
      <3>9. ASSUME NEW u \in Tabs, Answers(u, "SNAPSHOT", "CREATED")' \/ Answers(u, "SNAPSHOT", "STORED")'
            PROVE  \E s \in snapshots' :
                     /\ s.result = Results[request'[u].doc].result /\ s.version = Results[request'[u].doc].version
                     /\ KeptResult(Results[s.doc]) = KeptResult(Results[request'[u].doc])
        <4>1. CASE u = t
          BY <3>1, <3>6, <4>1
        <4>2. CASE u # t
          BY <3>1, <3>6, <3>9, <4>2 DEF SnapshotsStand, Answers, OneTab
        <4> QED BY <4>1, <4>2
      <3> QED BY <3>4, <3>5, <3>8, <3>9 DEF SnapshotsStand
    <2>2. CASE there # {} /\ kept # {} /\ UNCHANGED snapshots /\ AnswerAs(t, "STORED")
      <3>1. /\ OneTab(t) /\ request'[t].doc = doc /\ request'[t].step = "answered"
        BY <1>0, <2>2, Answered
      <3>2. PICK s \in snapshots : /\ s.result = r.result /\ s.version = r.version
                                   /\ KeptResult(Results[s.doc]) = KeptResult(r)
        BY <2>2 DEF SnapshotOf, Keeps
      <3>3. \A u \in Tabs : IsOpen(u, "SNAPSHOT")' =>
              (request[u].read[2] = {} \/ OneOf(NumbersOf(request[u].read[2]), PolicyNumbers))'
        BY <1>1, <3>1 DEF SnapshotsStand, OneOf, IsOpen, OneTab
      <3>4. ASSUME NEW u \in Tabs, Answers(u, "SNAPSHOT", "CREATED")' \/ Answers(u, "SNAPSHOT", "STORED")'
            PROVE  \E q \in snapshots' :
                     /\ q.result = Results[request'[u].doc].result /\ q.version = Results[request'[u].doc].version
                     /\ KeptResult(Results[q.doc]) = KeptResult(Results[request'[u].doc])
        <4>1. CASE u = t
          BY <2>2, <3>1, <3>2, <4>1
        <4>2. CASE u # t
          BY <2>2, <3>1, <3>4, <4>2 DEF SnapshotsStand, Answers, OneTab
        <4> QED BY <4>1, <4>2
      <3>5. \A q \in snapshots' : OneOf(q.policy, PolicyNumbers')
        BY <1>1, <2>2 DEF SnapshotsStand, OneOf
      <3> QED BY <2>2, <3>3, <3>4, <3>5 DEF SnapshotsStand
    <2>3. CASE UNCHANGED snapshots /\ AnswerAs(t, "CONFLICT")
      <3>1. OneTab(t) /\ request'[t].step = "answered" /\ request'[t].answer = "CONFLICT"
        BY <1>0, <2>3, Answered
      <3> QED BY <1>1, <2>3, <3>1, SnapshotsUntouched DEF OneTab, IsOpen, Answers
    <2> QED BY <1>3, <2>1, <2>2, <2>3 DEF CommitSnapshot
  <1>4. CASE Frame("SNAPSHOT") /\ UNCHANGED snapshots
    <2>1. ASSUME NEW t \in Tabs
          PROVE  /\ IsOpen(t, "SNAPSHOT")' => IsOpen(t, "SNAPSHOT") /\ request'[t] = request[t]
                 /\ \A code \in {"CREATED", "STORED"} :
                      Answers(t, "SNAPSHOT", code)' => Answers(t, "SNAPSHOT", code) /\ request'[t] = request[t]
      BY <1>4 DEF Frame, Rests, IsOpen, Answers
    <2> QED BY <1>1, <1>4, <2>1, SnapshotsUntouched
  <1> QED BY <1>0, <1>2, <1>3, <1>4 DEF Framed

(* ------------------------------- screens ------------------------------ *)
ScreensOf(rows, snapshot, kind) == {q \in rows : q.snapshot = snapshot /\ q.kind = kind}
ScreenKey(doc) == <<Screens[doc].result, Screens[doc].version>>
ScreenRows(rows, doc) == ScreensOf(rows, ScreenKey(doc), Screens[doc].kind)
SameScreens(rows, doc) == {r \in rows : r.payload = KeptPresentation(Screens[doc])}
ScreenReads(q, rows) ==
  q.read.same = SameScreens(rows, q.doc) /\ q.read.number = NextNumber(NumbersOf(rows))
ScreenLock(doc) == LockOf("PRESENTATION", doc)

\* Screens of a result and kind are numbered 1 to n; under the advisory lock of both,
\* an open transaction has read the rows that are there now; so no insert is in vain.
ScreensStand ==
  /\ \A r \in presentations : ByNumber(ScreensOf(presentations, r.snapshot, r.kind))
  /\ \A t, u \in Tabs :
       IsOpen(t, "PRESENTATION") /\ IsOpen(u, "PRESENTATION")
         /\ ScreenLock(request[t].doc) = ScreenLock(request[u].doc) => t = u
  /\ \A t \in Tabs : IsOpen(t, "PRESENTATION") =>
       ScreenReads(request[t], ScreenRows(presentations, request[t].doc))
  /\ \A t \in Tabs : request[t].op = "PRESENTATION" => ~Violated(t)

\* Screens of one result and kind have one lock, and others another.
LEMMA ScreenLocks ==
  ASSUME NEW d, NEW e
  PROVE  /\ ScreenLock(d) # <<>>
         /\ ScreenKey(d) = ScreenKey(e) /\ Screens[d].kind = Screens[e].kind => ScreenLock(d) = ScreenLock(e)
  BY DEF ScreenLock, LockOf, ScreenKey

\* No rows are numbered, too.
LEMMA NoRows == ByNumber({}) /\ ByVersion({})
  <1>1. IsFiniteSet({}) /\ Cardinality({}) = 0
    BY FS_EmptySet
  <1> QED BY <1>1 DEF ByNumber, ByVersion

\* Where the screens stay, open transactions stay and no answer is a violation anew,
\* they stand.
LEMMA ScreensUntouched ==
  ASSUME ScreensStand, presentations' = presentations,
         \A t \in Tabs : /\ IsOpen(t, "PRESENTATION")' => IsOpen(t, "PRESENTATION") /\ request'[t] = request[t]
                         /\ request'[t].op = "PRESENTATION" /\ Violated(t)' => request'[t] = request[t]
  PROVE  ScreensStand'
  <1>1. ASSUME NEW t \in Tabs, request'[t].op = "PRESENTATION", Violated(t)' PROVE FALSE
    BY <1>1 DEF ScreensStand, Violated
  <1> QED BY <1>1 DEF ScreensStand

\* Screens keep standing (append_windows_audit_presentation).
LEMMA ScreensStay ==
  Shape /\ ScreensStand /\ [Next]_vars => ScreensStand'
  <1> SUFFICES ASSUME Shape, ScreensStand, [Next]_vars PROVE ScreensStand'
    OBVIOUS
  <1>0. Shape' /\ Framed /\ RequestShape
    BY Frames DEF Shape
  <1>1. ASSUME NEW t \in Tabs, OpenPresentation(t) PROVE ScreensStand'
    <2> DEFINE doc == request[t].doc
               p == Screens[doc]
               rows == ScreenRows(presentations, doc)
    <2>1. presentations' = presentations /\ request[t].op = "PRESENTATION" /\ LockFree(t)
      BY <1>1 DEF OpenPresentation, Begins, tables, Is
    <2>2. CASE AnswerAs(t, "SNAPSHOT_NOT_FOUND")
      <3>1. OneTab(t) /\ request'[t].step = "answered" /\ request'[t].answer = "SNAPSHOT_NOT_FOUND"
        BY <1>0, <2>2, Answered
      <3> QED BY <2>1, <3>1, ScreensUntouched DEF IsOpen, Violated, OneTab
    <2>3. CASE OpenWith(t, [same |-> SameScreens(rows, doc), number |-> NextNumber(NumbersOf(rows))])
      <3> DEFINE read == [same |-> SameScreens(rows, doc), number |-> NextNumber(NumbersOf(rows))]
      <3>0. read.same = SameScreens(rows, doc) /\ read.number = NextNumber(NumbersOf(rows))
        OBVIOUS
      <3> HIDE DEF read
      <3>1. OneTab(t) /\ request'[t].step = "open" /\ request'[t].doc = doc /\ request'[t].read = read
        BY <1>0, <2>3, Opened DEF read
      <3>2. \A u \in Tabs \ {t} : IsOpen(u, "PRESENTATION") => ScreenLock(request[u].doc) # ScreenLock(doc)
        <4>1. LockOf(request[t].op, request[t].doc) = ScreenLock(doc)
          BY <2>1 DEF ScreenLock
        <4>2. \A u \in Tabs \ {t} : request[u].step = "open" => LockOf(request[u].op, request[u].doc) # ScreenLock(doc)
          BY <2>1, <4>1, ScreenLocks DEF LockFree
        <4> QED BY <4>2 DEF IsOpen, ScreenLock
      <3>3. ScreenReads(request'[t], ScreenRows(presentations', request'[t].doc))
        BY <2>1, <3>0, <3>1 DEF ScreenReads
      <3>4. \A u \in Tabs : u # t => request'[u] = request[u] /\ (IsOpen(u, "PRESENTATION")' <=> IsOpen(u, "PRESENTATION"))
        BY <3>1 DEF IsOpen, OneTab
      <3>5. \A u \in Tabs : u # t => (Violated(u)' <=> Violated(u))
        BY <3>1 DEF Violated, OneTab
      <3>6. ~Violated(t)'
        BY <3>1 DEF Violated
      <3> QED BY <2>1, <3>1, <3>2, <3>3, <3>4, <3>5, <3>6 DEF ScreensStand
    <2>4. RowsFor(p) = rows
      BY DEF RowsFor, ScreenRows, ScreensOf, ScreenKey
    <2>5. \/ AnswerAs(t, "SNAPSHOT_NOT_FOUND")
          \/ OpenWith(t, [same |-> {r \in RowsFor(p) : r.payload = KeptPresentation(p)},
                          number |-> NextNumber({r.number : r \in RowsFor(p)})])
      BY <1>1 DEF OpenPresentation
    <2>6. /\ {r \in RowsFor(p) : r.payload = KeptPresentation(p)} = SameScreens(rows, doc)
          /\ {r.number : r \in RowsFor(p)} = NumbersOf(rows)
      BY <2>4 DEF SameScreens, NumbersOf
    <2> QED BY <2>2, <2>3, <2>5, <2>6
  <1>2. ASSUME NEW t \in Tabs, CommitPresentation(t) PROVE ScreensStand'
    <2> DEFINE doc == request[t].doc
               p == Screens[doc]
               read == request[t].read
               rows == ScreenRows(presentations, doc)
               row == [snapshot |-> <<p.result, p.version>>, kind |-> p.kind, number |-> read.number,
                       payload |-> KeptPresentation(p), at |-> Cardinality(presentations) + 1]
    <2>1. IsOpen(t, "PRESENTATION") /\ request[t].op = "PRESENTATION"
      BY <1>2 DEF CommitPresentation, Is, IsOpen
    <2>2. read.same = SameScreens(rows, doc) /\ read.number = NextNumber(NumbersOf(rows))
      BY <2>1 DEF ScreensStand, ScreenReads
    <2>3. RowsFor(p) = rows
      BY DEF RowsFor, ScreenRows, ScreensOf, ScreenKey
    <2>4. ByNumber(rows)
      <3>1. CASE rows = {}
        BY <3>1, NoRows
      <3>2. ASSUME NEW r \in rows PROVE ByNumber(rows)
        <4>1. r \in presentations /\ r.snapshot = ScreenKey(doc) /\ r.kind = p.kind
          BY <3>2 DEF ScreenRows, ScreensOf
        <4> QED BY <4>1 DEF ScreensStand, ScreenRows
      <3> QED BY <3>1, <3>2
    <2>5. /\ row.snapshot = ScreenKey(doc) /\ row.kind = p.kind /\ row.number = read.number
          /\ row.payload = KeptPresentation(p)
      BY DEF ScreenKey
    <2>6. /\ read.number = Cardinality(rows) + 1
          /\ \A r \in rows : r.number # read.number
      BY <2>2, <2>4, RowKeepsNumbers DEF NumbersOf
    <2>7. \/ read.same # {} /\ presentations' = presentations /\ AnswerAs(t, "STORED")
          \/ /\ read.same = {} /\ \E r \in rows : r.number = row.number \/ r.payload = row.payload
          \/ presentations' = presentations \cup {row} /\ AnswerAs(t, "CREATED")
      BY <1>2, <2>3 DEF CommitPresentation
    <2> HIDE DEF row
    <2>8. read.same = {} => ~(\E r \in rows : r.number = row.number \/ r.payload = row.payload)
      BY <2>2, <2>5, <2>6 DEF SameScreens
    <2>9. CASE presentations' = presentations /\ AnswerAs(t, "STORED")
      <3>1. OneTab(t) /\ request'[t].step = "answered" /\ request'[t].answer = "STORED"
        BY <1>0, <2>9, Answered
      <3> QED BY <2>9, <3>1, ScreensUntouched DEF IsOpen, Violated, OneTab
    <2>10. CASE presentations' = presentations \cup {row} /\ AnswerAs(t, "CREATED")
      <3>1. OneTab(t) /\ request'[t].step = "answered" /\ request'[t].answer = "CREATED"
        BY <1>0, <2>10, Answered
      <3>2. ScreenRows(presentations', doc) = rows \cup {row}
        BY <2>5, <2>10 DEF ScreenRows, ScreensOf
      <3>3. ByNumber(rows \cup {row})
        BY <2>4, <2>5, <2>6, RowKeepsNumbers
      <3>4. ASSUME NEW r \in presentations' PROVE ByNumber(ScreensOf(presentations', r.snapshot, r.kind))
        <4>1. CASE r.snapshot = ScreenKey(doc) /\ r.kind = p.kind
          BY <3>2, <3>3, <4>1 DEF ScreenRows
        <4>2. CASE ~(r.snapshot = ScreenKey(doc) /\ r.kind = p.kind)
          <5>1. ScreensOf(presentations', r.snapshot, r.kind) = ScreensOf(presentations, r.snapshot, r.kind)
            BY <2>5, <2>10, <4>2 DEF ScreensOf
          <5>2. r \in presentations
            BY <2>5, <2>10, <4>2
          <5> QED BY <5>1, <5>2 DEF ScreensStand
        <4> QED BY <4>1, <4>2
      <3>5. ASSUME NEW u \in Tabs, IsOpen(u, "PRESENTATION")'
            PROVE  IsOpen(u, "PRESENTATION") /\ u # t /\ request'[u] = request[u]
        BY <3>1, <3>5 DEF IsOpen, OneTab
      <3>6. ASSUME NEW u \in Tabs, IsOpen(u, "PRESENTATION")'
            PROVE  ScreenReads(request'[u], ScreenRows(presentations', request'[u].doc))
        <4> DEFINE other == request[u].doc
        <4>1. ScreenLock(other) # ScreenLock(doc) /\ request'[u] = request[u] /\ IsOpen(u, "PRESENTATION")
          BY <2>1, <3>5, <3>6 DEF ScreensStand
        <4>2. ~(ScreenKey(other) = ScreenKey(doc) /\ Screens[other].kind = p.kind)
          BY <4>1, ScreenLocks
        <4>3. ScreenRows(presentations', other) = ScreenRows(presentations, other)
          BY <2>5, <2>10, <4>2 DEF ScreenRows, ScreensOf
        <4> QED BY <4>1, <4>3 DEF ScreensStand
      <3>7. \A u \in Tabs : request'[u].op = "PRESENTATION" => ~Violated(u)'
        BY <3>1 DEF ScreensStand, Violated, OneTab
      <3> QED BY <3>4, <3>5, <3>6, <3>7 DEF ScreensStand
    <2> QED BY <2>7, <2>8, <2>9, <2>10
  <1>3. CASE Frame("PRESENTATION") /\ UNCHANGED presentations
    <2>1. ASSUME NEW t \in Tabs
          PROVE  /\ IsOpen(t, "PRESENTATION")' => IsOpen(t, "PRESENTATION") /\ request'[t] = request[t]
                 /\ request'[t].op = "PRESENTATION" /\ Violated(t)' => request'[t] = request[t]
      BY <1>3 DEF Frame, Rests, IsOpen, Violated
    <2> QED BY <1>3, <2>1, ScreensUntouched
  <1> QED BY <1>0, <1>1, <1>2, <1>3 DEF Framed

(* ------------------------------- reports ------------------------------ *)
ReportsOf(rows, result, kind) == {q \in rows : q.snapshot.result = result /\ q.kind = kind}
ReportRows(rows, doc) == ReportsOf(rows, ResultOf(doc), Reports[doc].kind)
ReportLock(doc) == LockOf("REPORT", doc)

\* Reports of a result and kind are numbered 1 to n over all snapshots of the result;
\* the advisory lock of both keeps the number an open transaction has read.
ReportsStand ==
  /\ \A r \in reports : ByNumber(ReportsOf(reports, r.snapshot.result, r.kind))
  /\ \A t, u \in Tabs :
       IsOpen(t, "REPORT") /\ IsOpen(u, "REPORT")
         /\ ReportLock(request[t].doc) = ReportLock(request[u].doc) => t = u
  /\ \A t \in Tabs : IsOpen(t, "REPORT") =>
       request[t].read[2] = NextNumber(NumbersOf(ReportRows(reports, request[t].doc)))
  /\ \A t \in Tabs : request[t].op = "REPORT" => ~Violated(t)

\* Reports of one result and kind have one lock, and others another.
LEMMA ReportLocks ==
  ASSUME NEW d, NEW e
  PROVE  /\ ReportLock(d) # <<>>
         /\ ResultOf(d) = ResultOf(e) /\ Reports[d].kind = Reports[e].kind => ReportLock(d) = ReportLock(e)
  BY DEF ReportLock, LockOf, ResultOf

\* allocate_report_version gives the next number of the result and kind.
LEMMA VersionIsNext ==
  ASSUME NEW rows, NEW doc
  PROVE  ReportVersion(rows, ResultOf(doc), Reports[doc].kind) = NextNumber(NumbersOf(ReportRows(rows, doc)))
  BY DEF ReportVersion, NextNumber, NumbersOf, ReportRows, ReportsOf

\* Where the reports stay, open transactions stay and no answer is a violation anew,
\* they stand.
LEMMA ReportsUntouched ==
  ASSUME ReportsStand, reports' = reports,
         \A t \in Tabs : /\ IsOpen(t, "REPORT")' => IsOpen(t, "REPORT") /\ request'[t] = request[t]
                         /\ request'[t].op = "REPORT" /\ Violated(t)' => request'[t] = request[t]
  PROVE  ReportsStand'
  <1>1. ASSUME NEW t \in Tabs, request'[t].op = "REPORT", Violated(t)' PROVE FALSE
    BY <1>1 DEF ReportsStand, Violated
  <1> QED BY <1>1 DEF ReportsStand

\* Reports keep standing (append_report, in one transaction with its version).
LEMMA ReportsStay ==
  Shape /\ ReportsStand /\ [Next]_vars => ReportsStand'
  <1> SUFFICES ASSUME Shape, ReportsStand, [Next]_vars PROVE ReportsStand'
    OBVIOUS
  <1>0. Shape' /\ Framed /\ RequestShape
    BY Frames DEF Shape
  <1>1. ASSUME NEW t \in Tabs, OpenReport(t) PROVE ReportsStand'
    <2> DEFINE doc == request[t].doc
               next == ReportVersion(reports, ResultOf(doc), Reports[doc].kind)
    <2>1. reports' = reports /\ request[t].op = "REPORT" /\ LockFree(t)
      BY <1>1 DEF OpenReport, Begins, tables, Is
    <2>2. PICK asset \in Assets : OpenWith(t, <<asset, next>>)
      BY <1>1 DEF OpenReport
    <2> HIDE DEF next
    <2>3. OneTab(t) /\ request'[t].step = "open" /\ request'[t].doc = doc /\ request'[t].read[2] = next
      BY <1>0, <2>2, Opened
    <2>4. \A u \in Tabs \ {t} : IsOpen(u, "REPORT") => ReportLock(request[u].doc) # ReportLock(doc)
      <3>1. LockOf(request[t].op, request[t].doc) = ReportLock(doc)
        BY <2>1 DEF ReportLock
      <3>2. \A u \in Tabs \ {t} : request[u].step = "open" => LockOf(request[u].op, request[u].doc) # ReportLock(doc)
        BY <2>1, <3>1, ReportLocks DEF LockFree
      <3> QED BY <3>2 DEF IsOpen, ReportLock
    <2>5. request'[t].read[2] = NextNumber(NumbersOf(ReportRows(reports', request'[t].doc)))
      BY <2>1, <2>3, VersionIsNext DEF next
    <2>6. \A u \in Tabs : u # t => request'[u] = request[u] /\ (IsOpen(u, "REPORT")' <=> IsOpen(u, "REPORT"))
      BY <2>3 DEF IsOpen, OneTab
    <2>7. (\A u \in Tabs : u # t => (Violated(u)' <=> Violated(u))) /\ ~Violated(t)'
      BY <2>3 DEF Violated, OneTab
    <2> QED BY <2>1, <2>3, <2>4, <2>5, <2>6, <2>7 DEF ReportsStand
  <1>2. ASSUME NEW t \in Tabs, CommitReport(t) PROVE ReportsStand'
    <2> DEFINE doc == request[t].doc
               rows == ReportRows(reports, doc)
               fresh == [result |-> ResultOf(doc), doc |-> doc, asset |-> request[t].read[1]]
               there == {s \in ReportSnapshots : s.result = fresh.result /\ Payload[s.doc] = Payload[doc]}
               snapshot == IF there = {} THEN fresh ELSE CHOOSE s \in there : TRUE
               row == [snapshot |-> snapshot, kind |-> Reports[doc].kind, number |-> request[t].read[2],
                       manifest |-> ModelManifest(Capability, Reports[doc].ai)]
    <2>1. IsOpen(t, "REPORT") /\ request[t].op = "REPORT"
      BY <1>2 DEF CommitReport, Is, IsOpen
    <2>2. request[t].read[2] = NextNumber(NumbersOf(rows))
      BY <2>1 DEF ReportsStand
    <2>3. snapshot.result = ResultOf(doc)
      <3>1. fresh.result = ResultOf(doc)
        OBVIOUS
      <3>2. ASSUME there # {} PROVE (CHOOSE s \in there : TRUE).result = ResultOf(doc)
        <4>1. (CHOOSE s \in there : TRUE) \in there
          BY <3>2
        <4> QED BY <3>1, <4>1
      <3> QED BY <3>1, <3>2
    <2>4. ByNumber(rows)
      <3>1. CASE rows = {}
        BY <3>1, NoRows
      <3>2. ASSUME NEW r \in rows PROVE ByNumber(rows)
        <4>1. r \in reports /\ r.snapshot.result = ResultOf(doc) /\ r.kind = Reports[doc].kind
          BY <3>2 DEF ReportRows, ReportsOf
        <4> QED BY <4>1 DEF ReportsStand, ReportRows
      <3> QED BY <3>1, <3>2
    <2>5. /\ row.snapshot.result = ResultOf(doc) /\ row.kind = Reports[doc].kind
          /\ row.number = request[t].read[2]
      BY <2>3
    <2>6. row.number = Cardinality(rows) + 1 /\ \A r \in rows : r.number # row.number
      BY <2>2, <2>4, <2>5, RowKeepsNumbers DEF NumbersOf
    <2>7. ~(\E r \in reports : r.snapshot = row.snapshot /\ r.kind = row.kind /\ r.number = row.number)
      BY <2>5, <2>6 DEF ReportRows, ReportsOf
    <2>8. \/ reports' = reports /\ AnswerAs(t, "CONFLICT")
          \/ reports' = reports \cup {row} /\ AnswerAs(t, "CREATED")
      BY <1>2, <2>7 DEF CommitReport
    <2> HIDE DEF row
    <2>9. CASE reports' = reports /\ AnswerAs(t, "CONFLICT")
      <3>1. OneTab(t) /\ request'[t].step = "answered" /\ request'[t].answer = "CONFLICT"
        BY <1>0, <2>9, Answered
      <3> QED BY <2>9, <3>1, ReportsUntouched DEF IsOpen, Violated, OneTab
    <2>10. CASE reports' = reports \cup {row} /\ AnswerAs(t, "CREATED")
      <3>1. OneTab(t) /\ request'[t].step = "answered" /\ request'[t].answer = "CREATED"
        BY <1>0, <2>10, Answered
      <3>2. ReportRows(reports', doc) = rows \cup {row}
        BY <2>5, <2>10 DEF ReportRows, ReportsOf
      <3>3. ByNumber(rows \cup {row})
        BY <2>4, <2>6, RowKeepsNumbers
      <3>4. ASSUME NEW r \in reports' PROVE ByNumber(ReportsOf(reports', r.snapshot.result, r.kind))
        <4>1. CASE r.snapshot.result = ResultOf(doc) /\ r.kind = Reports[doc].kind
          BY <3>2, <3>3, <4>1 DEF ReportRows
        <4>2. CASE ~(r.snapshot.result = ResultOf(doc) /\ r.kind = Reports[doc].kind)
          <5>1. ReportsOf(reports', r.snapshot.result, r.kind) = ReportsOf(reports, r.snapshot.result, r.kind)
            BY <2>5, <2>10, <4>2 DEF ReportsOf
          <5>2. r \in reports
            BY <2>5, <2>10, <4>2
          <5> QED BY <5>1, <5>2 DEF ReportsStand
        <4> QED BY <4>1, <4>2
      <3>5. ASSUME NEW u \in Tabs, IsOpen(u, "REPORT")'
            PROVE  IsOpen(u, "REPORT") /\ u # t /\ request'[u] = request[u]
        BY <3>1, <3>5 DEF IsOpen, OneTab
      <3>6. ASSUME NEW u \in Tabs, IsOpen(u, "REPORT")'
            PROVE  request'[u].read[2] = NextNumber(NumbersOf(ReportRows(reports', request'[u].doc)))
        <4> DEFINE other == request[u].doc
        <4>1. ReportLock(other) # ReportLock(doc) /\ request'[u] = request[u] /\ IsOpen(u, "REPORT")
          BY <2>1, <3>5, <3>6 DEF ReportsStand
        <4>2. ~(ResultOf(other) = ResultOf(doc) /\ Reports[other].kind = Reports[doc].kind)
          BY <4>1, ReportLocks
        <4>3. ReportRows(reports', other) = ReportRows(reports, other)
          BY <2>5, <2>10, <4>2 DEF ReportRows, ReportsOf
        <4> QED BY <4>1, <4>3 DEF ReportsStand
      <3>7. \A u \in Tabs : request'[u].op = "REPORT" => ~Violated(u)'
        BY <3>1 DEF ReportsStand, Violated, OneTab
      <3> QED BY <3>4, <3>5, <3>6, <3>7 DEF ReportsStand
    <2> QED BY <2>8, <2>9, <2>10
  <1>3. CASE Frame("REPORT") /\ UNCHANGED reports
    <2>1. ASSUME NEW t \in Tabs
          PROVE  /\ IsOpen(t, "REPORT")' => IsOpen(t, "REPORT") /\ request'[t] = request[t]
                 /\ request'[t].op = "REPORT" /\ Violated(t)' => request'[t] = request[t]
      BY <1>3 DEF Frame, Rests, IsOpen, Violated
    <2> QED BY <1>3, <2>1, ReportsUntouched
  <1> QED BY <1>0, <1>1, <1>2, <1>3 DEF Framed

(* ------------------------------- criteria ----------------------------- *)
VersionsOf(rows) == {p.version : p \in rows}
ProfileRows(rows, doc) == RowsOf(rows, Criteria[doc].owner, Criteria[doc].name)
CriteriaLock(doc) == LockOf("CRITERIA", doc)

\* Profiles of an owner and name have the versions 1 to n, an id is of one profile, and
\* the advisory lock of both keeps the version an open transaction has read.
ProfilesStand ==
  /\ \A p \in profiles : ByVersion(RowsOf(profiles, p.owner, p.name)) /\ p.id = <<p.owner, p.name, p.version>>
  /\ \A p, q \in profiles : p.id = q.id => p = q
  /\ \A t, u \in Tabs :
       IsOpen(t, "CRITERIA") /\ IsOpen(u, "CRITERIA")
         /\ CriteriaLock(request[t].doc) = CriteriaLock(request[u].doc) => t = u
  /\ \A t \in Tabs : IsOpen(t, "CRITERIA") =>
       request[t].read = NextNumber(VersionsOf(ProfileRows(profiles, request[t].doc)))
  /\ \A t \in Tabs : request[t].op \in {"CRITERIA", "SELECT"} => ~Violated(t)

\* Criteria of one owner and name have one lock, and others another.
LEMMA CriteriaLocks ==
  ASSUME NEW d, NEW e
  PROVE  /\ CriteriaLock(d) # <<>>
         /\ Criteria[d].owner = Criteria[e].owner /\ Criteria[d].name = Criteria[e].name =>
              CriteriaLock(d) = CriteriaLock(e)
  BY DEF CriteriaLock, LockOf

\* Where the profiles stay, open transactions stay and no answer is a violation anew,
\* they stand.
LEMMA ProfilesUntouched ==
  ASSUME ProfilesStand, profiles' = profiles,
         \A t \in Tabs : /\ IsOpen(t, "CRITERIA")' => IsOpen(t, "CRITERIA") /\ request'[t] = request[t]
                         /\ request'[t].op \in {"CRITERIA", "SELECT"} /\ Violated(t)' => request'[t] = request[t]
  PROVE  ProfilesStand'
  <1>1. ASSUME NEW t \in Tabs, request'[t].op \in {"CRITERIA", "SELECT"}, Violated(t)' PROVE FALSE
    BY <1>1 DEF ProfilesStand, Violated
  <1> QED BY <1>1 DEF ProfilesStand

\* Profiles keep standing (AssessmentCriteriaRepository.append).
LEMMA ProfilesStay ==
  Shape /\ ProfilesStand /\ [Next]_vars => ProfilesStand' /\ profiles \subseteq profiles'
  <1> SUFFICES ASSUME Shape, ProfilesStand, [Next]_vars PROVE ProfilesStand' /\ profiles \subseteq profiles'
    OBVIOUS
  <1>0. Shape' /\ Framed /\ RequestShape
    BY Frames DEF Shape
  <1>1. ASSUME NEW t \in Tabs, OpenCriteria(t) PROVE ProfilesStand' /\ profiles \subseteq profiles'
    <2> DEFINE doc == request[t].doc
               rows == ProfileRows(profiles, doc)
    <2>1. profiles' = profiles /\ request[t].op = "CRITERIA" /\ LockFree(t)
      BY <1>1 DEF OpenCriteria, Begins, tables, Is
    <2>2. OpenWith(t, NextNumber(VersionsOf(rows)))
      BY <1>1 DEF OpenCriteria, ProfileRows, VersionsOf
    <2>3. /\ OneTab(t) /\ request'[t].step = "open" /\ request'[t].doc = doc
          /\ request'[t].read = NextNumber(VersionsOf(rows))
      BY <1>0, <2>2, Opened
    <2>4. \A u \in Tabs \ {t} : IsOpen(u, "CRITERIA") => CriteriaLock(request[u].doc) # CriteriaLock(doc)
      <3>1. LockOf(request[t].op, request[t].doc) = CriteriaLock(doc)
        BY <2>1 DEF CriteriaLock
      <3>2. \A u \in Tabs \ {t} : request[u].step = "open" => LockOf(request[u].op, request[u].doc) # CriteriaLock(doc)
        BY <2>1, <3>1, CriteriaLocks DEF LockFree
      <3> QED BY <3>2 DEF IsOpen, CriteriaLock
    <2>5. \A u \in Tabs : u # t => request'[u] = request[u] /\ (IsOpen(u, "CRITERIA")' <=> IsOpen(u, "CRITERIA"))
      BY <2>3 DEF IsOpen, OneTab
    <2>6. (\A u \in Tabs : u # t => (Violated(u)' <=> Violated(u))) /\ ~Violated(t)'
      BY <2>3 DEF Violated, OneTab
    <2> QED BY <2>1, <2>3, <2>4, <2>5, <2>6 DEF ProfilesStand
  <1>2. ASSUME NEW t \in Tabs, CommitCriteria(t) PROVE ProfilesStand' /\ profiles \subseteq profiles'
    <2> DEFINE doc == request[t].doc
               c == Criteria[doc]
               number == request[t].read
               rows == ProfileRows(profiles, doc)
               row == [id |-> <<c.owner, c.name, number>>, owner |-> c.owner, name |-> c.name,
                       version |-> number, values |-> NormalizedValues(c.values)]
               selected == Asked("SELECT", SelectionRequest("PERSONAL", row.id, "CRITERIA_PAGE", <<>>))
    <2>1. IsOpen(t, "CRITERIA") /\ request[t].op = "CRITERIA"
      BY <1>2 DEF CommitCriteria, Is, IsOpen
    <2>2. number = NextNumber(VersionsOf(rows))
      BY <2>1 DEF ProfilesStand
    <2>3. ByVersion(rows)
      <3>1. CASE rows = {}
        BY <3>1, NoRows
      <3>2. ASSUME NEW r \in rows PROVE ByVersion(rows)
        <4>1. r \in profiles /\ r.owner = c.owner /\ r.name = c.name
          BY <3>2 DEF ProfileRows, RowsOf
        <4> QED BY <4>1 DEF ProfilesStand, ProfileRows
      <3> QED BY <3>1, <3>2
    <2>4. /\ row.owner = c.owner /\ row.name = c.name /\ row.version = number
          /\ row.id = <<row.owner, row.name, row.version>>
      OBVIOUS
    <2>5. number = Cardinality(rows) + 1 /\ \A r \in rows : r.version # number
      BY <2>2, <2>3, RowKeepsVersions DEF VersionsOf
    <2>6. ~(\E p \in profiles : p.id = row.id)
      <3>1. ASSUME NEW p \in profiles, p.id = row.id PROVE FALSE
        <4>1. p.owner = c.owner /\ p.name = c.name /\ p.version = number
          BY <2>4, <3>1 DEF ProfilesStand
        <4> QED BY <2>5, <4>1 DEF ProfileRows, RowsOf
      <3> QED BY <3>1
    <2>7. /\ profiles' = profiles \cup {row}
          /\ AnswerAs(t, "CREATED") \/ request' = [request EXCEPT ![t] = selected]
      BY <1>2, <2>6 DEF CommitCriteria
    <2> HIDE DEF row
    <2>8. OneTab(t) /\ ~IsOpen(t, "CRITERIA")' /\ ~Violated(t)'
      <3>1. CASE AnswerAs(t, "CREATED")
        BY <1>0, <3>1, Answered DEF IsOpen, Violated
      <3>2. CASE request' = [request EXCEPT ![t] = selected]
        BY <1>0, <3>2, AsksAnew DEF IsOpen, Violated
      <3> QED BY <2>7, <3>1, <3>2
    <2>9. ProfileRows(profiles', doc) = rows \cup {row}
      BY <2>4, <2>7 DEF ProfileRows, RowsOf
    <2>10. ByVersion(rows \cup {row})
      BY <2>3, <2>4, <2>5, RowKeepsVersions
    <2>11. ASSUME NEW r \in profiles'
           PROVE  ByVersion(RowsOf(profiles', r.owner, r.name)) /\ r.id = <<r.owner, r.name, r.version>>
      <3>1. CASE r.owner = c.owner /\ r.name = c.name
        <4>1. ByVersion(RowsOf(profiles', r.owner, r.name))
          BY <2>9, <2>10, <3>1 DEF ProfileRows
        <4> QED BY <2>4, <2>7, <4>1 DEF ProfilesStand
      <3>2. CASE ~(r.owner = c.owner /\ r.name = c.name)
        <4>1. RowsOf(profiles', r.owner, r.name) = RowsOf(profiles, r.owner, r.name)
          BY <2>4, <2>7, <3>2 DEF RowsOf
        <4>2. r \in profiles
          BY <2>4, <2>7, <3>2
        <4> QED BY <4>1, <4>2 DEF ProfilesStand
      <3> QED BY <3>1, <3>2
    <2>12. \A p, q \in profiles' : p.id = q.id => p = q
      BY <2>6, <2>7 DEF ProfilesStand
    <2>13. ASSUME NEW u \in Tabs, IsOpen(u, "CRITERIA")'
           PROVE  IsOpen(u, "CRITERIA") /\ u # t /\ request'[u] = request[u]
      BY <2>8, <2>13 DEF IsOpen, OneTab
    <2>14. ASSUME NEW u \in Tabs, IsOpen(u, "CRITERIA")'
           PROVE  request'[u].read = NextNumber(VersionsOf(ProfileRows(profiles', request'[u].doc)))
      <3> DEFINE other == request[u].doc
      <3>1. CriteriaLock(other) # CriteriaLock(doc) /\ request'[u] = request[u] /\ IsOpen(u, "CRITERIA")
        BY <2>1, <2>13, <2>14 DEF ProfilesStand
      <3>2. ~(Criteria[other].owner = c.owner /\ Criteria[other].name = c.name)
        BY <3>1, CriteriaLocks
      <3>3. ProfileRows(profiles', other) = ProfileRows(profiles, other)
        BY <2>4, <2>7, <3>2 DEF ProfileRows, RowsOf
      <3> QED BY <3>1, <3>3 DEF ProfilesStand
    <2>15. \A u \in Tabs : request'[u].op \in {"CRITERIA", "SELECT"} => ~Violated(u)'
      BY <2>8 DEF ProfilesStand, Violated, OneTab
    <2> QED BY <2>7, <2>11, <2>12, <2>13, <2>14, <2>15 DEF ProfilesStand
  <1>3. ASSUME NEW t \in Tabs, CommitSelection(t) \/ OpenSelection(t) PROVE ~Violated(t)' /\ OneTab(t)
    <2>1. \/ \E read : OpenWith(t, read)
          \/ \E code \in {"REFUSED", "SELECTED"} : AnswerAs(t, code)
      BY <1>3 DEF CommitSelection, OpenSelection
    <2> QED BY <1>0, <2>1, Opened, Answered DEF Violated
  <1>4. CASE Frame("CRITERIA") /\ UNCHANGED profiles
    <2>1. ASSUME NEW t \in Tabs
          PROVE  /\ IsOpen(t, "CRITERIA")' => IsOpen(t, "CRITERIA") /\ request'[t] = request[t]
                 /\ request'[t].op = "CRITERIA" /\ Violated(t)' => request'[t] = request[t]
      BY <1>4 DEF Frame, Rests, IsOpen, Violated
    <2>2. ASSUME NEW t \in Tabs, request'[t].op = "SELECT" /\ Violated(t)' PROVE request'[t] = request[t]
      <3>1. CASE Frame("SELECT")
        BY <2>2, <3>1 DEF Frame, Rests, Violated
      <3>2. CASE \E u \in Tabs : OpenSelection(u) \/ CommitSelection(u)
        BY <1>3, <2>2, <3>2 DEF OneTab
      <3> QED BY <1>0, <3>1, <3>2 DEF Framed
    <2> QED BY <1>4, <2>1, <2>2, ProfilesUntouched
  <1> QED BY <1>0, <1>1, <1>2, <1>4 DEF Framed

(* ------------------------------ selections ---------------------------- *)
\* An accepted list of checks has none that rejects (select, _stream_request).
LEMMA AcceptedPassesAll ==
  ASSUME NEW checks, NEW n \in 1..4, DOMAIN checks = 1..n,
         \A i \in 1..n : checks[i].code # Accepted,
         FirstRejection(checks) = Accepted
  PROVE  \A i \in 1..n : ~checks[i].rejects
  <1> DEFINE failing == {i \in DOMAIN checks : checks[i].rejects}
             first == CHOOSE i \in failing : \A j \in failing : i <= j
  <1> SUFFICES ASSUME failing # {} PROVE FALSE
    OBVIOUS
  <1>1. checks[first].code = Accepted
    BY DEF FirstRejection
  <1>2. failing \subseteq 1..n /\ n <= 4
    OBVIOUS
  <1>3. \E i \in failing : \A j \in failing : i <= j
    <2>1. CASE 1 \in failing
      BY <1>2, <2>1
    <2>2. CASE 1 \notin failing /\ 2 \in failing
      BY <1>2, <2>2
    <2>3. CASE 1 \notin failing /\ 2 \notin failing /\ 3 \in failing
      BY <1>2, <2>3
    <2>4. CASE 1 \notin failing /\ 2 \notin failing /\ 3 \notin failing
      BY <1>2, <2>4
    <2> QED BY <2>1, <2>2, <2>3, <2>4
  <1>4. first \in failing
    BY <1>3
  <1> QED BY <1>1, <1>2, <1>4

\* What a selection that is accepted fulfils.
LEMMA AcceptedSelection ==
  ASSUME NEW seen, NEW kind, NEW profile, NEW expected,
         FirstRejection(SelectChecks(seen, User, kind, profile, expected)) = Accepted
  PROVE  /\ profile = NoProfile \/ GetPersonal(seen, User, profile) # {}
         /\ \A j \in DOMAIN expected :
              expected[j] = CriteriaDigest(CriteriaOf(seen, kind, GetPersonal(seen, User, profile)))
  <1> DEFINE personal == GetPersonal(seen, User, profile)
             digest == CriteriaDigest(CriteriaOf(seen, kind, personal))
             missing == kind = "PERSONAL" /\ personal = {}
             surplus == kind # "PERSONAL" /\ profile # NoProfile
             changed == \E i \in DOMAIN expected : expected[i] # digest
             checks == <<Check(kind = "PERSONAL" /\ profile = NoProfile, "PROFILE_REQUIRED"),
                         Check(missing, "PROFILE_NOT_FOUND"),
                         Check(surplus, "KIND_TAKES_NO_PROFILE"),
                         Check(changed, "CRITERIA_CHANGED")>>
  <1>1. FirstRejection(checks) = Accepted
    BY DEF SelectChecks
  <1> HIDE DEF missing, surplus, changed
  <1>2. DOMAIN checks = 1..4 /\ \A i \in 1..4 : checks[i].code # Accepted
    BY DEF Check, Accepted
  <1>3. /\ checks[2].rejects = missing /\ checks[3].rejects = surplus /\ checks[4].rejects = changed
    BY DEF Check
  <1> HIDE DEF checks
  <1>4. ~checks[2].rejects /\ ~checks[3].rejects /\ ~checks[4].rejects
    BY <1>1, <1>2, AcceptedPassesAll
  <1>5. ~missing /\ ~surplus /\ ~changed
    BY <1>3, <1>4
  <1> QED BY <1>5 DEF missing, surplus, changed

\* Profiles have ids of three parts, each of one profile.
Identified(rows) ==
  /\ \A p \in rows : p.id = <<p.owner, p.name, p.version>>
  /\ \A p, q \in rows : p.id = q.id => p = q

Known(profile, rows) == profile = NoProfile \/ \E p \in rows : p.owner = User /\ p.id = profile

\* A selection can be computed again from these profiles.
Recomputed(s, rows) ==
  \E o \in {{}} \cup {{p} : p \in {q \in rows : q.owner = Nobody}} :
    s.digest = CriteriaDigest(BuildEffective(
      IF s.kind = "KISA_DEFAULT" THEN NoValues ELSE ValuesIn(o), ValuesIn(GetPersonal(rows, User, s.profile))))

Reproducible(s, rows) == Known(s.profile, rows) /\ Recomputed(s, rows)

\* Profiles that come later do not change what an id names.
LEMMA LaterProfilesKeepIds ==
  ASSUME NEW rows, NEW more, rows \subseteq more, Identified(more), NEW profile, Known(profile, rows)
  PROVE  GetPersonal(more, User, profile) = GetPersonal(rows, User, profile)
  <1>1. CASE profile = NoProfile
    <2>1. \A p \in more : p.id # NoProfile
      BY DEF Identified, NoProfile
    <2> QED BY <1>1, <2>1 DEF GetPersonal
  <1>2. CASE \E p \in rows : p.owner = User /\ p.id = profile
    <2>1. PICK p \in rows : p.owner = User /\ p.id = profile
      BY <1>2
    <2>2. \A q \in more : q.id = profile => q = p
      BY <2>1 DEF Identified
    <2> QED BY <2>1, <2>2 DEF GetPersonal
  <1> QED BY <1>1, <1>2 DEF Known

\* A selection stays reproducible.
LEMMA StaysReproducible ==
  ASSUME NEW rows, NEW more, rows \subseteq more, Identified(more), NEW s, Reproducible(s, rows)
  PROVE  Reproducible(s, more)
  <1>1. Known(s.profile, more)
    BY DEF Reproducible, Known
  <1>2. GetPersonal(more, User, s.profile) = GetPersonal(rows, User, s.profile)
    BY LaterProfilesKeepIds DEF Reproducible
  <1>3. PICK o \in {{}} \cup {{p} : p \in {q \in rows : q.owner = Nobody}} :
          s.digest = CriteriaDigest(BuildEffective(
            IF s.kind = "KISA_DEFAULT" THEN NoValues ELSE ValuesIn(o), ValuesIn(GetPersonal(rows, User, s.profile))))
    BY DEF Reproducible, Recomputed
  <1>4. o \in {{}} \cup {{p} : p \in {q \in more : q.owner = Nobody}}
    OBVIOUS
  <1> QED BY <1>1, <1>2, <1>3, <1>4 DEF Reproducible, Recomputed

\* What is computed for a selection is reproducible from the profiles it has seen.
LEMMA ComputedIsReproducible ==
  ASSUME NEW seen, NEW s, Known(s.profile, seen),
         s.digest = CriteriaDigest(CriteriaOf(seen, s.kind, GetPersonal(seen, User, s.profile)))
  PROVE  Reproducible(s, seen)
  <1> DEFINE latest == LatestOrganization(seen)
             p == CHOOSE q \in latest : TRUE
             o == IF latest = {} THEN {} ELSE {p}
  <1>1. latest \subseteq {q \in seen : q.owner = Nobody}
    BY DEF LatestOrganization, LatestOf
  <1>2. o \in {{}} \cup {{q} : q \in {r \in seen : r.owner = Nobody}}
    BY <1>1
  <1>3. ValuesIn(o) = ValuesIn(latest)
    <2>1. CASE latest = {}
      BY <2>1
    <2>2. CASE latest # {}
      <3>1. ValuesIn(latest) = p.values
        BY <2>2 DEF ValuesIn
      <3>2. o = {p}
        BY <2>2
      <3> HIDE DEF p, o
      <3>3. (CHOOSE q \in {p} : TRUE) = p
        OBVIOUS
      <3>4. ValuesIn({p}) = p.values
        BY <3>3 DEF ValuesIn
      <3> QED BY <3>1, <3>2, <3>4
    <2> QED BY <2>1, <2>2
  <1>4. s.digest = CriteriaDigest(BuildEffective(
          IF s.kind = "KISA_DEFAULT" THEN NoValues ELSE ValuesIn(o), ValuesIn(GetPersonal(seen, User, s.profile))))
    BY <1>3 DEF CriteriaOf
  <1> QED BY <1>2, <1>4 DEF Reproducible, Recomputed

\* What an answered selection is to have recorded.
RecordedFor(s, rows) ==
  \E i \in DOMAIN rows :
    /\ rows[i].source = s.source /\ rows[i].profile = s.profile
    /\ \A j \in DOMAIN s.expected : rows[i].digest = s.expected[j]

\* Selections were computed from profiles that are still there, and what is answered
\* as selected is recorded with what the page showed.
SelectionsStand ==
  /\ \A t \in Tabs : IsOpen(t, "SELECT") => request[t].read \subseteq profiles
  /\ \A t \in Tabs : Answers(t, "SELECT", "SELECTED") => RecordedFor(request[t].doc, selections)
  /\ \A i \in DOMAIN selections : Reproducible(selections[i], profiles)

\* Where the selections stay and no answer promises anew, they stand.
LEMMA SelectionsUntouched ==
  ASSUME SelectionsStand, selections' = selections, profiles \subseteq profiles', Identified(profiles'),
         \A t \in Tabs : /\ IsOpen(t, "SELECT")' => IsOpen(t, "SELECT") /\ request'[t] = request[t]
                         /\ Answers(t, "SELECT", "SELECTED")' =>
                              Answers(t, "SELECT", "SELECTED") /\ request'[t] = request[t]
  PROVE  SelectionsStand'
  <1>1. \A i \in DOMAIN selections : Reproducible(selections[i], profiles')
    BY StaysReproducible DEF SelectionsStand
  <1> QED BY <1>1 DEF SelectionsStand

\* Selections keep standing (AssessmentCriteriaService.select).
LEMMA SelectionsStay ==
  Shape /\ ProfilesStand /\ SelectionsStand /\ [Next]_vars => SelectionsStand'
  <1> SUFFICES ASSUME Shape, ProfilesStand, SelectionsStand, [Next]_vars PROVE SelectionsStand'
    OBVIOUS
  <1>0. Shape' /\ Framed /\ RequestShape /\ IsSequence(selections)
    BY Frames DEF Shape
  <1>1. profiles \subseteq profiles' /\ Identified(profiles')
    BY ProfilesStay DEF ProfilesStand, Identified
  <1>2. ASSUME NEW t \in Tabs, OpenSelection(t) PROVE SelectionsStand'
    <2>1. selections' = selections /\ profiles' = profiles /\ OpenWith(t, profiles)
      BY <1>2 DEF OpenSelection, Begins, tables
    <2>2. OneTab(t) /\ request'[t].step = "open" /\ request'[t].read = profiles
      BY <1>0, <2>1, Opened
    <2> QED BY <2>1, <2>2 DEF SelectionsStand, IsOpen, Answers, OneTab
  <1>3. ASSUME NEW t \in Tabs, CommitSelection(t) PROVE SelectionsStand'
    <2> DEFINE s == request[t].doc
               seen == request[t].read
               checks == SelectChecks(seen, User, s.kind, s.profile, s.expected)
               digest == CriteriaDigest(CriteriaOf(seen, s.kind, GetPersonal(seen, User, s.profile)))
               row == [kind |-> s.kind, profile |-> s.profile, source |-> s.source, digest |-> digest]
               next == Len(selections) + 1
    <2>1. seen \subseteq profiles
      BY <1>3 DEF CommitSelection, Is, IsOpen, SelectionsStand
    <2>2. \/ selections' = selections /\ AnswerAs(t, "REFUSED")
          \/ FirstRejection(checks) = Accepted /\ selections' = Append(selections, row) /\ AnswerAs(t, "SELECTED")
      BY <1>3 DEF CommitSelection
    <2>3. CASE selections' = selections /\ AnswerAs(t, "REFUSED")
      <3>1. OneTab(t) /\ request'[t].step = "answered" /\ request'[t].answer = "REFUSED"
        BY <1>0, <2>3, Answered
      <3> QED BY <1>1, <2>3, <3>1, SelectionsUntouched DEF IsOpen, Answers, OneTab
    <2>4. CASE /\ FirstRejection(checks) = Accepted /\ selections' = Append(selections, row)
               /\ AnswerAs(t, "SELECTED")
      <3>1. OneTab(t) /\ request'[t].step = "answered" /\ request'[t].doc = s
        BY <1>0, <2>4, Answered
      <3>2. /\ row.kind = s.kind /\ row.profile = s.profile /\ row.source = s.source /\ row.digest = digest
        OBVIOUS
      <3>3. /\ s.profile = NoProfile \/ GetPersonal(seen, User, s.profile) # {}
            /\ \A j \in DOMAIN s.expected : s.expected[j] = digest
        BY <2>4, AcceptedSelection
      <3> HIDE DEF row, digest
      <3>4. Known(row.profile, seen)
        BY <3>2, <3>3 DEF Known, GetPersonal
      <3>5. Reproducible(row, seen)
        BY <3>2, <3>4, ComputedIsReproducible DEF digest
      <3>6. Reproducible(row, profiles')
        BY <1>1, <2>1, <3>5, StaysReproducible
      <3>7. /\ DOMAIN selections' = DOMAIN selections \cup {next}
            /\ \A i \in DOMAIN selections : selections'[i] = selections[i]
            /\ selections'[next] = row
        BY <1>0, <2>4, AppendGrows
      <3> HIDE DEF next
      <3>8. \A i \in DOMAIN selections' : Reproducible(selections'[i], profiles')
        BY <1>1, <3>6, <3>7, StaysReproducible DEF SelectionsStand
      <3>9. RecordedFor(s, selections')
        BY <3>2, <3>3, <3>7 DEF RecordedFor
      <3>10. ASSUME NEW u \in Tabs, u # t, Answers(u, "SELECT", "SELECTED")'
             PROVE  RecordedFor(request'[u].doc, selections')
        <4>1. request'[u] = request[u] /\ RecordedFor(request[u].doc, selections)
          BY <3>1, <3>10 DEF SelectionsStand, Answers, OneTab
        <4>2. PICK i \in DOMAIN selections :
                /\ selections[i].source = request[u].doc.source /\ selections[i].profile = request[u].doc.profile
                /\ \A j \in DOMAIN request[u].doc.expected : selections[i].digest = request[u].doc.expected[j]
          BY <4>1 DEF RecordedFor
        <4> QED BY <3>7, <4>1, <4>2 DEF RecordedFor
      <3>11. \A u \in Tabs : IsOpen(u, "SELECT")' => request'[u].read \subseteq profiles'
        BY <1>1, <3>1 DEF SelectionsStand, IsOpen, OneTab
      <3> QED BY <3>1, <3>8, <3>9, <3>10, <3>11 DEF SelectionsStand
    <2> QED BY <2>2, <2>3, <2>4
  <1>4. CASE Frame("SELECT") /\ UNCHANGED selections
    <2>1. ASSUME NEW t \in Tabs
          PROVE  /\ IsOpen(t, "SELECT")' => IsOpen(t, "SELECT") /\ request'[t] = request[t]
                 /\ Answers(t, "SELECT", "SELECTED")' => Answers(t, "SELECT", "SELECTED") /\ request'[t] = request[t]
      BY <1>4 DEF Frame, Rests, IsOpen, Answers
    <2> QED BY <1>1, <1>4, <2>1, SelectionsUntouched
  <1> QED BY <1>0, <1>2, <1>3, <1>4 DEF Framed

(* ------------------------------- answers ------------------------------ *)
\* An analysis is one of those there are, and only these kinds of request can be
\* answered with a violation of a unique index.
Aimed(q) ==
  /\ q.op = "ANALYSIS" => q.doc \in DOMAIN Analyses
  /\ q.answer = "VIOLATION" => q.op \in {"POLICY", "PRESENTATION", "REPORT", "CRITERIA"}

Aims == \A t \in Tabs : Aimed(request[t])

\* A step of one tab keeps the others aimed.
LEMMA AimsOf ==
  ASSUME Aims, NEW t \in Tabs, OneTab(t), Aimed(request'[t])
  PROVE  Aims'
  BY DEF Aims, Aimed, OneTab

\* A request that opens, goes on or gets an answer that is no violation keeps its aim.
LEMMA AimKept ==
  ASSUME RequestShape, Aims, NEW t \in Tabs,
         \/ \E read : OpenWith(t, read)
         \/ \E made, lost : Advance(t, made, lost)
         \/ \E code : AnswerAs(t, code) /\
              (code = "VIOLATION" => request[t].op \in {"POLICY", "PRESENTATION", "REPORT", "CRITERIA"})
  PROVE  Aims'
  <1>1. OneTab(t) /\ request'[t].op = request[t].op /\ request'[t].doc = request[t].doc
    BY Opened, Advanced, Answered
  <1>2. \/ request'[t].answer = request[t].answer
        \/ request'[t].answer = "VIOLATION" => request[t].op \in {"POLICY", "PRESENTATION", "REPORT", "CRITERIA"}
    BY Opened, Advanced, Answered
  <1> QED BY <1>1, <1>2, AimsOf DEF Aims, Aimed

\* A tab that asks for anything but an analysis, or for one there is, is aimed.
LEMMA AimAnew ==
  ASSUME RequestShape, Aims, NEW t \in Tabs, NEW op, NEW doc,
         op = "ANALYSIS" => doc \in DOMAIN Analyses,
         request' = [request EXCEPT ![t] = Asked(op, doc)]
  PROVE  Aims'
  <1>1. OneTab(t) /\ request'[t].op = op /\ request'[t].doc = doc
    BY AsksAnew
  <1>2. request'[t].answer = "none"
    BY DEF RequestShape, Asked
  <1> QED BY <1>1, <1>2, AimsOf DEF Aimed

\* Requests stay aimed.
LEMMA AimsStay == Shape /\ Aims /\ [Next]_vars => Aims'
  <1> SUFFICES ASSUME RequestShape, Aims, [Next]_vars PROVE Aims'
    BY DEF Shape
  <1>1. ASSUME NEW t \in Tabs, Ask(t) PROVE Aims'
    <2>1. PICK op, doc :
             /\ op \in DOMAIN Documents
             /\ \/ request' = [request EXCEPT ![t] = Asked(op, doc)]
                \/ request' = [request EXCEPT ![t] = [Asked(op, doc) EXCEPT !.step = "answered", !.answer = "REFUSED"]]
      BY <1>1 DEF Ask
    <2> DEFINE refused == [Asked(op, doc) EXCEPT !.step = "answered", !.answer = "REFUSED"]
    <2>2. op # "ANALYSIS"
      BY <2>1 DEF Documents
    <2>3. refused.op = op /\ refused.answer = "REFUSED" /\ DOMAIN refused = {"op", "doc", "step", "read", "answer"}
      BY DEF Asked
    <2> HIDE DEF refused
    <2>4. CASE request' = [request EXCEPT ![t] = refused]
      BY <2>2, <2>3, <2>4 DEF RequestShape, Aims, Aimed
    <2> QED BY <2>1, <2>2, <2>4, AimAnew DEF refused
  <1>2. ASSUME NEW t \in Tabs, AskDownload(t) PROVE Aims'
    BY <1>2, AimAnew DEF AskDownload
  <1>3. ASSUME NEW t \in Tabs, AskSelection(t) PROVE Aims'
    BY <1>3, AimAnew DEF AskSelection
  <1>4. ASSUME NEW t \in Tabs, AskAnalysis(t) PROVE Aims'
    <2>1. PICK doc \in DOMAIN Analyses, linked \in BOOLEAN :
             request' = [request EXCEPT ![t] = [Asked("ANALYSIS", doc) EXCEPT !.read = linked]]
      BY <1>4 DEF AskAnalysis
    <2> QED BY <2>1, AsksLinked, AimsOf DEF Aimed
  <1>5. ASSUME NEW t \in Tabs, StorageFails(t) PROVE Aims'
    BY <1>5 DEF StorageFails, RequestShape, Aims, Aimed
  <1>6. ASSUME NEW t \in Tabs, OpenPolicy(t) PROVE Aims'
    BY <1>6, AimKept DEF OpenPolicy
  <1>7. ASSUME NEW t \in Tabs, CommitPolicy(t) PROVE Aims'
    BY <1>7, AimKept DEF CommitPolicy, Is
  <1>8. ASSUME NEW t \in Tabs, OpenSnapshot(t) PROVE Aims'
    BY <1>8, AimKept DEF OpenSnapshot
  <1>9. ASSUME NEW t \in Tabs, CommitSnapshot(t) PROVE Aims'
    <2>1. AnswerAs(t, "CREATED") \/ AnswerAs(t, "STORED") \/ AnswerAs(t, "CONFLICT")
      BY <1>9 DEF CommitSnapshot
    <2> QED BY <2>1, AimKept
  <1>10. ASSUME NEW t \in Tabs, OpenPresentation(t) PROVE Aims'
    <2>1. AnswerAs(t, "SNAPSHOT_NOT_FOUND") \/ \E read : OpenWith(t, read)
      BY <1>10 DEF OpenPresentation
    <2> QED BY <2>1, AimKept
  <1>11. ASSUME NEW t \in Tabs, CommitPresentation(t) PROVE Aims'
    <2>1. request[t].op = "PRESENTATION" /\ \E code : AnswerAs(t, code)
      BY <1>11 DEF CommitPresentation, Is
    <2> QED BY <2>1, AimKept
  <1>12. ASSUME NEW t \in Tabs, OpenReport(t) PROVE Aims'
    BY <1>12, AimKept DEF OpenReport
  <1>13. ASSUME NEW t \in Tabs, CommitReport(t) PROVE Aims'
    <2>1. request[t].op = "REPORT" /\ \E code : AnswerAs(t, code)
      BY <1>13 DEF CommitReport, Is
    <2> QED BY <2>1, AimKept
  <1>14. ASSUME NEW t \in Tabs, LoadReport(t) PROVE Aims'
    <2>1. AnswerAs(t, "NOT_FOUND") \/ AnswerAs(t, "DENIED") \/ OpenWith(t, <<>>)
      BY <1>14 DEF LoadReport
    <2> QED BY <2>1, AimKept
  <1>15. ASSUME NEW t \in Tabs, Deliver(t) PROVE Aims'
    BY <1>15, AimKept DEF Deliver
  <1>16. ASSUME NEW t \in Tabs, OpenCriteria(t) PROVE Aims'
    BY <1>16, AimKept DEF OpenCriteria
  <1>17. ASSUME NEW t \in Tabs, CommitCriteria(t) PROVE Aims'
    <2>1. request[t].op = "CRITERIA" /\ \/ \E code : AnswerAs(t, code)
                                        \/ \E doc : request' = [request EXCEPT ![t] = Asked("SELECT", doc)]
      BY <1>17 DEF CommitCriteria, Is
    <2> QED BY <2>1, AimKept, AimAnew
  <1>18. ASSUME NEW t \in Tabs, OpenSelection(t) PROVE Aims'
    BY <1>18, AimKept DEF OpenSelection
  <1>19. ASSUME NEW t \in Tabs, CommitSelection(t) PROVE Aims'
    <2>1. AnswerAs(t, "REFUSED") \/ AnswerAs(t, "SELECTED")
      BY <1>19 DEF CommitSelection
    <2> QED BY <2>1, AimKept
  <1>20. ASSUME NEW t \in Tabs, PrepareAnalysis(t) PROVE Aims'
    <2>1. AnswerAs(t, "FAILED") \/ \E read : OpenWith(t, read)
      BY <1>20 DEF PrepareAnalysis
    <2> QED BY <2>1, AimKept
  <1>21. ASSUME NEW t \in Tabs, RunSection(t) PROVE Aims'
    <2>1. AnswerAs(t, "FAILED") \/ \E made, lost : Advance(t, made, lost)
      BY <1>21 DEF RunSection, Store
    <2> QED BY <2>1, AimKept
  <1>22. ASSUME NEW t \in Tabs, EndAnalysis(t) PROVE Aims'
    <2>1. AnswerAs(t, "COMPLETED") \/ AnswerAs(t, "DISCONNECTED")
      BY <1>22 DEF EndAnalysis
    <2> QED BY <2>1, AimKept
  <1>23. ASSUME UNCHANGED request PROVE Aims'
    BY <1>23 DEF Aims, Aimed
  <1>24. ASSUME NEW t \in Tabs, OpenPage(t) \/ LoadCards(t) PROVE Aims'
    BY <1>23, <1>24 DEF OpenPage, LoadCards
  <1>25. CASE ChangeRole \/ UNCHANGED vars
    BY <1>23, <1>25 DEF ChangeRole, vars
  <1> QED BY <1>1, <1>2, <1>3, <1>4, <1>5, <1>6, <1>7, <1>8, <1>9, <1>10, <1>11, <1>12, <1>13, <1>14, <1>15, <1>16, <1>17, <1>18, <1>19, <1>20, <1>21, <1>22, <1>24, <1>25 DEF Next

(* --------------------------- AI explanations -------------------------- *)
\* What an analysis that has passed a section has of it.
HasSection(doc, section, read, rows) ==
  IF read.linked THEN section \in read.lost \/ CardOf(rows, doc, section) # {}
  ELSE section \in read.made

\* Every section before this one.
SectionsUpTo(next, doc, read, rows) ==
  \A i \in DOMAIN Sections(doc) : i < next => HasSection(doc, Sections(doc)[i], read, rows)

OneCard(rows) == \A o, p \in rows : o.snapshot = p.snapshot /\ o.key = p.key => o = p

\* A section has one card, the cards read back are kept as they were, an analysis
\* has every section it has passed, and a completed one has them all.
OutputsStand ==
  /\ OneCard(outputs)
  /\ \A t \in Tabs : restored[t] \subseteq outputs
  /\ \A t \in Tabs : IsOpen(t, "ANALYSIS") =>
       /\ request[t].read.next \in Nat
       /\ SectionsUpTo(request[t].read.next, request[t].doc, request[t].read, outputs)
  /\ \A t \in Tabs : Answers(t, "ANALYSIS", "COMPLETED") =>
       \A i \in DOMAIN Sections(request[t].doc) :
         HasSection(request[t].doc, Sections(request[t].doc)[i], request[t].read, outputs)

\* Cards that come later take no section away.
LEMMA LaterCardsKeep ==
  ASSUME NEW rows, NEW more, rows \subseteq more, NEW read
  PROVE  /\ \A doc, section : HasSection(doc, section, read, rows) => HasSection(doc, section, read, more)
         /\ \A next, doc : SectionsUpTo(next, doc, read, rows) => SectionsUpTo(next, doc, read, more)
  <1>1. \A doc, section : CardOf(rows, doc, section) \subseteq CardOf(more, doc, section)
    BY DEF CardOf
  <1>2. \A doc, section : HasSection(doc, section, read, rows) => HasSection(doc, section, read, more)
    BY <1>1 DEF HasSection
  <1> QED BY <1>2 DEF SectionsUpTo

\* The insert takes no card away, adds at most the one it is given, and leaves a
\* card of its section (append_windows_ai_output).
LEMMA FirstCardStays ==
  ASSUME OneCard(outputs), NEW card, outputs' = Appended(card)
  PROVE  /\ outputs \subseteq outputs' /\ OneCard(outputs')
         /\ \E o \in outputs' : o.snapshot = card.snapshot /\ o.key = card.key
  <1>1. CASE \E o \in outputs : o.snapshot = card.snapshot /\ o.key = card.key
    BY <1>1 DEF Appended
  <1>2. CASE ~\E o \in outputs : o.snapshot = card.snapshot /\ o.key = card.key
    <2>1. outputs' = outputs \cup {card}
      BY <1>2 DEF Appended
    <2> QED BY <1>2, <2>1 DEF OneCard
  <1> QED BY <1>1, <1>2

\* The sections of an analysis are a sequence.
LEMMA SectionsAreListed ==
  ASSUME NEW doc \in DOMAIN Analyses
  PROVE  Len(Sections(doc)) \in Nat /\ DOMAIN Sections(doc) = 1..Len(Sections(doc))
  <1> DEFINE inputs == Analyses[doc].inputs
             controls == [i \in DOMAIN inputs |-> inputs[i].control]
             names == {controls[i] : i \in DOMAIN inputs} \cup {"SUMMARY"}
  <1>1. inputs \in Seq({inputs[i] : i \in DOMAIN inputs})
    BY RecordsAssumption
  <1>2. DOMAIN inputs = 1..Len(inputs) /\ Len(inputs) \in Nat
    BY <1>1, LenProperties
  <1>3. controls \in Seq(names)
    BY <1>2, SeqDef
  <1>4. <<"SUMMARY">> \in Seq(names)
    OBVIOUS
  <1> HIDE DEF controls, names
  <1>5. <<"SUMMARY">> \o controls \in Seq(names)
    BY <1>3, <1>4, ConcatProperties
  <1>6. Sections(doc) \in Seq(names)
    BY <1>5 DEF Sections, controls
  <1> QED BY <1>6, LenProperties

\* What a step of one analysis is to keep: it does not shrink the cards, leaves what
\* is read back alone, and its own request fulfils what it claims.
LEMMA OutputsOf ==
  ASSUME OutputsStand, NEW t \in Tabs, OneTab(t), restored' = restored,
         outputs \subseteq outputs', OneCard(outputs'),
         IsOpen(t, "ANALYSIS")' =>
           /\ request'[t].read.next \in Nat
           /\ SectionsUpTo(request'[t].read.next, request'[t].doc, request'[t].read, outputs'),
         Answers(t, "ANALYSIS", "COMPLETED")' =>
           \A i \in DOMAIN Sections(request'[t].doc) :
             HasSection(request'[t].doc, Sections(request'[t].doc)[i], request'[t].read, outputs')
  PROVE  OutputsStand'
  <1>1. \A u \in Tabs : restored'[u] \subseteq outputs'
    BY DEF OutputsStand
  <1>2. ASSUME NEW u \in Tabs, u # t, IsOpen(u, "ANALYSIS")'
        PROVE  /\ request'[u].read.next \in Nat
               /\ SectionsUpTo(request'[u].read.next, request'[u].doc, request'[u].read, outputs')
    <2>1. request'[u] = request[u] /\ IsOpen(u, "ANALYSIS")
      BY <1>2 DEF OneTab, IsOpen
    <2> QED BY <2>1, LaterCardsKeep DEF OutputsStand
  <1>3. ASSUME NEW u \in Tabs, u # t, Answers(u, "ANALYSIS", "COMPLETED")'
        PROVE  \A i \in DOMAIN Sections(request'[u].doc) :
                 HasSection(request'[u].doc, Sections(request'[u].doc)[i], request'[u].read, outputs')
    <2>1. request'[u] = request[u] /\ Answers(u, "ANALYSIS", "COMPLETED")
      BY <1>3 DEF OneTab, Answers
    <2> QED BY <2>1, LaterCardsKeep DEF OutputsStand
  <1> QED BY <1>1, <1>2, <1>3 DEF OutputsStand

\* Cards and analyses keep standing (stream_scan_result_tokens, append_windows_ai_output).
LEMMA OutputsStay ==
  Shape /\ Aims /\ OutputsStand /\ [Next]_vars => OutputsStand'
  <1> SUFFICES ASSUME Shape, Aims, OutputsStand, [Next]_vars PROVE OutputsStand'
    OBVIOUS
  <1>0. Shape' /\ Framed /\ RequestShape /\ DOMAIN restored = Tabs
    BY Frames DEF Shape
  <1>1. ASSUME NEW t \in Tabs, PrepareAnalysis(t) PROVE OutputsStand'
    <2> DEFINE begun == [linked |-> request[t].read, next |-> 1, made |-> {}, lost |-> {}]
    <2>1. outputs' = outputs /\ restored' = restored
      BY <1>1 DEF PrepareAnalysis, tables, Untouched
    <2>2. AnswerAs(t, "FAILED") \/ OpenWith(t, begun)
      BY <1>1 DEF PrepareAnalysis
    <2>3. CASE AnswerAs(t, "FAILED")
      <3>1. OneTab(t) /\ request'[t].step = "answered" /\ request'[t].answer = "FAILED"
        BY <1>0, <2>3, Answered
      <3> QED BY <2>1, <3>1, OutputsOf DEF IsOpen, Answers, OutputsStand
    <2>4. CASE OpenWith(t, begun)
      <3>1. /\ OneTab(t) /\ request'[t].step = "open" /\ request'[t].read = begun
            /\ request'[t].op = request[t].op /\ request'[t].doc = request[t].doc
        BY <1>0, <2>4, Opened
      <3>2. request[t].doc \in DOMAIN Analyses
        BY <1>1 DEF PrepareAnalysis, Is, Aims, Aimed
      <3>3. request'[t].read.next = 1
        BY <3>1
      <3>4. SectionsUpTo(1, request[t].doc, request'[t].read, outputs)
        BY <3>2, SectionsAreListed DEF SectionsUpTo
      <3>5. /\ request'[t].read.next \in Nat
            /\ SectionsUpTo(request'[t].read.next, request'[t].doc, request'[t].read, outputs')
        BY <2>1, <3>1, <3>3, <3>4
      <3>6. ~Answers(t, "ANALYSIS", "COMPLETED")'
        BY <3>1 DEF Answers
      <3>7. outputs \subseteq outputs' /\ OneCard(outputs')
        BY <2>1 DEF OutputsStand
      <3> QED BY <2>1, <3>1, <3>5, <3>6, <3>7, OutputsOf
    <2> QED BY <2>2, <2>3, <2>4
  <1>2. ASSUME NEW t \in Tabs, RunSection(t) PROVE OutputsStand'
    <2> DEFINE doc == request[t].doc
               read == request[t].read
               next == request[t].read.next
               section == Sections(doc)[next]
    <2>1. /\ doc \in DOMAIN Analyses /\ next \in Nat /\ SectionsUpTo(next, doc, read, outputs)
          /\ restored' = restored /\ OneCard(outputs)
      BY <1>2 DEF RunSection, Is, IsOpen, Aims, Aimed, OutputsStand
    <2>2. \A i \in DOMAIN Sections(doc) : i < next + 1 => i < next \/ i = next
      BY <2>1, SectionsAreListed
    <2>3. CASE AnswerAs(t, "FAILED") /\ outputs' = outputs
      <3>1. OneTab(t) /\ request'[t].step = "answered" /\ request'[t].answer = "FAILED"
        BY <1>0, <2>3, Answered
      <3> QED BY <2>1, <2>3, <3>1, OutputsOf DEF IsOpen, Answers, OutputsStand
    <2>4. ASSUME NEW made, NEW lost, Advance(t, made, lost), outputs \subseteq outputs', OneCard(outputs'),
                 read.linked => section \in lost \/ CardOf(outputs', doc, section) # {},
                 ~read.linked => section \in made
          PROVE  OutputsStand'
      <3> DEFINE after == [linked |-> read.linked, next |-> next + 1,
                           made |-> read.made \cup made, lost |-> read.lost \cup lost]
      <3>1. /\ OneTab(t) /\ request'[t].step = "open" /\ request'[t].doc = doc
            /\ request'[t].read = after
        BY <1>0, <1>2, <2>4, Advanced DEF RunSection, Is
      <3>2. /\ after.linked = read.linked /\ after.next = next + 1
            /\ after.made = read.made \cup made /\ after.lost = read.lost \cup lost
        OBVIOUS
      <3> HIDE DEF after
      <3>3. ASSUME NEW i \in DOMAIN Sections(doc), i < next + 1
            PROVE  HasSection(doc, Sections(doc)[i], after, outputs')
        <4>1. CASE i = next
          BY <2>4, <3>2, <4>1 DEF HasSection
        <4>2. CASE i < next
          <5>1. HasSection(doc, Sections(doc)[i], read, outputs)
            BY <2>1, <4>2 DEF SectionsUpTo
          <5>2. HasSection(doc, Sections(doc)[i], read, outputs')
            BY <2>4, <5>1, LaterCardsKeep
          <5> QED BY <3>2, <5>2 DEF HasSection
        <4> QED BY <2>2, <3>3, <4>1, <4>2
      <3>4. SectionsUpTo(next + 1, doc, after, outputs')
        BY <3>3 DEF SectionsUpTo
      <3>5. /\ request'[t].read.next \in Nat
            /\ SectionsUpTo(request'[t].read.next, request'[t].doc, request'[t].read, outputs')
        BY <2>1, <3>1, <3>2, <3>4
      <3>6. ~Answers(t, "ANALYSIS", "COMPLETED")'
        BY <3>1 DEF Answers
      <3> QED BY <2>1, <2>4, <3>1, <3>5, <3>6, OutputsOf
    <2>5. CASE Skips(t, section) /\ Advance(t, {}, {}) /\ outputs' = outputs
      <3>1. read.linked /\ CardOf(outputs, doc, section) # {}
        BY <2>5 DEF Skips, OutputsStand, CardOf
      <3> QED BY <2>1, <2>4, <2>5, <3>1
    <2>6. CASE Store(t, section)
      <3> DEFINE card == [snapshot |-> SnapshotNamed(doc), key |-> section,
                          text |-> <<t, HeadingCounts(Merged(Analyses[doc]))>>]
      <3>1. CASE ~read.linked /\ Advance(t, {section}, {}) /\ outputs' = outputs
        BY <2>1, <2>4, <3>1
      <3>2. CASE read.linked /\ Advance(t, {section}, {}) /\ outputs' = Appended(card)
        <4>1. card.snapshot = SnapshotNamed(doc) /\ card.key = section
          OBVIOUS
        <4> HIDE DEF card
        <4>2. /\ outputs \subseteq outputs' /\ OneCard(outputs')
              /\ \E o \in outputs' : o.snapshot = card.snapshot /\ o.key = card.key
          BY <2>1, <3>2, FirstCardStays
        <4>3. CardOf(outputs', doc, section) # {}
          BY <4>1, <4>2 DEF CardOf
        <4> QED BY <2>4, <3>2, <4>2, <4>3
      <3>3. CASE read.linked /\ Advance(t, {section}, {section}) /\ outputs' = outputs
        BY <2>1, <2>4, <3>3
      <3> QED BY <2>6, <3>1, <3>2, <3>3 DEF Store
    <2> QED BY <1>2, <2>3, <2>5, <2>6 DEF RunSection
  <1>3. ASSUME NEW t \in Tabs, EndAnalysis(t) PROVE OutputsStand'
    <2> DEFINE doc == request[t].doc
               next == request[t].read.next
    <2>1. /\ doc \in DOMAIN Analyses /\ next \in Nat /\ SectionsUpTo(next, doc, request[t].read, outputs)
          /\ outputs' = outputs /\ restored' = restored
      BY <1>3 DEF EndAnalysis, Is, IsOpen, Aims, Aimed, OutputsStand, tables, Untouched
    <2>2. PICK code \in {"COMPLETED", "DISCONNECTED"} :
            AnswerAs(t, code) /\ (code = "COMPLETED" => next > Len(Sections(doc)))
      BY <1>3 DEF EndAnalysis
    <2>3. /\ OneTab(t) /\ request'[t].step = "answered" /\ request'[t].answer = code
          /\ request'[t].doc = doc /\ request'[t].read = request[t].read
      BY <1>0, <2>2, Answered
    <2>4. ASSUME code = "COMPLETED", NEW i \in DOMAIN Sections(doc)
          PROVE  HasSection(doc, Sections(doc)[i], request[t].read, outputs)
      <3>1. i < next
        BY <2>1, <2>2, <2>4, SectionsAreListed
      <3> QED BY <2>1, <3>1 DEF SectionsUpTo
    <2> QED BY <2>1, <2>3, <2>4, OutputsOf DEF IsOpen, Answers, OutputsStand
  <1>4. ASSUME NEW t \in Tabs, LoadCards(t) PROVE OutputsStand'
    <2>1. /\ outputs' = outputs /\ request' = request
          /\ restored' = [restored EXCEPT ![t] = outputs]
      BY <1>4 DEF LoadCards, tables
    <2>2. \A u \in Tabs : restored'[u] \subseteq outputs
      BY <1>0, <2>1 DEF OutputsStand
    <2> QED BY <2>1, <2>2 DEF OutputsStand, IsOpen, Answers
  <1>5. CASE Frame("ANALYSIS") /\ outputs' = outputs /\ restored' = restored
    <2>1. ASSUME NEW t \in Tabs
          PROVE  /\ IsOpen(t, "ANALYSIS")' => IsOpen(t, "ANALYSIS") /\ request'[t] = request[t]
                 /\ Answers(t, "ANALYSIS", "COMPLETED")' =>
                      Answers(t, "ANALYSIS", "COMPLETED") /\ request'[t] = request[t]
      BY <1>5 DEF Frame, Rests, IsOpen, Answers
    <2> QED BY <1>5, <2>1 DEF OutputsStand
  <1> QED BY <1>0, <1>1, <1>2, <1>3, <1>4, <1>5 DEF Framed

(* ------------------------------- theorems ----------------------------- *)
IInv ==
  /\ Shape /\ Aims
  /\ PoliciesStand /\ SnapshotsStand /\ ScreensStand /\ ReportsStand
  /\ ProfilesStand /\ SelectionsStand /\ OutputsStand

\* A login starts with nothing kept, or with one result under the default policy.
LEMMA InitiallyStands == Init => IInv
  <1> SUFFICES ASSUME Init PROVE IInv
    OBVIOUS
  <1> DEFINE first == [number |-> 1, policy |-> "default"]
  <1>1. /\ Quiet.op = "NONE" /\ Quiet.step = "answered" /\ Quiet.answer = "none"
        /\ DOMAIN Quiet = {"op", "doc", "step", "read", "answer"}
    BY DEF Quiet, Asked
  <1>2. DOMAIN request = Tabs /\ \A t \in Tabs : request[t] = Quiet /\ restored[t] = {}
    BY DEF Init
  <1>3. \A t \in Tabs : /\ \A op : ~IsOpen(t, op)
                        /\ ~Violated(t)
                        /\ \A op, code : code # "none" => ~Answers(t, op, code)
    BY <1>1, <1>2 DEF IsOpen, Violated, Answers
  <1>4. IsSequence(selections) /\ DOMAIN selections = {}
    BY DEF Init, IsSequence
  <1>5. Shape
    BY <1>1, <1>2, <1>4 DEF Shape, RequestShape, Init
  <1>6. Aims
    BY <1>1, <1>2 DEF Aims, Aimed
  <1>7. /\ \/ policies = {} /\ snapshots = {}
           \/ /\ policies = {first}
              /\ \E s : snapshots = {s} /\ s.policy = {1}
    <2>1. CASE snapshots = {} /\ policies = {}
      BY <2>1
    <2>2. CASE ~(snapshots = {} /\ policies = {})
      <3>1. policies = {first}
        BY <2>2 DEF Init
      <3> DEFINE row(kept) == [result |-> Results[kept.doc].result, version |-> Results[kept.doc].version,
                               doc |-> kept.doc, asset |-> kept.asset, policy |-> {1}]
      <3>2. PICK kept \in KeptBefore : snapshots = {row(kept)}
        BY <2>2 DEF Init
      <3>3. row(kept).policy = {1}
        OBVIOUS
      <3> HIDE DEF row
      <3> QED BY <3>1, <3>2, <3>3
    <2> QED BY <2>1, <2>2
  <1>8. ByNumber(policies)
    <2>1. CASE policies = {}
      BY <2>1, NoRows
    <2>2. CASE policies = {first}
      <3>1. first.number = 1
        OBVIOUS
      <3> HIDE DEF first
      <3>2. IsFiniteSet({first}) /\ Cardinality({first}) = 1
        BY FS_Singleton
      <3>3. {p.number : p \in {first}} = {1}
        BY <3>1
      <3> QED BY <2>2, <3>2, <3>3 DEF ByNumber
    <2> QED BY <1>7, <2>1, <2>2
  <1>9. PoliciesStand
    BY <1>3, <1>8 DEF PoliciesStand
  <1>10. SnapshotsStand
    <2>1. \A s, r \in snapshots : s = r
      BY <1>7
    <2>2. ASSUME NEW s \in snapshots PROVE OneOf(s.policy, PolicyNumbers)
      <3>1. policies = {first} /\ s.policy = {1}
        BY <1>7, <2>2
      <3>2. first.number = 1
        OBVIOUS
      <3> HIDE DEF first
      <3> QED BY <3>1, <3>2 DEF OneOf, PolicyNumbers
    <2> QED BY <1>3, <2>1, <2>2 DEF SnapshotsStand
  <1>11. ScreensStand /\ ReportsStand /\ ProfilesStand
    BY <1>3 DEF Init, ScreensStand, ReportsStand, ProfilesStand
  <1>12. SelectionsStand /\ OutputsStand
    BY <1>2, <1>3, <1>4 DEF Init, SelectionsStand, OutputsStand, OneCard
  <1> QED BY <1>5, <1>6, <1>9, <1>10, <1>11, <1>12 DEF IInv

\* What every reachable state of the tables and the open transactions fulfils.
LEMMA StandsAlways == Spec => []IInv
  <1>1. IInv /\ [Next]_vars => IInv'
    BY Frames, AimsStay, PoliciesStay, SnapshotsStay, ScreensStay, ReportsStay, ProfilesStay,
       SelectionsStay, OutputsStay DEF IInv
  <1> QED BY <1>1, InitiallyStands, PTL DEF Spec

\* A result the server says it keeps is the one it has, in one row under one policy
\* that exists, whatever the other tabs submit (append_windows_audit_snapshot).
THEOREM AcceptedResultIsStoredAlways == Spec => []AcceptedResultIsStored
  <1>1. IInv => AcceptedResultIsStored
    <2> SUFFICES ASSUME IInv, NEW t \in Tabs,
                        Answers(t, "SNAPSHOT", "CREATED") \/ Answers(t, "SNAPSHOT", "STORED")
                 PROVE  LET r == Results[request[t].doc]
                        IN \E s \in SnapshotOf(r.result, r.version) :
                             /\ KeptResult(Results[s.doc]) = KeptResult(r)
                             /\ Cardinality(SnapshotOf(r.result, r.version)) = 1
                             /\ s.policy \subseteq PolicyNumbers /\ Cardinality(s.policy) = 1
      BY DEF AcceptedResultIsStored
    <2> DEFINE r == Results[request[t].doc]
    <2>1. PICK s \in snapshots : /\ s.result = r.result /\ s.version = r.version
                                 /\ KeptResult(Results[s.doc]) = KeptResult(r)
      BY DEF IInv, SnapshotsStand
    <2>2. SnapshotOf(r.result, r.version) = {s}
      BY <2>1 DEF IInv, SnapshotsStand, SnapshotOf
    <2>3. PICK k \in PolicyNumbers : s.policy = {k}
      BY DEF IInv, SnapshotsStand, OneOf
    <2>4. Cardinality(SnapshotOf(r.result, r.version)) = 1 /\ Cardinality(s.policy) = 1
      BY <2>2, <2>3, FS_Singleton
    <2>5. s \in SnapshotOf(r.result, r.version) /\ s.policy \subseteq PolicyNumbers
      BY <2>2, <2>3
    <2> QED BY <2>1, <2>4, <2>5
  <1> QED BY <1>1, StandsAlways, PTL

\* The numbers of policies, screens, profiles and reports are 1 to n, with none missing
\* or given twice, because each open transaction has read the next number under the
\* advisory lock of its rows (allocate_report_version, append).
THEOREM VersionsAreConsecutiveAlways == Spec => []VersionsAreConsecutive
  <1>1. IInv => VersionsAreConsecutive
    <2> SUFFICES ASSUME IInv PROVE VersionsAreConsecutive
      OBVIOUS
    <2>1. {r.number : r \in policies} = 1..Cardinality(policies)
      BY DEF IInv, PoliciesStand, ByNumber
    <2>2. ASSUME NEW r \in presentations
          PROVE  LET rows == {q \in presentations : q.snapshot = r.snapshot /\ q.kind = r.kind}
                 IN {q.number : q \in rows} = 1..Cardinality(rows)
      BY DEF IInv, ScreensStand, ByNumber, ScreensOf
    <2>3. ASSUME NEW p \in profiles
          PROVE  LET rows == RowsOf(profiles, p.owner, p.name)
                 IN {q.version : q \in rows} = 1..Cardinality(rows)
      BY DEF IInv, ProfilesStand, ByVersion
    <2>4. ASSUME NEW r \in reports
          PROVE  LET rows == {q \in reports : q.snapshot.result = r.snapshot.result /\ q.kind = r.kind}
                 IN {q.number : q \in rows} = 1..Cardinality(rows)
      BY DEF IInv, ReportsStand, ByNumber, ReportsOf
    <2> QED BY <2>1, <2>2, <2>3, <2>4 DEF VersionsAreConsecutive, Consecutive
  <1> QED BY <1>1, StandsAlways, PTL

\* No insert violates a unique index because of another tab, but for the first policy
\* racing the default one (ensure_default_audit_history_policy).
THEOREM OnlyTheFirstPolicyRacesAlways == Spec => []OnlyTheFirstPolicyRaces
  <1>1. IInv => OnlyTheFirstPolicyRaces
    <2> SUFFICES ASSUME IInv, NEW t \in Tabs, request[t].step = "answered", request[t].answer = "VIOLATION"
                 PROVE  request[t].op = "POLICY" /\ request[t].read = 1
      BY DEF OnlyTheFirstPolicyRaces
    <2>1. request[t].op \in {"POLICY", "PRESENTATION", "REPORT", "CRITERIA"} /\ Violated(t)
      BY DEF IInv, Aims, Aimed, Violated
    <2> QED BY <2>1 DEF IInv, PoliciesStand, ScreensStand, ReportsStand, ProfilesStand
  <1> QED BY <1>1, StandsAlways, PTL

\* A recorded start of a scan has the criteria its page showed, and a selection can be
\* computed again from the profiles of today (AssessmentCriteriaService.select).
THEOREM StartRecordIsWhatThePageShowedAlways == Spec => []StartRecordIsWhatThePageShowed
  <1>1. IInv => StartRecordIsWhatThePageShowed
    BY DEF IInv, SelectionsStand, StartRecordIsWhatThePageShowed, RecordedFor, Reproducible, Recomputed
  <1> QED BY <1>1, StandsAlways, PTL

\* A card that a page has read back is never replaced, whatever the other tab makes,
\* and a completed analysis of a kept result has a card of every section but those
\* whose write failed (stream_scan_result_tokens, append_windows_ai_output).
THEOREM AnalysisIsRestorableAlways == Spec => []AnalysisIsRestorable
  <1>1. IInv => AnalysisIsRestorable
    BY DEF IInv, OutputsStand, OneCard, AnalysisIsRestorable, HasSection
  <1> QED BY <1>1, StandsAlways, PTL
=============================================================================
