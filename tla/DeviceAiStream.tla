--------------------------- MODULE DeviceAiStream ---------------------------
(***************************************************************************)
(* The AI explanation of one Linux or switch result. A request takes the   *)
(* result's slot in _AI_CANCELLATIONS and returns a generator; the server  *)
(* draws events from it while the browser reads. The generator explains    *)
(* the summary (key 0) and then each control, from the stored outputs when *)
(* it can and from the model otherwise, and frees the slot in a finally    *)
(* clause. Its first event is sent before the try that the clause belongs  *)
(* to. A browser that leaves closes the generator at the event it is       *)
(* waiting to send.                                                        *)
(***************************************************************************)
EXTENDS Naturals, FiniteSets

CONSTANTS
  Streams,        \* requests for an explanation
  Cancellers,     \* server threads in cancel_linux_ai or cancel_switch_ai
  Nobody,
  Controls,       \* 67 controls of Linux, 38 (or 6) of a switch
  Format,         \* of the result: its controls and observations, or older ones (switch)
  ProviderLimit,  \* consecutive provider failures that end a stream, 3
  MaxRestarts,    \* restarts of the API process
  MaxUnstored     \* outputs that could not be stored

ASSUME AiAssumption ==
  /\ Nobody \notin Streams
  /\ {Controls, MaxRestarts, MaxUnstored} \subseteq Nat
  /\ ProviderLimit \in Nat \ {0}

ASSUME FormatAssumption == Format \in {"current", "old controls", "old observations"}

VARIABLES
  slot,       \* _AI_CANCELLATIONS[run_id]
  stream,     \* the generators
  output,     \* linux_audit_ai_outputs, switch_audit_ai_outputs: who wrote it
  canceller,  \* the stream whose event a cancellation is about to set
  mishaps     \* restarts and outputs not stored so far

aiVars == <<slot, stream, output, canceller, mishaps>>

Keys == 0..Controls
\* Inside the try, and from the registration on.
Guarded == {"check", "load", "generate"}
Generating == Guarded \cup {"registered", "started"}
NewStream == [pc |-> "idle", key |-> 0, fails |-> 0, told |-> {}, cancelled |-> FALSE]

AiInit ==
  /\ slot = Nobody
  /\ stream = [x \in Streams |-> NewStream]
  /\ output = [k \in Keys |-> Nobody]
  /\ canceller = [c \in Cancellers |-> Nobody]
  /\ mishaps = [crashes |-> 0, faults |-> 0]

-----------------------------------------------------------------------------
(* The decisions of the code, each with the slip it is protected from.     *)

SlotFreeUnchecked == TRUE
SlotFree == slot = Nobody

\* consecutive_provider_failures
GivesUp(n) == n >= ProviderLimit

\* for index, control in enumerate(controls, start=1)
LastKey(key) == key = Controls

\* append_ai_output: ON CONFLICT DO NOTHING
Stored(k, x) == IF output[k] = Nobody THEN [output EXCEPT ![k] = x] ELSE output

\* The finally clause covers every way out of the try.
SlotAfterCompletion(how) == IF how = "completed" THEN Nobody ELSE slot
SlotAfter(how) == Nobody

\* f"{_AI_OUTPUT_VERSION}:{key}"
OutputKeyFromOne(key) == IF key = 0 THEN 0 ELSE key - 1
OutputKey(key) == key

-----------------------------------------------------------------------------
Leave(x, how) ==
  /\ slot' = SlotAfter(how)
  /\ stream' = [stream EXCEPT ![x].pc = how]

\* The stream goes on with the next key, or is complete.
Advance(x, rec) ==
  IF LastKey(rec.key)
  THEN /\ slot' = SlotAfter("completed")
       /\ stream' = [stream EXCEPT ![x] = [rec EXCEPT !.pc = "completed"]]
  ELSE /\ stream' = [stream EXCEPT ![x] = [rec EXCEPT !.pc = "check", !.key = @ + 1]]
       /\ UNCHANGED slot

Open(x) ==
  /\ stream[x].pc = "idle"
  /\ \/ /\ SlotFree
        /\ slot' = x
        /\ stream' = [stream EXCEPT ![x].pc = "registered"]
     \/ /\ ~SlotFree
        /\ stream' = [stream EXCEPT ![x].pc = "refused"]
        /\ UNCHANGED slot
  /\ UNCHANGED <<output, canceller, mishaps>>

\* ANALYSIS_STARTED is on its way.
Begin(x) ==
  /\ stream[x].pc = "registered"
  /\ stream' = [stream EXCEPT ![x].pc = "started"]
  /\ UNCHANGED <<slot, output, canceller, mishaps>>

\* For Linux the gateway client is made before the try.
ServiceFails(x) ==
  /\ stream[x].pc = "registered"
  /\ stream' = [stream EXCEPT ![x].pc = "failed"]
  /\ UNCHANGED <<slot, output, canceller, mishaps>>

EnterTry(x) ==
  /\ stream[x].pc = "started"
  /\ stream' = [stream EXCEPT ![x].pc = "load"]
  /\ UNCHANGED <<slot, output, canceller, mishaps>>

\* The cancellation is looked at before each control and at each piece of the
\* model's answer, but not before the summary.
StartControl(x) ==
  /\ stream[x].pc = "check"
  /\ ~stream[x].cancelled
  /\ stream' = [stream EXCEPT ![x].pc = "load"]
  /\ UNCHANGED <<slot, output, canceller, mishaps>>

CancelSeen(x) ==
  /\ stream[x].cancelled
  /\ stream[x].pc \in {"check", "generate"}
  /\ Leave(x, "cancelled")
  /\ UNCHANGED <<output, canceller, mishaps>>

\* A stored output is sent as it is, but not for a result with observations of
\* an older format. A read that fails counts as nothing stored.
LoadOutput(x) ==
  LET key == stream[x].key IN
  /\ stream[x].pc = "load"
  /\ \/ /\ Format # "old observations" /\ output[OutputKey(key)] # Nobody
        /\ Advance(x, [stream[x] EXCEPT !.told = @ \cup {key}])
     \/ /\ stream' = [stream EXCEPT ![x].pc = "generate"]
        /\ UNCHANGED slot
  /\ UNCHANGED <<output, canceller, mishaps>>

\* The model has answered to the end; the output is stored, if it can be.
Generate(x) ==
  LET key == stream[x].key IN
  /\ stream[x].pc = "generate"
  /\ \/ /\ output' = Stored(OutputKey(key), x)
        /\ UNCHANGED mishaps
     \/ /\ mishaps.faults < MaxUnstored
        /\ mishaps' = [mishaps EXCEPT !.faults = @ + 1]
        /\ UNCHANGED output
  /\ Advance(x, [stream[x] EXCEPT !.told = @ \cup {key}, !.fails = IF key = 0 THEN @ ELSE 0])
  /\ UNCHANGED canceller

\* ProviderRequestError; a failed summary is only skipped.
ProviderFails(x) ==
  LET rec == [stream[x] EXCEPT !.fails = IF stream[x].key = 0 THEN @ ELSE @ + 1] IN
  /\ stream[x].pc = "generate"
  /\ \/ /\ GivesUp(rec.fails)
        /\ slot' = SlotAfter("failed")
        /\ stream' = [stream EXCEPT ![x] = [rec EXCEPT !.pc = "failed"]]
     \/ /\ ~GivesUp(rec.fails)
        /\ Advance(x, rec)
  /\ UNCHANGED <<output, canceller, mishaps>>

\* DeviceAIContractError, SwitchAIContractError: the answer is not usable.
AnswerRejected(x) ==
  /\ stream[x].pc = "generate"
  /\ Advance(x, [stream[x] EXCEPT !.fails = 0])
  /\ UNCHANGED <<output, canceller, mishaps>>

\* Any other error reaches the finally clause.
UnexpectedError(x) ==
  /\ stream[x].pc \in Guarded
  /\ Leave(x, "failed")
  /\ UNCHANGED <<output, canceller, mishaps>>

\* The browser leaves: GeneratorExit at the pending event.
Disconnect(x) ==
  /\ \/ stream[x].pc \in Guarded /\ Leave(x, "left")
     \/ /\ stream[x].pc \in {"registered", "started"}
        /\ stream' = [stream EXCEPT ![x].pc = "left"]
        /\ UNCHANGED slot
  /\ UNCHANGED <<output, canceller, mishaps>>

-----------------------------------------------------------------------------
(* Cancelling: the event is found under the lock and set after it. *)

FindEvent(c) ==
  /\ canceller[c] = Nobody /\ slot # Nobody
  /\ canceller' = [canceller EXCEPT ![c] = slot]
  /\ UNCHANGED <<slot, stream, output, mishaps>>

SetEvent(c) ==
  /\ canceller[c] # Nobody
  /\ stream' = [stream EXCEPT ![canceller[c]].cancelled = TRUE]
  /\ canceller' = [canceller EXCEPT ![c] = Nobody]
  /\ UNCHANGED <<slot, output, mishaps>>

Crash ==
  /\ mishaps.crashes < MaxRestarts
  /\ mishaps' = [mishaps EXCEPT !.crashes = @ + 1]
  /\ slot' = Nobody
  /\ stream' = [x \in Streams |-> IF stream[x].pc \in Generating
                                  THEN [stream[x] EXCEPT !.pc = "left"] ELSE stream[x]]
  /\ canceller' = [c \in Cancellers |-> Nobody]
  /\ UNCHANGED output

Draw(x) ==
  Begin(x) \/ EnterTry(x) \/ StartControl(x) \/ CancelSeen(x) \/ LoadOutput(x) \/ Generate(x)

AiNext ==
  \/ \E x \in Streams : \/ Open(x) \/ Draw(x) \/ ServiceFails(x) \/ ProviderFails(x)
                        \/ AnswerRejected(x) \/ UnexpectedError(x) \/ Disconnect(x)
  \/ \E c \in Cancellers : FindEvent(c) \/ SetEvent(c)
  \/ Crash

AiSpec == AiInit /\ [][AiNext]_aiVars

\* The server draws events until the browser leaves; the gateway times out.
FairSpec == AiSpec /\ \A x \in Streams : WF_aiVars(Draw(x))

-----------------------------------------------------------------------------
\* What GET .../ai/snapshot answers: complete, or not available, as for every
\* result of an older format (SW-01 to SW-06, or legacy observations).
SnapshotAvailable == Format = "current" /\ \A k \in Keys : output[k] # Nobody

\* The registry, the generators and the outputs keep their types.
AiTypeOK ==
  /\ slot \in Streams \cup {Nobody}
  /\ stream \in [Streams -> [pc : Generating \cup {"idle", "refused", "completed", "failed",
                                                   "cancelled", "left"},
                             key : Keys, fails : 0..ProviderLimit, told : SUBSET Keys,
                             cancelled : BOOLEAN]]
  /\ output \in [Keys -> Streams \cup {Nobody}]
  /\ canceller \in [Cancellers -> Streams \cup {Nobody}]
  /\ mishaps \in [crashes : 0..MaxRestarts, faults : 0..MaxUnstored]

\* One stream at a time explains a result, and it holds the slot, so that a
\* cancellation reaches it: the slot is popped by result, not by stream.
OneGenerator == \A x \in Streams : stream[x].pc \in Generating => slot = x

\* When every explanation of a completed stream succeeded and was stored, the
\* page of a result of the current format can be restored without the model.
CompletedIsRestorable ==
  \A x \in Streams :
    Format = "current" /\ stream[x].pc = "completed" /\ stream[x].told = Keys /\ mishaps.faults = 0
      => SnapshotAvailable

\* Once it is inside its try, a stream frees the slot, however it ends.
SlotIsFreed == \A x \in Streams : stream[x].pc \in Guarded ~> slot # x

=============================================================================
