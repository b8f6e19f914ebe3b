---------------------------- MODULE ExactlyOnce ----------------------------
(***************************************************************************)
(* What the outbox and its workers promise of one logical workflow step:   *)
(* attempts are numbered without gaps, a later attempt replaces the one    *)
(* that was in flight, at most one attempt ever produces the result, and   *)
(* the result never changes once it exists.                                *)
(***************************************************************************)
EXTENDS Naturals

CONSTANT NoAttempt  \* not a number

VARIABLES
  started,   \* number of attempts recorded so far
  inFlight,  \* the attempt being carried out, or NoAttempt
  winner     \* the attempt that produced the result, or NoAttempt

absVars == <<started, inFlight, winner>>

AbsInit ==
  /\ started = 0
  /\ inFlight = NoAttempt
  /\ winner = NoAttempt

\* A delivery starts a new attempt; an older one in flight is given up.
Supersede ==
  /\ winner = NoAttempt
  /\ started' = started + 1
  /\ inFlight' = started + 1
  /\ UNCHANGED winner

\* The attempt in flight produces the one result.
Finish ==
  /\ winner = NoAttempt
  /\ inFlight # NoAttempt
  /\ winner' = inFlight
  /\ inFlight' = NoAttempt
  /\ UNCHANGED started

\* A duplicate delivery is counted and finds the result already there.
Duplicate ==
  /\ winner # NoAttempt
  /\ started' = started + 1
  /\ UNCHANGED <<inFlight, winner>>

AbsNext == Supersede \/ Finish \/ Duplicate

AbsSpec == AbsInit /\ [][AbsNext]_absVars
=============================================================================
