------------------------------- MODULE Checks -------------------------------
(***************************************************************************)
(* What the validators of this code share. A validator is a sequence of    *)
(* checks in the code's order: the first one that rejects is the outcome.  *)
(***************************************************************************)
EXTENDS Integers, FiniteSets, Sequences

Accepted == "ACCEPTED"
Check(rejects, code) == [rejects |-> rejects, code |-> code]

\* The code of the first check that rejects, or ACCEPTED.
FirstRejection(checks) ==
  LET failing == {i \in DOMAIN checks : checks[i].rejects}
  IN IF failing = {} THEN Accepted
     ELSE checks[CHOOSE i \in failing : \A j \in failing : i <= j].code

(* ------------------------------ versions ------------------------------ *)
\* A version is [core, pre]: pre is <<>> for a release, else its dotted parts;
\* a part is [numeric, rank, text], two texts may have one rank ("1" and "01").
ComparePrerelease(l, r) ==
  LET both == {i \in DOMAIN l : i \in DOMAIN r}
      differ == {i \in both : l[i] # r[i]}
      i == CHOOSE j \in differ : \A k \in differ : j <= k
  IN IF l = <<>> \/ r = <<>> THEN IF l = r THEN 0 ELSE IF l = <<>> THEN 1 ELSE -1
     ELSE IF differ = {} THEN IF Len(l) = Len(r) THEN 0 ELSE IF Len(l) > Len(r) THEN 1 ELSE -1
     ELSE IF l[i].numeric # r[i].numeric THEN IF l[i].numeric THEN -1 ELSE 1
     ELSE IF l[i].rank < r[i].rank THEN -1 ELSE 1

CompareSemver(l, r) ==
  IF l.core # r.core THEN IF l.core < r.core THEN -1 ELSE 1
  ELSE ComparePrerelease(l.pre, r.pre)
=============================================================================
