------------------------ MODULE MCSourceOnboarding ------------------------
(***************************************************************************)
(* Instances of SourceOnboarding for TLC: two sources, one of them on FSC, *)
(* and documents chosen so that a version can go up, go down or come back  *)
(* with other bytes.                                                       *)
(***************************************************************************)
EXTENDS SourceOnboarding

CONSTANTS s1, s2, v1, v1b, v2

\* v1 and v1b carry the same version with different bytes.
MCVersion == [d \in Document |-> IF d = v2 THEN 2 ELSE 1]

\* Documents outlive the bounded clock.
MCExpiry == [d \in Document |-> MaxTime + 5]

\* v1b is so short-lived that the minimum validity refuses it in later cycles.
MCShortExpiry == [d \in Document |-> IF d = v1b THEN 2 ELSE MaxTime + 5]

Growing == {{s1}, {s1, s2}}
OnlyFirst == {{s1}}
FscFirst == {s1}

\* Every failure at once; two overlapping reconcilers are checked without
\* crashes and lost status writes, to keep the run small.
AllFaults == FaultKinds
NothingLost == FaultKinds \ {"crash", "status"}
=============================================================================
