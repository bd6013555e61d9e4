----------------------------- MODULE MCQtspWeb -----------------------------
(* Small instances of QtspWeb. *)
EXTENDS QtspWeb, TLC
CONSTANTS a1, a2

MCProvides == 1 :> {a1} @@ 2 :> {a1, a2}
MCAttribute == {a1, a2}
MCAsked == {{a1, a2}}
People == Permutations(Person)
=============================================================================
