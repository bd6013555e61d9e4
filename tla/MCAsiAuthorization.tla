------------------------- MODULE MCAsiAuthorization -------------------------
EXTENDS AsiAuthorization, TLC
CONSTANTS a1, c1, c2, h1, h2, s1, s2, m1, r1, r2

(* One authorization request, and one assertion of its client. *)
OneRequest == a1 :> c1
OneAssertion == m1 :> c1
EndsFirst == m1 :> 0
=============================================================================
