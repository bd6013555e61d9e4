------------------------ MODULE AuthorizationPromise ------------------------
(***************************************************************************)
(* What an authorization server owes the user, whatever stands between the *)
(* request and the token: a request is answered once, a login counts for   *)
(* the request it was made for and for no other, and one answer yields at  *)
(* most one token, for the client that asked.                              *)
(* services/asi-authorization-server/internal/authorization/service.go and *)
(* identification.go state these one by one.                               *)
(***************************************************************************)
EXTENDS Naturals, Sequences

CONSTANTS Auth,      \* authorization requests
          Client, ClientOf,
          Session,   \* sessions of the wallet's verifier
          Digid,     \* a login with what the user typed in this browser
          Denied,    \* the user's refusal
          Request    \* token requests, each of which gets its own token

VARIABLES shown,     \* who disclosed what for which request
          answers,   \* the answers sent to clients, in order
          tokens     \* the tokens handed out, each for an answer

vars == <<shown, answers, tokens>>

Init == shown = {} /\ answers = <<>> /\ tokens = {}

(* A wallet discloses an identity in a session of one request. *)
Show(a, s) ==
  /\ \A d \in shown : d.by # s
  /\ shown' = shown \cup {[of |-> a, by |-> s]}
  /\ UNCHANGED <<answers, tokens>>

Answer(a, i) ==
  /\ \A k \in DOMAIN answers : answers[k].of # a
  /\ i \in Session => [of |-> a, by |-> i] \in shown
  /\ answers' = Append(answers, [of |-> a, by |-> i])
  /\ UNCHANGED <<shown, tokens>>

Grant(k, c) ==
  /\ answers[k].by # Denied
  /\ c = ClientOf[answers[k].of]
  /\ \A t \in tokens : t.code # k
  /\ \E r \in Request :
       tokens' = tokens \cup {[jti |-> r, code |-> k, to |-> c]}
  /\ UNCHANGED <<shown, answers>>

Next ==
  \/ \E a \in Auth, s \in Session : Show(a, s)
  \/ \E a \in Auth, i \in Session \cup {Digid, Denied} : Answer(a, i)
  \/ \E k \in DOMAIN answers, c \in Client : Grant(k, c)

Spec == Init /\ [][Next]_vars
=============================================================================
