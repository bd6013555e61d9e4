--------------------------- MODULE QtspIssuance ---------------------------
(***************************************************************************)
(* The store of accepted results that wait for the citizen's wallet        *)
(* (qtsp-reference/internal/issuance, issuancecallback). Each result has a *)
(* timer of its own. A timer that has started can no longer be stopped: it *)
(* removes its result when it gets the mutex.                              *)
(***************************************************************************)
EXTENDS Naturals, FiniteSets

CONSTANTS
  Person,       \* identities: name, date of birth, nationalities
  Lifetime,     \* how long a result waits (ten minutes)
  MaxResults    \* bound on results added

ASSUME IssuanceAssumption == {Lifetime, MaxResults} \subseteq Nat

VARIABLES
  now,        \* the time
  pending,    \* Store.pending: the results that wait
  nextId,     \* Store.nextID
  armed,      \* ids of timers that run
  started,    \* ids of timers that fired and wait for the mutex
  issued      \* history: the documents handed to the issuance server

storeVars == <<pending, nextId, armed, started, issued>>

Result == [id : 1 .. MaxResults, identity : Person, from : Nat, expires : Nat]

StoreTypeOK ==
  /\ pending \subseteq Result
  /\ nextId \in 0 .. MaxResults
  /\ armed \subseteq 1 .. MaxResults
  /\ started \subseteq 1 .. MaxResults
  /\ issued \subseteq [result : Result, to : Person, at : Nat]

StoreInit ==
  /\ pending = {}
  /\ nextId = 0
  /\ armed = {}
  /\ started = {}
  /\ issued = {}

---------------------------------------------------------------------------
Ids(results) == {c.id : c \in results}
Expired(c) == c.expires <= now

(* A result may wait only when each requested attribute has a result that   *)
(* counts. The results are pairs <<attribute, outcome>>.                    *)
CompleteEvidence(requested, results) ==
  /\ requested # {}
  /\ {r[1] : r \in results} = requested
Issuable(requested, results) ==
  /\ CompleteEvidence(requested, results)
  /\ \A r \in results : r[2] \in {"Match", "MatchWithVariation"}

(* A bug this code could have: the next id is taken from what waits.        *)
AddReusedId(identity, from) ==
  LET replaced == {c \in pending : Expired(c) \/ c.identity = identity}
      new == [id |-> Cardinality(pending \ replaced) + 1, identity |-> identity,
              from |-> from, expires |-> now + Lifetime]
  IN /\ nextId < MaxResults
     /\ nextId' = nextId + 1
     /\ pending' = (pending \ replaced) \cup {new}
     /\ armed' = (armed \ Ids(replaced)) \cup {new.id}
     /\ UNCHANGED <<started, issued>>

(* Add: what has expired goes, and what the same citizen had waiting.       *)
Add(identity, from) ==
  LET replaced == {c \in pending : Expired(c) \/ c.identity = identity}
      new == [id |-> nextId + 1, identity |-> identity, from |-> from,
              expires |-> now + Lifetime]
  IN /\ nextId < MaxResults
     /\ nextId' = nextId + 1
     /\ pending' = (pending \ replaced) \cup {new}
     /\ armed' = (armed \ Ids(replaced)) \cup {new.id}
     /\ UNCHANGED <<started, issued>>

(* Take: the one result of the citizen whose wallet disclosed, once.        *)
Take(identity) ==
  LET fresh == {c \in pending : ~Expired(c)}
      mine == {c \in fresh : c.identity = identity}
      taken == {c \in mine : \A d \in mine : d = c}
  IN /\ pending' = fresh \ taken
     /\ armed' = armed \ (Ids(pending) \ Ids(fresh \ taken))
     /\ issued' = issued \cup {[result |-> c, to |-> identity, at |-> now] : c \in taken}
     /\ UNCHANGED <<nextId, started>>

(* The timer of a result fires, and later removes the result by its id.     *)
Fire(id) ==
  /\ id \in armed
  /\ \E c \in pending : c.id = id /\ Expired(c)
  /\ armed' = armed \ {id}
  /\ started' = started \cup {id}
  /\ UNCHANGED <<pending, nextId, issued>>

Remove(id) ==
  /\ id \in started
  /\ started' = started \ {id}
  /\ pending' = {c \in pending : c.id # id}
  /\ UNCHANGED <<nextId, armed, issued>>
=============================================================================
