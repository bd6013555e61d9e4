----------------------------- MODULE ConsentChain -----------------------------
(***************************************************************************)
(* A consent from grant to use to revocation: the portal's core            *)
(* (services/consent-portal-backend/consent/portal.go), the register with  *)
(* its PostgreSQL store and the LDV outbox in the same database            *)
(* (services/consent-register), and the policy that asks the register for  *)
(* a consent's status at every request (policies/gbo/consent.rego).        *)
(*                                                                         *)
(* A consent is named by the grant that made it; its identifier is a fresh *)
(* uuid.  A record of Logboek Dataverwerkingen is a kind and the request   *)
(* it is about; its span id is fresh too.  Token contents, signatures,     *)
(* scopes and what BSNk encrypts are left out: whoever holds the token of  *)
(* a consent can ask under it.  The portal's own records go to a spool,    *)
(* which is LdvOutbox.                                                     *)
(***************************************************************************)
EXTENDS Naturals, FiniteSets, FiniteSetsExt

CONSTANTS
  Citizen,
  Grant,        \* requests to give a consent
  Revocation,   \* requests to revoke one
  Ask,          \* data requests under a consent, each evaluated by the PDP
  Owner,        \* whose request a grant is
  Under,        \* the consent a revocation or a data request is about
  BatchSize,    \* outboxBatchSize
  MaxFaults     \* bound: calls that fail or time out, and crashes of the register
CONSTANT None

ASSUME ConsentAssumption ==
  /\ Owner \in [Grant -> Citizen] /\ None \notin Grant
  /\ Under \in [Revocation \cup Ask -> Grant]
  /\ BatchSize \in Nat \ {0} /\ MaxFaults \in Nat

VARIABLES
  grant,      \* portal: where each grant is, and whether the citizen had
              \* been granted one when it began
  revocation, \* portal: where each revocation is, and whose it is
  ask,        \* PDP: where each evaluation is, the status it was told,
              \* whether its time is past valid_until, and whether the
              \* consent was over when it began
  kept,       \* register: the grant whose polymorphic pair is kept per citizen
  consent,    \* register: the status of each consent
  expired,    \* consents whose valid_until has passed
  outbox,     \* register: the ldv_outbox table
  open,       \* register: entries inserted by a transaction not yet committed
  up,         \* register: the process runs
  batch, step,\* register: deliverOutbox
  logbook,    \* the records the logbook holds
  faults

vars == <<grant, revocation, ask, kept, consent, expired, outbox, open, up,
          batch, step, logbook, faults>>

portal == <<grant, revocation>>
register == <<kept, consent>>
table == <<outbox, open>>
delivery == <<batch, step, logbook>>
world == <<expired, up, faults>>

Request == Grant \cup Revocation \cup Ask
Record ==
  [kind : {"grant"}, of : Grant] \cup [kind : {"revoke", "inzage"}, of : Revocation]
    \cup [kind : {"status"}, of : Ask]
EntryOf(R) == [id : Nat \ {0}, rec : R]

(* ldv_outbox.id is a sequence; of ids only the order matters, so a new    *)
(* entry is numbered after what is there.                                  *)
Entry(kind, of) ==
  [id |-> Max({e.id : e \in outbox \cup open} \cup {0}) + 1,
   rec |-> [kind |-> kind, of |-> of]]

Committed == {e.rec : e \in outbox} \cup logbook
Recorded(kind, of) == [kind |-> kind, of |-> of] \in Committed
Logged(kind, of) == [kind |-> kind, of |-> of] \in logbook

Fault == faults < MaxFaults /\ faults' = faults + 1
GrantGoes(g, from, to) ==
  grant[g].at = from /\ grant' = [grant EXCEPT ![g].at = to]
RevocationGoes(v, from, to) ==
  revocation[v].at = from /\ revocation' = [revocation EXCEPT ![v].at = to]
AskGoes(a, from, to) ==
  ask[a].at = from /\ ask' = [ask EXCEPT ![a].at = to]

-----------------------------------------------------------------------------
Init ==
  /\ grant = [g \in Grant |-> [at |-> "new"]]
  /\ revocation \in [Revocation -> [at : {"new"}, by : Citizen]]
  /\ ask = [a \in Ask |-> [at |-> "new", seen |-> None, past |-> FALSE, late |-> FALSE]]
  /\ kept = [z \in Citizen |-> None]
  /\ consent = [g \in Grant |-> "none"] /\ expired = {}
  /\ outbox = {} /\ open = {} /\ up = TRUE
  /\ batch = {} /\ step = "idle" /\ logbook = {}
  /\ faults = 0

(* GiveConsent looks for the citizen's polymorphic pair and activates the  *)
(* citizen if there is none.                                               *)
StartGrant(g) ==
  /\ up
  /\ GrantGoes(g, "new", IF kept[Owner[g]] = None THEN "activate" ELSE "encrypt")
  /\ UNCHANGED <<revocation, ask, register, table, delivery, world>>

(* BSNk returned a pair of this activation's own, and the register keeps   *)
(* it.  ON CONFLICT DO NOTHING: a reference keeps the first pair it got.   *)
KeptPair(old, new) == IF old = None THEN new ELSE old
KeepPair(g) ==
  /\ up /\ GrantGoes(g, "activate", "encrypt")
  /\ kept' = [kept EXCEPT ![Owner[g]] = KeptPair(kept[Owner[g]], g)]
  /\ UNCHANGED <<revocation, ask, consent, table, delivery, world>>

(* The transaction of Create and of Revoke: the row and the record in one  *)
(* commit.  The record's id is taken at the insert, so a later id can be   *)
(* visible before an earlier one.                                          *)
VisibleAtInsert(e) == outbox
Insert(kind, of) ==
  /\ up
  /\ open' = open \cup {Entry(kind, of)}
  /\ outbox' = VisibleAtInsert(Entry(kind, of))

CommitOf(kind, of) ==
  \E e \in open :
    /\ e.rec = [kind |-> kind, of |-> of]
    /\ open' = open \ {e}
    /\ outbox' = outbox \cup {e}

(* Encrypted values in hand and the pseudonymisation in the spool, the     *)
(* portal has the register create the consent.                             *)
OpenCreate(g) ==
  /\ GrantGoes(g, "encrypt", "open")
  /\ Insert("grant", g)
  /\ UNCHANGED <<revocation, ask, register, delivery, world>>

CommitCreate(g) ==
  /\ CommitOf("grant", g)
  /\ consent' = [consent EXCEPT ![g] = "ACTIVE"]
  /\ \/ GrantGoes(g, "open", "granted") /\ UNCHANGED faults
     \/ GrantGoes(g, "open", "failed") /\ Fault   \* the answer does not arrive
  /\ UNCHANGED <<revocation, ask, kept, delivery, expired, up>>

GrantFails(g) ==
  /\ Fault
  /\ \E from \in {"new", "activate", "encrypt"} : GrantGoes(g, from, "failed")
  /\ UNCHANGED <<revocation, ask, register, table, delivery, expired, up>>

-----------------------------------------------------------------------------
(* What only reads is recorded before it is answered. *)
AppendRecord(kind, of) ==
  up /\ outbox' = outbox \cup {Entry(kind, of)} /\ UNCHANGED open

(* RevokeConsent fetches the consent, which the register records as an     *)
(* inzage, and compares its owner.  A listing is a read and the same       *)
(* record, and nothing more.                                               *)
MayRevokeAny(v) == TRUE
MayRevoke(v) == Owner[Under[v]] = revocation[v].by
GetConsent(v) ==
  LET found == consent[Under[v]] # "none"
  IN  /\ up
      /\ RevocationGoes(v, "new", IF found /\ MayRevoke(v) THEN "revoke" ELSE "failed")
      /\ IF found THEN AppendRecord("inzage", v) ELSE UNCHANGED table
      /\ UNCHANGED <<grant, ask, register, delivery, world>>

(* The UPDATE takes the row's lock: revocations of one consent queue. *)
OpenRevoke(v) ==
  /\ \A e \in open : e.rec.kind = "revoke" => Under[e.rec.of] # Under[v]
  /\ RevocationGoes(v, "revoke", "open")
  /\ Insert("revoke", v)
  /\ UNCHANGED <<grant, ask, register, delivery, world>>

CommitRevoke(v) ==
  /\ CommitOf("revoke", v)
  /\ consent' = [consent EXCEPT ![Under[v]] = "REVOKED"]
  /\ \/ RevocationGoes(v, "open", "revoked") /\ UNCHANGED faults
     \/ RevocationGoes(v, "open", "failed") /\ Fault
  /\ UNCHANGED <<grant, ask, kept, delivery, expired, up>>

RevocationFails(v) ==
  /\ Fault
  /\ \E from \in {"new", "revoke"} : RevocationGoes(v, from, "failed")
  /\ UNCHANGED <<grant, ask, register, table, delivery, expired, up>>

-----------------------------------------------------------------------------
(* The PDP evaluates a request under a token.  http.send has a timeout and *)
(* no cache for a status; the evaluation has one time, its start.  A token *)
(* past its time by more than the clock skew is refused before the lookup, *)
(* one within the skew after it.                                           *)
Over(g) == g \in expired \/ consent[g] = "REVOKED"
StartAsk(a) ==
  LET g == Under[a]
      past == g \in expired
  IN  /\ grant[g].at = "granted" /\ ask[a].at = "new"
      /\ \E to \in {"sent"} \cup (IF past THEN {"deny"} ELSE {}) :
           ask' = [ask EXCEPT ![a].at = to, ![a].past = past, ![a].late = Over(g)]
      /\ UNCHANGED <<portal, register, table, delivery, world>>

(* handleConsentStatus: read, record, answer what was read.  The mutant    *)
(* takes the token for proof and does not look.                            *)
AsGranted(a) == "ACTIVE"
StatusNow(a) == consent[Under[a]]
ReadStatus(a) ==
  /\ up /\ ask[a].at = "sent"
  /\ ask' = [ask EXCEPT ![a].at = "read", ![a].seen = StatusNow(a)]
  /\ UNCHANGED <<portal, register, table, delivery, world>>

Decision(a) ==
  IF ask[a].seen = "ACTIVE" /\ ~ask[a].past THEN "permit" ELSE "deny"
AnswerStatus(a) ==
  /\ AppendRecord("status", a)
  /\ \/ AskGoes(a, "read", Decision(a)) /\ UNCHANGED faults
     \/ AskGoes(a, "read", "deny") /\ Fault       \* the answer is too late
  /\ UNCHANGED <<portal, register, delivery, expired, up>>

(* A lookup that fails or times out, or that cannot be recorded (500),     *)
(* makes the status unavailable, which denies.                             *)
AskFails(a) ==
  /\ Fault
  /\ \E from \in {"sent", "read"} : AskGoes(a, from, "deny")
  /\ UNCHANGED <<portal, register, table, delivery, expired, up>>

Expire(g) ==
  /\ consent[g] # "none" /\ g \notin expired
  /\ expired' = expired \cup {g}
  /\ UNCHANGED <<portal, ask, register, table, delivery, up, faults>>

-----------------------------------------------------------------------------
(* deliverOutbox: a pass takes the oldest entries by id, at most BatchSize *)
(* of them, and sends them one by one in that order, stopping at the first *)
(* failure.  The mutant starts with the newest.                            *)
Least(m, n) == IF m < n THEN m ELSE n
Pending ==
  {b \in SUBSET outbox :
     /\ Cardinality(b) = Least(BatchSize, Cardinality(outbox))
     /\ \A e \in b, d \in outbox \ b : e.id < d.id}
Newest(entries) == CHOOSE e \in entries : \A d \in entries : d.id <= e.id
Oldest(entries) == CHOOSE e \in entries : \A d \in entries : e.id <= d.id

ReadOutbox ==
  /\ up /\ step = "idle" /\ outbox # {}
  /\ batch' \in Pending /\ step' = "post"
  /\ UNCHANGED <<portal, ask, register, table, logbook, world>>

(* A refusal of the logbook is a failed post: the entry stays, and so do   *)
(* those behind it.  deliverOutbox clears an entry whose bytes do not      *)
(* decode, which is none of those it can meet: every row was encoded from  *)
(* an ldv.Record in the transaction that inserted it, into a jsonb column. *)
PostEntry ==
  /\ up /\ step = "post"
  /\ logbook' = logbook \cup {Oldest(batch).rec}
  /\ step' = "mark"
  /\ UNCHANGED <<portal, ask, register, table, batch, world>>

(* MarkDelivered deletes the row. *)
Mark ==
  /\ up /\ step = "mark"
  /\ outbox' = outbox \ {Oldest(batch)}
  /\ batch' = batch \ {Oldest(batch)}
  /\ step' = IF batch' = {} THEN "idle" ELSE "post"
  /\ UNCHANGED <<portal, ask, register, open, logbook, world>>

(* A failed post may have been stored; the mutant clears the entry anyway. *)
ClearedOnFailure(e) == outbox \ {e}
KeptOnFailure(e) == outbox
DeliveryFails ==
  /\ up /\ step # "idle" /\ Fault
  /\ logbook' \in {logbook, logbook \cup {Oldest(batch).rec}}
  /\ outbox' = KeptOnFailure(Oldest(batch))
  /\ batch' = {} /\ step' = "idle"
  /\ UNCHANGED <<portal, ask, register, open, expired, up>>

(* A crash of the register rolls open transactions back and fails every    *)
(* call in progress; the database and the other processes stay.            *)
Ended(calls, from, to) ==
  [c \in DOMAIN calls |-> IF calls[c].at = from THEN [calls[c] EXCEPT !.at = to] ELSE calls[c]]
Crash ==
  /\ up /\ Fault
  /\ up' = FALSE
  /\ open' = {} /\ batch' = {} /\ step' = "idle"
  /\ grant' = Ended(grant, "open", "failed")
  /\ revocation' = Ended(revocation, "open", "failed")
  /\ ask' = Ended(ask, "read", "deny")
  /\ UNCHANGED <<register, expired, outbox, logbook>>

Restart == ~up /\ up' = TRUE
  /\ UNCHANGED <<portal, ask, register, table, delivery, expired, faults>>
GrantStep(g) ==
  StartGrant(g) \/ KeepPair(g) \/ OpenCreate(g) \/ CommitCreate(g) \/ GrantFails(g)
RevocationStep(v) ==
  GetConsent(v) \/ OpenRevoke(v) \/ CommitRevoke(v) \/ RevocationFails(v)
AskStep(a) == StartAsk(a) \/ ReadStatus(a) \/ AnswerStatus(a) \/ AskFails(a)
Deliver == ReadOutbox \/ PostEntry \/ Mark

Next ==
  \/ \E g \in Grant : GrantStep(g) \/ Expire(g)
  \/ \E v \in Revocation : RevocationStep(v)
  \/ \E a \in Ask : AskStep(a)
  \/ Deliver \/ DeliveryFails \/ Crash \/ Restart

Spec == Init /\ [][Next]_vars

(* runOutbox is a ticker; a register that stopped is started again. *)
FairSpec == Spec /\ WF_vars(Deliver) /\ WF_vars(Restart)

-----------------------------------------------------------------------------
TypeOK ==
  /\ grant \in [Grant -> [at : {"new", "activate", "encrypt", "open", "granted", "failed"}]]
  /\ revocation \in [Revocation ->
       [at : {"new", "revoke", "open", "revoked", "failed"}, by : Citizen]]
  /\ ask \in [Ask -> [at : {"new", "sent", "read", "permit", "deny"},
                      seen : {None, "ACTIVE", "REVOKED"},
                      past : BOOLEAN, late : BOOLEAN]]
  /\ kept \in [Citizen -> Grant \cup {None}]
  /\ consent \in [Grant -> {"none", "ACTIVE", "REVOKED"}] /\ expired \subseteq Grant
  /\ outbox \subseteq EntryOf(Record) /\ open \subseteq EntryOf(Record)
  /\ outbox \cap open = {} /\ up \in BOOLEAN
  /\ batch \subseteq outbox
  /\ step \in {"idle", "post", "mark"} /\ (step = "idle" <=> batch = {})
  /\ logbook \subseteq Record
  /\ faults \in 0..MaxFaults

(* "A revoked consent must deny on the very next request" (consent.rego:   *)
(* 7-9): a request that began after the revocation committed, or after     *)
(* valid_until, is never permitted, whatever other requests saw.           *)
RevocationBites == \A a \in Ask : ask[a].at = "permit" => ~ask[a].late

(* "Neither can exist without the other - a consent nothing logged, or a   *)
(* record for a consent that was never created" (main.go:456-459): grants  *)
(* and revocations are in the store exactly when they are recorded, only   *)
(* the owner's revocations are, and a status that let a request through is *)
(* recorded.                                                               *)
LogMatchesStore ==
  /\ \A g \in Grant : consent[g] # "none" <=> Recorded("grant", g)
  /\ \A g \in Grant : consent[g] = "REVOKED" <=>
       \E v \in Revocation :
         Under[v] = g /\ revocation[v].by = Owner[g] /\ Recorded("revoke", v)
  /\ \A a \in Ask : ask[a].at = "permit" => Recorded("status", a)

(* Delivery is "oldest first" (ldv_consent.go:114-116): although ids can   *)
(* become visible out of order, the logbook learns of a consent before it  *)
(* learns of its revocation or of a question about it.                     *)
GrantLoggedFirst ==
  /\ \A v \in Revocation : Logged("revoke", v) => Logged("grant", Under[v])
  /\ \A a \in Ask : Logged("status", a) => Logged("grant", Under[a])

(* The outbox table keeps the promise the spool keeps: what committed is   *)
(* in the logbook in the end, across crashes and failed deliveries.        *)
Promise == INSTANCE LoggingPromise WITH
  offered <- Committed, promised <- Committed, logged <- logbook
RegisterKeepsPromise == Promise!Spec
=============================================================================
