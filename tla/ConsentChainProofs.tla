------------------------- MODULE ConsentChainProofs -------------------------
(***************************************************************************)
(* Theorems about ConsentChain, for any number of citizens, grants,        *)
(* revocations and data requests, every batch size, and any number of      *)
(* failed calls and crashes of the register; and about AdmissionRegister,  *)
(* the register of parties that the same PDP pulls, for any configurations *)
(* and whatever operators enter.                                           *)
(***************************************************************************)
EXTENDS ConsentChain, AdmissionRegister, FiniteSetTheorems, WellFoundedInduction, TLAPS

-----------------------------------------------------------------------------
(* Numbers of entries.                                                     *)

LEMMA LeastElement ==
  ASSUME NEW S \in SUBSET Nat, S # {}
  PROVE  \E x \in S : \A y \in S : x <= y
  <1>1. PICK x \in S : \A y \in S : ~ (<<y, x>> \in OpToRel(<, Nat))
    BY NatLessThanWellFounded, WFMin
  <1>2. ASSUME NEW y \in S PROVE x <= y
    <2>1. ~ (y < x)
      BY <1>1 DEF OpToRel
    <2> QED
      BY <2>1
  <1> QED
    BY <1>2

\* A bounded nonempty set of naturals has a largest element, and Max is it.
LEMMA LargestIsMax ==
  ASSUME NEW S \in SUBSET Nat, S # {}, NEW n \in Nat, \A x \in S : x <= n
  PROVE  Max(S) \in S /\ \A x \in S : x <= Max(S)
  <1> DEFINE Below == {n - x : x \in S}
  <1>1. Below \in SUBSET Nat /\ Below # {}
    <2>1. \A x \in S : n - x \in Nat
      <3> TAKE x \in S
      <3>1. x \in Nat /\ x <= n
        OBVIOUS
      <3> QED
        BY <3>1
    <2> QED
      BY <2>1
  <1>2. PICK m \in Below : \A y \in Below : m <= y
    BY <1>1, LeastElement
  <1>3. PICK x \in S : m = n - x
    BY <1>2
  <1>4. ASSUME NEW y \in S PROVE x >= y
    <2>1. n - x <= n - y
      BY <1>2, <1>3
    <2> QED
      BY <2>1
  <1> QED
    BY <1>4 DEF Max

\* The oldest of a nonempty set of entries is one of them, and none is older.
LEMMA OldestIsFirst ==
  ASSUME NEW entries \in SUBSET EntryOf(Record), entries # {}
  PROVE  /\ Oldest(entries) \in entries
         /\ \A d \in entries : Oldest(entries).id <= d.id
  <1> DEFINE S == {e.id : e \in entries}
  <1>1. S \in SUBSET Nat /\ S # {}
    BY DEF EntryOf
  <1>2. PICK x \in S : \A y \in S : x <= y
    BY <1>1, LeastElement
  <1>3. PICK e \in entries : x = e.id
    BY <1>2
  <1>4. \A d \in entries : e.id <= d.id
    BY <1>2, <1>3
  <1> QED
    BY <1>4 DEF Oldest

\* The records there are.
LEMMA Records ==
  /\ \A g \in Grant : [kind |-> "grant", of |-> g] \in Record
  /\ \A v \in Revocation : /\ [kind |-> "revoke", of |-> v] \in Record
                           /\ [kind |-> "inzage", of |-> v] \in Record
  /\ \A a \in Ask : [kind |-> "status", of |-> a] \in Record
  BY DEF Record

-----------------------------------------------------------------------------
(* The inductive invariant.  The shelf is the outbox and what delivers it: *)
(* the logbook learns of a consent first because an entry about a consent  *)
(* finds the entry of its grant visible with a lower number, or delivered, *)
(* and a pass that takes the one takes the other.  The stages tie where a  *)
(* call is to what the register holds: without them a grant could commit   *)
(* over a revocation, or a record be written twice.                        *)

ShelfType ==
  /\ outbox \subseteq EntryOf(Record) /\ open \subseteq EntryOf(Record)
  /\ outbox \cap open = {} /\ batch \subseteq outbox
  /\ step \in {"idle", "post", "mark"} /\ (step = "idle" <=> batch = {})
  /\ logbook \subseteq Record

Numbered ==
  /\ IsFiniteSet(outbox)
  /\ \E n \in Nat : \A e \in outbox \cup open : e.id <= n

\* An entry about a consent comes after the entry of its grant.
Behind(e, entries, logged) ==
  e.rec.kind \in {"revoke", "status"} =>
    \/ [kind |-> "grant", of |-> Under[e.rec.of]] \in logged
    \/ \E d \in entries : d.rec = [kind |-> "grant", of |-> Under[e.rec.of]] /\ d.id < e.id

GrantsAhead ==
  /\ \A e \in outbox \cup open : Behind(e, outbox, logbook)
  /\ \A e \in batch : Behind(e, batch, logbook)
  /\ step = "mark" => Oldest(batch).rec \in logbook

Shelf == ShelfType /\ Numbered /\ GrantsAhead /\ GrantLoggedFirst

CallType ==
  /\ grant \in [Grant -> [at : {"new", "activate", "encrypt", "open", "granted", "failed"}]]
  /\ revocation \in [Revocation ->
       [at : {"new", "revoke", "open", "revoked", "failed"}, by : Citizen]]
  /\ ask \in [Ask -> [at : {"new", "sent", "read", "permit", "deny"},
                      seen : {None, "ACTIVE", "REVOKED"},
                      past : BOOLEAN, late : BOOLEAN]]
  /\ kept \in [Citizen -> Grant \cup {None}]
  /\ consent \in [Grant -> {"none", "ACTIVE", "REVOKED"}] /\ expired \subseteq Grant
  /\ up \in BOOLEAN /\ faults \in 0..MaxFaults

Waiting(g) == grant[g].at \in {"new", "activate", "encrypt", "open"}

GrantStages ==
  \A g \in Grant :
    /\ Waiting(g) => consent[g] = "none"
    /\ grant[g].at = "granted" => consent[g] # "none"

RevocationStages ==
  \A v \in Revocation :
    /\ revocation[v].at \in {"revoke", "open"} =>
         revocation[v].by = Owner[Under[v]] /\ consent[Under[v]] # "none"
    /\ revocation[v].at = "new" => ~Recorded("inzage", v)
    /\ revocation[v].at \in {"new", "revoke", "open"} => ~Recorded("revoke", v)

AskStages ==
  \A a \in Ask :
    /\ ask[a].at # "new" => consent[Under[a]] # "none"
    /\ ask[a].at \in {"new", "sent", "read"} => ~Recorded("status", a)
    /\ ask[a].late => ask[a].past \/ consent[Under[a]] = "REVOKED"
    /\ ask[a].at = "read" /\ ask[a].late /\ ~ask[a].past => ask[a].seen # "ACTIVE"

Stages == GrantStages /\ RevocationStages /\ AskStages /\ LogMatchesStore /\ RevocationBites

IInv == CallType /\ Shelf /\ Stages

LEMMA TypeParts == IInv => TypeOK
  BY DEF IInv, CallType, Shelf, ShelfType, TypeOK

-----------------------------------------------------------------------------
(* The shelf.                                                              *)

LEMMA ShelfInit == Init => Shelf
  <1> SUFFICES ASSUME Init PROVE Shelf
    OBVIOUS
  <1>1. ShelfType
    BY DEF Init, ShelfType
  <1>2. Numbered
    <2>1. \A e \in outbox \cup open : e.id <= 0
      BY DEF Init
    <2> QED
      BY <2>1, FS_EmptySet DEF Init, Numbered
  <1>3. GrantsAhead /\ GrantLoggedFirst
    BY DEF Init, GrantsAhead, GrantLoggedFirst, Logged
  <1> QED
    BY <1>1, <1>2, <1>3 DEF Shelf

LEMMA ShelfStays ==
  ASSUME Shelf, UNCHANGED <<outbox, open, batch, step, logbook>>
  PROVE  Shelf' /\ Committed' = Committed
  BY DEF Shelf, ShelfType, Numbered, GrantsAhead, Behind, GrantLoggedFirst, Logged, Committed

\* A new entry is numbered after all there are.
LEMMA NewEntry ==
  ASSUME Shelf, NEW kind, NEW of, [kind |-> kind, of |-> of] \in Record
  PROVE  /\ Entry(kind, of) \in EntryOf(Record)
         /\ Entry(kind, of).rec = [kind |-> kind, of |-> of]
         /\ \A d \in outbox \cup open : d.id < Entry(kind, of).id
  <1> DEFINE S == {e.id : e \in outbox \cup open} \cup {0}
  <1>1. outbox \cup open \subseteq EntryOf(Record)
    BY DEF Shelf, ShelfType
  <1>2. S \in SUBSET Nat /\ S # {}
    BY <1>1 DEF EntryOf
  <1>3. PICK n \in Nat : \A e \in outbox \cup open : e.id <= n
    BY DEF Shelf, Numbered
  <1>4. \A x \in S : x <= n
    BY <1>3
  <1>5. Max(S) \in S /\ \A x \in S : x <= Max(S)
    BY <1>2, <1>4, LargestIsMax
  <1>6. Max(S) \in Nat /\ \A d \in outbox \cup open : d.id \in Nat /\ d.id <= Max(S)
    BY <1>2, <1>5
  <1> HIDE DEF S
  <1>7. Entry(kind, of) = [id |-> Max(S) + 1, rec |-> [kind |-> kind, of |-> of]]
    BY DEF Entry, S
  <1> QED
    BY <1>6, <1>7 DEF EntryOf

\* What an entry about a consent needs when it is written.
Known(kind, of) == kind \in {"revoke", "status"} => Recorded("grant", Under[of])

\* It then is behind the entry of its grant.
LEMMA WrittenBehind ==
  ASSUME Shelf, NEW kind, NEW of, [kind |-> kind, of |-> of] \in Record, Known(kind, of)
  PROVE  Behind(Entry(kind, of), outbox, logbook)
  <1>1. /\ Entry(kind, of).rec = [kind |-> kind, of |-> of]
        /\ \A d \in outbox : d.id < Entry(kind, of).id
    BY NewEntry
  <1> QED
    BY <1>1 DEF Behind, Known, Recorded, Committed

LEMMA InsertKeeps ==
  ASSUME Shelf, NEW kind, NEW of, [kind |-> kind, of |-> of] \in Record, Known(kind, of),
         Insert(kind, of), UNCHANGED delivery
  PROVE  Shelf' /\ Committed' = Committed
  <1> DEFINE e == Entry(kind, of)
  <1>1. /\ open' = open \cup {e} /\ outbox' = outbox
        /\ batch' = batch /\ step' = step /\ logbook' = logbook
    BY DEF Insert, VisibleAtInsert, delivery
  <1>2. e \in EntryOf(Record) /\ \A d \in outbox \cup open : d.id < e.id
    BY NewEntry
  <1>3. Behind(e, outbox, logbook)
    BY WrittenBehind
  <1> HIDE DEF e
  <1>4. ShelfType'
    BY <1>1, <1>2 DEF Shelf, ShelfType, EntryOf
  <1>5. Numbered'
    <2>1. e.id \in Nat /\ \A d \in outbox \cup open : d.id \in Nat
      BY <1>2 DEF EntryOf, Shelf, ShelfType
    <2>2. \A d \in outbox' \cup open' : d.id <= e.id
      BY <1>1, <1>2, <2>1
    <2> QED
      BY <1>1, <2>1, <2>2 DEF Shelf, Numbered
  <1>6. GrantsAhead'
    BY <1>1, <1>3 DEF Shelf, GrantsAhead, Behind
  <1>7. GrantLoggedFirst' /\ Committed' = Committed
    BY <1>1 DEF Shelf, GrantLoggedFirst, Logged, Committed
  <1> QED
    BY <1>4, <1>5, <1>6, <1>7 DEF Shelf

\* Entries become visible: by a commit, or written and committed at once.
LEMMA VisibleKeeps ==
  ASSUME Shelf, NEW e \in EntryOf(Record), e \notin outbox,
         outbox' = outbox \cup {e}, open' = open \ {e},
         Behind(e, outbox, logbook), \E n \in Nat : \A d \in outbox \cup open \cup {e} : d.id <= n,
         UNCHANGED delivery
  PROVE  Shelf' /\ Committed' = Committed \cup {e.rec}
  <1>1. batch' = batch /\ step' = step /\ logbook' = logbook
    BY DEF delivery
  <1>2. ShelfType'
    BY <1>1 DEF Shelf, ShelfType
  <1>3. Numbered'
    BY FS_AddElement DEF Shelf, Numbered
  <1>4. GrantsAhead'
    BY <1>1 DEF Shelf, GrantsAhead, Behind
  <1>5. GrantLoggedFirst'
    BY <1>1 DEF Shelf, GrantLoggedFirst, Logged
  <1>6. Committed' = Committed \cup {e.rec}
    BY <1>1 DEF Committed
  <1> QED
    BY <1>2, <1>3, <1>4, <1>5, <1>6 DEF Shelf

LEMMA CommitKeeps ==
  ASSUME Shelf, NEW kind, NEW of, CommitOf(kind, of), UNCHANGED delivery
  PROVE  Shelf' /\ Committed' = Committed \cup {[kind |-> kind, of |-> of]}
  <1>1. PICK e \in open : /\ e.rec = [kind |-> kind, of |-> of]
                          /\ open' = open \ {e} /\ outbox' = outbox \cup {e}
    BY DEF CommitOf
  <1>2. e \in EntryOf(Record) /\ e \notin outbox /\ Behind(e, outbox, logbook)
    BY <1>1 DEF Shelf, ShelfType, GrantsAhead
  <1>3. \E n \in Nat : \A d \in outbox \cup open \cup {e} : d.id <= n
    BY <1>1 DEF Shelf, Numbered
  <1> QED
    BY <1>1, <1>2, <1>3, VisibleKeeps

LEMMA AppendKeeps ==
  ASSUME Shelf, NEW kind, NEW of, [kind |-> kind, of |-> of] \in Record, Known(kind, of),
         AppendRecord(kind, of), UNCHANGED delivery
  PROVE  Shelf' /\ Committed' = Committed \cup {[kind |-> kind, of |-> of]}
  <1> DEFINE e == Entry(kind, of)
  <1>1. outbox' = outbox \cup {e} /\ open' = open
    BY DEF AppendRecord
  <1>2. /\ e \in EntryOf(Record) /\ e.rec = [kind |-> kind, of |-> of]
        /\ \A d \in outbox \cup open : d.id < e.id
    BY NewEntry
  <1>3. Behind(e, outbox, logbook)
    BY WrittenBehind
  <1> HIDE DEF e
  <1>4. e.id \in Nat /\ \A d \in outbox \cup open : d.id \in Nat
    BY <1>2 DEF EntryOf, Shelf, ShelfType
  <1>5. e \notin outbox /\ e \notin open
    BY <1>2, <1>4
  <1>6. \A d \in outbox \cup open \cup {e} : d.id <= e.id
    BY <1>2, <1>4
  <1>7. open' = open \ {e}
    BY <1>1, <1>5
  <1> QED
    BY <1>1, <1>2, <1>3, <1>4, <1>5, <1>6, <1>7, VisibleKeeps

\* A pass takes with an entry every visible entry that is older.
LEMMA ReadKeeps ==
  ASSUME Shelf, ReadOutbox
  PROVE  Shelf' /\ Committed' = Committed
  <1>1. /\ step' = "post" /\ UNCHANGED <<outbox, open, logbook>> /\ outbox # {}
        /\ batch' \subseteq outbox
        /\ Cardinality(batch') = Least(BatchSize, Cardinality(outbox))
        /\ \A e \in batch', d \in outbox \ batch' : e.id < d.id
    BY DEF ReadOutbox, Pending, table
  <1>2. batch' # {}
    <2>1. Cardinality(outbox) \in Nat /\ Cardinality(outbox) # 0
      BY <1>1, FS_EmptySet, FS_CardinalityType DEF Shelf, Numbered
    <2>2. Cardinality(batch') # 0
      BY <1>1, <2>1, ConsentAssumption DEF Least
    <2> QED
      BY <2>2, FS_EmptySet
  <1>3. ShelfType'
    BY <1>1, <1>2 DEF Shelf, ShelfType
  <1>4. Numbered'
    BY <1>1 DEF Shelf, Numbered
  <1>5. ASSUME NEW e \in batch' PROVE Behind(e, batch', logbook')
    <2>1. Behind(e, outbox, logbook)
      BY <1>1 DEF Shelf, GrantsAhead
    <2>2. \A d \in outbox : d.id < e.id => d \in batch'
      BY <1>1 DEF Shelf, ShelfType, EntryOf
    <2> QED
      BY <1>1, <2>1, <2>2 DEF Behind
  <1>6. GrantsAhead'
    BY <1>1, <1>5 DEF Shelf, GrantsAhead
  <1>7. GrantLoggedFirst' /\ Committed' = Committed
    BY <1>1 DEF Shelf, GrantLoggedFirst, Logged, Committed
  <1> QED
    BY <1>3, <1>4, <1>6, <1>7 DEF Shelf

\* What is posted is the oldest entry of the pass, so its grant is logged.
LEMMA PostedInOrder ==
  ASSUME Shelf, step # "idle", logbook' = logbook \cup {Oldest(batch).rec}
  PROVE  /\ Oldest(batch) \in batch /\ Oldest(batch) \in outbox
         /\ GrantLoggedFirst' /\ logbook' \subseteq Record
  <1>1. batch \in SUBSET EntryOf(Record) /\ batch # {}
    BY DEF Shelf, ShelfType
  <1>2. Oldest(batch) \in batch /\ \A d \in batch : Oldest(batch).id <= d.id
    BY <1>1, OldestIsFirst
  <1> DEFINE e == Oldest(batch)
  <1>3. e \in EntryOf(Record) /\ e \in outbox /\ Behind(e, batch, logbook)
    BY <1>2 DEF Shelf, ShelfType, GrantsAhead
  <1>4. \A d \in batch : ~(d.id < e.id)
    BY <1>1, <1>2 DEF EntryOf
  <1> HIDE DEF e
  <1>5. e.rec.kind \in {"revoke", "status"} => [kind |-> "grant", of |-> Under[e.rec.of]] \in logbook
    BY <1>3, <1>4 DEF Behind
  <1>6. logbook' = logbook \cup {e.rec}
    BY DEF e
  <1>7. ASSUME NEW v \in Revocation, Logged("revoke", v)' PROVE Logged("grant", Under[v])'
    <2>1. [kind |-> "revoke", of |-> v] \in logbook \/ e.rec = [kind |-> "revoke", of |-> v]
      BY <1>6, <1>7 DEF Logged
    <2> QED
      BY <1>5, <1>6, <2>1 DEF Shelf, GrantLoggedFirst, Logged
  <1>8. ASSUME NEW a \in Ask, Logged("status", a)' PROVE Logged("grant", Under[a])'
    <2>1. [kind |-> "status", of |-> a] \in logbook \/ e.rec = [kind |-> "status", of |-> a]
      BY <1>6, <1>8 DEF Logged
    <2> QED
      BY <1>5, <1>6, <2>1 DEF Shelf, GrantLoggedFirst, Logged
  <1>9. logbook' \subseteq Record
    BY <1>3, <1>6 DEF EntryOf, Shelf, ShelfType
  <1> QED
    BY <1>2, <1>3, <1>7, <1>8, <1>9 DEF GrantLoggedFirst, e

LEMMA PostKeeps ==
  ASSUME Shelf, PostEntry
  PROVE  Shelf' /\ Committed' = Committed
  <1>1. /\ logbook' = logbook \cup {Oldest(batch).rec} /\ step = "post" /\ step' = "mark"
        /\ UNCHANGED <<outbox, open, batch>>
    BY DEF PostEntry, table
  <1>2. Oldest(batch) \in outbox /\ GrantLoggedFirst' /\ logbook' \subseteq Record
    BY <1>1, PostedInOrder
  <1>3. ShelfType'
    BY <1>1, <1>2 DEF Shelf, ShelfType
  <1>4. Numbered'
    BY <1>1 DEF Shelf, Numbered
  <1>5. GrantsAhead'
    BY <1>1 DEF Shelf, GrantsAhead, Behind
  <1>6. Committed' = Committed
    BY <1>1, <1>2 DEF Committed
  <1> QED
    BY <1>2, <1>3, <1>4, <1>5, <1>6 DEF Shelf

LEMMA MarkKeeps ==
  ASSUME Shelf, Mark
  PROVE  Shelf' /\ Committed' = Committed
  <1> DEFINE e == Oldest(batch)
  <1>1. /\ step = "mark" /\ outbox' = outbox \ {e} /\ batch' = batch \ {e}
        /\ step' = IF batch' = {} THEN "idle" ELSE "post"
        /\ UNCHANGED <<open, logbook>>
    BY DEF Mark
  <1>2. e.rec \in logbook
    BY <1>1 DEF Shelf, GrantsAhead
  <1> HIDE DEF e
  <1>3. ShelfType'
    BY <1>1 DEF Shelf, ShelfType
  <1>4. Numbered'
    BY <1>1, FS_RemoveElement DEF Shelf, Numbered
  <1>5. GrantsAhead'
    BY <1>1, <1>2 DEF Shelf, GrantsAhead, Behind
  <1>6. GrantLoggedFirst' /\ Committed' = Committed
    BY <1>1, <1>2 DEF Shelf, GrantLoggedFirst, Logged, Committed
  <1> QED
    BY <1>3, <1>4, <1>5, <1>6 DEF Shelf

\* A pass that ends early, having posted its oldest entry or not.
LEMMA StopKeeps ==
  ASSUME Shelf, step # "idle",
         logbook' \in {logbook, logbook \cup {Oldest(batch).rec}},
         outbox' = outbox, open' = open, batch' = {}, step' = "idle"
  PROVE  Shelf' /\ Committed' = Committed
  <1>1. GrantLoggedFirst' /\ logbook' \subseteq Record /\ logbook \subseteq logbook'
    <2>1. CASE logbook' = logbook
      BY <2>1 DEF Shelf, ShelfType, GrantLoggedFirst, Logged
    <2>2. CASE logbook' = logbook \cup {Oldest(batch).rec}
      BY <2>2, PostedInOrder
    <2> QED
      BY <2>1, <2>2
  <1>2. Oldest(batch) \in outbox
    BY OldestIsFirst DEF Shelf, ShelfType
  <1>3. ShelfType' /\ Numbered' /\ GrantsAhead'
    BY <1>1 DEF Shelf, ShelfType, Numbered, GrantsAhead, Behind
  <1>4. Committed' = Committed
    BY <1>2 DEF Committed
  <1> QED
    BY <1>1, <1>3, <1>4 DEF Shelf

LEMMA CrashKeeps ==
  ASSUME Shelf, outbox' = outbox, logbook' = logbook, open' = {}, batch' = {}, step' = "idle"
  PROVE  Shelf' /\ Committed' = Committed
  BY DEF Shelf, ShelfType, Numbered, GrantsAhead, Behind, GrantLoggedFirst, Logged, Committed

-----------------------------------------------------------------------------
(* The calls.                                                              *)

\* What is on record after a step that writes one record, and after one
\* that writes none.
Writes(kind, of) ==
  \A k, o : Recorded(k, o)' <=> (Recorded(k, o) \/ (k = kind /\ o = of))
WritesNothing == \A k, o : Recorded(k, o)' <=> Recorded(k, o)

LEMMA Written ==
  ASSUME NEW kind, NEW of, Committed' = Committed \cup {[kind |-> kind, of |-> of]}
  PROVE  Writes(kind, of)
  <1> SUFFICES ASSUME NEW k, NEW o
               PROVE  Recorded(k, o)' <=> (Recorded(k, o) \/ (k = kind /\ o = of))
    BY DEF Writes
  <1>1. [kind |-> k, of |-> o] = [kind |-> kind, of |-> of] <=> (k = kind /\ o = of)
    OBVIOUS
  <1>2. Recorded(k, o)' <=> [kind |-> k, of |-> o] \in Committed'
    BY DEF Recorded
  <1> QED
    BY <1>1, <1>2 DEF Recorded

LEMMA NothingWritten ==
  ASSUME Committed' = Committed
  PROVE  WritesNothing
  BY DEF WritesNothing, Recorded

LEMMA StagesInit == Init => CallType /\ Stages
  <1> SUFFICES ASSUME Init PROVE CallType /\ Stages
    OBVIOUS
  <1>1. CallType
    BY ConsentAssumption DEF Init, CallType
  <1>2. \A k, o : ~Recorded(k, o)
    BY DEF Init, Recorded, Committed
  <1>3. GrantStages /\ RevocationStages /\ AskStages /\ RevocationBites
    BY <1>2 DEF Init, GrantStages, RevocationStages, AskStages, RevocationBites, Waiting
  <1>4. LogMatchesStore
    BY <1>2 DEF Init, LogMatchesStore
  <1> QED
    BY <1>1, <1>3, <1>4 DEF Stages

LEMMA StagesStay ==
  ASSUME Stages, UNCHANGED <<grant, revocation, ask, consent>>, WritesNothing
  PROVE  Stages'
  BY DEF Stages, GrantStages, RevocationStages, AskStages, LogMatchesStore, RevocationBites,
         Waiting, WritesNothing

\* A grant that moves without a consent.
LEMMA GrantMoves ==
  ASSUME CallType, Stages, NEW g \in Grant, NEW from, NEW to,
         GrantGoes(g, from, to), from \in {"new", "activate", "encrypt", "open"},
         to \in {"activate", "encrypt", "open", "failed"},
         UNCHANGED <<revocation, ask, consent>>, WritesNothing
  PROVE  /\ grant' \in [Grant -> [at : {"new", "activate", "encrypt", "open", "granted", "failed"}]]
         /\ Stages'
  <1>1. /\ grant' \in [Grant -> [at : {"new", "activate", "encrypt", "open", "granted", "failed"}]]
        /\ grant[g].at = from /\ grant'[g].at = to
        /\ \A h \in Grant : h # g => grant'[h] = grant[h]
    BY DEF CallType, GrantGoes
  <1>2. GrantStages'
    BY <1>1 DEF Stages, GrantStages, Waiting
  <1>3. RevocationStages' /\ AskStages' /\ LogMatchesStore' /\ RevocationBites'
    BY DEF Stages, RevocationStages, AskStages, LogMatchesStore, RevocationBites, WritesNothing
  <1> QED
    BY <1>1, <1>2, <1>3 DEF Stages

\* A consent is created where there was none, so no revocation of it is on
\* record.
LEMMA CreateMoves ==
  ASSUME CallType, Stages, NEW g \in Grant, NEW to,
         GrantGoes(g, "open", to), to \in {"granted", "failed"},
         consent' = [consent EXCEPT ![g] = "ACTIVE"],
         UNCHANGED <<revocation, ask>>, Writes("grant", g)
  PROVE  /\ grant' \in [Grant -> [at : {"new", "activate", "encrypt", "open", "granted", "failed"}]]
         /\ consent' \in [Grant -> {"none", "ACTIVE", "REVOKED"}]
         /\ Stages'
  <1>1. /\ grant' \in [Grant -> [at : {"new", "activate", "encrypt", "open", "granted", "failed"}]]
        /\ grant[g].at = "open" /\ grant'[g].at = to
        /\ \A h \in Grant : h # g => grant'[h] = grant[h]
    BY DEF CallType, GrantGoes
  <1>2. /\ consent' \in [Grant -> {"none", "ACTIVE", "REVOKED"}]
        /\ consent[g] = "none" /\ consent'[g] = "ACTIVE"
        /\ \A h \in Grant : h # g => consent'[h] = consent[h]
    BY <1>1 DEF CallType, Stages, GrantStages, Waiting
  <1>3. \A h \in Grant : consent[h] # "none" => consent'[h] = consent[h]
    BY <1>2
  <1>4. GrantStages'
    BY <1>1, <1>2 DEF Stages, GrantStages, Waiting
  <1>5. RevocationStages'
    BY <1>3, ConsentAssumption DEF Stages, RevocationStages, Writes
  <1>6. AskStages'
    BY <1>3, ConsentAssumption DEF Stages, AskStages, Writes
  <1>7. RevocationBites'
    BY DEF Stages, RevocationBites
  <1>8. LogMatchesStore'
    BY <1>2 DEF Stages, LogMatchesStore, Writes
  <1> QED
    BY <1>1, <1>2, <1>4, <1>5, <1>6, <1>7, <1>8 DEF Stages

LEMMA RevocationGoesTo ==
  ASSUME CallType, NEW v \in Revocation, NEW from, NEW to, RevocationGoes(v, from, to),
         to \in {"new", "revoke", "open", "revoked", "failed"}
  PROVE  /\ revocation' \in [Revocation ->
              [at : {"new", "revoke", "open", "revoked", "failed"}, by : Citizen]]
         /\ revocation[v].at = from /\ revocation'[v].at = to
         /\ \A w \in Revocation : w # v => revocation'[w] = revocation[w]
         /\ \A w \in Revocation : revocation'[w].by = revocation[w].by
  BY DEF CallType, RevocationGoes

\* A revocation that goes on is the owner's, of a consent that is there; the
\* fetch may have put an inzage on record.
LEMMA RevocationMoves ==
  ASSUME CallType, Stages, NEW v \in Revocation, NEW from, NEW to,
         RevocationGoes(v, from, to), from \in {"new", "revoke", "open"},
         to \in {"revoke", "open", "failed"},
         to # "failed" => revocation[v].by = Owner[Under[v]] /\ consent[Under[v]] # "none",
         UNCHANGED <<grant, ask, consent>>, WritesNothing \/ Writes("inzage", v)
  PROVE  /\ revocation' \in [Revocation ->
              [at : {"new", "revoke", "open", "revoked", "failed"}, by : Citizen]]
         /\ Stages'
  <1>1. /\ revocation' \in [Revocation ->
              [at : {"new", "revoke", "open", "revoked", "failed"}, by : Citizen]]
        /\ revocation[v].at = from /\ revocation'[v].at = to
        /\ \A w \in Revocation : w # v => revocation'[w] = revocation[w]
        /\ \A w \in Revocation : revocation'[w].by = revocation[w].by
    BY RevocationGoesTo
  <1>2. /\ \A k, o : k # "inzage" => (Recorded(k, o)' <=> Recorded(k, o))
        /\ \A w \in Revocation : w # v => (Recorded("inzage", w)' <=> Recorded("inzage", w))
    BY DEF Writes, WritesNothing
  <1>3. GrantStages' /\ RevocationBites'
    BY DEF Stages, GrantStages, RevocationBites, Waiting
  <1>4. RevocationStages'
    BY <1>1, <1>2 DEF Stages, RevocationStages
  <1>5. AskStages'
    BY <1>2 DEF Stages, AskStages
  <1>6. LogMatchesStore'
    BY <1>1, <1>2 DEF Stages, LogMatchesStore
  <1> QED
    BY <1>1, <1>3, <1>4, <1>5, <1>6 DEF Stages

LEMMA RevokeMoves ==
  ASSUME CallType, Stages, NEW v \in Revocation, NEW to,
         RevocationGoes(v, "open", to), to \in {"revoked", "failed"},
         consent' = [consent EXCEPT ![Under[v]] = "REVOKED"],
         UNCHANGED <<grant, ask>>, Writes("revoke", v)
  PROVE  /\ revocation' \in [Revocation ->
              [at : {"new", "revoke", "open", "revoked", "failed"}, by : Citizen]]
         /\ consent' \in [Grant -> {"none", "ACTIVE", "REVOKED"}]
         /\ Stages'
  <1>1. /\ revocation' \in [Revocation ->
              [at : {"new", "revoke", "open", "revoked", "failed"}, by : Citizen]]
        /\ revocation[v].at = "open" /\ revocation'[v].at = to
        /\ \A w \in Revocation : w # v => revocation'[w] = revocation[w]
        /\ \A w \in Revocation : revocation'[w].by = revocation[w].by
    BY RevocationGoesTo
  <1>2. /\ Under[v] \in Grant /\ consent[Under[v]] # "none"
        /\ revocation[v].by = Owner[Under[v]]
    BY <1>1, ConsentAssumption DEF Stages, RevocationStages
  <1>3. /\ consent' \in [Grant -> {"none", "ACTIVE", "REVOKED"}]
        /\ consent'[Under[v]] = "REVOKED"
        /\ \A h \in Grant : h # Under[v] => consent'[h] = consent[h]
        /\ \A h \in Grant : consent'[h] = "none" <=> consent[h] = "none"
    BY <1>2 DEF CallType
  <1>4. GrantStages'
    BY <1>3 DEF Stages, GrantStages, Waiting
  <1>5. RevocationStages'
    BY <1>1, <1>3, ConsentAssumption DEF Stages, RevocationStages, Writes
  <1>6. AskStages'
    BY <1>3, ConsentAssumption DEF Stages, AskStages, Writes
  <1>7. RevocationBites'
    BY DEF Stages, RevocationBites
  <1>8. LogMatchesStore'
    <2>1. \A g \in Grant : consent'[g] # "none" <=> Recorded("grant", g)'
      BY <1>3 DEF Stages, LogMatchesStore, Writes
    <2>2. ASSUME NEW g \in Grant
          PROVE  consent'[g] = "REVOKED" <=>
                   \E w \in Revocation :
                     Under[w] = g /\ revocation'[w].by = Owner[g] /\ Recorded("revoke", w)'
      BY <1>1, <1>2, <1>3 DEF Stages, LogMatchesStore, Writes
    <2>3. \A a \in Ask : ask'[a].at = "permit" => Recorded("status", a)'
      BY DEF Stages, LogMatchesStore, Writes
    <2> QED
      BY <2>1, <2>2, <2>3 DEF LogMatchesStore
  <1> QED
    BY <1>1, <1>3, <1>4, <1>5, <1>6, <1>7, <1>8 DEF Stages

AskCall == [at : {"new", "sent", "read", "permit", "deny"},
            seen : {None, "ACTIVE", "REVOKED"}, past : BOOLEAN, late : BOOLEAN]

\* Where an evaluation may be, with what it has seen.
AskFits(a, c) ==
  /\ c.at # "new" => consent[Under[a]] # "none"
  /\ c.late => c.past \/ consent[Under[a]] = "REVOKED"
  /\ c.at = "read" /\ c.late /\ ~c.past => c.seen # "ACTIVE"
  /\ c.at = "permit" => ~c.late

LEMMA AskMoves ==
  ASSUME CallType, Stages, NEW a \in Ask, NEW c \in AskCall,
         ask[a].at \in {"new", "sent", "read"},
         ask' = [ask EXCEPT ![a] = c], AskFits(a, c),
         UNCHANGED <<grant, revocation, consent>>,
         \/ WritesNothing /\ c.at # "permit"
         \/ Writes("status", a) /\ c.at \in {"permit", "deny"}
  PROVE  ask' \in [Ask -> AskCall] /\ Stages'
  <1>1. /\ ask' \in [Ask -> AskCall] /\ ask'[a] = c
        /\ \A b \in Ask : b # a => ask'[b] = ask[b]
    BY DEF CallType, AskCall
  <1>2. /\ \A k, o : k # "status" => (Recorded(k, o)' <=> Recorded(k, o))
        /\ \A b \in Ask : b # a => (Recorded("status", b)' <=> Recorded("status", b))
        /\ c.at = "permit" => Recorded("status", a)'
        /\ c.at \in {"new", "sent", "read"} => (Recorded("status", a)' <=> Recorded("status", a))
    BY DEF Writes, WritesNothing
  <1>3. GrantStages' /\ RevocationStages'
    BY <1>2 DEF Stages, GrantStages, RevocationStages, Waiting
  <1>4. AskStages'
    BY <1>1, <1>2 DEF Stages, AskStages, AskFits
  <1>5. RevocationBites'
    BY <1>1 DEF Stages, RevocationBites, AskFits
  <1>6. LogMatchesStore'
    BY <1>1, <1>2 DEF Stages, LogMatchesStore
  <1> QED
    BY <1>1, <1>3, <1>4, <1>5, <1>6 DEF Stages

LEMMA CrashStages ==
  ASSUME CallType, Stages, WritesNothing, consent' = consent,
         grant' = Ended(grant, "open", "failed"),
         revocation' = Ended(revocation, "open", "failed"),
         ask' = Ended(ask, "read", "deny")
  PROVE  /\ grant' \in [Grant -> [at : {"new", "activate", "encrypt", "open", "granted", "failed"}]]
         /\ revocation' \in [Revocation ->
              [at : {"new", "revoke", "open", "revoked", "failed"}, by : Citizen]]
         /\ ask' \in [Ask -> AskCall]
         /\ Stages'
  <1>1. /\ grant' \in [Grant -> [at : {"new", "activate", "encrypt", "open", "granted", "failed"}]]
        /\ \A g \in Grant : grant'[g].at # "failed" => grant'[g] = grant[g]
    BY DEF CallType, Ended
  <1>2. /\ revocation' \in [Revocation ->
             [at : {"new", "revoke", "open", "revoked", "failed"}, by : Citizen]]
        /\ \A v \in Revocation :
             /\ revocation'[v].at # "failed" => revocation'[v] = revocation[v]
             /\ revocation'[v].by = revocation[v].by
    BY DEF CallType, Ended
  <1>3. /\ ask' \in [Ask -> AskCall]
        /\ \A a \in Ask :
             /\ ask'[a].at # "deny" => ask'[a] = ask[a]
             /\ ask'[a].at = "deny" => ask[a].at # "new"
             /\ ask'[a].late = ask[a].late /\ ask'[a].past = ask[a].past
    <2>1. \A a \in Ask : ask'[a] = IF ask[a].at = "read" THEN [ask[a] EXCEPT !.at = "deny"] ELSE ask[a]
      BY DEF CallType, Ended
    <2>2. DOMAIN ask' = Ask /\ ask' = [a \in Ask |-> ask'[a]]
      BY DEF CallType, Ended
    <2>3. \A a \in Ask : ask[a] \in AskCall
      BY DEF CallType, AskCall
    <2>4. ASSUME NEW a \in Ask
          PROVE  /\ ask'[a] \in AskCall
                 /\ ask'[a].at # "deny" => ask'[a] = ask[a]
                 /\ ask'[a].at = "deny" => ask[a].at # "new"
                 /\ ask'[a].late = ask[a].late /\ ask'[a].past = ask[a].past
      BY <2>1, <2>3 DEF AskCall
    <2> QED
      BY <2>2, <2>4
  <1>4. GrantStages'
    BY <1>1 DEF Stages, GrantStages, Waiting
  <1>5. RevocationStages'
    BY <1>2 DEF Stages, RevocationStages, WritesNothing
  <1>6. AskStages' /\ RevocationBites'
    BY <1>3 DEF Stages, AskStages, RevocationBites, WritesNothing
  <1>7. LogMatchesStore'
    BY <1>2, <1>3 DEF Stages, LogMatchesStore, WritesNothing
  <1> QED
    BY <1>1, <1>2, <1>3, <1>4, <1>5, <1>6, <1>7 DEF Stages

-----------------------------------------------------------------------------
(* Every step keeps the invariant, and puts at most one new record on the  *)
(* shelf or one record of the shelf into the logbook.                      *)

Nothing == Committed' = Committed /\ logbook' = logbook
Commits(r) == r \in Record \ Committed /\ Committed' = Committed \cup {r} /\ logbook' = logbook
Delivers(r) == r \in Committed \ logbook /\ Committed' = Committed /\ logbook' = logbook \cup {r}

Good == IInv' /\ (Nothing \/ \E r \in Record : Commits(r) \/ Delivers(r))

\* The parts of a step that leaves the shelf alone.
LEMMA QuietStep ==
  ASSUME IInv, UNCHANGED <<table, delivery>>, CallType', WritesNothing => Stages'
  PROVE  Good
  <1>1. Shelf' /\ Committed' = Committed /\ logbook' = logbook
    BY ShelfStays DEF IInv, table, delivery
  <1>2. WritesNothing
    BY <1>1, NothingWritten
  <1> QED
    BY <1>1, <1>2 DEF Good, Nothing, IInv

LEMMA GoodGrant ==
  ASSUME IInv, NEW g \in Grant, GrantStep(g)
  PROVE  Good
  <1> USE DEF portal, register, world
  <1>0. CallType /\ Shelf /\ Stages
    BY DEF IInv
  <1>1. CASE StartGrant(g)
    <2>1. PICK to \in {"activate", "encrypt"} : GrantGoes(g, "new", to)
      BY <1>1 DEF StartGrant
    <2>2. UNCHANGED <<revocation, ask, kept, consent, expired, up, faults, table, delivery>>
      BY <1>1 DEF StartGrant
    <2>3. WritesNothing => Stages'
      BY <1>0, <2>1, <2>2, GrantMoves
    <2>4. grant' \in [Grant -> [at : {"new", "activate", "encrypt", "open", "granted", "failed"}]]
      BY <1>0, <2>1 DEF CallType, GrantGoes
    <2>5. CallType'
      BY <1>0, <2>2, <2>4 DEF CallType
    <2> QED
      BY <2>2, <2>3, <2>5, QuietStep
  <1>2. CASE KeepPair(g)
    <2>1. /\ GrantGoes(g, "activate", "encrypt")
          /\ UNCHANGED <<revocation, ask, consent, expired, up, faults, table, delivery>>
      BY <1>2 DEF KeepPair
    <2>2. kept' \in [Citizen -> Grant \cup {None}]
      BY <1>0, <1>2 DEF KeepPair, KeptPair, CallType
    <2>3. WritesNothing => Stages'
      BY <1>0, <2>1, GrantMoves
    <2>4. grant' \in [Grant -> [at : {"new", "activate", "encrypt", "open", "granted", "failed"}]]
      BY <1>0, <2>1 DEF CallType, GrantGoes
    <2>5. CallType'
      BY <1>0, <2>1, <2>2, <2>4 DEF CallType
    <2> QED
      BY <2>1, <2>3, <2>5, QuietStep
  <1>3. CASE OpenCreate(g)
    <2>1. /\ GrantGoes(g, "encrypt", "open") /\ Insert("grant", g)
          /\ UNCHANGED <<revocation, ask, kept, consent, expired, up, faults, delivery>>
      BY <1>3 DEF OpenCreate
    <2>2. Shelf' /\ Committed' = Committed
      BY <1>0, <2>1, Records, InsertKeeps DEF Known
    <2>3. Stages' /\ grant' \in [Grant -> [at : {"new", "activate", "encrypt", "open", "granted", "failed"}]]
      BY <1>0, <2>1, <2>2, NothingWritten, GrantMoves
    <2>4. CallType' /\ logbook' = logbook
      BY <1>0, <2>1, <2>3 DEF CallType, delivery
    <2> QED
      BY <2>2, <2>3, <2>4 DEF Good, Nothing, IInv
  <1>4. CASE CommitCreate(g)
    <2>1. /\ CommitOf("grant", g) /\ consent' = [consent EXCEPT ![g] = "ACTIVE"]
          /\ UNCHANGED <<revocation, ask, kept, delivery, expired, up>>
      BY <1>4 DEF CommitCreate
    <2>2. PICK to \in {"granted", "failed"} : GrantGoes(g, "open", to)
      BY <1>4 DEF CommitCreate
    <2>3. Shelf' /\ Committed' = Committed \cup {[kind |-> "grant", of |-> g]}
      BY <1>0, <2>1, CommitKeeps
    <2>4. /\ grant' \in [Grant -> [at : {"new", "activate", "encrypt", "open", "granted", "failed"}]]
          /\ consent' \in [Grant -> {"none", "ACTIVE", "REVOKED"}] /\ Stages'
      BY <1>0, <2>1, <2>2, <2>3, Written, CreateMoves
    <2>5. faults' \in 0..MaxFaults
      BY <1>0, <1>4, ConsentAssumption DEF CommitCreate, Fault, CallType
    <2>6. CallType' /\ logbook' = logbook
      BY <1>0, <2>1, <2>4, <2>5 DEF CallType, delivery
    <2>7. ~Recorded("grant", g)
      <3>1. grant[g].at = "open"
        BY <2>2 DEF GrantGoes
      <3> QED
        BY <1>0, <3>1 DEF Stages, GrantStages, Waiting, LogMatchesStore
    <2>8. Commits([kind |-> "grant", of |-> g])
      BY <2>3, <2>6, <2>7, Records DEF Commits, Recorded
    <2> QED
      BY <2>3, <2>4, <2>6, <2>8, Records DEF Good, IInv
  <1>5. CASE GrantFails(g)
    <2>1. PICK from \in {"new", "activate", "encrypt"} : GrantGoes(g, from, "failed")
      BY <1>5 DEF GrantFails
    <2>2. UNCHANGED <<revocation, ask, kept, consent, expired, up, table, delivery>>
      BY <1>5 DEF GrantFails
    <2>3. faults' \in 0..MaxFaults
      BY <1>0, <1>5, ConsentAssumption DEF GrantFails, Fault, CallType
    <2>4. WritesNothing => Stages'
      BY <1>0, <2>1, <2>2, GrantMoves
    <2>5. grant' \in [Grant -> [at : {"new", "activate", "encrypt", "open", "granted", "failed"}]]
      BY <1>0, <2>1 DEF CallType, GrantGoes
    <2>6. CallType'
      BY <1>0, <2>2, <2>3, <2>5 DEF CallType
    <2> QED
      BY <2>2, <2>4, <2>6, QuietStep
  <1> QED
    BY <1>1, <1>2, <1>3, <1>4, <1>5 DEF GrantStep

LEMMA GoodRevocation ==
  ASSUME IInv, NEW v \in Revocation, RevocationStep(v)
  PROVE  Good
  <1> USE DEF portal, register, world
  <1>0. CallType /\ Shelf /\ Stages /\ Under[v] \in Grant
    BY ConsentAssumption DEF IInv
  <1>1. CASE GetConsent(v)
    <2>1. UNCHANGED <<grant, ask, kept, consent, expired, up, faults, delivery>>
      BY <1>1 DEF GetConsent
    <2> DEFINE to == IF consent[Under[v]] # "none" /\ MayRevoke(v) THEN "revoke" ELSE "failed"
    <2>2. RevocationGoes(v, "new", to)
      BY <1>1 DEF GetConsent
    <2>3. /\ to \in {"revoke", "failed"}
          /\ to # "failed" => revocation[v].by = Owner[Under[v]] /\ consent[Under[v]] # "none"
      BY DEF MayRevoke
    <2> HIDE DEF to
    <2>4. ASSUME WritesNothing \/ Writes("inzage", v)
          PROVE  Stages' /\ CallType'
      <3>1. /\ revocation' \in [Revocation ->
                 [at : {"new", "revoke", "open", "revoked", "failed"}, by : Citizen]]
            /\ Stages'
        BY <1>0, <2>1, <2>2, <2>3, <2>4, RevocationMoves
      <3> QED
        BY <1>0, <2>1, <3>1 DEF CallType
    <2>5. CASE AppendRecord("inzage", v)
      <3>1. Shelf' /\ Committed' = Committed \cup {[kind |-> "inzage", of |-> v]}
        BY <1>0, <2>1, <2>5, Records, AppendKeeps DEF Known
      <3>2. Writes("inzage", v) /\ logbook' = logbook
        BY <2>1, <3>1, Written DEF delivery
      <3>3. ~Recorded("inzage", v)
        BY <1>0, <2>2 DEF Stages, RevocationStages, RevocationGoes
      <3>4. Commits([kind |-> "inzage", of |-> v])
        BY <3>1, <3>2, <3>3, Records DEF Commits, Recorded
      <3> QED
        BY <2>4, <3>1, <3>2, <3>4, Records DEF Good, IInv
    <2>6. CASE UNCHANGED table
      <3>1. Shelf' /\ Committed' = Committed /\ logbook' = logbook
        BY <1>0, <2>1, <2>6, ShelfStays DEF table, delivery
      <3> QED
        BY <2>4, <3>1, NothingWritten DEF Good, Nothing, IInv
    <2> QED
      BY <1>1, <2>5, <2>6 DEF GetConsent
  <1>2. CASE OpenRevoke(v)
    <2>1. /\ RevocationGoes(v, "revoke", "open") /\ Insert("revoke", v)
          /\ UNCHANGED <<grant, ask, kept, consent, expired, up, faults, delivery>>
      BY <1>2 DEF OpenRevoke
    <2>2. revocation[v].by = Owner[Under[v]] /\ consent[Under[v]] # "none"
      BY <1>0, <2>1 DEF Stages, RevocationStages, RevocationGoes
    <2>3. Known("revoke", v)
      BY <1>0, <2>2 DEF Known, Stages, LogMatchesStore
    <2>4. Shelf' /\ Committed' = Committed
      BY <1>0, <2>1, <2>3, Records, InsertKeeps
    <2>5. /\ revocation' \in [Revocation ->
               [at : {"new", "revoke", "open", "revoked", "failed"}, by : Citizen]]
          /\ Stages'
      BY <1>0, <2>1, <2>2, <2>4, NothingWritten, RevocationMoves
    <2>6. CallType' /\ logbook' = logbook
      BY <1>0, <2>1, <2>5 DEF CallType, delivery
    <2> QED
      BY <2>4, <2>5, <2>6 DEF Good, Nothing, IInv
  <1>3. CASE CommitRevoke(v)
    <2>1. /\ CommitOf("revoke", v) /\ consent' = [consent EXCEPT ![Under[v]] = "REVOKED"]
          /\ UNCHANGED <<grant, ask, kept, delivery, expired, up>>
      BY <1>3 DEF CommitRevoke
    <2>2. PICK to \in {"revoked", "failed"} : RevocationGoes(v, "open", to)
      BY <1>3 DEF CommitRevoke
    <2>3. Shelf' /\ Committed' = Committed \cup {[kind |-> "revoke", of |-> v]}
      BY <1>0, <2>1, CommitKeeps
    <2>4. /\ revocation' \in [Revocation ->
               [at : {"new", "revoke", "open", "revoked", "failed"}, by : Citizen]]
          /\ consent' \in [Grant -> {"none", "ACTIVE", "REVOKED"}] /\ Stages'
      BY <1>0, <2>1, <2>2, <2>3, Written, RevokeMoves
    <2>5. faults' \in 0..MaxFaults
      BY <1>0, <1>3, ConsentAssumption DEF CommitRevoke, Fault, CallType
    <2>6. CallType' /\ logbook' = logbook
      BY <1>0, <2>1, <2>4, <2>5 DEF CallType, delivery
    <2>7. ~Recorded("revoke", v)
      BY <1>0, <2>2 DEF Stages, RevocationStages, RevocationGoes
    <2>8. Commits([kind |-> "revoke", of |-> v])
      BY <2>3, <2>6, <2>7, Records DEF Commits, Recorded
    <2> QED
      BY <2>3, <2>4, <2>6, <2>8, Records DEF Good, IInv
  <1>4. CASE RevocationFails(v)
    <2>1. PICK from \in {"new", "revoke"} : RevocationGoes(v, from, "failed")
      BY <1>4 DEF RevocationFails
    <2>2. UNCHANGED <<grant, ask, kept, consent, expired, up, table, delivery>>
      BY <1>4 DEF RevocationFails
    <2>3. faults' \in 0..MaxFaults
      BY <1>0, <1>4, ConsentAssumption DEF RevocationFails, Fault, CallType
    <2>4. WritesNothing => Stages'
      BY <1>0, <2>1, <2>2, RevocationMoves
    <2>5. revocation' \in [Revocation ->
            [at : {"new", "revoke", "open", "revoked", "failed"}, by : Citizen]]
      BY <1>0, <2>1, RevocationGoesTo
    <2>6. CallType'
      BY <1>0, <2>2, <2>3, <2>5 DEF CallType
    <2> QED
      BY <2>2, <2>4, <2>6, QuietStep
  <1> QED
    BY <1>1, <1>2, <1>3, <1>4 DEF RevocationStep

LEMMA GoodAsk ==
  ASSUME IInv, NEW a \in Ask, AskStep(a)
  PROVE  Good
  <1> USE DEF portal, register, world
  <1>0. CallType /\ Shelf /\ Stages /\ Under[a] \in Grant /\ ask[a] \in AskCall
    BY ConsentAssumption DEF IInv, CallType, AskCall
  <1>1. CASE StartAsk(a)
    <2>1. /\ ask[a].at = "new" /\ grant[Under[a]].at = "granted"
          /\ UNCHANGED <<grant, revocation, kept, consent, expired, up, faults, table, delivery>>
      BY <1>1 DEF StartAsk
    <2>2. PICK to \in {"sent", "deny"} :
            ask' = [ask EXCEPT ![a].at = to, ![a].past = Under[a] \in expired, ![a].late = Over(Under[a])]
      BY <1>1 DEF StartAsk
    <2> DEFINE c == [ask[a] EXCEPT !.at = to, !.past = Under[a] \in expired, !.late = Over(Under[a])]
    <2>3. ask' = [ask EXCEPT ![a] = c]
      BY <1>0, <2>2 DEF CallType
    <2>4. /\ c \in AskCall /\ c.at = to
          /\ c.past = (Under[a] \in expired)
          /\ c.late = Over(Under[a])
      <3>1. \A p, l \in BOOLEAN :
              LET d == [ask[a] EXCEPT !.at = to, !.past = p, !.late = l]
              IN  d \in AskCall /\ d.at = to /\ d.past = p /\ d.late = l
        BY <1>0 DEF AskCall
      <3>2. (Under[a] \in expired) \in BOOLEAN /\ Over(Under[a]) \in BOOLEAN
        BY DEF Over
      <3> QED
        BY <3>1, <3>2, Zenon
    <2> HIDE DEF c
    <2>5. AskFits(a, c)
      BY <1>0, <2>1, <2>4 DEF AskFits, Over, Stages, GrantStages
    <2>6. WritesNothing => Stages'
      BY <1>0, <2>1, <2>3, <2>4, <2>5, AskMoves
    <2>7. ask' \in [Ask -> AskCall]
      BY <1>0, <2>3, <2>4 DEF CallType, AskCall
    <2>8. CallType'
      BY <1>0, <2>1, <2>7 DEF CallType, AskCall
    <2> QED
      BY <2>1, <2>6, <2>8, QuietStep
  <1>2. CASE ReadStatus(a)
    <2> DEFINE c == [ask[a] EXCEPT !.at = "read", !.seen = consent[Under[a]]]
    <2>1. /\ ask[a].at = "sent" /\ ask' = [ask EXCEPT ![a] = c]
          /\ UNCHANGED <<grant, revocation, kept, consent, expired, up, faults, table, delivery>>
      BY <1>0, <1>2 DEF ReadStatus, StatusNow, CallType
    <2>2. consent[Under[a]] \in {"ACTIVE", "REVOKED"}
      BY <1>0, <2>1 DEF Stages, AskStages, CallType
    <2>3. /\ c \in AskCall /\ c.at = "read" /\ c.seen = consent[Under[a]]
          /\ c.late = ask[a].late /\ c.past = ask[a].past
      BY <1>0, <2>2 DEF AskCall
    <2> HIDE DEF c
    <2>4. AskFits(a, c)
      BY <1>0, <2>1, <2>2, <2>3 DEF AskFits, Stages, AskStages
    <2>5. WritesNothing => Stages'
      BY <1>0, <2>1, <2>3, <2>4, AskMoves
    <2>6. ask' \in [Ask -> AskCall]
      BY <1>0, <2>1, <2>3 DEF CallType, AskCall
    <2>7. CallType'
      BY <1>0, <2>1, <2>6 DEF CallType, AskCall
    <2> QED
      BY <2>1, <2>5, <2>7, QuietStep
  <1>3. CASE AnswerStatus(a)
    <2>1. /\ AppendRecord("status", a)
          /\ UNCHANGED <<grant, revocation, kept, consent, expired, up, delivery>>
      BY <1>3 DEF AnswerStatus
    <2>2. PICK to \in {Decision(a), "deny"} : AskGoes(a, "read", to)
      BY <1>3 DEF AnswerStatus
    <2> DEFINE c == [ask[a] EXCEPT !.at = to]
    <2>3. ask[a].at = "read" /\ ask' = [ask EXCEPT ![a] = c]
      BY <1>0, <2>2 DEF AskGoes, CallType
    <2>4. to \in {"permit", "deny"} /\ (to = "permit" => ask[a].seen = "ACTIVE" /\ ~ask[a].past)
      BY <2>2 DEF Decision
    <2>5. /\ c \in AskCall /\ c.at = to
          /\ c.late = ask[a].late /\ c.past = ask[a].past
      BY <1>0, <2>4 DEF AskCall
    <2> HIDE DEF c
    <2>6. AskFits(a, c)
      BY <1>0, <2>3, <2>4, <2>5 DEF AskFits, Stages, AskStages
    <2>7. Known("status", a)
      BY <1>0, <2>3 DEF Known, Stages, AskStages, LogMatchesStore
    <2>8. Shelf' /\ Committed' = Committed \cup {[kind |-> "status", of |-> a]}
      BY <1>0, <2>1, <2>7, Records, AppendKeeps
    <2>9. Writes("status", a)
      BY <2>8, Written
    <2>10. ask' \in [Ask -> AskCall] /\ Stages'
      BY <1>0, <2>1, <2>3, <2>4, <2>5, <2>6, <2>9, AskMoves
    <2>11. faults' \in 0..MaxFaults
      BY <1>0, <1>3, ConsentAssumption DEF AnswerStatus, Fault, CallType
    <2>12. CallType' /\ logbook' = logbook
      BY <1>0, <2>1, <2>10, <2>11 DEF CallType, AskCall, delivery
    <2>13. Commits([kind |-> "status", of |-> a])
      BY <1>0, <2>3, <2>8, <2>12, Records DEF Commits, Recorded, Stages, AskStages
    <2> QED
      BY <2>8, <2>10, <2>12, <2>13, Records DEF Good, IInv
  <1>4. CASE AskFails(a)
    <2>1. PICK from \in {"sent", "read"} : AskGoes(a, from, "deny")
      BY <1>4 DEF AskFails
    <2>2. UNCHANGED <<grant, revocation, kept, consent, expired, up, table, delivery>>
      BY <1>4 DEF AskFails
    <2> DEFINE c == [ask[a] EXCEPT !.at = "deny"]
    <2>3. ask[a].at \in {"sent", "read"} /\ ask' = [ask EXCEPT ![a] = c]
      BY <1>0, <2>1 DEF AskGoes, CallType
    <2>4. /\ c \in AskCall /\ c.at = "deny"
          /\ c.late = ask[a].late /\ c.past = ask[a].past
      BY <1>0 DEF AskCall
    <2> HIDE DEF c
    <2>5. AskFits(a, c)
      BY <1>0, <2>3, <2>4 DEF AskFits, Stages, AskStages
    <2>6. WritesNothing => Stages'
      BY <1>0, <2>2, <2>3, <2>4, <2>5, AskMoves
    <2>7. ask' \in [Ask -> AskCall] /\ faults' \in 0..MaxFaults
      BY <1>0, <1>4, <2>3, <2>4, ConsentAssumption DEF AskFails, Fault, CallType, AskCall
    <2>8. CallType'
      BY <1>0, <2>2, <2>7 DEF CallType, AskCall
    <2> QED
      BY <2>2, <2>6, <2>8, QuietStep
  <1> QED
    BY <1>1, <1>2, <1>3, <1>4 DEF AskStep

\* The calls and the consents do not see the delivery.
LEMMA DeliveryStages ==
  ASSUME IInv, UNCHANGED <<portal, ask, register, expired, up>>, faults' \in 0..MaxFaults,
         Shelf' /\ Committed' = Committed
  PROVE  IInv'
  <1>1. CallType /\ Stages /\ WritesNothing
    BY NothingWritten DEF IInv
  <1>2. Stages'
    BY <1>1, StagesStay DEF portal, register
  <1>3. CallType'
    BY <1>1 DEF CallType, portal, register
  <1> QED
    BY <1>2, <1>3 DEF IInv

LEMMA GoodDelivery ==
  ASSUME IInv, Deliver \/ DeliveryFails \/ Crash
  PROVE  Good
  <1>0. CallType /\ Shelf /\ Stages /\ faults \in 0..MaxFaults
    BY DEF IInv, CallType
  <1>1. CASE ReadOutbox
    <2>1. Shelf' /\ Committed' = Committed /\ logbook' = logbook
      BY <1>0, <1>1, ReadKeeps DEF ReadOutbox
    <2> QED
      BY <1>0, <1>1, <2>1, DeliveryStages DEF ReadOutbox, world, Good, Nothing
  <1>2. ASSUME step # "idle", Shelf' /\ Committed' = Committed,
               logbook' \in {logbook, logbook \cup {Oldest(batch).rec}}
        PROVE  Nothing \/ \E r \in Record : Delivers(r)
    <2>1. Oldest(batch) \in outbox
      BY <1>0, <1>2, OldestIsFirst DEF Shelf, ShelfType
    <2>2. Oldest(batch).rec \in Committed /\ Oldest(batch).rec \in Record
      BY <1>0, <2>1 DEF Committed, Shelf, ShelfType, EntryOf
    <2> QED
      BY <1>2, <2>2 DEF Nothing, Delivers
  <1>3. CASE PostEntry
    <2>1. Shelf' /\ Committed' = Committed
      BY <1>0, <1>3, PostKeeps
    <2>2. Nothing \/ \E r \in Record : Delivers(r)
      BY <1>2, <1>3, <2>1 DEF PostEntry
    <2> QED
      BY <1>0, <1>3, <2>1, <2>2, DeliveryStages DEF PostEntry, world, Good
  <1>4. CASE Mark
    <2>1. Shelf' /\ Committed' = Committed /\ logbook' = logbook
      BY <1>0, <1>4, MarkKeeps DEF Mark
    <2> QED
      BY <1>0, <1>4, <2>1, DeliveryStages DEF Mark, world, Good, Nothing
  <1>5. CASE DeliveryFails
    <2>1. Shelf' /\ Committed' = Committed
      BY <1>0, <1>5, StopKeeps DEF DeliveryFails, KeptOnFailure
    <2>2. Nothing \/ \E r \in Record : Delivers(r)
      BY <1>2, <1>5, <2>1 DEF DeliveryFails
    <2>3. faults' \in 0..MaxFaults
      BY <1>0, <1>5, ConsentAssumption DEF DeliveryFails, Fault
    <2> QED
      BY <1>5, <2>1, <2>2, <2>3, DeliveryStages DEF DeliveryFails, Good
  <1>6. CASE Crash
    <2>1. Shelf' /\ Committed' = Committed /\ logbook' = logbook
      BY <1>0, <1>6, CrashKeeps DEF Crash
    <2>2. /\ grant' \in [Grant -> [at : {"new", "activate", "encrypt", "open", "granted", "failed"}]]
          /\ revocation' \in [Revocation ->
               [at : {"new", "revoke", "open", "revoked", "failed"}, by : Citizen]]
          /\ ask' \in [Ask -> AskCall]
          /\ Stages'
      BY <1>0, <1>6, <2>1, NothingWritten, CrashStages DEF Crash, register
    <2>3. faults' \in 0..MaxFaults
      BY <1>0, <1>6, ConsentAssumption DEF Crash, Fault
    <2>4. CallType'
      BY <1>0, <1>6, <2>2, <2>3 DEF Crash, register, CallType, AskCall
    <2> QED
      BY <2>1, <2>2, <2>4 DEF Good, Nothing, IInv
  <1> QED
    BY <1>1, <1>3, <1>4, <1>5, <1>6 DEF Deliver

LEMMA GoodStep ==
  ASSUME IInv, [Next]_vars
  PROVE  Good
  <1>1. ASSUME NEW g \in Grant, GrantStep(g) PROVE Good
    BY <1>1, GoodGrant
  <1>2. ASSUME NEW v \in Revocation, RevocationStep(v) PROVE Good
    BY <1>2, GoodRevocation
  <1>3. ASSUME NEW a \in Ask, AskStep(a) PROVE Good
    BY <1>3, GoodAsk
  <1>4. ASSUME UNCHANGED <<portal, ask, consent, kept, table, delivery, faults>>,
               expired' \subseteq Grant, up' \in BOOLEAN
        PROVE  Good
    <2>1. CallType'
      BY <1>4 DEF IInv, CallType, portal
    <2>2. WritesNothing => Stages'
      BY <1>4, StagesStay DEF IInv, portal
    <2> QED
      BY <1>4, <2>1, <2>2, QuietStep
  <1>5. ASSUME NEW g \in Grant, Expire(g) PROVE Good
    <2>1. expired' \subseteq Grant /\ up' \in BOOLEAN
      BY <1>5 DEF Expire, IInv, CallType
    <2> QED
      BY <1>4, <1>5, <2>1 DEF Expire, register
  <1>6. CASE Restart
    BY <1>4, <1>6 DEF Restart, register, IInv, CallType
  <1>7. CASE UNCHANGED vars
    BY <1>4, <1>7 DEF vars, portal, table, delivery, IInv, CallType
  <1> QED
    BY <1>1, <1>2, <1>3, <1>5, <1>6, <1>7, GoodDelivery DEF Next

LEMMA InvInit == Init => IInv
  BY ShelfInit, StagesInit DEF IInv

LEMMA InvStep == IInv /\ [Next]_vars => IInv'
  BY GoodStep DEF Good

-----------------------------------------------------------------------------
(* The theorems.                                                           *)

(* Every variable keeps its type, a pass of the delivery only ever holds   *)
(* entries that are still in the table, and an open transaction's entry is *)
(* not visible (PostgresStore).                                            *)
THEOREM TypeCorrect == Spec => []TypeOK
  BY InvInit, InvStep, TypeParts, PTL DEF Spec

(* A data request that began after the revocation of its consent had       *)
(* committed, or after valid_until, is never permitted                     *)
(* (policies/gbo/consent.rego, handleConsentStatus): whatever was in       *)
(* flight, failed or crashed, and in whatever order.                       *)
THEOREM RevokedIsDenied == Spec => []RevocationBites
  <1>1. IInv => RevocationBites
    BY DEF IInv, Stages
  <1> QED
    BY <1>1, InvInit, InvStep, PTL DEF Spec

(* The register holds a consent exactly when its creation is on record, a  *)
(* consent is revoked exactly when a revocation by its owner is, and every *)
(* permitted request has its status on record (PostgresStore.Create and    *)
(* Revoke with the record in the same transaction).                        *)
THEOREM StoreIsRecorded == Spec => []LogMatchesStore
  <1>1. IInv => LogMatchesStore
    BY DEF IInv, Stages
  <1> QED
    BY <1>1, InvInit, InvStep, PTL DEF Spec

(* The logbook learns of a consent before it learns of its revocation or   *)
(* of a question about it, for every batch size and although numbers can   *)
(* become visible out of order (registerLogbook.deliverOutbox).            *)
THEOREM GrantsAreLoggedFirst == Spec => []GrantLoggedFirst
  <1>1. IInv => GrantLoggedFirst
    BY DEF IInv, Shelf
  <1> QED
    BY <1>1, InvInit, InvStep, PTL DEF Spec

LEMMA PromiseInit == Init => Promise!Init
  BY DEF Init, Promise!Init, Committed

LEMMA PromiseStep == IInv /\ [Next]_vars => [Promise!Next]_(Promise!vars)
  <1> SUFFICES ASSUME IInv, [Next]_vars PROVE [Promise!Next]_(Promise!vars)
    OBVIOUS
  <1>1. Nothing \/ \E r \in Record : Commits(r) \/ Delivers(r)
    BY GoodStep DEF Good
  <1>2. CASE Nothing
    BY <1>2 DEF Nothing, Promise!vars
  <1>3. ASSUME NEW r \in Record, Commits(r) PROVE Promise!Next
    BY <1>3 DEF Commits, Promise!Next, Promise!Offer
  <1>4. ASSUME NEW r \in Record, Delivers(r) PROVE Promise!Next
    BY <1>4 DEF Delivers, Promise!Next, Promise!Log
  <1> QED
    BY <1>1, <1>2, <1>3, <1>4

(* The register's table and its delivery keep what Logboek asks of a       *)
(* producer: a record is written once, safe when what it describes is, and *)
(* logged once, and only after it was written (services/ldv-client/        *)
(* outbox.go states the promise).  That it is logged in the end is for TLC.*)
THEOREM RegisterImplementsPromise == Spec => Promise!Init /\ [][Promise!Next]_(Promise!vars)
  BY InvInit, InvStep, PromiseInit, PromiseStep, PTL DEF Spec

-----------------------------------------------------------------------------
(***************************************************************************)
(* The register of admitted parties and the PDP's copy of it.  A pull adds *)
(* and replaces and never removes, so that the copy says no more than the  *)
(* register rests on the register never losing anyone: whoever is in the   *)
(* copy is in the table, or was a technical party of some configuration    *)
(* that a process served.                                                  *)
(***************************************************************************)

Technical == UNION {Peers(c.system) : c \in {d \in Configurations : Fits(d)}}

HeldIsKnown == DOMAIN copy \subseteq DOMAIN rows \cup Technical

RegisterInv == RegisterTypeOK /\ HeldIsKnown

Sourced == UNION {SourcesOf(c) : c \in Configurations}
Parties == [active : BOOLEAN, sources : Sourced]
Fed == [active : BOOLEAN, sources : Sourced, actsFor : SUBSET Mandates]

\* What is admissible under a configuration is a party.
LEMMA AdmittedParty ==
  ASSUME NEW c \in Configurations, NEW p, p.active \in BOOLEAN, Admissible(c, p)
  PROVE  Party(p) \in Parties
  BY DEF Admissible, Party, Parties, Sourced, SourcesOf

\* An upsert leaves the others alone and puts a party of ps in each of its rows.
LEMMA UpsertedRows ==
  ASSUME rows \in [DOMAIN rows -> Parties], NEW ps, \A p \in ps : Party(p) \in Parties
  PROVE  /\ DOMAIN Upserted(ps) = DOMAIN rows \cup Peers(ps)
         /\ Upserted(ps) \in [DOMAIN Upserted(ps) -> Parties]
  <1>1. ASSUME NEW q \in Peers(ps) PROVE Party(CHOOSE p \in ps : p.peer = q) \in Parties
    <2>1. \E p \in ps : p.peer = q
      BY DEF Peers
    <2>2. (CHOOSE p \in ps : p.peer = q) \in ps
      BY <2>1
    <2> QED
      BY <2>2
  <1>2. DOMAIN Upserted(ps) = DOMAIN rows \cup Peers(ps)
    BY DEF Upserted
  <1>3. ASSUME NEW q \in DOMAIN rows \cup Peers(ps) PROVE Upserted(ps)[q] \in Parties
    BY <1>1 DEF Upserted
  <1> QED
    BY <1>2, <1>3 DEF Upserted

LEMMA RegisterTypeInit == RegisterInit => RegisterInv
  <1> SUFFICES ASSUME RegisterInit PROVE RegisterInv
    OBVIOUS
  <1>1. configuration \in Configurations /\ Fits(configuration)
    BY DEF RegisterInit, Serving
  <1>2. \A p \in configuration.seeds : Party(p) \in Parties
    BY <1>1, AdmittedParty, RegisterAssumption DEF Fits
  <1>3. ASSUME NEW q \in Peers(configuration.seeds)
        PROVE  Party(CHOOSE p \in configuration.seeds : p.peer = q) \in Parties
    <2>1. \E p \in configuration.seeds : p.peer = q
      BY DEF Peers
    <2>2. (CHOOSE p \in configuration.seeds : p.peer = q) \in configuration.seeds
      BY <2>1
    <2> QED
      BY <2>2, <1>2
  <1>4. rows \in [DOMAIN rows -> Parties]
    <2>1. CASE SeedDemoData
      BY <2>1, <1>3 DEF RegisterInit
    <2>2. CASE ~SeedDemoData
      BY <2>2 DEF RegisterInit
    <2> QED
      BY <2>1, <2>2
  <1>5. DOMAIN copy = {} /\ copy \in [DOMAIN copy -> Fed] /\ pulled \in BOOLEAN
    BY DEF RegisterInit
  <1> QED
    BY <1>1, <1>4, <1>5 DEF RegisterInv, RegisterTypeOK, HeldIsKnown, Parties, Fed, Sourced

\* Rows are added and changed, never removed.
LEMMA RowsStep ==
  ASSUME RegisterTypeOK, RegisterNext
  PROVE  /\ DOMAIN rows \subseteq DOMAIN rows'
         /\ rows' \in [DOMAIN rows' -> Parties]
  <1>1. rows \in [DOMAIN rows -> Parties] /\ configuration \in Configurations
    BY DEF RegisterTypeOK, Parties, Sourced
  <1>2. ASSUME NEW p \in Forms, Save(p) PROVE DOMAIN rows \subseteq DOMAIN rows' /\ rows' \in [DOMAIN rows' -> Parties]
    <2>1. Party(p) \in Parties
      BY <1>1, <1>2, AdmittedParty, RegisterAssumption DEF Save, MayEnter
    <2>2. \A x \in {p} : Party(x) \in Parties
      BY <2>1
    <2>3. rows' = Upserted({p})
      BY <1>2 DEF Save
    <2> QED
      BY <1>1, <2>2, <2>3, UpsertedRows
  <1>3. ASSUME NEW p \in Forms, UpdateDetails(p)
        PROVE  DOMAIN rows \subseteq DOMAIN rows' /\ rows' \in [DOMAIN rows' -> Parties]
    <2>1. p.sources \in Sourced /\ p.peer \in DOMAIN rows
      BY <1>1, <1>3 DEF UpdateDetails, MayEnter, Admissible, Sourced, SourcesOf
    <2>2. rows' = [rows EXCEPT ![p.peer].sources = p.sources]
      BY <1>3 DEF UpdateDetails
    <2> QED
      BY <1>1, <2>1, <2>2 DEF Parties
  <1>4. ASSUME NEW q \in Peers(Forms), ToggleActive(q)
        PROVE  DOMAIN rows \subseteq DOMAIN rows' /\ rows' \in [DOMAIN rows' -> Parties]
    BY <1>1, <1>4 DEF ToggleActive, Parties
  <1>5. ASSUME NEW c \in Configurations, Deploy(c)
        PROVE  DOMAIN rows \subseteq DOMAIN rows' /\ rows' \in [DOMAIN rows' -> Parties]
    <2> DEFINE new == {p \in c.seeds : p.peer \notin DOMAIN rows}
    <2>1. CASE Fits(c) /\ SeedDemoData
      <3>1. \A p \in new : Party(p) \in Parties
        BY <2>1, AdmittedParty, RegisterAssumption DEF Fits
      <3>2. rows' = Upserted(new)
        BY <1>5, <2>1 DEF Deploy, Seeded
      <3> QED
        BY <1>1, <3>1, <3>2, UpsertedRows
    <2>2. CASE ~ (Fits(c) /\ SeedDemoData)
      BY <1>1, <1>5, <2>2 DEF Deploy
    <2> QED
      BY <2>1, <2>2
  <1>6. CASE Pull
    BY <1>1, <1>6 DEF Pull
  <1> QED
    BY <1>2, <1>3, <1>4, <1>5, <1>6 DEF RegisterNext, Operate

\* The feed of a process that serves.
LEMMA FeedType ==
  ASSUME RegisterTypeOK, Serving
  PROVE  /\ DOMAIN ListForPolicy = DOMAIN rows \cup Reserved
         /\ ListForPolicy \in [DOMAIN ListForPolicy -> Fed]
         /\ Reserved \subseteq Technical
  <1>1. rows \in [DOMAIN rows -> Parties] /\ configuration \in Configurations /\ Fits(configuration)
    BY DEF RegisterTypeOK, Parties, Sourced, Serving
  <1>2. ASSUME NEW q \in Reserved
        PROVE  Party(CHOOSE s \in configuration.system : s.peer = q) \in Parties
    <2>1. \E s \in configuration.system : s.peer = q
      BY DEF Reserved, Peers
    <2>2. (CHOOSE s \in configuration.system : s.peer = q) \in configuration.system
      BY <2>1
    <2> QED
      BY <1>1, <2>2, AdmittedParty, RegisterAssumption DEF Fits
  <1>3. ASSUME NEW q PROVE ActsFor(q) \in SUBSET Mandates
    BY <1>1 DEF ActsFor, Mandates
  <1>4. DOMAIN ListForPolicy = DOMAIN rows \cup Reserved
    BY DEF ListForPolicy
  <1>5. ASSUME NEW q \in DOMAIN rows \cup Reserved PROVE ListForPolicy[q] \in Fed
    BY <1>1, <1>2, <1>3 DEF ListForPolicy, Fed, Parties
  <1>6. Reserved \subseteq Technical
    BY <1>1 DEF Reserved, Technical
  <1> QED
    BY <1>4, <1>5, <1>6 DEF ListForPolicy

LEMMA RegisterStep == RegisterInv /\ [RegisterNext]_registerVars => RegisterInv'
  <1> SUFFICES ASSUME RegisterInv, [RegisterNext]_registerVars PROVE RegisterInv'
    OBVIOUS
  <1> USE DEF RegisterInv
  <1>1. CASE UNCHANGED registerVars
    BY <1>1 DEF registerVars, RegisterTypeOK, HeldIsKnown
  <1>2. CASE RegisterNext
    <2>1. DOMAIN rows \subseteq DOMAIN rows' /\ rows' \in [DOMAIN rows' -> Parties]
      BY <1>2, RowsStep
    <2>2. configuration' \in Configurations
      BY <1>2 DEF RegisterNext, Operate, Save, UpdateDetails, ToggleActive, Deploy, Pull, RegisterTypeOK
    <2>3. copy \in [DOMAIN copy -> Fed] /\ pulled \in BOOLEAN
      BY DEF RegisterTypeOK, Fed, Sourced
    <2>4. CASE Pull
      <3>1. copy' = Merged(ListForPolicy) /\ pulled' = TRUE /\ Serving
        BY <2>4 DEF Pull
      <3>2. /\ DOMAIN ListForPolicy = DOMAIN rows \cup Reserved
            /\ ListForPolicy \in [DOMAIN ListForPolicy -> Fed]
            /\ Reserved \subseteq Technical
        BY <3>1, FeedType
      <3>3. DOMAIN copy' = DOMAIN copy \cup DOMAIN ListForPolicy /\ copy' \in [DOMAIN copy' -> Fed]
        BY <2>3, <3>1, <3>2 DEF Merged
      <3>4. HeldIsKnown'
        BY <2>1, <3>2, <3>3 DEF HeldIsKnown, Technical
      <3> QED
        BY <2>1, <2>2, <3>1, <3>3, <3>4 DEF RegisterTypeOK, Parties, Fed, Sourced
    <2>5. CASE Operate \/ \E c \in Configurations : Deploy(c)
      <3>1. UNCHANGED <<copy, pulled>>
        BY <2>5 DEF Operate, Save, UpdateDetails, ToggleActive, Deploy
      <3>2. HeldIsKnown'
        BY <2>1, <3>1 DEF HeldIsKnown, Technical
      <3> QED
        BY <2>1, <2>2, <2>3, <3>1, <3>2 DEF RegisterTypeOK, Parties, Fed, Sourced
    <2> QED
      BY <1>2, <2>4, <2>5 DEF RegisterNext
  <1> QED
    BY <1>1, <1>2

LEMMA RegisterHolds == RegisterSpec => []RegisterInv
  BY RegisterTypeInit, RegisterStep, PTL DEF RegisterSpec

(* The table and the PDP's copy hold parties as a configuration admits     *)
(* them, whatever is deployed and entered.                                 *)
THEOREM RegisterTypeCorrect == RegisterSpec => []RegisterTypeOK
  <1>1. RegisterInv => RegisterTypeOK
    BY DEF RegisterInv
  <1> QED
    BY <1>1, RegisterHolds, PTL

(* Nobody acts for another on a mandate that the register no longer gives, *)
(* once a pull has nothing new (services/dvtp-onboarding-register/         *)
(* README.md:30-32, 61-64).                                                *)
THEOREM WithdrawnIsGone == RegisterSpec => []WithdrawnOncePulled
  <1>1. ASSUME RegisterInv PROVE WithdrawnOncePulled
    <2> SUFFICES ASSUME Serving, Merged(ListForPolicy) = copy,
                        NEW q \in DOMAIN rows \cap DOMAIN copy, NEW m \in copy[q].actsFor, copy[q].active
                 PROVE  RegisterMandates(q, m.peer)
      BY DEF WithdrawnOncePulled
    <2>1. q \in DOMAIN ListForPolicy
      BY DEF ListForPolicy
    <2>2. copy[q] = ListForPolicy[q]
      BY <2>1 DEF Merged
    <2> QED
      BY <2>1, <2>2 DEF RegisterMandates
  <1> QED
    BY <1>1, RegisterHolds, PTL

\* Every configuration that a process can serve has the same technical parties.
TechnicalPartiesStay ==
    \A c, d \in Configurations : Fits(c) /\ Fits(d) => Peers(c.system) = Peers(d.system)

\* A pull leaves the PDP with what the register lists, and nothing else.
PullsReplace == [][Pull => copy' = ListForPolicy]_registerVars

(* "Retaining an explicit inactive record keeps revocation fail-closed"    *)
(* (the same README): although a pull removes nobody, the copy after it is *)
(* the feed, as long as technical parties are not taken out of the         *)
(* configuration. One that is taken out stays in the copy as it was.       *)
THEOREM CopyIsTheFeed == ASSUME TechnicalPartiesStay PROVE RegisterSpec => PullsReplace
  <1>1. ASSUME RegisterInv, Pull PROVE copy' = ListForPolicy
    <2>1. copy' = Merged(ListForPolicy) /\ Serving /\ configuration \in Configurations
      BY <1>1 DEF Pull, RegisterInv, RegisterTypeOK
    <2>2. Technical \subseteq Reserved
      BY <2>1, TechnicalPartiesStay DEF Technical, TechnicalPartiesStay, Reserved, Serving
    <2>3. DOMAIN ListForPolicy = DOMAIN rows \cup Reserved
      BY DEF ListForPolicy
    <2>4. DOMAIN copy \subseteq DOMAIN ListForPolicy
      BY <1>1, <2>2, <2>3 DEF RegisterInv, HeldIsKnown
    <2>5. Merged(ListForPolicy) = [q \in DOMAIN ListForPolicy |-> ListForPolicy[q]]
      BY <2>4 DEF Merged
    <2>6. ListForPolicy = [q \in DOMAIN ListForPolicy |-> ListForPolicy[q]]
      BY DEF ListForPolicy
    <2> QED
      BY <2>1, <2>5, <2>6
  <1>2. RegisterInv /\ [RegisterNext]_registerVars => [Pull => copy' = ListForPolicy]_registerVars
    BY <1>1
  <1> QED
    BY <1>2, RegisterHolds, PTL DEF RegisterSpec, PullsReplace

=============================================================================
