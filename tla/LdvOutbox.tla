------------------------------ MODULE LdvOutbox ------------------------------
(***************************************************************************)
(* The durable spool of services/ldv-client/outbox.go, between the         *)
(* handlers that call Client.Write and the logbook of                      *)
(* services/ldv-logboek that answers POST /logboek/records.                *)
(*                                                                         *)
(* A spooled line is three cells: the first and the second half of the     *)
(* JSON text, and the newline.  Offsets count cells.  That is enough to    *)
(* tell a whole line from a torn one, and to place a cursor that took an   *)
(* unterminated line for a terminated one.                                 *)
(*                                                                         *)
(* One process appends (Append holds the mutex) and one goroutine delivers *)
(* (Outbox.Run); they share the file without a lock.  The process can      *)
(* crash, the machine can lose power, a write can fail half way, a post    *)
(* can fail before or after the logbook stored the record.                 *)
(***************************************************************************)
EXTENDS Naturals, Sequences, SequencesExt, FiniteSets

CONSTANTS
  Records,      \* records are 1..Records, numbered by their start time
  Tearable,     \* records whose line need not reach the file in one piece
  Unlawful,     \* records the logbook's validation refuses (422)
  ReadLimit,    \* ldv.MaxReadLimit: how many of a trace Get looks at
  MaxCrashes,   \* bound: crashes of the process and power cuts together
  MaxFaults     \* bound: failed writes, posts and cursor writes together

Record == 1..Records

ASSUME OutboxAssumption ==
  /\ Records \in Nat \ {0}
  /\ Tearable \subseteq Record
  /\ Unlawful \subseteq Record
  /\ {ReadLimit, MaxCrashes, MaxFaults} \subseteq Nat

VARIABLES
  file,      \* the spool: a sequence of cells
  synced,    \* how much of the spool an fsync has put on the disk
  cursor,    \* the offset in the cursor file
  writing,   \* the Append in progress: its record and the cells it has written
  told,      \* what each record's producer was told
  up,        \* the process runs
  batch,     \* the lines undelivered() returned that Deliver has not handled
  step,      \* where Deliver is
  stored,    \* the logbook's records, in the order they arrived
  crashes, faults

vars == <<file, synced, cursor, writing, told, up, batch, step, stored, crashes, faults>>

disk == <<file, synced, cursor>>
producer == <<writing, told>>
deliverer == <<batch, step>>
bounds == <<crashes, faults>>

Idle == [rec |-> 0, done |-> 0]
Cell(r, part) == [rec |-> r, part |-> part]
Newline(cell) == cell.part = 3

(* The cells of a record's line after the first i, up to the k-th. *)
Cells(r, i, k) == [n \in 1..k - i |-> Cell(r, i + n)]

(***************************************************************************)
(* undelivered(): the lines from an offset on, each with the offset it is  *)
(* taken to end at.  bufio.Scanner also returns a last line that has no    *)
(* newline, and the code counts one for it.                                *)
(***************************************************************************)
LineEnds(f, from) ==
  {i \in from + 1 .. Len(f) : Newline(f[i])}
    \cup {i \in {Len(f) + 1} : Len(f) > from /\ ~Newline(f[Len(f)])}

Lines(f, from) ==
  {l \in ({from} \cup LineEnds(f, from)) \X LineEnds(f, from) :
     l[1] < l[2] /\ \A e \in LineEnds(f, from) : ~(l[1] < e /\ e < l[2])}

(* The record of a line, 0 for one that does not parse. *)
Parsed(f, l) ==
  IF l[2] = l[1] + 3 /\ \E r \in Record : f[l[1] + 1] = Cell(r, 1) /\ f[l[1] + 2] = Cell(r, 2)
  THEN f[l[1] + 1].rec ELSE 0

Undelivered(f, from) == {[rec |-> Parsed(f, l), pos |-> l[2]] : l \in Lines(f, from)}

(* The records that a pass from this offset would post. *)
Waiting(f, from) == {e.rec : e \in Undelivered(f, from)} \ {0}

First(b) == CHOOSE e \in b : \A d \in b : e.pos <= d.pos
Rest(b) == b \ {First(b)}

\* mutant: advance per batch
CursorOfBatch(b) == CHOOSE p \in {e.pos : e \in b} : \A d \in b : d.pos <= p
NextCursor(b) == First(b).pos

Resume(b) == IF b = {} THEN "idle" ELSE "post"
SkipsFailed(b) == Rest(b)                  \* mutant: go on with the next record
AfterFailure(b) == {}

-----------------------------------------------------------------------------
Init ==
  /\ file = <<>> /\ synced = 0 /\ cursor = 0
  /\ writing = Idle /\ told = [r \in Record |-> "nothing"]
  /\ up = TRUE /\ batch = {} /\ step = "idle"
  /\ stored = <<>> /\ crashes = 0 /\ faults = 0

(* A handler calls Write, which takes the mutex in Append. *)
BeginAppend(r) ==
  /\ up /\ writing = Idle /\ told[r] = "nothing"
  /\ writing' = [rec |-> r, done |-> 0]
  /\ told' = [told EXCEPT ![r] = "writing"]
  /\ UNCHANGED <<disk, up, deliverer, stored, bounds>>

(* The file grows by the rest of the line, or by a part of it. *)
WriteCells(k) ==
  /\ up /\ writing # Idle
  /\ k \in writing.done + 1 .. 3
  /\ writing.rec \in Tearable \/ k = 3
  /\ file' = file \o Cells(writing.rec, writing.done, k)
  /\ writing' = [writing EXCEPT !.done = k]
  /\ UNCHANGED <<synced, cursor, told, up, deliverer, stored, bounds>>

(* fsync succeeded and Append returns nil. *)
Confirm ==
  /\ up /\ writing.done = 3
  /\ told' = [told EXCEPT ![writing.rec] = "safe"]
  /\ writing' = Idle
  /\ synced' = Len(file)
  /\ UNCHANGED <<file, cursor, up, deliverer, stored, bounds>>

(* The write or the fsync fails; what was written stays in the file. *)
AppendFails ==
  /\ up /\ writing # Idle /\ faults < MaxFaults
  /\ faults' = faults + 1
  /\ told' = [told EXCEPT ![writing.rec] = "failed"]
  /\ writing' = Idle
  /\ UNCHANGED <<disk, up, deliverer, stored, crashes>>

-----------------------------------------------------------------------------
(* Deliver: one read of the file, then record by record. *)
ReadSpool ==
  /\ up /\ step = "idle"
  /\ Undelivered(file, cursor) # {}
  /\ batch' = Undelivered(file, cursor)
  /\ step' = "post"
  /\ UNCHANGED <<disk, producer, up, stored, bounds>>

Posting(r) == up /\ step = "post" /\ First(batch).rec = r

(* Logbook.Write: validation, then the primary key on (trace, span), then  *)
(* a comparison with the record Get finds under that identity.             *)
Accepts(r) == r \notin Unlawful
IsNew(r) == r \notin ToSet(stored)
FoundBy(r, limit) == Cardinality({s \in ToSet(stored) : s < r}) < limit
Found(r) == FoundBy(r, ReadLimit)
Insert(r) == IF Accepts(r) /\ IsNew(r) THEN Append(stored, r) ELSE stored
Confirms(r) == Accepts(r) /\ (IsNew(r) \/ Found(r))

(* 201 for a new record, 200 for a replay. *)
Post(r) ==
  /\ Posting(r) /\ Confirms(r)
  /\ stored' = Insert(r)
  /\ step' = "advance"
  /\ UNCHANGED <<disk, producer, up, batch, bounds>>

(* 409 or 422: post returns an error like any other, and the pass stops. *)
Refuse(r) ==
  /\ Posting(r) /\ ~Confirms(r)
  /\ batch' = AfterFailure(batch) /\ step' = Resume(AfterFailure(batch))
  /\ UNCHANGED <<disk, producer, up, stored, bounds>>

(* The post fails or times out: before the logbook stored it, or after. *)
PostFails(r) ==
  /\ Posting(r) /\ faults < MaxFaults
  /\ faults' = faults + 1
  /\ stored' \in {stored, Insert(r)}
  /\ batch' = AfterFailure(batch) /\ step' = Resume(AfterFailure(batch))
  /\ UNCHANGED <<disk, producer, up, crashes>>

(* writeCursor renames a complete file over the old one; a line that does  *)
(* not parse is passed over without a post.                                *)
Advance ==
  /\ up /\ (step = "advance" \/ Posting(0))
  /\ cursor' = NextCursor(batch)
  /\ batch' = Rest(batch) /\ step' = Resume(Rest(batch))
  /\ UNCHANGED <<file, synced, producer, up, stored, bounds>>

AdvanceFails ==
  /\ up /\ (step = "advance" \/ Posting(0)) /\ faults < MaxFaults
  /\ faults' = faults + 1
  /\ batch' = {} /\ step' = "idle"
  /\ UNCHANGED <<disk, producer, up, stored, crashes>>

-----------------------------------------------------------------------------
Stops ==
  /\ up /\ crashes < MaxCrashes
  /\ crashes' = crashes + 1
  /\ up' = FALSE
  /\ batch' = {} /\ step' = "idle"
  /\ writing' = Idle
  /\ told' = [r \in Record |-> IF r = writing.rec THEN "failed" ELSE told[r]]
  /\ UNCHANGED <<stored, faults>>

(* The process dies; what it wrote is in the page cache. *)
Crash == Stops /\ UNCHANGED disk

(* The machine loses power: what no fsync covered may be gone, all of it   *)
(* or, in a line that can tear, from some point on.  The cursor is never   *)
(* fsynced; it is assumed not to outlive the lines it points past.         *)
Surviving == {n \in synced..Len(file) :
  n = synced \/ Newline(file[n]) \/ file[n].rec \in Tearable}
PowerCut ==
  /\ Stops
  /\ \E n \in Surviving :
       /\ file' = SubSeq(file, 1, n)
       /\ cursor' \in {0} \cup {c \in {cursor} : c <= n}
       /\ synced' = n

Restart == ~up /\ up' = TRUE /\ UNCHANGED <<disk, producer, deliverer, stored, bounds>>

Writes == Confirm \/ \E k \in 1..3 : WriteCells(k)
Delivers == ReadSpool \/ Advance \/ \E r \in Record : Post(r) \/ Refuse(r)

Next ==
  \/ Writes \/ Delivers
  \/ \E r \in Record : BeginAppend(r) \/ PostFails(r)
  \/ AppendFails \/ AdvanceFails
  \/ Crash \/ PowerCut \/ Restart

Spec == Init /\ [][Next]_vars

(* Run delivers on a ticker and Append runs to its end; a container that   *)
(* stopped is started again.                                               *)
FairSpec == Spec /\ WF_vars(Writes) /\ WF_vars(Delivers) /\ WF_vars(Restart)

-----------------------------------------------------------------------------
(* Types.  The logbook holds one record per identity: its primary key. *)
TypeOK ==
  /\ file \in Seq([rec : Record, part : 1..3])
  /\ synced \in 0..Len(file) /\ cursor \in Nat
  /\ writing \in [rec : Record, done : 0..3] \cup {Idle}
  /\ told \in [Record -> {"nothing", "writing", "safe", "failed"}]
  /\ up \in BOOLEAN
  /\ batch \subseteq [rec : Record \cup {0}, pos : Nat \ {0}]
  /\ step \in {"idle", "post", "advance"} /\ (step = "idle" <=> batch = {})
  /\ stored \in Seq(Record) /\ IsInjective(stored)
  /\ crashes \in 0..MaxCrashes /\ faults \in 0..MaxFaults

(* A line that is read, or left, half-written is exposed: its own newline  *)
(* is counted before it is there, and the record appended behind a line    *)
(* that stays torn loses its first byte to that count.                     *)
BehindTorn(r) == \E i \in 2..Len(file) : file[i] = Cell(r, 1) /\ ~Newline(file[i - 1])
Exposed(r) == r \in Tearable \/ BehindTorn(r)

(* "A caller that gets nil may proceed knowing the record cannot now be    *)
(* lost" (outbox.go:63-65): whatever fails, stops, is refused or replayed, *)
(* a record that was called safe is in the logbook, or a pass from the     *)
(* cursor on the disk would still post it.  The code keeps this for every  *)
(* record but the exposed ones.                                            *)
ConfirmedKept ==
  \A r \in Record :
    told[r] = "safe" /\ ~Exposed(r) => r \in ToSet(stored) \cup Waiting(file, cursor)

(* "Order is preserved and nothing is skipped" (outbox.go:134-136): of two *)
(* lines in the spool the logbook holds the later one only if it already   *)
(* held the earlier one, and a record that it refuses is not passed over.  *)
Before(r, q) == \E m, n \in 1..Len(stored) : m < n /\ stored[m] = r /\ stored[n] = q

OrderKept ==
  LET lines == {e \in Undelivered(file, 0) : e.rec # 0 /\ ~Exposed(e.rec)}
  IN  \A d, e \in lines :
        d.pos < e.pos /\ e.rec \in ToSet(stored) =>
          d.rec \in ToSet(stored) /\ Before(d.rec, e.rec)

(* A record that the logbook refuses for good stays at the head, and what  *)
(* is behind it in the spool does not get through.                         *)
Blocked(r) == \E i, j \in 1..Len(file) :
  i < j /\ file[i].rec \in Unlawful /\ file[j].rec = r

(* The spool keeps the promise for every record that is neither exposed    *)
(* nor refused nor behind one that is: called safe, it is in the logbook   *)
(* in the end, across crashes, power cuts and failed posts.                *)
Offered == {r \in Record : told[r] # "nothing"}
Promised == {r \in Record \ Unlawful : told[r] = "safe" /\ ~Exposed(r) /\ ~Blocked(r)}
Promise == INSTANCE LoggingPromise WITH
  offered <- Offered, promised <- Promised, logged <- ToSet(stored)
KeepsPromise == Promise!Spec
=============================================================================
