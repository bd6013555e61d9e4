--------------------------- MODULE LdvOutboxProofs ---------------------------
(***************************************************************************)
(* Theorems about LdvOutbox, for any number of records, whichever of them  *)
(* tear or are refused, and any number of crashes, power cuts and          *)
(* failures.                                                               *)
(***************************************************************************)
EXTENDS LdvOutbox, TLAPS, NaturalsInduction, WellFoundedInduction, SequenceTheorems

-----------------------------------------------------------------------------
(* The inductive invariant.  The spool is made of lines and of beginnings  *)
(* of lines, and only a line that can tear is left without its end         *)
(* (FileOK).  A line that starts where a line can start and cannot tear is *)
(* clean: the cursor is in front of it, or behind it and its record is in  *)
(* the logbook (CursorOK); and the logbook holds the records of clean      *)
(* lines in their order (LogOK).  A pass goes on with a clean line only    *)
(* where the line before it ended (BatchOK).                               *)

CellOf == [rec : Record, part : 1..3]
Written == {file[i].rec : i \in 1..Len(file)}

Whole(i) == i + 2 <= Len(file) /\ file[i + 1] = Cell(file[i].rec, 2) /\ file[i + 2] = Cell(file[i].rec, 3)

\* A line ends at this offset, or its record is one whose line can tear.
Ends(n) == n = 0 \/ Newline(file[n]) \/ file[n].rec \in Tearable

FileOK ==
  /\ file \in Seq(CellOf) /\ synced \in 0..Len(file) /\ Ends(synced)
  /\ \A i \in 1..Len(file) : file[i].part # 1 =>
       i > 1 /\ file[i - 1] = Cell(file[i].rec, file[i].part - 1)
  /\ \A i, j \in 1..Len(file) :
       file[i].part = 1 /\ file[j].part = 1 /\ file[i].rec = file[j].rec => i = j
  /\ \A i \in 1..Len(file) : file[i].part = 1 /\ file[i].rec \notin Tearable => Whole(i)

WritingOK ==
  /\ writing \in [rec : Record, done : 0..3] \cup {Idle}
  /\ told \in [Record -> {"nothing", "writing", "safe", "failed"}]
  /\ writing # Idle =>
       /\ told[writing.rec] = "writing"
       /\ writing.done = 0 => writing.rec \notin Written
       /\ writing.done # 0 => Len(file) > 0 /\ file[Len(file)] = Cell(writing.rec, writing.done)
       /\ writing.done \in 1..2 => writing.rec \in Tearable
  /\ \A r \in Record : told[r] = "nothing" => r \notin Written
  /\ \A r \in Record : told[r] = "safe" =>
       \E i \in 1..Len(file) : file[i] = Cell(r, 1) /\ i + 2 <= synced

\* A line of a record that cannot tear, where a line can start.
Clean(i) ==
  /\ i \in 1..Len(file) /\ file[i].part = 1 /\ file[i].rec \notin Tearable
  /\ i > 1 => Newline(file[i - 1])

Stored == ToSet(stored)

CursorOK ==
  /\ cursor \in 0..Len(file) \/ (cursor = Len(file) + 1 /\ Len(file) > 0 /\ ~Newline(file[Len(file)]))
  /\ \A i \in 1..Len(file) : Clean(i) =>
       cursor <= i - 1 \/ (cursor >= i + 2 /\ file[i].rec \in Stored)

LogOK ==
  /\ stored \in Seq(Record) /\ IsInjective(stored)
  /\ \A r \in Stored : told[r] # "nothing" /\ (writing.rec = r => writing.done # 0)
  /\ \A i, j \in 1..Len(file) : i < j /\ Clean(i) /\ Clean(j) /\ file[j].rec \in Stored =>
       file[i].rec \in Stored /\ Before(file[i].rec, file[j].rec)

LineIn(e) ==
  /\ e.pos <= Len(file) \/ (e.pos = Len(file) + 1 /\ Len(file) > 0 /\ ~Newline(file[Len(file)]))
  /\ e.rec # 0 => /\ e.pos - 2 \in 1..Len(file) /\ e.pos - 1 <= Len(file)
                  /\ file[e.pos - 2] = Cell(e.rec, 1)

BatchOK ==
  /\ batch \subseteq [rec : Record \cup {0}, pos : Nat \ {0}]
  /\ step \in {"idle", "post", "advance"} /\ (step = "idle" <=> batch = {})
  /\ up \in BOOLEAN /\ (~up => batch = {} /\ writing = Idle)
  /\ \A e \in batch : e.pos > cursor /\ LineIn(e) /\ \A d \in batch : d.pos = e.pos => d = e
  /\ step = "advance" => First(batch).rec \in Stored
  /\ \A i \in 1..Len(file) : Clean(i) /\ cursor <= i - 1 => \A e \in batch : e.pos >= i =>
       /\ e.pos >= i + 2 /\ [rec |-> file[i].rec, pos |-> i + 2] \in batch
       /\ i - 1 > cursor => \E d \in batch : d.pos = i - 1

BoundsOK == crashes \in 0..MaxCrashes /\ faults \in 0..MaxFaults

IInv == FileOK /\ WritingOK /\ CursorOK /\ LogOK /\ BatchOK /\ BoundsOK

LEMMA TypeParts == IInv => TypeOK
  BY LenProperties DEF IInv, FileOK, WritingOK, CursorOK, LogOK, BatchOK, BoundsOK, TypeOK, CellOf

LEMMA InvInit == Init => IInv
  <1> SUFFICES ASSUME Init PROVE IInv
    OBVIOUS
  <1>1. file = <<>> /\ Len(file) = 0 /\ stored = <<>> /\ Stored = {} /\ Written = {}
    BY DEF Init, Stored, ToSet, Written
  <1>2. FileOK
    BY <1>1, EmptySeq DEF Init, FileOK, Ends
  <1>3. WritingOK
    BY <1>1 DEF Init, WritingOK
  <1>4. CursorOK
    BY <1>1 DEF Init, CursorOK
  <1>5. LogOK
    BY <1>1, EmptySeq DEF LogOK, IsInjective, Init
  <1>6. BatchOK
    BY <1>1 DEF Init, BatchOK
  <1>7. BoundsOK
    BY OutboxAssumption DEF Init, BoundsOK
  <1> QED
    BY <1>2, <1>3, <1>4, <1>5, <1>6, <1>7 DEF IInv

-----------------------------------------------------------------------------
(* Lines and batches.                                                      *)

LEMMA LeastElement ==
  ASSUME NEW S \in SUBSET Nat, S # {}
  PROVE  \E x \in S : \A y \in S : x <= y
  <1>1. PICK x \in S : \A y \in S : ~ (<<y, x>> \in OpToRel(<, Nat))
    BY NatLessThanWellFounded, WFMin
  <1>2. ASSUME NEW y \in S PROVE x <= y
    <2>1. ~ (y < x)
      BY <1>1 DEF OpToRel
    <2> QED
      BY <2>1
  <1> QED
    BY <1>2

\* The first line of a batch is one of it, and none ends before it.
LEMMA FirstIsLeast ==
  ASSUME NEW b, b # {}, \A e \in b : e.pos \in Nat
  PROVE  First(b) \in b /\ \A d \in b : First(b).pos <= d.pos
  <1> DEFINE S == {e.pos : e \in b}
  <1>1. S \in SUBSET Nat /\ S # {}
    OBVIOUS
  <1>2. PICK x \in S : \A y \in S : x <= y
    BY <1>1, LeastElement
  <1>3. PICK e \in b : x = e.pos
    BY <1>2
  <1>4. \A d \in b : e.pos <= d.pos
    BY <1>2, <1>3
  <1> QED
    BY <1>4 DEF First

\* What a cell is.
LEMMA CellFields ==
  ASSUME NEW f \in Seq(CellOf), NEW i \in 1..Len(f)
  PROVE  /\ f[i] \in CellOf /\ f[i].rec \in Record /\ f[i].part \in 1..3
         /\ f[i] = Cell(f[i].rec, f[i].part)
  <1>1. f[i] \in CellOf
    BY ElementOfSeq
  <1> QED
    BY <1>1 DEF CellOf, Cell

\* What a line's ends are.
LEMMA EndsOfLines ==
  ASSUME NEW f \in Seq(CellOf), NEW from \in Nat, NEW e
  PROVE  e \in LineEnds(f, from) <=>
           /\ e \in Nat /\ e > from
           /\ \/ e <= Len(f) /\ Newline(f[e])
              \/ e = Len(f) + 1 /\ Len(f) > from /\ ~Newline(f[Len(f)])
  <1>1. Len(f) \in Nat
    BY LenProperties
  <1> QED
    BY <1>1 DEF LineEnds

\* A line ends at every end, and only one does.
LEMMA LineToEnd ==
  ASSUME NEW f \in Seq(CellOf), NEW from \in Nat, NEW e \in LineEnds(f, from)
  PROVE  \E s \in {from} \cup LineEnds(f, from) : <<s, e>> \in Lines(f, from)
  <1> DEFINE Starts == {s \in {from} \cup LineEnds(f, from) : s < e}
             Distance == {e - s : s \in Starts}
  <1>1. e \in Nat /\ e > from /\ Starts \in SUBSET Nat /\ from \in Starts
    BY EndsOfLines
  <1>2. \A s \in Starts : e - s \in Nat
    BY <1>1
  <1>3. Distance \in SUBSET Nat /\ Distance # {}
    BY <1>1, <1>2
  <1>4. PICK d \in Distance : \A y \in Distance : d <= y
    BY <1>3, LeastElement
  <1>5. PICK s \in Starts : d = e - s
    BY <1>4
  <1>6. ASSUME NEW t \in LineEnds(f, from), s < t, t < e PROVE FALSE
    <2>1. t \in Starts /\ e - t \in Distance
      BY <1>6
    <2>2. e - s <= e - t
      BY <2>1, <1>4, <1>5
    <2> QED
      BY <2>1, <2>2, <1>1, <1>5, <1>6
  <1> QED
    BY <1>5, <1>6 DEF Lines

LEMMA OneLineToEnd ==
  ASSUME NEW f \in Seq(CellOf), NEW from \in Nat,
         NEW l \in Lines(f, from), NEW m \in Lines(f, from), l[2] = m[2]
  PROVE  l = m
  <1>1. /\ l = <<l[1], l[2]>> /\ m = <<m[1], m[2]>>
        /\ l[1] \in {from} \cup LineEnds(f, from) /\ m[1] \in {from} \cup LineEnds(f, from)
        /\ l[1] < l[2] /\ m[1] < m[2]
    BY DEF Lines
  <1>2. l[1] \in Nat /\ m[1] \in Nat /\ l[1] >= from /\ m[1] >= from
    BY <1>1, EndsOfLines
  <1>3. ~ (l[1] < m[1]) /\ ~ (m[1] < l[1])
    BY <1>1, <1>2 DEF Lines
  <1> QED
    BY <1>1, <1>2, <1>3

\* The line of a clean record is a line for every offset in front of it.
LEMMA CleanLine ==
  ASSUME FileOK, NEW from \in Nat, NEW i \in 1..Len(file), Clean(i), from <= i - 1
  PROVE  /\ i + 2 <= Len(file) /\ <<i - 1, i + 2>> \in Lines(file, from)
         /\ [rec |-> file[i].rec, pos |-> i + 2] \in Undelivered(file, from)
         /\ i - 1 > from => i - 1 \in LineEnds(file, from)
  <1>1. /\ file \in Seq(CellOf) /\ Len(file) \in Nat /\ file[i] \in CellOf /\ file[i].rec \in Record
        /\ file[i] = Cell(file[i].rec, 1)
    <2>1. file \in Seq(CellOf)
      BY DEF FileOK
    <2>2. file[i].part = 1
      BY DEF Clean
    <2> QED
      BY <2>1, <2>2, LenProperties, CellFields
  <1>2. /\ i + 2 <= Len(file) /\ file[i + 1] = Cell(file[i].rec, 2)
        /\ file[i + 2] = Cell(file[i].rec, 3)
    BY DEF FileOK, Clean, Whole
  <1>3. ~Newline(file[i]) /\ ~Newline(file[i + 1]) /\ Newline(file[i + 2])
    BY <1>1, <1>2 DEF Newline, Cell
  <1>4. i - 1 > from => i - 1 \in LineEnds(file, from)
    BY <1>1, EndsOfLines DEF Clean
  <1>5. i + 2 \in LineEnds(file, from)
    BY <1>1, <1>2, <1>3, EndsOfLines
  <1>6. ASSUME NEW e \in LineEnds(file, from), i - 1 < e, e < i + 2 PROVE FALSE
    <2>1. e \in Nat /\ (e = i \/ e = i + 1)
      BY <1>6, EndsOfLines, <1>1
    <2> QED
      BY <2>1, <1>1, <1>2, <1>3, EndsOfLines
  <1>7. <<i - 1, i + 2>> \in Lines(file, from)
    BY <1>4, <1>5, <1>6, <1>1 DEF Lines
  <1>8. Parsed(file, <<i - 1, i + 2>>) = file[i].rec
    BY <1>1, <1>2 DEF Parsed
  <1> QED
    BY <1>2, <1>4, <1>7, <1>8 DEF Undelivered

\* A line that was read: where it ends, and the cells of the record it holds.
LEMMA ReadLine ==
  ASSUME NEW f \in Seq(CellOf), NEW from \in Nat, NEW e \in Undelivered(f, from)
  PROVE  /\ e \in [rec : Record \cup {0}, pos : Nat \ {0}] /\ e.pos \in LineEnds(f, from)
         /\ e.rec # 0 =>
              /\ e.pos - 2 \in 1..Len(f) /\ e.pos - 1 <= Len(f)
              /\ f[e.pos - 2] = Cell(e.rec, 1)
              /\ e.pos - 2 = from + 1 \/ Newline(f[e.pos - 3])
  <1>1. PICK l \in Lines(f, from) : e = [rec |-> Parsed(f, l), pos |-> l[2]]
    BY DEF Undelivered
  <1>2. /\ l[1] \in {from} \cup LineEnds(f, from) /\ l[2] \in LineEnds(f, from) /\ l[1] < l[2]
        /\ Len(f) \in Nat
    BY LenProperties DEF Lines
  <1>3. l[1] \in Nat /\ l[2] \in Nat \ {0} /\ l[2] <= Len(f) + 1 /\ l[2] > from
    BY <1>2, EndsOfLines
  <1>4. Parsed(f, l) \in Record \cup {0}
    <2>1. CASE Parsed(f, l) = 0
      BY <2>1
    <2>2. CASE Parsed(f, l) # 0
      <3>1. /\ \E r \in Record : f[l[1] + 1] = Cell(r, 1) /\ f[l[1] + 2] = Cell(r, 2)
            /\ Parsed(f, l) = f[l[1] + 1].rec
        BY <2>2 DEF Parsed
      <3>2. PICK r \in Record : f[l[1] + 1] = Cell(r, 1)
        BY <3>1
      <3>3. f[l[1] + 1].rec = r
        BY <3>2 DEF Cell
      <3> QED
        BY <3>1, <3>3
    <2> QED
      BY <2>1, <2>2
  <1>5. ASSUME e.rec # 0
        PROVE  /\ e.pos - 2 \in 1..Len(f) /\ e.pos - 1 <= Len(f)
               /\ f[e.pos - 2] = Cell(e.rec, 1)
               /\ e.pos - 2 = from + 1 \/ Newline(f[e.pos - 3])
    <2>1. /\ l[2] = l[1] + 3
          /\ \E r \in Record : f[l[1] + 1] = Cell(r, 1) /\ f[l[1] + 2] = Cell(r, 2)
          /\ e.rec = f[l[1] + 1].rec
      BY <1>1, <1>5 DEF Parsed
    <2>2. f[l[1] + 1] = Cell(e.rec, 1)
      BY <2>1 DEF Cell
    <2>3. e.pos = l[1] + 3 /\ e.pos - 2 = l[1] + 1 /\ e.pos - 3 = l[1] /\ l[1] + 2 <= Len(f)
      BY <1>1, <1>2, <1>3, <2>1
    <2>4. l[1] = from \/ Newline(f[l[1]])
      <3>1. l[1] = from \/ l[1] \in LineEnds(f, from)
        BY <1>2
      <3>2. l[1] \in LineEnds(f, from) => l[1] <= Len(f) + 1 /\ (l[1] <= Len(f) => Newline(f[l[1]]))
        BY <1>2, <1>3, EndsOfLines
      <3>3. l[1] <= Len(f)
        BY <1>2, <1>3, <2>3
      <3> QED
        BY <3>1, <3>2, <3>3
    <2>5. f[e.pos - 2] = Cell(e.rec, 1)
      BY <2>2, <2>3
    <2>6. e.pos - 2 = from + 1 \/ Newline(f[e.pos - 3])
      <3>1. CASE l[1] = from
        BY <3>1, <2>3
      <3>2. CASE Newline(f[l[1]])
        BY <3>2, <2>3
      <3> QED
        BY <2>4, <3>1, <3>2
    <2>7. e.pos - 2 \in 1..Len(f) /\ e.pos - 1 <= Len(f)
      BY <2>3, <1>2, <1>3
    <2> QED
      BY <2>5, <2>6, <2>7
  <1> QED
    BY <1>1, <1>2, <1>3, <1>4, <1>5

LEMMA ReadOnce ==
  ASSUME NEW f \in Seq(CellOf), NEW from \in Nat,
         NEW d \in Undelivered(f, from), NEW e \in Undelivered(f, from), d.pos = e.pos
  PROVE  d = e
  BY OneLineToEnd DEF Undelivered

-----------------------------------------------------------------------------
(* What stays when its variables do.                                       *)

LEMMA FileStays == FileOK /\ UNCHANGED <<file, synced>> => FileOK'
  BY DEF FileOK, Ends, Whole

LEMMA CursorStays == CursorOK /\ UNCHANGED <<file, cursor, stored>> => CursorOK'
  BY DEF CursorOK, Clean, Stored

LEMMA BatchStays ==
  BatchOK /\ UNCHANGED <<file, cursor, batch, step, up, stored>> /\ (~up => writing' = Idle) => BatchOK'
  BY DEF BatchOK, LineIn, Clean, Stored

LEMMA BatchGone ==
  batch' = {} /\ step' = "idle" /\ up' \in BOOLEAN /\ (~up' => writing' = Idle) => BatchOK'
  BY DEF BatchOK

LEMMA LogStays ==
  LogOK /\ UNCHANGED <<file, stored>>
    /\ (\A r \in Stored : told'[r] # "nothing" /\ (writing'.rec = r => writing'.done # 0)) => LogOK'
  BY DEF LogOK, Clean, Stored, Before

LEMMA WrittenStays == UNCHANGED file => Written' = Written
  BY DEF Written

-----------------------------------------------------------------------------
(* The producer.                                                           *)

LEMMA BeginAppendKeeps == ASSUME IInv, NEW r \in Record, BeginAppend(r) PROVE IInv'
  <1> USE DEF IInv, BeginAppend, disk, deliverer, bounds
  <1>1. Written' = Written /\ r \notin Written /\ r \notin Stored
    BY WrittenStays DEF WritingOK, LogOK
  <1>2. WritingOK'
    BY <1>1 DEF WritingOK, Idle
  <1>3. LogOK'
    BY <1>1, LogStays DEF LogOK, WritingOK, Idle, Stored
  <1> QED
    BY <1>2, <1>3, FileStays, CursorStays, BatchStays DEF BoundsOK, BatchOK

LEMMA ConfirmKeeps == ASSUME IInv, Confirm PROVE IInv'
  <1> USE DEF IInv, Confirm, deliverer, bounds
  <1>1. /\ writing # Idle /\ writing.rec \in Record /\ told[writing.rec] = "writing"
        /\ Len(file) \in Nat /\ Len(file) > 0 /\ file[Len(file)] = Cell(writing.rec, 3)
        /\ file \in Seq(CellOf)
    BY LenProperties DEF WritingOK, Idle, FileOK
  <1>2. /\ Len(file) - 1 \in 1..Len(file) /\ file[Len(file) - 1] = Cell(writing.rec, 2)
    BY <1>1 DEF FileOK, Cell
  <1>3. /\ Len(file) - 2 \in 1..Len(file) /\ file[Len(file) - 2] = Cell(writing.rec, 1)
    BY <1>1, <1>2 DEF FileOK, Cell
  <1>4. Written' = Written
    BY WrittenStays
  <1>5. FileOK'
    <2>1. Ends(synced)'
      BY <1>1 DEF Ends, Newline, Cell
    <2>2. file' = file /\ synced' = Len(file) /\ Len(file) \in 0..Len(file)
      BY <1>1
    <2>3. \A i \in 1..Len(file) : Whole(i) => Whole(i)'
      BY <2>2 DEF Whole
    <2> HIDE DEF Confirm
    <2> QED
      BY <2>1, <2>2, <2>3 DEF FileOK
  <1>6. WritingOK'
    <2>1. ASSUME NEW r \in Record, told'[r] = "safe"
          PROVE  \E i \in 1..Len(file) : file[i] = Cell(r, 1) /\ i + 2 <= Len(file)
      <3>1. CASE r = writing.rec
        BY <3>1, <1>1, <1>3
      <3>2. CASE r # writing.rec
        BY <3>2, <2>1, <1>1 DEF WritingOK, FileOK
      <3> QED
        BY <3>1, <3>2
    <2>2. \A r \in Record : told'[r] = "nothing" => r \notin Written
      BY DEF WritingOK
    <2>3. told' \in [Record -> {"nothing", "writing", "safe", "failed"}]
      BY DEF WritingOK
    <2> QED
      BY <2>1, <2>2, <2>3, <1>4 DEF WritingOK
  <1>7. LogOK'
    <2>1. \A r \in Stored : r \in Record
      BY LenProperties, ElementOfSeq DEF LogOK, Stored, ToSet
    <2>2. \A r \in Stored : told'[r] # "nothing"
      BY <2>1 DEF LogOK, WritingOK
    <2> QED
      BY <2>1, <2>2, LogStays DEF Idle, Record
  <1> QED
    BY <1>5, <1>6, <1>7, CursorStays, BatchStays DEF BoundsOK

LEMMA AppendFailsKeeps == ASSUME IInv, AppendFails PROVE IInv'
  <1> USE DEF IInv, AppendFails, disk, deliverer
  <1>1. writing.rec \in Record /\ told[writing.rec] = "writing"
    BY DEF WritingOK, Idle
  <1>2. WritingOK'
    <2>1. told' \in [Record -> {"nothing", "writing", "safe", "failed"}]
      BY DEF WritingOK
    <2> QED
      BY <1>1, <2>1, WrittenStays DEF WritingOK
  <1>3. LogOK'
    <2>1. \A r \in Stored : r \in Record
      BY LenProperties, ElementOfSeq DEF LogOK, Stored, ToSet
    <2>2. \A r \in Stored : told'[r] # "nothing"
      BY <2>1 DEF LogOK, WritingOK
    <2> QED
      BY <2>1, <2>2, LogStays DEF Idle, Record
  <1>4. BoundsOK'
    BY OutboxAssumption DEF BoundsOK
  <1> QED
    BY <1>2, <1>3, <1>4, FileStays, CursorStays, BatchStays

\* The file grows by cells of the line that is being written.
LEMMA FileGrows ==
  ASSUME IInv, NEW k, WriteCells(k)
  PROVE  /\ writing # Idle /\ writing.rec \in Record /\ writing.done \in 0..2 /\ k \in writing.done + 1 .. 3
         /\ writing' = [rec |-> writing.rec, done |-> k]
         /\ file' \in Seq(CellOf) /\ Len(file) \in Nat /\ Len(file') = Len(file) + (k - writing.done)
         /\ \A i \in 1..Len(file) : file'[i] = file[i]
         /\ \A i \in Len(file) + 1 .. Len(file') : file'[i] = Cell(writing.rec, writing.done + (i - Len(file)))
  <1> DEFINE more == Cells(writing.rec, writing.done, k)
  <1>1. /\ writing # Idle /\ writing.rec \in Record /\ writing.done \in 0..2 /\ k \in writing.done + 1 .. 3
        /\ writing' = [rec |-> writing.rec, done |-> k] /\ file' = file \o more
    BY DEF WriteCells, IInv, WritingOK, Idle
  <1>2. k - writing.done \in Nat
    BY <1>1
  <1>3. /\ more \in Seq(CellOf) /\ Len(more) = k - writing.done
        /\ \A n \in 1..k - writing.done : more[n] = Cell(writing.rec, writing.done + n)
    <2>1. \A n \in 1..k - writing.done : Cell(writing.rec, writing.done + n) \in CellOf
      BY <1>1 DEF Cell, CellOf
    <2> QED
      BY <1>2, <2>1 DEF Cells
  <1> HIDE DEF more
  <1>4. file \in Seq(CellOf) /\ Len(file) \in Nat
    BY LenProperties DEF IInv, FileOK
  <1>5. /\ file' \in Seq(CellOf) /\ Len(file') = Len(file) + Len(more)
        /\ \A i \in 1 .. Len(file) + Len(more) :
             file'[i] = IF i <= Len(file) THEN file[i] ELSE more[i - Len(file)]
    BY <1>1, <1>3, <1>4, ConcatProperties
  <1>6. ASSUME NEW i \in 1..Len(file) PROVE file'[i] = file[i]
    <2>1. i \in 1 .. Len(file) + Len(more) /\ i <= Len(file)
      BY <1>2, <1>3, <1>4
    <2> QED
      BY <2>1, <1>5
  <1>7. ASSUME NEW i \in Len(file) + 1 .. Len(file')
        PROVE  file'[i] = Cell(writing.rec, writing.done + (i - Len(file)))
    <2>1. /\ i \in 1 .. Len(file) + Len(more) /\ ~ (i <= Len(file))
          /\ i - Len(file) \in 1 .. k - writing.done
      BY <1>2, <1>3, <1>4, <1>5
    <2>2. file'[i] = more[i - Len(file)]
      BY <2>1, <1>5
    <2> QED
      BY <2>1, <2>2, <1>3
  <1> QED
    BY <1>1, <1>3, <1>4, <1>5, <1>6, <1>7

LEMMA WriteCellsKeeps == ASSUME IInv, NEW k \in 1..3, WriteCells(k) PROVE IInv'
  <1> USE DEF IInv
  <1> DEFINE n == Len(file)
             w == writing.rec
             d == writing.done
  <1>1. /\ w \in Record /\ d \in 0..2 /\ k \in d + 1 .. 3 /\ writing # Idle
        /\ writing' = [rec |-> w, done |-> k]
        /\ file' \in Seq(CellOf) /\ n \in Nat /\ Len(file') = n + (k - d)
        /\ \A i \in 1..n : file'[i] = file[i]
        /\ \A i \in n + 1 .. Len(file') : file'[i] = Cell(w, d + (i - n))
    BY FileGrows
  <1>2. /\ w \in Tearable \/ k = 3
        /\ UNCHANGED <<synced, cursor, told, up, batch, step, stored, crashes, faults>>
    BY DEF WriteCells, deliverer, bounds
  <1>3. /\ told[w] = "writing" /\ (d = 0 => w \notin Written) /\ (d # 0 => n > 0 /\ file[n] = Cell(w, d))
        /\ d # 0 => w \in Tearable
    BY <1>1 DEF WritingOK
  <1> HIDE DEF n, w, d
  <1>4. \A i \in 1..Len(file') : i \in 1..n \/ i \in n + 1 .. Len(file')
    BY <1>1
  <1>5. ASSUME NEW i \in n + 1 .. Len(file')
        PROVE  /\ file'[i].rec = w /\ file'[i].part = d + (i - n)
               /\ file'[i].part = 1 => d = 0 /\ i = n + 1
    <2>1. file'[i] = Cell(w, d + (i - n))
      BY <1>1
    <2>2. file'[i].rec = w /\ file'[i].part = d + (i - n)
      BY <2>1 DEF Cell
    <2>3. d + (i - n) = 1 => d = 0 /\ i = n + 1
      BY <1>1
    <2> QED
      BY <2>2, <2>3
  <1>6. \A i \in 1..n : i \in 1..Len(file') /\ file[i].rec \in Written
    BY <1>1 DEF Written, n
  <1>7. ASSUME NEW i \in 1..Len(file'), file'[i].part # 1
        PROVE  i > 1 /\ file'[i - 1] = Cell(file'[i].rec, file'[i].part - 1)
    <2>1. CASE i \in 1..n
      <3>1. i > 1 /\ file[i - 1] = Cell(file[i].rec, file[i].part - 1)
        BY <2>1, <1>1, <1>7 DEF FileOK, n
      <3>2. i - 1 \in 1..n
        BY <3>1, <2>1, <1>1
      <3> QED
        BY <3>1, <3>2, <2>1, <1>1
    <2>2. CASE i = n + 1
      <3>1. d # 0 /\ file'[i].rec = w /\ file'[i].part = d + 1
        BY <2>2, <1>7, <1>5, <1>1
      <3>2. n \in 1..n /\ file'[n] = Cell(w, d) /\ i - 1 = n /\ i > 1
        BY <3>1, <2>2, <1>3, <1>1
      <3>3. (d + 1) - 1 = d
        BY <1>1
      <3> QED
        BY <3>1, <3>2, <3>3
    <2>3. CASE i \in n + 2 .. Len(file')
      <3>1. i - 1 \in n + 1 .. Len(file') /\ i \in n + 1 .. Len(file') /\ i > 1
        BY <2>3, <1>1
      <3>2. file'[i - 1] = Cell(w, d + ((i - 1) - n)) /\ file'[i].rec = w /\ file'[i].part = d + (i - n)
        BY <3>1, <1>1, <1>5
      <3>3. d + ((i - 1) - n) = (d + (i - n)) - 1
        BY <3>1, <1>1
      <3> QED
        BY <3>1, <3>2, <3>3
    <2> QED
      BY <2>1, <2>2, <2>3, <1>1
  <1>8. ASSUME NEW i \in 1..Len(file'), NEW j \in 1..Len(file'),
               file'[i].part = 1, file'[j].part = 1, file'[i].rec = file'[j].rec
        PROVE  i = j
    <2>1. CASE i \in 1..n /\ j \in 1..n
      BY <2>1, <1>8, <1>1 DEF FileOK, n
    <2>2. CASE i \in n + 1 .. Len(file') /\ j \in n + 1 .. Len(file')
      BY <2>2, <1>8, <1>5
    <2>3. CASE i \in n + 1 .. Len(file') /\ j \in 1..n
      BY <2>3, <1>8, <1>5, <1>6, <1>3, <1>1
    <2>4. CASE j \in n + 1 .. Len(file') /\ i \in 1..n
      BY <2>4, <1>8, <1>5, <1>6, <1>3, <1>1
    <2> QED
      BY <2>1, <2>2, <2>3, <2>4, <1>4
  <1>9. ASSUME NEW i \in 1..Len(file'), file'[i].part = 1, file'[i].rec \notin Tearable
        PROVE  Whole(i)'
    <2>1. CASE i \in 1..n
      <3>1. i + 2 <= n /\ file[i + 1] = Cell(file[i].rec, 2) /\ file[i + 2] = Cell(file[i].rec, 3)
        BY <2>1, <1>9, <1>1 DEF FileOK, Whole, n
      <3>2. i + 1 \in 1..n /\ i + 2 \in 1..n /\ i + 2 <= Len(file')
        BY <3>1, <2>1, <1>1
      <3> QED
        BY <3>1, <3>2, <2>1, <1>1 DEF Whole
    <2>2. CASE i \in n + 1 .. Len(file')
      <3>1. d = 0 /\ i = n + 1 /\ k = 3 /\ Len(file') = n + 3 /\ file'[i].rec = w
        BY <2>2, <1>9, <1>5, <1>2, <1>1
      <3>2. i + 1 \in n + 1 .. Len(file') /\ i + 2 \in n + 1 .. Len(file')
        BY <3>1, <1>1
      <3>3. file'[i + 1] = Cell(w, d + ((i + 1) - n)) /\ file'[i + 2] = Cell(w, d + ((i + 2) - n))
        BY <3>2, <1>1
      <3>4. d + ((i + 1) - n) = 2 /\ d + ((i + 2) - n) = 3 /\ i + 2 <= Len(file')
        BY <3>1, <1>1
      <3> QED
        BY <3>1, <3>3, <3>4 DEF Whole
    <2> QED
      BY <2>1, <2>2, <1>4
  <1>10. FileOK'
    <2>1. synced' \in 0..Len(file') /\ Ends(synced)'
      <3>1. synced \in 0..n /\ Ends(synced)
        BY DEF FileOK, n
      <3> QED
        BY <3>1, <1>1, <1>2 DEF Ends
    <2> QED
      BY <2>1, <1>1, <1>7, <1>8, <1>9 DEF FileOK
  <1>11. WritingOK'
    <2>1. \A r \in Written' : r \in Written \/ r = w
      <3> SUFFICES ASSUME NEW i \in 1..Len(file') PROVE file'[i].rec \in Written \/ file'[i].rec = w
        BY DEF Written
      <3> QED
        BY <1>1, <1>4, <1>5, <1>6
    <2>2. writing' \in [rec : Record, done : 0..3] /\ writing'.rec = w /\ writing'.done = k
      BY <1>1
    <2>3. Len(file') > 0 /\ file'[Len(file')] = Cell(w, k)
      <3>1. Len(file') \in n + 1 .. Len(file') /\ d + (Len(file') - n) = k
        BY <1>1
      <3> QED
        BY <3>1, <1>1
    <2>4. \A r \in Record : told[r] = "safe" =>
            \E i \in 1..Len(file') : file'[i] = Cell(r, 1) /\ i + 2 <= synced
      BY <1>1, <1>6 DEF WritingOK, n
    <2>5. \A r \in Record : told[r] = "nothing" => r \notin Written'
      BY <2>1, <1>3 DEF WritingOK
    <2> QED
      BY <2>2, <2>3, <2>4, <2>5, <1>1, <1>2, <1>3 DEF WritingOK
  <1>12. ASSUME NEW i \in 1..Len(file'), Clean(i)'
         PROVE  \/ i \in 1..n /\ Clean(i) /\ file'[i] = file[i]
                \/ i = n + 1 /\ d = 0 /\ file'[i].rec = w /\ (n > 0 => Newline(file[n]))
    <2>1. CASE i \in 1..n
      <3>1. i > 1 => i - 1 \in 1..n
        BY <2>1, <1>1
      <3> QED
        BY <2>1, <3>1, <1>12, <1>1 DEF Clean, n
    <2>2. CASE i \in n + 1 .. Len(file')
      <3>1. i = n + 1 /\ d = 0 /\ file'[i].rec = w
        BY <2>2, <1>12, <1>5 DEF Clean
      <3>2. n > 0 => i > 1 /\ i - 1 = n /\ n \in 1..n
        BY <3>1, <1>1
      <3> QED
        BY <3>1, <3>2, <1>12, <1>1 DEF Clean
    <2> QED
      BY <2>1, <2>2, <1>4
  <1>13. CursorOK'
    <2>1. cursor \in 0..n + 1 /\ (cursor = n + 1 => n > 0 /\ ~Newline(file[n]))
      BY <1>1 DEF CursorOK, n
    <2>2. cursor \in 0..Len(file')
      BY <2>1, <1>1
    <2>3. ASSUME NEW i \in 1..Len(file'), Clean(i)'
          PROVE  cursor <= i - 1 \/ (cursor >= i + 2 /\ file'[i].rec \in Stored)
      <3>1. CASE i \in 1..n /\ Clean(i) /\ file'[i] = file[i]
        BY <3>1 DEF CursorOK, n
      <3>2. CASE i = n + 1 /\ (n > 0 => Newline(file[n]))
        BY <3>2, <2>1, <1>1
      <3> QED
        BY <3>1, <3>2, <2>3, <1>12
    <2> QED
      BY <2>2, <2>3, <1>2 DEF CursorOK, Stored
  <1>14. LogOK'
    <2>1. \A r \in Stored : told[r] # "nothing" /\ (w = r => d # 0)
      BY DEF LogOK, w, d
    <2>2. ASSUME NEW i \in 1..Len(file'), NEW j \in 1..Len(file'), i < j, Clean(i)', Clean(j)',
                 file'[j].rec \in Stored
          PROVE  file'[i].rec \in Stored /\ Before(file'[i].rec, file'[j].rec)
      <3>1. i \in 1..n /\ Clean(i) /\ file'[i] = file[i] /\ j \in 1..n /\ Clean(j) /\ file'[j] = file[j]
        BY <2>1, <2>2, <1>12, <1>1
      <3> QED
        BY <3>1, <2>2 DEF LogOK, n
    <2>3. \A r \in Stored : told'[r] # "nothing" /\ (writing'.rec = r => writing'.done # 0)
      BY <2>1, <1>1, <1>2
    <2> QED
      BY <2>2, <2>3, <1>2 DEF LogOK, Stored, Before
  <1>15. BatchOK'
    <2>1. \A e \in batch : e.pos \in Nat /\ e.pos <= n + 1 /\ (e.pos = n + 1 => n > 0 /\ ~Newline(file[n]))
      BY <1>1 DEF BatchOK, LineIn, n
    <2>2. ASSUME NEW e \in batch PROVE LineIn(e)'
      <3>1. e.pos <= Len(file')
        BY <2>1, <1>1
      <3>2. ASSUME e.rec # 0
            PROVE  e.pos - 2 \in 1..Len(file') /\ e.pos - 1 <= Len(file') /\ file'[e.pos - 2] = Cell(e.rec, 1)
        <4>1. e.pos - 2 \in 1..n /\ file[e.pos - 2] = Cell(e.rec, 1)
          BY <3>2 DEF BatchOK, LineIn, n
        <4> QED
          BY <4>1, <2>1, <1>1
      <3> QED
        BY <3>1, <3>2 DEF LineIn
    <2>3. ASSUME NEW i \in 1..Len(file'), Clean(i)', cursor <= i - 1, NEW e \in batch, e.pos >= i
          PROVE  /\ e.pos >= i + 2 /\ [rec |-> file'[i].rec, pos |-> i + 2] \in batch
                 /\ i - 1 > cursor => \E c \in batch : c.pos = i - 1
      <3>1. ~ (i = n + 1 /\ (n > 0 => Newline(file[n])))
        BY <2>1, <2>3, <1>1
      <3>2. i \in 1..n /\ Clean(i) /\ file'[i] = file[i]
        BY <3>1, <2>3, <1>12
      <3> QED
        BY <3>2, <2>3 DEF BatchOK, n
    <2>4. up /\ up' /\ batch' = batch /\ step' = step /\ cursor' = cursor /\ Stored' = Stored
      BY <1>2 DEF WriteCells, Stored
    <2> QED
      BY <2>2, <2>3, <2>4 DEF BatchOK
  <1> QED
    BY <1>10, <1>11, <1>13, <1>14, <1>15, <1>2 DEF BoundsOK

-----------------------------------------------------------------------------
(* Delivery.                                                               *)

\* What Deliver is about to post or has posted.
LEMMA AtTheHead ==
  ASSUME IInv, batch # {}
  PROVE  /\ First(batch) \in batch /\ First(batch).pos \in Nat \ {0} /\ First(batch).pos > cursor
         /\ First(batch).rec \in Record \cup {0} /\ LineIn(First(batch))
         /\ \A e \in batch : First(batch).pos <= e.pos /\ (e.pos = First(batch).pos => e = First(batch))
  <1>1. \A e \in batch : e.pos \in Nat \ {0} /\ e.rec \in Record \cup {0}
    BY DEF IInv, BatchOK
  <1>2. First(batch) \in batch /\ \A e \in batch : First(batch).pos <= e.pos
    BY <1>1, FirstIsLeast
  <1>3. LineIn(First(batch)) /\ First(batch).pos > cursor
    BY <1>2 DEF IInv, BatchOK
  <1>4. \A e \in batch : e.pos = First(batch).pos => e = First(batch)
    BY <1>2 DEF IInv, BatchOK
  <1> QED
    BY <1>1, <1>2, <1>3, <1>4

\* A clean line that the cursor has not passed: the head of the batch is in
\* front of it, or it is this line and the cursor is where it starts.
LEMMA HeadOrBefore ==
  ASSUME IInv, batch # {}, NEW i \in 1..Len(file), Clean(i), cursor <= i - 1
  PROVE  \/ First(batch).pos <= i - 1
         \/ cursor = i - 1 /\ First(batch) = [rec |-> file[i].rec, pos |-> i + 2]
  <1> DEFINE e == First(batch)
  <1>1. e \in batch /\ e.pos \in Nat /\ \A d \in batch : e.pos <= d.pos /\ (d.pos = e.pos => d = e)
    BY AtTheHead
  <1>2. cursor \in Nat /\ Len(file) \in Nat /\ i \in Nat
    BY LenProperties DEF IInv, FileOK, CursorOK
  <1> HIDE DEF e
  <1>3. CASE e.pos <= i - 1
    BY <1>3 DEF e
  <1>4. CASE e.pos >= i
    <2>1. /\ e.pos >= i + 2 /\ [rec |-> file[i].rec, pos |-> i + 2] \in batch
          /\ i - 1 > cursor => \E d \in batch : d.pos = i - 1
      BY <1>1, <1>4 DEF IInv, BatchOK
    <2>2. cursor = i - 1
      BY <2>1, <1>1, <1>2, <1>4
    <2>3. [rec |-> file[i].rec, pos |-> i + 2].pos = i + 2 /\ e.pos <= i + 2
      BY <2>1, <1>1
    <2>4. e.pos = i + 2
      BY <2>1, <2>3, <1>1, <1>2
    <2> QED
      BY <2>1, <2>2, <2>3, <2>4, <1>1 DEF e
  <1> QED
    BY <1>1, <1>2, <1>3, <1>4

\* A record that is new to the logbook goes behind all it holds.
LEMMA InsertFields ==
  ASSUME IInv, NEW r \in Record, IsNew(r), stored' = Append(stored, r)
  PROVE  /\ stored' \in Seq(Record) /\ IsInjective(stored)' /\ Stored' = Stored \cup {r}
         /\ Len(stored) \in Nat /\ Len(stored') = Len(stored) + 1
         /\ \A n \in 1..Len(stored) : stored'[n] = stored[n]
         /\ stored'[Len(stored) + 1] = r
  <1>1. /\ stored \in Seq(Record) /\ IsInjective(stored) /\ DOMAIN stored = 1..Len(stored)
        /\ Len(stored) \in Nat
    BY LenProperties DEF IInv, LogOK
  <1>2. /\ stored' \in Seq(Record) /\ Len(stored') = Len(stored) + 1
        /\ \A n \in 1..Len(stored) : stored'[n] = stored[n]
        /\ stored'[Len(stored) + 1] = r
    BY <1>1, AppendProperties
  <1>3. DOMAIN stored' = 1..Len(stored) + 1
    BY <1>2, LenProperties
  <1>4. \A n \in 1..Len(stored) : stored[n] # r
    BY <1>1 DEF IsNew, ToSet
  <1>5. IsInjective(stored)'
    <2> SUFFICES ASSUME NEW m \in 1..Len(stored) + 1, NEW n \in 1..Len(stored) + 1, stored'[m] = stored'[n]
                 PROVE  m = n
      BY <1>3 DEF IsInjective
    <2>1. m \in 1..Len(stored) \/ m = Len(stored) + 1
      BY <1>1
    <2>2. n \in 1..Len(stored) \/ n = Len(stored) + 1
      BY <1>1
    <2> QED
      BY <2>1, <2>2, <1>1, <1>2, <1>4 DEF IsInjective
  <1>6. Stored' = Stored \cup {r}
    <2>1. \A x \in Stored' : x \in Stored \cup {r}
      BY <1>1, <1>2, <1>3 DEF Stored, ToSet
    <2>2. \A x \in Stored : x \in Stored'
      BY <1>1, <1>2, <1>3 DEF Stored, ToSet
    <2>3. r \in Stored'
      BY <1>1, <1>2, <1>3 DEF Stored, ToSet
    <2> QED
      BY <2>1, <2>2, <2>3
  <1> QED
    BY <1>1, <1>2, <1>5, <1>6

\* What is before what stays so, and all of it is before a new record.
LEMMA InsertKeepsOrder ==
  ASSUME IInv, NEW r \in Record, IsNew(r), stored' = Append(stored, r), NEW q \in Stored
  PROVE  /\ \A x : Before(x, q) => Before(x, q)'
         /\ Before(q, r)'
  <1>1. /\ Len(stored) \in Nat /\ Len(stored') = Len(stored) + 1
        /\ \A n \in 1..Len(stored) : stored'[n] = stored[n] /\ n \in 1..Len(stored')
        /\ stored'[Len(stored) + 1] = r
    BY InsertFields
  <1>2. \A x : Before(x, q) => Before(x, q)'
    BY <1>1 DEF Before
  <1>3. PICK m \in 1..Len(stored) : stored[m] = q
    BY LenProperties DEF Stored, ToSet, IInv, LogOK
  <1>4. m \in 1..Len(stored') /\ Len(stored) + 1 \in 1..Len(stored') /\ m < Len(stored) + 1
    BY <1>1
  <1>5. Before(q, r)'
    BY <1>1, <1>3, <1>4 DEF Before
  <1> QED
    BY <1>2, <1>5

\* The logbook takes the record at the head of the batch, or has it.
LEMMA InsertKeeps ==
  ASSUME IInv, NEW r \in Record, Posting(r), UNCHANGED <<file, cursor, told, writing>>,
         stored' = Insert(r)
  PROVE  CursorOK' /\ LogOK' /\ Stored \subseteq Stored'
  <1>1. CASE stored' = stored
    <2>1. LogOK'
      BY <1>1, LogStays DEF LogOK, IInv
    <2> QED
      BY <1>1, <2>1, CursorStays DEF IInv, Stored
  <1>2. CASE stored' = Append(stored, r) /\ IsNew(r)
    <2>1. /\ stored' \in Seq(Record) /\ IsInjective(stored)' /\ Stored' = Stored \cup {r}
      BY <1>2, InsertFields
    <2>2. /\ batch # {} /\ First(batch).rec = r /\ r # 0
      BY DEF Posting, IInv, BatchOK, Record
    <2>3. /\ First(batch).pos \in Nat /\ First(batch).pos - 2 \in 1..Len(file)
          /\ file[First(batch).pos - 2] = Cell(r, 1)
      BY <2>2, AtTheHead DEF LineIn
    <2>4. r \in Written /\ told[r] # "nothing" /\ (writing.rec = r => writing.done # 0)
      <3>1. r \in Written
        BY <2>3 DEF Written, Cell
      <3> QED
        BY <3>1, <2>2 DEF IInv, WritingOK, Idle
    <2>5. CursorOK'
      BY <2>1 DEF IInv, CursorOK, Clean
    <2>6. ASSUME NEW i \in 1..Len(file), NEW j \in 1..Len(file), i < j, Clean(i), Clean(j),
                 file[j].rec \in Stored'
          PROVE  file[i].rec \in Stored' /\ Before(file[i].rec, file[j].rec)'
      <3>1. CASE file[j].rec \in Stored
        <4>1. file[i].rec \in Stored /\ Before(file[i].rec, file[j].rec)
          BY <3>1, <2>6 DEF IInv, LogOK
        <4> QED
          BY <4>1, <3>1, <2>1, <1>2, InsertKeepsOrder
      <3>2. CASE file[j].rec = r /\ r \notin Stored
        <4>1. j = First(batch).pos - 2
          <5>1. /\ file[j].part = 1 /\ file[First(batch).pos - 2].part = 1
                /\ file[First(batch).pos - 2].rec = file[j].rec
            BY <2>3, <2>6, <3>2 DEF Clean, Cell
          <5> QED
            BY <5>1, <2>3 DEF IInv, FileOK
        <4>2. cursor <= j - 1
          BY <2>6, <3>2 DEF IInv, CursorOK
        <4>3. cursor = j - 1
          BY <4>1, <4>2, <2>2, <2>3, <2>6, HeadOrBefore
        <4>4. file[i].rec \in Stored
          <5>1. cursor <= i - 1 \/ file[i].rec \in Stored
            BY <2>6 DEF IInv, CursorOK
          <5> QED
            BY <5>1, <4>3, <2>6
        <4> QED
          BY <4>4, <3>2, <2>1, <1>2, InsertKeepsOrder
      <3> QED
        BY <3>1, <3>2, <2>1, <2>6
    <2>7. LogOK'
      <3>1. \A q \in Stored' : told[q] # "nothing" /\ (writing.rec = q => writing.done # 0)
        BY <2>1, <2>4 DEF IInv, LogOK
      <3> QED
        BY <2>1, <2>6, <3>1 DEF LogOK, Clean
    <2> QED
      BY <2>1, <2>5, <2>7
  <1> QED
    BY <1>1, <1>2 DEF Insert

\* Post, Refuse and PostFails differ in what they do to the pass.
LEMMA PostKeeps == ASSUME IInv, NEW r \in Record, Post(r) PROVE IInv'
  <1> USE DEF Post, disk, producer, bounds
  <1>1. CursorOK' /\ LogOK' /\ Stored \subseteq Stored'
    BY InsertKeeps
  <1>2. First(batch).rec \in Stored'
    <2>1. First(batch).rec = r /\ Accepts(r)
      BY DEF Posting, Confirms
    <2>2. CASE IsNew(r)
      BY <2>1, <2>2, InsertFields DEF Insert
    <2>3. CASE ~IsNew(r)
      BY <2>1, <2>3, <1>1 DEF IsNew, Stored
    <2> QED
      BY <2>2, <2>3
  <1>3. WritingOK'
    BY WrittenStays DEF IInv, WritingOK
  <1>4. BatchOK'
    <2>1. step = "post" /\ batch # {}
      BY DEF Posting, IInv, BatchOK
    <2>2. \A e \in batch : LineIn(e) => LineIn(e)'
      BY DEF LineIn
    <2>3. \A i \in 1..Len(file) : Clean(i)' => Clean(i)
      BY DEF Clean
    <2> QED
      BY <2>1, <2>2, <2>3, <1>2 DEF IInv, BatchOK
  <1> QED
    BY <1>1, <1>3, <1>4, FileStays DEF IInv, BoundsOK

LEMMA RefuseKeeps == ASSUME IInv, NEW r \in Record, Refuse(r) PROVE IInv'
  <1> USE DEF Refuse, disk, producer, bounds
  <1>1. batch' = {} /\ step' = "idle" /\ up /\ up'
    BY DEF AfterFailure, Resume, Posting
  <1>2. BatchOK'
    BY <1>1, BatchGone DEF IInv, BatchOK
  <1>3. WritingOK' /\ LogOK'
    BY WrittenStays, LogStays DEF IInv, WritingOK, LogOK
  <1> QED
    BY <1>2, <1>3, FileStays, CursorStays DEF IInv, BoundsOK

LEMMA PostFailsKeeps == ASSUME IInv, NEW r \in Record, PostFails(r) PROVE IInv'
  <1> USE DEF PostFails, disk, producer
  <1>1. batch' = {} /\ step' = "idle" /\ up /\ up'
    BY DEF AfterFailure, Resume, Posting
  <1>2. BatchOK'
    BY <1>1, BatchGone DEF IInv, BatchOK
  <1>3. WritingOK'
    BY WrittenStays DEF IInv, WritingOK
  <1>4. CursorOK' /\ LogOK'
    <2>1. CASE stored' = stored
      BY <2>1, CursorStays, LogStays DEF IInv, LogOK
    <2>2. CASE stored' = Insert(r)
      BY <2>2, InsertKeeps
    <2> QED
      BY <2>1, <2>2
  <1>5. BoundsOK'
    BY OutboxAssumption DEF IInv, BoundsOK
  <1> QED
    BY <1>2, <1>3, <1>4, <1>5, FileStays DEF IInv

LEMMA AdvanceKeeps == ASSUME IInv, Advance PROVE IInv'
  <1> USE DEF Advance, producer, bounds
  <1> DEFINE e == First(batch)
  <1>1. /\ batch # {} /\ up /\ (step = "advance" \/ e.rec = 0)
        /\ cursor' = e.pos /\ batch' = batch \ {e} /\ step' = Resume(batch \ {e})
    BY DEF Posting, IInv, BatchOK, NextCursor, Rest
  <1>2. /\ e \in batch /\ e.pos \in Nat \ {0} /\ e.pos > cursor /\ LineIn(e)
        /\ \A d \in batch : e.pos <= d.pos /\ (d.pos = e.pos => d = e)
        /\ step = "advance" => e.rec \in Stored
    BY <1>1, AtTheHead DEF IInv, BatchOK
  <1>3. file \in Seq(CellOf) /\ Len(file) \in Nat /\ cursor \in Nat
    BY LenProperties DEF IInv, FileOK, CursorOK
  <1>4. \A i \in 1..Len(file) : file[i].rec # 0
    BY <1>3, CellFields DEF Record
  <1>5. ASSUME NEW i \in 1..Len(file), Clean(i)
        PROVE  e.pos <= i - 1 \/ (e.pos >= i + 2 /\ file[i].rec \in Stored)
    <2>1. CASE cursor <= i - 1
      <3>1. e.pos <= i - 1 \/ e = [rec |-> file[i].rec, pos |-> i + 2]
        BY <2>1, <1>1, <1>5, HeadOrBefore
      <3>2. CASE e = [rec |-> file[i].rec, pos |-> i + 2]
        <4>1. e.rec = file[i].rec /\ e.pos = i + 2
          BY <3>2
        <4> QED
          BY <4>1, <1>1, <1>2, <1>4
      <3> QED
        BY <3>1, <3>2
    <2>2. CASE cursor >= i + 2 /\ file[i].rec \in Stored
      BY <2>2, <1>2, <1>3
    <2> QED
      BY <2>1, <2>2, <1>5 DEF IInv, CursorOK
  <1> HIDE DEF e
  <1>6. CursorOK'
    <2>1. cursor' \in 0..Len(file) \/ (cursor' = Len(file) + 1 /\ Len(file) > 0 /\ ~Newline(file[Len(file)]))
      BY <1>1, <1>2, <1>3 DEF LineIn
    <2>2. \A i \in 1..Len(file) : Clean(i)' => Clean(i)
      BY DEF Clean
    <2> QED
      BY <2>1, <2>2, <1>1, <1>5 DEF CursorOK, Stored
  <1>7. BatchOK'
    <2>1. ASSUME NEW d \in batch' PROVE d \in batch /\ d.pos > e.pos /\ LineIn(d)'
      <3>1. d \in batch /\ d # e /\ d.pos \in Nat /\ LineIn(d)
        BY <1>1, <2>1 DEF IInv, BatchOK
      <3> QED
        BY <3>1, <1>2 DEF LineIn
    <2>2. ASSUME NEW i \in 1..Len(file), Clean(i)', e.pos <= i - 1, NEW d \in batch', d.pos >= i
          PROVE  /\ d.pos >= i + 2 /\ [rec |-> file[i].rec, pos |-> i + 2] \in batch'
                 /\ i - 1 > e.pos => \E c \in batch' : c.pos = i - 1
      <3>1. d \in batch /\ cursor <= i - 1 /\ i - 1 > cursor /\ Clean(i)
        BY <2>1, <2>2, <1>2, <1>3 DEF Clean
      <3>2. /\ d.pos >= i + 2 /\ [rec |-> file[i].rec, pos |-> i + 2] \in batch
            /\ \E c \in batch : c.pos = i - 1
        BY <3>1, <2>2 DEF IInv, BatchOK
      <3>3. [rec |-> file[i].rec, pos |-> i + 2] # e
        <4>1. [rec |-> file[i].rec, pos |-> i + 2].pos = i + 2
          OBVIOUS
        <4> QED
          BY <4>1, <2>2, <1>2
      <3> QED
        BY <3>2, <3>3, <1>1
    <2>3. step' \in {"idle", "post"} /\ (step' = "idle" <=> batch' = {})
      BY <1>1 DEF Resume
    <2> QED
      BY <2>1, <2>2, <2>3, <1>1 DEF IInv, BatchOK
  <1>8. WritingOK' /\ LogOK'
    BY WrittenStays, LogStays DEF IInv, WritingOK, LogOK
  <1> QED
    BY <1>6, <1>7, <1>8, FileStays DEF IInv, BoundsOK

LEMMA AdvanceFailsKeeps == ASSUME IInv, AdvanceFails PROVE IInv'
  <1> USE DEF AdvanceFails, disk, producer
  <1>1. WritingOK' /\ LogOK'
    BY WrittenStays, LogStays DEF IInv, WritingOK, LogOK
  <1>2. BatchOK'
    BY BatchGone DEF IInv, BatchOK
  <1>3. BoundsOK'
    BY OutboxAssumption DEF IInv, BoundsOK
  <1> QED
    BY <1>1, <1>2, <1>3, FileStays, CursorStays DEF IInv

LEMMA ReadSpoolKeeps == ASSUME IInv, ReadSpool PROVE IInv'
  <1> USE DEF ReadSpool, disk, producer, bounds
  <1>1. file \in Seq(CellOf) /\ Len(file) \in Nat /\ cursor \in Nat
    BY LenProperties DEF IInv, FileOK, CursorOK
  <1> DEFINE b == Undelivered(file, cursor)
  <1>2. ASSUME NEW e \in b
        PROVE  /\ e \in [rec : Record \cup {0}, pos : Nat \ {0}] /\ e.pos > cursor /\ LineIn(e)
               /\ \A d \in b : d.pos = e.pos => d = e
    <2>1. /\ e \in [rec : Record \cup {0}, pos : Nat \ {0}] /\ e.pos \in LineEnds(file, cursor)
          /\ e.rec # 0 => /\ e.pos - 2 \in 1..Len(file) /\ e.pos - 1 <= Len(file)
                          /\ file[e.pos - 2] = Cell(e.rec, 1)
      BY <1>1, ReadLine
    <2>2. /\ e.pos > cursor
          /\ e.pos <= Len(file) \/ (e.pos = Len(file) + 1 /\ Len(file) > 0 /\ ~Newline(file[Len(file)]))
      BY <2>1, <1>1, EndsOfLines
    <2>3. \A d \in b : d.pos = e.pos => d = e
      BY <1>1, ReadOnce
    <2> QED
      BY <2>1, <2>2, <2>3 DEF LineIn
  <1>3. ASSUME NEW i \in 1..Len(file), Clean(i), cursor <= i - 1, NEW e \in b, e.pos >= i
        PROVE  /\ e.pos >= i + 2 /\ [rec |-> file[i].rec, pos |-> i + 2] \in b
               /\ i - 1 > cursor => \E d \in b : d.pos = i - 1
    <2>1. /\ i + 2 <= Len(file) /\ [rec |-> file[i].rec, pos |-> i + 2] \in b
          /\ i - 1 > cursor => i - 1 \in LineEnds(file, cursor)
      BY <1>1, <1>3, CleanLine DEF IInv
    <2>2. file[i].part = 1 /\ file[i + 1] = Cell(file[i].rec, 2)
      BY <1>3 DEF IInv, FileOK, Clean, Whole
    <2>3. ~Newline(file[i]) /\ ~Newline(file[i + 1])
      BY <2>2 DEF Newline, Cell
    <2>4. e.pos \in LineEnds(file, cursor) /\ e.pos \in Nat
      BY <1>1, <1>2, ReadLine
    <2>5. e.pos # i /\ e.pos # i + 1
      BY <2>1, <2>3, <2>4, <1>1, EndsOfLines
    <2>6. ASSUME i - 1 > cursor PROVE \E d \in b : d.pos = i - 1
      <3>1. PICK s \in {cursor} \cup LineEnds(file, cursor) : <<s, i - 1>> \in Lines(file, cursor)
        BY <2>1, <2>6, <1>1, LineToEnd
      <3>2. [rec |-> Parsed(file, <<s, i - 1>>), pos |-> i - 1] \in b
        BY <3>1 DEF Undelivered
      <3> QED
        BY <3>2
    <2>7. e.pos >= i + 2
      BY <2>4, <2>5, <1>1, <1>3
    <2> QED
      BY <2>1, <2>6, <2>7
  <1>4. b # {} /\ batch' = b /\ step' = "post" /\ up /\ up'
    OBVIOUS
  <1> HIDE DEF b
  <1>5. BatchOK'
    <2>1. \A e \in b : LineIn(e)'
      BY <1>2 DEF LineIn
    <2>2. \A i \in 1..Len(file) : Clean(i)' => Clean(i)
      BY DEF Clean
    <2>3. batch' \subseteq [rec : Record \cup {0}, pos : Nat \ {0}]
      BY <1>2, <1>4
    <2>4. \A e \in b : e.pos > cursor /\ \A d \in b : d.pos = e.pos => d = e
      BY <1>2
    <2>5. \A i \in 1..Len(file) : Clean(i)' /\ cursor <= i - 1 => \A e \in b : e.pos >= i =>
            /\ e.pos >= i + 2 /\ [rec |-> file[i].rec, pos |-> i + 2] \in b
            /\ i - 1 > cursor => \E d \in b : d.pos = i - 1
      BY <2>2, <1>3
    <2>6. step' \in {"idle", "post", "advance"} /\ (step' = "idle" <=> batch' = {}) /\ step' # "advance"
      BY <1>4
    <2>7. up' /\ cursor' = cursor /\ file' = file /\ batch' = b
      BY <1>4
    <2> HIDE DEF ReadSpool
    <2> QED
      BY <2>1, <2>3, <2>4, <2>5, <2>6, <2>7 DEF BatchOK
  <1>6. WritingOK' /\ LogOK'
    BY WrittenStays, LogStays DEF IInv, WritingOK, LogOK
  <1> QED
    BY <1>5, <1>6, FileStays, CursorStays DEF IInv, BoundsOK

-----------------------------------------------------------------------------
(* Crashes.                                                                *)

\* Nobody waits for a record after the process has stopped.
LEMMA StopFields ==
  ASSUME IInv, Stops
  PROVE  /\ writing' = Idle /\ BatchOK' /\ BoundsOK' /\ UNCHANGED stored
         /\ told' \in [Record -> {"nothing", "writing", "safe", "failed"}]
         /\ \A r \in Record : /\ told'[r] = "nothing" => told[r] = "nothing"
                              /\ told'[r] = "safe" => told[r] = "safe"
         /\ \A r \in Stored : told'[r] # "nothing" /\ r # 0
  <1>1. BatchOK'
    BY BatchGone DEF Stops
  <1>2. BoundsOK'
    BY OutboxAssumption DEF Stops, IInv, BoundsOK
  <1>3. \A r \in Stored : r \in Record /\ r # 0
    <2>1. \A r \in Stored : r \in Record
      BY LenProperties, ElementOfSeq DEF IInv, LogOK, Stored, ToSet
    <2> QED
      BY <2>1 DEF Record
  <1>4. \A r \in Record : told'[r] = IF r = writing.rec THEN "failed" ELSE told[r]
    BY DEF Stops
  <1>5. told' \in [Record -> {"nothing", "writing", "safe", "failed"}]
    BY DEF Stops, IInv, WritingOK
  <1>6. \A r \in Stored : told'[r] # "nothing"
    <2>1. \A r \in Stored : told[r] # "nothing"
      BY DEF IInv, LogOK
    <2> QED
      BY <2>1, <1>3, <1>4
  <1> QED
    BY <1>1, <1>2, <1>3, <1>4, <1>5, <1>6 DEF Stops

LEMMA CrashKeeps == ASSUME IInv, Crash PROVE IInv'
  <1> USE DEF Crash, disk
  <1>1. WritingOK'
    BY StopFields, WrittenStays DEF IInv, WritingOK
  <1>2. LogOK'
    BY StopFields, LogStays DEF IInv, LogOK, Idle
  <1> QED
    BY <1>1, <1>2, StopFields, FileStays, CursorStays DEF IInv

LEMMA RestartKeeps == ASSUME IInv, Restart PROVE IInv'
  <1> USE DEF Restart, disk, producer, deliverer, bounds
  <1>1. WritingOK' /\ LogOK'
    BY WrittenStays, LogStays DEF IInv, WritingOK, LogOK
  <1>2. BatchOK'
    BY BatchGone DEF IInv, BatchOK
  <1> QED
    BY <1>1, <1>2, FileStays, CursorStays DEF IInv, BoundsOK

\* What a power cut leaves.
LEMMA CutFields ==
  ASSUME IInv, PowerCut
  PROVE  \E n \in 0..Len(file) :
           /\ n >= synced /\ Ends(n) /\ synced' = n
           /\ file' \in Seq(CellOf) /\ Len(file') = n /\ \A i \in 1..n : file'[i] = file[i]
           /\ cursor' = 0 \/ (cursor' = cursor /\ cursor <= n)
  <1>1. file \in Seq(CellOf) /\ Len(file) \in Nat /\ synced \in 0..Len(file) /\ Ends(synced)
    BY LenProperties DEF IInv, FileOK
  <1>2. PICK n \in Surviving : /\ file' = SubSeq(file, 1, n) /\ synced' = n
                               /\ cursor' \in {0} \cup {c \in {cursor} : c <= n}
    BY DEF PowerCut
  <1>3. n \in 0..Len(file) /\ n >= synced /\ Ends(n)
    BY <1>1 DEF Surviving, Ends
  <1>4. \A i \in 1..n : file[i] \in CellOf
    BY <1>1, <1>3, ElementOfSeq
  <1>5. file' \in Seq(CellOf) /\ Len(file') = n /\ \A i \in 1..n : file'[i] = file[i]
    <2>1. /\ SubSeq(file, 1, n) \in Seq(CellOf)
          /\ Len(SubSeq(file, 1, n)) = IF 1 <= n THEN n - 1 + 1 ELSE 0
          /\ \A i \in 1 .. n - 1 + 1 : SubSeq(file, 1, n)[i] = file[1 + i - 1]
      BY <1>3, <1>4, SubSeqProperties
    <2>2. n - 1 + 1 = n /\ \A i \in 1..n : 1 + i - 1 = i
      BY <1>3
    <2> QED
      BY <2>1, <2>2, <1>2, <1>3
  <1> QED
    BY <1>2, <1>3, <1>5

LEMMA PowerCutKeeps == ASSUME IInv, PowerCut PROVE IInv'
  <1> USE DEF IInv
  <1>1. PICK n \in 0..Len(file) :
           /\ n >= synced /\ Ends(n) /\ synced' = n
           /\ file' \in Seq(CellOf) /\ Len(file') = n /\ \A i \in 1..n : file'[i] = file[i]
           /\ cursor' = 0 \/ (cursor' = cursor /\ cursor <= n)
    BY CutFields
  <1>2. /\ writing' = Idle /\ BatchOK' /\ BoundsOK' /\ UNCHANGED stored
        /\ told' \in [Record -> {"nothing", "writing", "safe", "failed"}]
        /\ \A r \in Record : /\ told'[r] = "nothing" => told[r] = "nothing"
                             /\ told'[r] = "safe" => told[r] = "safe"
        /\ \A r \in Stored : told'[r] # "nothing" /\ r # 0
    BY StopFields DEF PowerCut
  <1>3. /\ file \in Seq(CellOf) /\ Len(file) \in Nat /\ n \in Nat
        /\ \A i \in 1..n : i \in 1..Len(file)
    BY LenProperties DEF FileOK
  <1>4. ASSUME NEW i \in 1..n, file[i].part = 1, file[i].rec \notin Tearable PROVE Whole(i)'
    <2>1. i + 2 <= Len(file) /\ file[i + 1] = Cell(file[i].rec, 2) /\ file[i + 2] = Cell(file[i].rec, 3)
      BY <1>3, <1>4 DEF FileOK, Whole
    <2>2. n # i /\ n # i + 1
      <3>1. ~Newline(file[i]) /\ file[i].rec \notin Tearable
        BY <1>4 DEF Newline
      <3>2. ~Newline(file[i + 1]) /\ file[i + 1].rec \notin Tearable
        BY <2>1, <1>4 DEF Newline, Cell
      <3>3. n # 0
        BY <1>3
      <3> QED
        BY <3>1, <3>2, <3>3, <1>1 DEF Ends
    <2>3. i + 2 <= n /\ i + 1 \in 1..n /\ i + 2 \in 1..n
      BY <2>2, <1>3
    <2> QED
      BY <2>1, <2>3, <1>1 DEF Whole
  <1>5. FileOK'
    <2>1. Ends(synced)'
      BY <1>1, <1>3 DEF Ends
    <2>2. ASSUME NEW i \in 1..n, file'[i].part # 1
          PROVE  i > 1 /\ file'[i - 1] = Cell(file'[i].rec, file'[i].part - 1)
      <3>1. i > 1 /\ file[i - 1] = Cell(file[i].rec, file[i].part - 1)
        BY <2>2, <1>1, <1>3 DEF FileOK
      <3>2. i - 1 \in 1..n
        BY <3>1, <1>3
      <3> QED
        BY <3>1, <3>2, <1>1
    <2>3. ASSUME NEW i \in 1..n, NEW j \in 1..n,
                 file'[i].part = 1, file'[j].part = 1, file'[i].rec = file'[j].rec
          PROVE  i = j
      BY <2>3, <1>1, <1>3 DEF FileOK
    <2>4. synced' \in 0..Len(file')
      BY <1>1, <1>3
    <2>5. \A i \in 1..n : file'[i].part = 1 /\ file'[i].rec \notin Tearable => Whole(i)'
      BY <1>1, <1>4
    <2> QED
      BY <2>1, <2>2, <2>3, <2>4, <2>5, <1>1 DEF FileOK
  <1>6. WritingOK'
    <2>1. \A r \in Written' : r \in Written
      BY <1>1, <1>3 DEF Written
    <2>2. ASSUME NEW r \in Record, told'[r] = "safe"
          PROVE  \E i \in 1..Len(file') : file'[i] = Cell(r, 1) /\ i + 2 <= synced'
      <3>1. PICK i \in 1..Len(file) : file[i] = Cell(r, 1) /\ i + 2 <= synced
        BY <2>2, <1>2 DEF WritingOK
      <3>2. i \in 1..n /\ i + 2 <= n
        BY <3>1, <1>1, <1>3 DEF FileOK
      <3> QED
        BY <3>1, <3>2, <1>1
    <2>3. \A r \in Record : told'[r] = "nothing" => r \notin Written'
      BY <2>1, <1>2 DEF WritingOK
    <2> QED
      BY <2>2, <2>3, <1>2 DEF WritingOK
  <1>7. ASSUME NEW i \in 1..n, Clean(i)' PROVE Clean(i) /\ file'[i] = file[i]
    <2>1. i > 1 => i - 1 \in 1..n
      BY <1>3
    <2> QED
      BY <2>1, <1>1, <1>3, <1>7 DEF Clean
  <1>8. CursorOK'
    <2>1. cursor \in Nat /\ cursor' \in 0..Len(file')
      BY <1>1, <1>3 DEF CursorOK
    <2>2. ASSUME NEW i \in 1..n, Clean(i)'
          PROVE  cursor' <= i - 1 \/ (cursor' >= i + 2 /\ file'[i].rec \in Stored)
      <3>1. CASE cursor' = 0
        BY <3>1, <1>3
      <3>2. CASE cursor' = cursor
        BY <3>2, <2>2, <1>3, <1>7 DEF CursorOK
      <3> QED
        BY <3>1, <3>2, <1>1
    <2> QED
      BY <2>1, <2>2, <1>1, <1>2 DEF CursorOK, Stored
  <1>9. LogOK'
    <2>1. ASSUME NEW i \in 1..n, NEW j \in 1..n, i < j, Clean(i)', Clean(j)', file'[j].rec \in Stored
          PROVE  file'[i].rec \in Stored /\ Before(file'[i].rec, file'[j].rec)
      BY <2>1, <1>3, <1>7 DEF LogOK
    <2>2. \A r \in Stored : told'[r] # "nothing" /\ (writing'.rec = r => writing'.done # 0)
      BY <1>2 DEF Idle
    <2>3. Stored' = Stored /\ \A x, y : Before(x, y) => Before(x, y)'
      BY <1>2 DEF Stored, Before
    <2>4. stored' = stored /\ stored \in Seq(Record) /\ IsInjective(stored) /\ Len(file') = n
      BY <1>1, <1>2 DEF LogOK
    <2>5. ASSUME NEW i \in 1..Len(file'), NEW j \in 1..Len(file'), i < j, Clean(i)', Clean(j)',
                 file'[j].rec \in Stored'
          PROVE  file'[i].rec \in Stored' /\ Before(file[i].rec, file[j].rec)'
      BY <2>1, <2>3, <2>4, <2>5
    <2>6. IsInjective(stored)'
      BY <2>4 DEF IsInjective
    <2>7. \A r \in Stored' : told'[r] # "nothing" /\ (writing'.rec = r => writing'.done # 0)
      BY <2>2, <2>3
    <2> QED
      BY <2>4, <2>5, <2>6, <2>7 DEF LogOK
  <1> QED
    BY <1>2, <1>5, <1>6, <1>8, <1>9

-----------------------------------------------------------------------------
LEMMA InvStep == IInv /\ [Next]_vars => IInv'
  <1> SUFFICES ASSUME IInv, [Next]_vars PROVE IInv'
    OBVIOUS
  <1>1. CASE Confirm
    BY <1>1, ConfirmKeeps
  <1>2. ASSUME NEW k \in 1..3, WriteCells(k) PROVE IInv'
    BY <1>2, WriteCellsKeeps
  <1>3. CASE ReadSpool
    BY <1>3, ReadSpoolKeeps
  <1>4. CASE Advance
    BY <1>4, AdvanceKeeps
  <1>5. ASSUME NEW r \in Record, Post(r) PROVE IInv'
    BY <1>5, PostKeeps
  <1>6. ASSUME NEW r \in Record, Refuse(r) PROVE IInv'
    BY <1>6, RefuseKeeps
  <1>7. ASSUME NEW r \in Record, BeginAppend(r) PROVE IInv'
    BY <1>7, BeginAppendKeeps
  <1>8. ASSUME NEW r \in Record, PostFails(r) PROVE IInv'
    BY <1>8, PostFailsKeeps
  <1>9. CASE AppendFails
    BY <1>9, AppendFailsKeeps
  <1>10. CASE AdvanceFails
    BY <1>10, AdvanceFailsKeeps
  <1>11. CASE Crash
    BY <1>11, CrashKeeps
  <1>12. CASE PowerCut
    BY <1>12, PowerCutKeeps
  <1>13. CASE Restart
    BY <1>13, RestartKeeps
  <1>14. CASE UNCHANGED vars
    <2>1. WritingOK' /\ LogOK'
      BY <1>14, WrittenStays, LogStays DEF vars, IInv, WritingOK, LogOK
    <2> QED
      BY <1>14, <2>1, FileStays, CursorStays, BatchStays DEF vars, IInv, BoundsOK, BatchOK
  <1> QED
    BY <1>1, <1>2, <1>3, <1>4, <1>5, <1>6, <1>7, <1>8, <1>9, <1>10, <1>11, <1>12, <1>13, <1>14
    DEF Next, Writes, Delivers

LEMMA Invariant == Spec => []IInv
  BY InvInit, InvStep, PTL DEF Spec

-----------------------------------------------------------------------------
(* The promise.                                                            *)

\* The cells of a record in the spool are those of its one line.
LEMMA CellsOfLine ==
  ASSUME NEW f \in Seq(CellOf),
         \A i \in 1..Len(f) : f[i].part # 1 => i > 1 /\ f[i - 1] = Cell(f[i].rec, f[i].part - 1),
         \A i, j \in 1..Len(f) : f[i].part = 1 /\ f[j].part = 1 /\ f[i].rec = f[j].rec => i = j,
         NEW r, NEW i \in 1..Len(f), f[i] = Cell(r, 1), NEW b \in 1..Len(f), f[b].rec = r
  PROVE  b \in i..i + 2
  <1>1. Len(f) \in Nat /\ f[b].part \in 1..3 /\ f[i].part = 1 /\ f[i].rec = r
    <2>1. Len(f) \in Nat /\ f[b].part \in 1..3
      BY LenProperties, CellFields
    <2> QED
      BY <2>1 DEF Cell
  <1>2. CASE f[b].part = 1
    <2>1. b = i
      BY <1>1, <1>2
    <2> QED
      BY <2>1, <1>1
  <1>3. CASE f[b].part = 2
    <2>1. b - 1 \in 1..Len(f) /\ f[b - 1] = Cell(r, 1)
      BY <1>1, <1>3
    <2>2. b - 1 = i
      BY <2>1, <1>1 DEF Cell
    <2> QED
      BY <2>2, <1>1
  <1>4. CASE f[b].part = 3
    <2>1. b - 1 \in 1..Len(f) /\ f[b - 1] = Cell(r, 2)
      BY <1>1, <1>4
    <2>2. b - 2 \in 1..Len(f) /\ f[b - 2] = Cell(r, 1)
      BY <2>1, <1>1 DEF Cell
    <2>3. b - 2 = i
      BY <2>2, <1>1 DEF Cell
    <2> QED
      BY <2>3, <1>1
  <1> QED
    BY <1>1, <1>2, <1>3, <1>4

\* Whether a record that was called safe is exposed or blocked was settled
\* when its line was written: as long as what was synced stays, so does that.
LEMMA SafeStays ==
  ASSUME IInv, IInv', NEW n \in Nat, synced <= n, n <= Len(file), n <= Len(file'),
         \A i \in 1..n : file'[i] = file[i], NEW r \in Record, told[r] = "safe"
  PROVE  (Exposed(r)' <=> Exposed(r)) /\ (Blocked(r)' <=> Blocked(r))
  <1>1. /\ file \in Seq(CellOf) /\ file' \in Seq(CellOf) /\ Len(file) \in Nat /\ Len(file') \in Nat
    BY LenProperties DEF IInv, FileOK
  <1>2. PICK i \in 1..Len(file) : file[i] = Cell(r, 1) /\ i + 2 <= synced
    BY DEF IInv, WritingOK
  <1>3. i \in 1..n /\ i + 1 \in 1..n /\ i + 2 \in 1..n /\ i \in 1..Len(file') /\ file'[i] = Cell(r, 1)
    BY <1>1, <1>2 DEF IInv, FileOK
  <1>4. \A b \in 1..Len(file) : file[b].rec = r => b \in i..i + 2
    BY <1>1, <1>2, CellsOfLine DEF IInv, FileOK
  <1>5. \A b \in 1..Len(file') : file'[b].rec = r => b \in i..i + 2
    BY <1>1, <1>3, CellsOfLine DEF IInv, FileOK
  <1>6. \A b \in 1..Len(file) : file[b] = Cell(r, 1) => b = i
    BY <1>2 DEF IInv, FileOK, Cell
  <1>7. \A b \in 1..Len(file') : file'[b] = Cell(r, 1) => b = i
    BY <1>3 DEF IInv, FileOK, Cell
  <1>8. BehindTorn(r) <=> i > 1 /\ ~Newline(file[i - 1])
    BY <1>1, <1>2, <1>6 DEF BehindTorn
  <1>9. BehindTorn(r)' <=> i > 1 /\ ~Newline(file'[i - 1])
    BY <1>1, <1>3, <1>7 DEF BehindTorn
  <1>10. i > 1 => file'[i - 1] = file[i - 1]
    BY <1>3
  <1>11. ASSUME NEW a \in 1..n, NEW b \in 1..n
         PROVE  a \in 1..Len(file) /\ b \in 1..Len(file) /\ a \in 1..Len(file') /\ b \in 1..Len(file')
    BY <1>1
  <1>12. Blocked(r) <=> \E a, b \in 1..n : a < b /\ file[a].rec \in Unlawful /\ file[b].rec = r
    <2>1. \A a, b \in 1..Len(file) : a < b /\ file[b].rec = r => a \in 1..n /\ b \in 1..n
      BY <1>1, <1>3, <1>4
    <2> QED
      BY <2>1, <1>11 DEF Blocked
  <1>13. Blocked(r)' <=> \E a, b \in 1..n : a < b /\ file'[a].rec \in Unlawful /\ file'[b].rec = r
    <2>1. \A a, b \in 1..Len(file') : a < b /\ file'[b].rec = r => a \in 1..n /\ b \in 1..n
      BY <1>1, <1>3, <1>5
    <2> QED
      BY <2>1, <1>11 DEF Blocked
  <1> QED
    BY <1>8, <1>9, <1>10, <1>12, <1>13 DEF Exposed

LEMMA PromisedStays ==
  ASSUME IInv, IInv', NEW n \in Nat, synced <= n, n <= Len(file), n <= Len(file'),
         \A i \in 1..n : file'[i] = file[i],
         \A r \in Record : told'[r] = "safe" <=> told[r] = "safe"
  PROVE  Promised' = Promised
  BY SafeStays DEF Promised

\* What the logbook learns of was offered.
LEMMA InsertLogs ==
  ASSUME IInv, IInv', NEW r \in Record, UNCHANGED told, stored' \in {stored, Insert(r)}
  PROVE  \/ ToSet(stored)' = ToSet(stored)
         \/ r \in Offered \ ToSet(stored) /\ ToSet(stored)' = ToSet(stored) \cup {r}
  <1>1. CASE stored' = stored
    BY <1>1
  <1>2. CASE IsNew(r) /\ stored' = Append(stored, r)
    <2>1. r \notin ToSet(stored) /\ ToSet(stored)' = ToSet(stored) \cup {r}
      BY <1>2, InsertFields DEF IsNew, Stored
    <2>2. r \in Offered
      BY <2>1 DEF IInv, LogOK, Stored, Offered
    <2> QED
      BY <2>1, <2>2
  <1> QED
    BY <1>1, <1>2 DEF Insert

LEMMA PromiseInit == Init => Promise!Init
  BY DEF Init, Promise!Init, Offered, Promised, ToSet

LEMMA PromiseStep == IInv /\ IInv' /\ [Next]_vars => [Promise!Next]_(Promise!vars)
  <1> SUFFICES ASSUME IInv, IInv', [Next]_vars PROVE [Promise!Next]_(Promise!vars)
    OBVIOUS
  <1> DEFINE Logged == ToSet(stored)
  <1>1. /\ file \in Seq(CellOf) /\ file' \in Seq(CellOf) /\ Len(file) \in Nat /\ Len(file') \in Nat
        /\ synced \in 0..Len(file)
    BY LenProperties DEF IInv, FileOK
  <1>2. ASSUME file' = file, \A r \in Record : told'[r] = "safe" <=> told[r] = "safe"
        PROVE  Promised' = Promised
    BY <1>1, <1>2, PromisedStays
  <1>3. (\A r \in Record : told'[r] # "nothing" <=> told[r] # "nothing") => Offered' = Offered
    BY DEF Offered
  <1>4. ASSUME UNCHANGED <<file, told, stored>> PROVE UNCHANGED Promise!vars
    BY <1>2, <1>3, <1>4 DEF Promise!vars
  <1>5. ASSUME NEW r \in Record, BeginAppend(r) PROVE Promise!Next
    <2>1. r \notin Offered /\ Offered' = Offered \cup {r}
      BY <1>5 DEF BeginAppend, Offered, IInv, WritingOK
    <2>2. Promised' = Promised /\ Logged' = Logged
      BY <1>2, <1>5 DEF BeginAppend, disk, IInv, WritingOK
    <2> QED
      BY <2>1, <2>2 DEF Promise!Next, Promise!Offer
  <1>6. ASSUME NEW k \in 1..3, WriteCells(k) PROVE UNCHANGED Promise!vars
    <2>1. told' = told /\ stored' = stored
      BY <1>6 DEF WriteCells
    <2>2. Len(file) <= Len(file') /\ \A i \in 1..Len(file) : file'[i] = file[i]
      <3>1. /\ writing.done \in 0..2 /\ k \in writing.done + 1 .. 3
            /\ Len(file') = Len(file) + (k - writing.done)
            /\ \A i \in 1..Len(file) : file'[i] = file[i]
        BY <1>6, FileGrows
      <3> QED
        BY <3>1, <1>1
    <2>3. Promised' = Promised
      BY <1>1, <2>1, <2>2, PromisedStays
    <2> QED
      BY <1>3, <2>1, <2>3 DEF Promise!vars
  <1>7. ASSUME Confirm PROVE [Promise!Next]_(Promise!vars)
    <2> DEFINE w == writing.rec
    <2>1. w \in Record /\ told[w] = "writing" /\ told' = [told EXCEPT ![w] = "safe"] /\ UNCHANGED <<file, stored>>
      BY <1>7 DEF Confirm, IInv, WritingOK, Idle
    <2> HIDE DEF w
    <2>2. Offered' = Offered /\ w \in Offered /\ w \notin Promised /\ Logged' = Logged
      BY <2>1 DEF Offered, Promised, IInv, WritingOK
    <2>3. Promised' = Promised \/ Promised' = Promised \cup {w}
      <3>1. \A r \in Record : r # w => (told'[r] = "safe" <=> told[r] = "safe")
        BY <2>1 DEF IInv, WritingOK
      <3>2. \A r \in Record : (Exposed(r)' <=> Exposed(r)) /\ (Blocked(r)' <=> Blocked(r))
        BY <2>1 DEF Exposed, BehindTorn, Blocked
      <3>3. \A r \in Record : r # w => (r \in Promised' <=> r \in Promised)
        BY <3>1, <3>2 DEF Promised
      <3>4. Promised \subseteq Record /\ Promised' \subseteq Record
        BY DEF Promised
      <3> QED
        BY <3>3, <3>4, <2>2
    <2> QED
      BY <2>1, <2>2, <2>3 DEF Promise!Next, Promise!Promise, Promise!vars
  <1>8. ASSUME AppendFails PROVE UNCHANGED Promise!vars
    <2>1. writing.rec \in Record /\ told[writing.rec] = "writing"
      BY <1>8 DEF AppendFails, IInv, WritingOK, Idle
    <2>2. \A r \in Record : /\ told'[r] = "safe" <=> told[r] = "safe"
                            /\ told'[r] # "nothing" <=> told[r] # "nothing"
      BY <2>1, <1>8 DEF AppendFails, IInv, WritingOK
    <2> QED
      BY <2>2, <1>2, <1>3, <1>8 DEF AppendFails, disk, Promise!vars
  <1>9. ASSUME NEW r \in Record, UNCHANGED <<file, told>>, stored' \in {stored, Insert(r)}
        PROVE  [Promise!Next]_(Promise!vars)
    <2>1. Promised' = Promised /\ Offered' = Offered
      BY <1>2, <1>3, <1>9
    <2>2. Logged' = Logged \/ (r \in Offered \ Logged /\ Logged' = Logged \cup {r})
      BY <1>9, InsertLogs
    <2> QED
      BY <2>1, <2>2 DEF Promise!Next, Promise!Log, Promise!vars
  <1>10. ASSUME Stops PROVE Offered' = Offered /\ \A r \in Record : told'[r] = "safe" <=> told[r] = "safe"
    <2>1. \A r \in Record : told'[r] = IF r = writing.rec THEN "failed" ELSE told[r]
      BY <1>10 DEF Stops
    <2>2. writing.rec \in Record => told[writing.rec] = "writing"
      BY DEF IInv, WritingOK, Idle, Record
    <2> QED
      BY <2>1, <2>2, <1>3
  <1>11. ASSUME Crash PROVE UNCHANGED Promise!vars
    BY <1>2, <1>10, <1>11 DEF Crash, Stops, disk, Promise!vars
  <1>12. ASSUME PowerCut PROVE UNCHANGED Promise!vars
    <2>1. PICK n \in 0..Len(file) : n >= synced /\ Len(file') = n /\ \A i \in 1..n : file'[i] = file[i]
      BY <1>12, CutFields
    <2>2. Promised' = Promised
      BY <1>1, <1>10, <1>12, <2>1, PromisedStays DEF PowerCut
    <2> QED
      BY <1>10, <1>12, <2>2 DEF PowerCut, Stops, Promise!vars
  <1>13. ASSUME NEW r \in Record, Post(r) \/ PostFails(r) PROVE [Promise!Next]_(Promise!vars)
    BY <1>9, <1>13 DEF Post, PostFails, disk, producer
  <1>14. ASSUME NEW r \in Record, Refuse(r) PROVE UNCHANGED Promise!vars
    BY <1>4, <1>14 DEF Refuse, disk, producer
  <1>15. CASE ReadSpool \/ Advance \/ AdvanceFails \/ Restart \/ UNCHANGED vars
    BY <1>4, <1>15 DEF ReadSpool, Advance, AdvanceFails, Restart, vars, disk, producer
  <1> QED
    BY <1>5, <1>6, <1>7, <1>8, <1>11, <1>12, <1>13, <1>14, <1>15 DEF Next, Writes, Delivers

-----------------------------------------------------------------------------
(* The theorems.                                                           *)

(* Every variable keeps its type: in particular the logbook holds one      *)
(* record per identity, its primary key, however often a record is posted  *)
(* again.                                                                  *)
THEOREM TypeCorrect == Spec => []TypeOK
  BY Invariant, TypeParts, PTL

(* "A caller that gets nil may proceed knowing the record cannot now be    *)
(* lost" (outbox.go:63-65), for every record whose line and the one before *)
(* it were written whole: it is in the logbook, or a pass from the cursor  *)
(* on the disk posts it, however often the process or the machine stopped  *)
(* and the writes, the posts and the cursor failed.                        *)
THEOREM ConfirmedIsKept == Spec => []ConfirmedKept
  <1>1. ASSUME IInv PROVE ConfirmedKept
    <2> SUFFICES ASSUME NEW r \in Record, told[r] = "safe", ~Exposed(r), r \notin Stored
                 PROVE  r \in Waiting(file, cursor)
      BY DEF ConfirmedKept, Stored
    <2>1. PICK i \in 1..Len(file) : file[i] = Cell(r, 1)
      BY <1>1 DEF IInv, WritingOK
    <2>2. Clean(i) /\ file[i].rec = r
      BY <2>1 DEF Clean, Exposed, BehindTorn, Cell
    <2>3. cursor \in Nat /\ cursor <= i - 1
      BY <1>1, <2>2, LenProperties DEF IInv, CursorOK, FileOK
    <2>4. [rec |-> r, pos |-> i + 2] \in Undelivered(file, cursor)
      BY <1>1, <2>2, <2>3, CleanLine DEF IInv
    <2>5. r # 0
      BY DEF Record
    <2> QED
      BY <2>4, <2>5 DEF Waiting
  <1> QED
    BY <1>1, Invariant, PTL

(* "Order is preserved and nothing is skipped" (outbox.go:134-136): the    *)
(* logbook holds a record only if it already held those of all clean lines *)
(* in front of it, also where a pass stopped, a cursor was lost and        *)
(* records were posted again.                                              *)
THEOREM OrderIsKept == Spec => []OrderKept
  <1>1. ASSUME IInv PROVE OrderKept
    <2>1. file \in Seq(CellOf) /\ Len(file) \in Nat
      BY <1>1, LenProperties DEF IInv, FileOK
    <2>2. ASSUME NEW e \in Undelivered(file, 0), e.rec # 0, ~Exposed(e.rec)
          PROVE  /\ e.pos \in Nat /\ e.pos - 2 \in 1..Len(file) /\ Clean(e.pos - 2)
                 /\ file[e.pos - 2].rec = e.rec
      <3>1. /\ e \in [rec : Record \cup {0}, pos : Nat \ {0}] /\ e.pos - 2 \in 1..Len(file)
            /\ file[e.pos - 2] = Cell(e.rec, 1)
        BY <2>1, <2>2, ReadLine
      <3> QED
        BY <3>1, <2>2 DEF Clean, Exposed, BehindTorn, Cell
    <2> SUFFICES ASSUME NEW d \in Undelivered(file, 0), d.rec # 0, ~Exposed(d.rec),
                        NEW e \in Undelivered(file, 0), e.rec # 0, ~Exposed(e.rec),
                        d.pos < e.pos, e.rec \in Stored
                 PROVE  d.rec \in Stored /\ Before(d.rec, e.rec)
      BY DEF OrderKept, Stored
    <2>3. d.pos - 2 < e.pos - 2
      BY <2>2
    <2> QED
      BY <1>1, <2>2, <2>3 DEF IInv, LogOK
  <1> QED
    BY <1>1, Invariant, PTL

(* The spool keeps what Logboek asks of a producer (outbox.go:17-39): a    *)
(* record is offered once, called safe when it is, and logged once and     *)
(* only after it was offered; no crash and no power cut takes back what    *)
(* was called safe.  That it is logged in the end is for TLC.              *)
THEOREM SpoolImplementsPromise == Spec => Promise!Init /\ [][Promise!Next]_(Promise!vars)
  BY InvInit, InvStep, PromiseInit, PromiseStep, PTL DEF Spec

=============================================================================
