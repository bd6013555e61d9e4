--------------------------- MODULE LoggingPromise ---------------------------
(***************************************************************************)
(* What Logboek Dataverwerkingen asks of a producer, whatever it keeps its *)
(* records in: a record is offered once, the producer may be told that it  *)
(* is safe, the logbook holds a record at most once, and a record that was *)
(* called safe reaches the logbook.  services/ldv-client/outbox.go:17-39   *)
(* states this as the reason the spool exists.                             *)
(***************************************************************************)
CONSTANT Record

VARIABLES offered,   \* records a producer has begun to write
          promised,  \* records the producer was told are safe
          logged     \* records the logbook holds

vars == <<offered, promised, logged>>

Init == offered = {} /\ promised = {} /\ logged = {}

(* The producer starts on a record; the record may be safe at once, when   *)
(* it commits together with what it describes.                             *)
Offer(r) ==
  /\ r \notin offered
  /\ offered' = offered \cup {r}
  /\ promised' \in {promised, promised \cup {r}}
  /\ UNCHANGED logged

Promise(r) ==
  /\ r \in offered \ promised
  /\ promised' = promised \cup {r}
  /\ UNCHANGED <<offered, logged>>

(* A record nobody called safe may still arrive: its bytes were complete   *)
(* although the call that wrote them failed.                               *)
Log(r) ==
  /\ r \in offered \ logged
  /\ logged' = logged \cup {r}
  /\ UNCHANGED <<offered, promised>>

(* With finitely many records, as long as some promised record is not in   *)
(* the logbook one of them gets there: in the end all of them are.         *)
LogPromised == \E r \in promised : Log(r)

Next == \E r \in Record : Offer(r) \/ Promise(r) \/ Log(r)

Spec == Init /\ [][Next]_vars /\ WF_vars(LogPromised)
=============================================================================
