------------------------ MODULE ReleaseRuntimeProofs ------------------------
(***************************************************************************)
(* Theorems about ReleaseRuntime, for every set of releases, sources and   *)
(* concurrent requests, every interval, and any number of switches of the  *)
(* active pointer and of failures of the registry; and about EudiIssuance, *)
(* for every set of documents, contracts and citizens, whatever a release  *)
(* is promoted, served and configured from while a request is under way.   *)
(***************************************************************************)
EXTENDS ReleaseRuntime, EudiIssuance, FiniteSetTheorems, WellFoundedInduction, TLAPS

-----------------------------------------------------------------------------
(* The earliest time of a lifecycle.                                       *)

\* A nonempty set of naturals has a smallest element, and Min is it.
LEMMA LeastOfSet ==
  ASSUME NEW S \in SUBSET Nat, S # {}
  PROVE  Min(S) \in S /\ \A x \in S : Min(S) <= x
  <1>1. PICK x \in S : \A y \in S : ~ (<<y, x>> \in OpToRel(<, Nat))
    BY NatLessThanWellFounded, WFMin
  <1>2. \A y \in S : x =< y
    <2> SUFFICES ASSUME NEW y \in S PROVE x =< y
      OBVIOUS
    <2>1. ~ (y < x)
      BY <1>1 DEF OpToRel
    <2> QED
      BY <2>1
  <1> QED
    BY <1>2 DEF Min

\* Offers end with the binding that ends first.
Gates(offers, life) ==
  /\ \A s \in Source : offers <= life[s]
  /\ \E s \in Source : offers = life[s]

LEMMA EarliestGates ==
  ASSUME NEW life \in Lifecycle
  PROVE  EarliestOf(life) \in 0 .. Grace /\ Gates(EarliestOf(life), life)
  <1> DEFINE S == {life[s] : s \in Source}
  <1>1. S \in SUBSET Nat /\ S # {} /\ S \subseteq 0 .. Grace
    BY SetAssumption, TimeAssumption DEF Lifecycle
  <1>2. Min(S) \in S /\ \A x \in S : Min(S) <= x
    BY <1>1, LeastOfSet
  <1> QED
    BY <1>1, <1>2 DEF EarliestOf, Gates

LEMMA DownType == \A n \in 0 .. Grace : Down(n) \in 0 .. Grace
  BY TimeAssumption DEF Down

LEMMA OlderType == \A life \in Lifecycle : Older(life) \in Lifecycle
  BY DownType DEF Lifecycle, Older

\* A tick keeps a snapshot whole: only its times move, and together.
LEMMA OlderKeeps ==
  ASSUME NEW sn \in Snapshot
  PROVE  /\ OlderSnapshot(sn) \in Snapshot /\ OlderSnapshot(sn) # None
         /\ OlderSnapshot(sn).id = sn.id /\ OlderSnapshot(sn).of = sn.of
         /\ OlderSnapshot(sn).epoch = sn.epoch
         /\ Gates(sn.offers, sn.life) => Gates(OlderSnapshot(sn).offers, OlderSnapshot(sn).life)
  <1> DEFINE o == [sn EXCEPT !.life = Older(sn.life), !.offers = Down(sn.offers)]
  <1>1. OlderSnapshot(sn) = o
    BY NoneAssumption DEF OlderSnapshot
  <1>2. sn.life \in Lifecycle /\ sn.offers \in 0 .. Grace
    BY DEF Snapshot
  <1>3. o \in Snapshot /\ o.id = sn.id /\ o.of = sn.of /\ o.epoch = sn.epoch
        /\ o.life = Older(sn.life) /\ o.offers = Down(sn.offers)
    BY <1>2, DownType, OlderType DEF Snapshot
  <1>4. ASSUME Gates(sn.offers, sn.life) PROVE Gates(Down(sn.offers), Older(sn.life))
    BY <1>2, <1>4, TimeAssumption DEF Gates, Down, Older, Lifecycle
  <1> QED
    BY <1>1, <1>3, <1>4, NoneAssumption

-----------------------------------------------------------------------------
(* The inductive invariant.  TypeOK is not inductive: a request that wakes *)
(* has a release to answer with only because the refresh it waited for     *)
(* left a snapshot or an error, and a snapshot is well typed only because  *)
(* the refresh that made it had read a release.  That a snapshot never     *)
(* goes back to an older state of the registry rests on there being one    *)
(* refresh at a time: what a refresh holds is compared with the snapshot,  *)
(* and only its own Finish replaces it.                                    *)

Busy(w) == worker[w].pc # "none"

WokenCanAnswer == \A r \in Request : request[r].woken => snapshot # None \/ lastErr

WorkersKnow == \A w \in Request : worker[w].pc \in {"compare", "load"} => worker[w].id \in Release

SingleFlight ==
  /\ \A v, w \in Request : Busy(v) /\ Busy(w) => v = w
  /\ refreshing <=> \E w \in Request : Busy(w)

Whole(sn) == sn.of = sn.id /\ Gates(sn.offers, sn.life)

\* e is between what the snapshot has seen of the pointer and the pointer.
UpToDate(e) == e <= epoch /\ (snapshot # None => snapshot.epoch <= e)

SnapshotSeen == snapshot # None => Whole(snapshot) /\ snapshot.epoch <= epoch

RefreshHolds ==
  \A w \in Request :
    /\ worker[w].next # None =>
         worker[w].pc = "finish" /\ Whole(worker[w].next) /\ UpToDate(worker[w].next.epoch)
    /\ worker[w].pc = "compare" => UpToDate(worker[w].epoch)

IInv == TypeOK /\ WokenCanAnswer /\ WorkersKnow /\ SingleFlight /\ SnapshotSeen /\ RefreshHolds

Worker ==
  [pc : {"none", "state", "compare", "load", "finish"}, id : Release \cup {None}, life : Lifecycle,
   epoch : 0 .. MaxSwitches, next : Snapshot \cup {None}]

Unserved == [pc : {"idle", "waiting", "refused"}, woken : BOOLEAN, release : {None}]
Served == [pc : {"served"}, woken : {FALSE}, release : Release]

LEMMA Records ==
  ASSUME TypeOK
  PROVE  worker \in [Request -> Worker] /\ request \in [Request -> Unserved \cup Served]
  BY DEF TypeOK, Worker, Unserved, Served

LEMMA RestingType ==
  /\ Resting \in Worker /\ Resting.pc = "none" /\ Resting.next = None
  /\ \A next \in Snapshot \cup {None} :
       Done(next) \in Worker /\ Done(next).pc = "finish" /\ Done(next).next = next
  <1>1. [s \in Source |-> 0] \in Lifecycle
    BY TimeAssumption DEF Lifecycle
  <1>2. Resting \in Worker /\ Resting.pc = "none" /\ Resting.next = None
    BY <1>1, TimeAssumption DEF Resting, Worker
  <1>3. ASSUME NEW next \in Snapshot \cup {None}
        PROVE  Done(next) \in Worker /\ Done(next).pc = "finish" /\ Done(next).next = next
    BY <1>2 DEF Done, Worker
  <1> QED
    BY <1>2, <1>3

LEMMA InvInit == Init => IInv
  <1> SUFFICES ASSUME Init PROVE IInv
    OBVIOUS
  <1>1. TypeOK
    <2>1. worker \in [Request -> Worker]
      BY RestingType DEF Init
    <2>2. grace \in [Release -> Lifecycle]
      BY TimeAssumption DEF Init, Lifecycle
    <2>3. request \in [Request -> Unserved \cup Served]
      BY DEF Init, Idle, Unserved
    <2> QED
      <3>1. 0 \in 0 .. MaxSwitches /\ 0 \in 0 .. MaxFaults
        BY TimeAssumption
      <3>2. /\ active \in Release \cup {None} /\ epoch \in 0 .. MaxSwitches /\ faults \in 0 .. MaxFaults
            /\ snapshot \in Snapshot \cup {None} /\ due \in Nat
            /\ refreshing \in BOOLEAN /\ lastErr \in BOOLEAN
        BY <3>1 DEF Init
      <3> QED
        BY <2>1, <2>2, <2>3, <3>2 DEF TypeOK, Worker, Unserved, Served
  <1>2. WokenCanAnswer
    BY DEF Init, WokenCanAnswer, Idle
  <1>3. WorkersKnow /\ SingleFlight /\ RefreshHolds
    BY RestingType DEF Init, WorkersKnow, SingleFlight, Busy, RefreshHolds
  <1>4. SnapshotSeen
    BY DEF Init, SnapshotSeen
  <1> QED
    BY <1>1, <1>2, <1>3, <1>4 DEF IInv

\* A refresh that goes on, with whatever it holds now, and touches nothing
\* of the runtime.
LEMMA RefreshGoesOn ==
  ASSUME IInv, NEW w \in Request, Busy(w), NEW rec \in Worker, Step(w, rec),
         rec.pc # "none",
         rec.pc \in {"compare", "load"} => rec.id \in Release,
         rec.pc = "compare" => UpToDate(rec.epoch),
         rec.next # None => rec.pc = "finish" /\ Whole(rec.next) /\ UpToDate(rec.next.epoch),
         faults' \in 0 .. MaxFaults,
         UNCHANGED <<registry, runtime, request>>
  PROVE  IInv'
  <1> USE DEF IInv, registry, runtime
  <1>1. worker \in [Request -> Worker] /\ worker' = [worker EXCEPT ![w] = rec]
    BY Records DEF Step
  <1>2. worker'[w] = rec /\ \A v \in Request : v # w => worker'[v] = worker[v]
    BY <1>1
  <1>3. TypeOK'
    BY <1>1 DEF TypeOK, Worker
  <1>4. WokenCanAnswer'
    BY DEF WokenCanAnswer
  <1>5. WorkersKnow'
    BY <1>2 DEF WorkersKnow
  <1>6. SingleFlight'
    BY <1>2 DEF SingleFlight, Busy
  <1>7. SnapshotSeen'
    BY DEF SnapshotSeen, Whole
  <1>8. RefreshHolds'
    BY <1>2 DEF RefreshHolds, Whole, UpToDate
  <1> QED
    BY <1>3, <1>4, <1>5, <1>6, <1>7, <1>8

-----------------------------------------------------------------------------
(* Requests.                                                               *)

\* No request gets anything but its answer, and none is woken here.
RequestsStay ==
  /\ request' \in [Request -> Unserved \cup Served]
  /\ \A q \in Request : request'[q].woken => request[q].woken

LEMMA Replies ==
  ASSUME TypeOK, NEW r \in Request
  PROVE  /\ snapshot # None /\ Answers(r, snapshot) => RequestsStay
         /\ Refuses(r) => RequestsStay
         /\ Waits(r) => RequestsStay
         /\ request' = [request EXCEPT ![r] = Idle] => RequestsStay
         /\ UNCHANGED request => RequestsStay
  <1> DEFINE Put(v) == request' = [request EXCEPT ![r] = v]
  <1>1. request \in [Request -> Unserved \cup Served]
    BY Records
  <1>2. ASSUME NEW v \in Unserved \cup Served, v.woken = FALSE, Put(v)
        PROVE  RequestsStay
    BY <1>1, <1>2 DEF RequestsStay
  <1>3. ASSUME snapshot # None, Answers(r, snapshot)
        PROVE  RequestsStay
    <2> DEFINE v == [pc |-> "served", woken |-> FALSE, release |-> snapshot.id]
    <2>1. snapshot.id \in Release
      BY <1>3 DEF TypeOK, Snapshot
    <2>2. v \in Unserved \cup Served /\ v.woken = FALSE
      BY <2>1 DEF Served
    <2>3. Put(v)
      BY <1>3 DEF Answers, ReleaseOf
    <2> HIDE DEF v
    <2> QED
      BY <1>2, <2>2, <2>3
  <1>4. /\ Idle \in Unserved \cup Served /\ Idle.woken = FALSE
        /\ \A p \in {"waiting", "refused"} :
             [Idle EXCEPT !.pc = p] \in Unserved \cup Served /\ [Idle EXCEPT !.pc = p].woken = FALSE
    BY DEF Idle, Unserved
  <1>5. Refuses(r) => RequestsStay
    BY <1>2, <1>4 DEF Refuses
  <1>6. Waits(r) => RequestsStay
    BY <1>2, <1>4 DEF Waits
  <1>7. Put(Idle) => RequestsStay
    BY <1>2, <1>4
  <1>8. UNCHANGED request => RequestsStay
    BY <1>1 DEF RequestsStay
  <1> QED
    BY <1>3, <1>5, <1>6, <1>7, <1>8

LEMMA RequestMoves ==
  ASSUME IInv, RequestsStay, UNCHANGED <<registry, faults, runtime, worker>>
  PROVE  IInv'
  <1> USE DEF IInv, registry, runtime
  <1>1. TypeOK'
    BY DEF TypeOK, RequestsStay, Unserved, Served
  <1>2. WokenCanAnswer'
    BY DEF WokenCanAnswer, RequestsStay
  <1>3. WorkersKnow' /\ SingleFlight' /\ SnapshotSeen' /\ RefreshHolds'
    BY DEF WorkersKnow, SingleFlight, SnapshotSeen, RefreshHolds, Busy, Whole, UpToDate
  <1> QED
    BY <1>1, <1>2, <1>3

LEMMA InvEnter ==
  ASSUME IInv, NEW r \in Request, Enter(r)
  PROVE  IInv'
  <1> USE DEF IInv
  <1>1. AnswersOrWaits(r) => RequestsStay
    BY Replies DEF AnswersOrWaits
  <1>2. CASE UNCHANGED <<refreshing, worker>>
    <2>1. RequestsStay
      BY <1>1, <1>2, Replies DEF Enter, Fresh, SingleFlight, Busy
    <2> QED
      BY <1>2, <2>1, RequestMoves DEF Enter, runtime
  <1>3. CASE ~UNCHANGED <<refreshing, worker>>
    <2> DEFINE rec == [Resting EXCEPT !.pc = "state"]
    <2>1. /\ ~refreshing /\ refreshing' = TRUE /\ worker' = [worker EXCEPT ![r] = rec]
          /\ RequestsStay /\ UNCHANGED <<registry, faults, snapshot, due, lastErr>>
      BY <1>1, <1>3 DEF Enter, Joins
    <2>2. rec \in Worker /\ rec.pc = "state" /\ rec.next = None
      BY RestingType DEF Worker
    <2> HIDE DEF rec
    <2> USE DEF registry
    <2>3. worker' \in [Request -> Worker] /\ worker'[r] = rec
          /\ \A v \in Request : v # r => worker'[v] = worker[v]
      BY <2>1, <2>2, Records
    <2>4. TypeOK'
      BY <2>1, <2>3 DEF TypeOK, RequestsStay, Worker, Unserved, Served
    <2>5. WokenCanAnswer'
      BY <2>1 DEF WokenCanAnswer, RequestsStay
    <2>6. WorkersKnow'
      BY <2>2, <2>3 DEF WorkersKnow
    <2>7. SingleFlight'
      BY <2>1, <2>2, <2>3 DEF SingleFlight, Busy
    <2>8. SnapshotSeen'
      BY <2>1 DEF SnapshotSeen, Whole
    <2>9. RefreshHolds'
      BY <2>1, <2>2, <2>3 DEF RefreshHolds, Whole, UpToDate
    <2> QED
      BY <2>4, <2>5, <2>6, <2>7, <2>8, <2>9
  <1> QED
    BY <1>2, <1>3

LEMMA InvWake ==
  ASSUME IInv, NEW r \in Request, Wake(r)
  PROVE  IInv'
  <1>1. Refused \/ snapshot # None
    BY DEF IInv, Wake, WokenCanAnswer, Refused
  <1>2. RequestsStay
    BY <1>1, Replies DEF IInv, Wake, Refused
  <1> QED
    BY <1>2, RequestMoves DEF Wake

-----------------------------------------------------------------------------
(* The refresh goroutine.                                                  *)

LEMMA InvFault ==
  ASSUME IInv, NEW w \in Request, Fault(w)
  PROVE  IInv'
  <1>1. faults' \in 0 .. MaxFaults
    BY TimeAssumption DEF IInv, TypeOK, Fault
  <1>2. Busy(w) /\ Step(w, Done(None)) /\ UNCHANGED <<registry, runtime, request>>
    BY DEF Fault, Busy
  <1> QED
    BY <1>1, <1>2, RestingType, RefreshGoesOn

LEMMA InvReadState ==
  ASSUME IInv, NEW w \in Request, ReadState(w)
  PROVE  IInv'
  <1>1. Busy(w) /\ faults' \in 0 .. MaxFaults /\ UNCHANGED <<registry, runtime, request>>
    BY DEF IInv, TypeOK, ReadState, Busy
  <1>2. CASE active = None
    BY <1>1, <1>2, RestingType, RefreshGoesOn DEF ReadState
  <1>3. CASE active # None
    <2> DEFINE rec == [pc |-> "compare", id |-> active, life |-> grace[active], epoch |-> epoch, next |-> None]
    <2>1. Step(w, rec)
      BY <1>3 DEF ReadState
    <2>2. rec \in Worker /\ rec.pc = "compare" /\ rec.id \in Release /\ rec.next = None
      BY <1>3 DEF IInv, TypeOK, Worker
    <2>3. UpToDate(rec.epoch)
      BY TimeAssumption DEF IInv, TypeOK, UpToDate, SnapshotSeen
    <2> HIDE DEF rec
    <2> QED
      BY <1>1, <2>1, <2>2, <2>3, RefreshGoesOn
  <1> QED
    BY <1>2, <1>3

\* A snapshot of one release, read at epoch e.
LEMMA SnapshotType ==
  ASSUME NEW id \in Release, NEW life \in Lifecycle, NEW e \in 0 .. MaxSwitches
  PROVE  LET sn == SnapshotOf(id, life, id, e)
         IN  sn \in Snapshot /\ sn # None /\ Whole(sn) /\ sn.epoch = e
  <1>1. SnapshotOf(id, life, id, e) \in Snapshot
    BY EarliestGates DEF SnapshotOf, Snapshot
  <1>2. Whole(SnapshotOf(id, life, id, e)) /\ SnapshotOf(id, life, id, e).epoch = e
    BY EarliestGates DEF SnapshotOf, Whole
  <1> QED
    BY <1>1, <1>2, NoneAssumption

LEMMA InvCompare ==
  ASSUME IInv, NEW w \in Request, Compare(w)
  PROVE  IInv'
  <1> DEFINE g == worker[w]
  <1>1. Busy(w) /\ faults' \in 0 .. MaxFaults /\ UNCHANGED <<registry, runtime, request>>
    BY DEF IInv, TypeOK, Compare, Busy
  <1>2. g \in Worker /\ g.pc = "compare" /\ g.id \in Release /\ UpToDate(g.epoch)
    BY Records DEF IInv, Compare, WorkersKnow, RefreshHolds
  <1>3. CASE Renews(snapshot, g.id)
    <2> DEFINE next == RenewedSnapshot(snapshot, g)
    <2>1. next \in Snapshot /\ next # None /\ Whole(next) /\ next.epoch = g.epoch
      BY <1>2, <1>3, SnapshotType DEF Renews, RenewedSnapshot, Worker
    <2>2. Step(w, Done(next))
      BY <1>3 DEF Compare
    <2> HIDE DEF next
    <2> QED
      BY <1>1, <1>2, <2>1, <2>2, RestingType, RefreshGoesOn
  <1>4. CASE ~Renews(snapshot, g.id)
    <2> DEFINE rec == [Resting EXCEPT !.pc = "load", !.id = g.id]
    <2>1. rec \in Worker /\ rec.pc = "load" /\ rec.id = g.id /\ rec.next = None
      BY <1>2, RestingType DEF Worker
    <2>2. Step(w, rec)
      BY <1>4 DEF Compare
    <2> HIDE DEF rec
    <2> QED
      BY <1>1, <1>2, <2>1, <2>2, RefreshGoesOn
  <1> QED
    BY <1>3, <1>4

LEMMA InvLoad ==
  ASSUME IInv, NEW w \in Request, Load(w)
  PROVE  IInv'
  <1>1. Busy(w) /\ faults' \in 0 .. MaxFaults /\ UNCHANGED <<registry, runtime, request>>
    BY DEF IInv, TypeOK, Load, Busy
  <1>2. CASE Step(w, Done(None))
    BY <1>1, <1>2, RestingType, RefreshGoesOn
  <1>3. CASE Step(w, Done(ActiveReleaseRead)) /\ active = worker[w].id
    <2>1. active \in Release
      BY <1>3 DEF IInv, Load, WorkersKnow
    <2>2. /\ ActiveReleaseRead \in Snapshot /\ ActiveReleaseRead # None /\ Whole(ActiveReleaseRead)
          /\ ActiveReleaseRead.epoch = epoch
      BY <2>1, SnapshotType DEF IInv, TypeOK, ActiveReleaseRead
    <2>3. UpToDate(epoch)
      BY TimeAssumption DEF IInv, TypeOK, UpToDate, SnapshotSeen
    <2> QED
      BY <1>1, <1>3, <2>2, <2>3, RestingType, RefreshGoesOn
  <1> QED
    BY <1>2, <1>3 DEF Load

\* The refresh that ends is the only one, so what the others hold is nothing.
LEMMA FinishFacts ==
  ASSUME IInv, NEW w \in Request, Finish(w)
  PROVE  /\ worker' \in [Request -> Worker]
         /\ \A v \in Request : worker'[v].pc = "none" /\ worker'[v].next = None
         /\ worker[w].next = None => snapshot' = snapshot
         /\ worker[w].next # None =>
              /\ snapshot' = worker[w].next /\ Whole(worker[w].next)
              /\ UpToDate(worker[w].next.epoch)
  <1> USE DEF IInv
  <1>1. worker \in [Request -> Worker] /\ worker' = [worker EXCEPT ![w] = Resting]
    BY Records DEF Finish, Step
  <1>2. \A v \in Request : v # w => worker[v].pc = "none" /\ worker[v].next = None
    BY DEF Finish, SingleFlight, Busy, RefreshHolds
  <1>3. \A v \in Request : worker'[v].pc = "none" /\ worker'[v].next = None
    BY <1>1, <1>2, RestingType
  <1>4. worker[w].next # None => Whole(worker[w].next) /\ UpToDate(worker[w].next.epoch)
    BY DEF RefreshHolds
  <1>5. worker' \in [Request -> Worker]
    BY <1>1, RestingType
  <1> QED
    BY <1>3, <1>4, <1>5 DEF Finish

LEMMA InvFinish ==
  ASSUME IInv, NEW w \in Request, Finish(w)
  PROVE  IInv'
  <1> DEFINE next == worker[w].next
  <1> USE DEF IInv
  <1>1. next \in Snapshot \cup {None}
    BY Records DEF Worker
  <1>2. TypeOK'
    <2>1. request' \in [Request -> Unserved \cup Served]
      <3>1. \A q \in Unserved \cup Served : q.pc = "waiting" => [q EXCEPT !.woken = TRUE] \in Unserved
        BY DEF Unserved, Served
      <3>2. request \in [Request -> Unserved \cup Served]
        BY Records
      <3> QED
        BY <3>1, <3>2 DEF Finish
    <2>2. snapshot' \in Snapshot \cup {None}
      BY <1>1, FinishFacts DEF TypeOK
    <2>3. due' \in Nat /\ refreshing' \in BOOLEAN /\ lastErr' \in BOOLEAN
      BY TimeAssumption DEF Finish, FlagAfter, ErrorAfter
    <2> QED
      BY <2>1, <2>2, <2>3, FinishFacts DEF Finish, TypeOK, registry, Worker, Unserved, Served
  <1>3. WokenCanAnswer'
    BY FinishFacts DEF WokenCanAnswer, Finish, ErrorAfter
  <1>4. WorkersKnow' /\ RefreshHolds'
    BY FinishFacts DEF WorkersKnow, RefreshHolds
  <1>5. SingleFlight'
    BY FinishFacts DEF SingleFlight, Busy, Finish, FlagAfter
  <1>6. SnapshotSeen'
    BY FinishFacts DEF SnapshotSeen, Finish, registry, Whole, UpToDate
  <1> QED
    BY <1>2, <1>3, <1>4, <1>5, <1>6

-----------------------------------------------------------------------------
(* The registry and the time.                                              *)

LEMMA InvRegistry ==
  ASSUME IInv,
         \/ \E id \in Release : Activate(id)
         \/ \E life \in Lifecycle : Renew(life)
  PROVE  IInv'
  <1> USE DEF IInv, runtime
  <1>1. /\ active' \in Release \cup {None} /\ epoch' \in 0 .. MaxSwitches /\ epoch <= epoch'
        /\ grace' \in [Release -> Lifecycle] /\ UNCHANGED <<faults, runtime, worker, request>>
    <2>1. CASE \E id \in Release : Activate(id)
      BY <2>1, TimeAssumption DEF TypeOK, Activate
    <2>2. CASE \E life \in Lifecycle : Renew(life)
      BY <2>2, TimeAssumption DEF TypeOK, Renew
    <2> QED
      BY <2>1, <2>2
  <1>2. TypeOK'
    BY <1>1 DEF TypeOK
  <1>3. WokenCanAnswer' /\ WorkersKnow' /\ SingleFlight'
    BY <1>1 DEF WokenCanAnswer, WorkersKnow, SingleFlight, Busy
  <1>4. SnapshotSeen'
    BY <1>1, TimeAssumption DEF SnapshotSeen, Whole, TypeOK, Snapshot
  <1>5. RefreshHolds'
    <2>1. epoch \in 0 .. MaxSwitches /\ epoch' \in 0 .. MaxSwitches /\ UNCHANGED <<snapshot, worker>>
      BY <1>1 DEF TypeOK
    <2>2. ASSUME NEW w \in Request, worker[w].next # None
          PROVE  /\ worker[w].pc = "finish" /\ Whole(worker[w].next)
                 /\ worker[w].next.epoch <= epoch'
                 /\ snapshot # None => snapshot.epoch <= worker[w].next.epoch
      <3>1. worker[w].next.epoch \in 0 .. MaxSwitches
        BY <2>2, Records DEF Worker, Snapshot
      <3>2. worker[w].next.epoch <= epoch
        BY <2>2 DEF RefreshHolds, UpToDate
      <3>3. worker[w].next.epoch <= epoch'
        BY <1>1, <2>1, <3>1, <3>2
      <3> QED
        BY <2>2, <3>3 DEF RefreshHolds, UpToDate
    <2>3. ASSUME NEW w \in Request, worker[w].pc = "compare"
          PROVE  worker[w].epoch <= epoch' /\ (snapshot # None => snapshot.epoch <= worker[w].epoch)
      <3>1. worker[w].epoch \in 0 .. MaxSwitches
        BY Records DEF Worker
      <3>2. worker[w].epoch <= epoch /\ (snapshot # None => snapshot.epoch <= worker[w].epoch)
        BY <2>3 DEF RefreshHolds, UpToDate
      <3> QED
        BY <1>1, <2>1, <3>1, <3>2
    <2> QED
      BY <2>1, <2>2, <2>3 DEF RefreshHolds, UpToDate, Whole
  <1> QED
    BY <1>2, <1>3, <1>4, <1>5

LEMMA InvTick ==
  ASSUME IInv, Tick
  PROVE  IInv'
  <1> USE DEF IInv
  <1>1. /\ snapshot' \in Snapshot \cup {None} /\ (snapshot' = None <=> snapshot = None)
        /\ snapshot # None => snapshot'.epoch = snapshot.epoch /\ (Whole(snapshot) => Whole(snapshot'))
    <2>1. CASE snapshot = None
      BY <2>1 DEF Tick, OlderSnapshot
    <2>2. CASE snapshot # None
      BY <2>2, OlderKeeps DEF Tick, TypeOK, Whole
    <2> QED
      BY <2>1, <2>2
  <1>2. ASSUME NEW w \in Request
        PROVE  /\ worker'[w] \in Worker /\ worker'[w].pc = worker[w].pc /\ worker'[w].id = worker[w].id
               /\ worker'[w].epoch = worker[w].epoch
               /\ worker'[w].next = None <=> worker[w].next = None
               /\ worker[w].next # None =>
                    /\ worker'[w].next.epoch = worker[w].next.epoch
                    /\ Whole(worker[w].next) => Whole(worker'[w].next)
    <2> DEFINE o == OlderSnapshot(worker[w].next)
    <2>1. worker[w] \in Worker
      BY Records
    <2>2. /\ o \in Snapshot \cup {None} /\ (o = None <=> worker[w].next = None)
          /\ worker[w].next # None =>
               o.epoch = worker[w].next.epoch /\ (Whole(worker[w].next) => Whole(o))
      <3>1. CASE worker[w].next = None
        BY <3>1 DEF OlderSnapshot
      <3>2. CASE worker[w].next # None
        BY <2>1, <3>2, OlderKeeps DEF Worker, Whole
      <3> QED
        BY <3>1, <3>2
    <2>3. worker'[w] = [worker[w] EXCEPT !.life = Older(worker[w].life), !.next = o]
      BY DEF Tick
    <2>4. worker'[w] \in Worker /\ worker'[w].pc = worker[w].pc /\ worker'[w].id = worker[w].id
          /\ worker'[w].epoch = worker[w].epoch /\ worker'[w].next = o
      <3> HIDE DEF o
      <3> QED
        BY <2>1, <2>2, <2>3, OlderType DEF Worker
    <2> QED
      BY <2>2, <2>4
  <1>3. TypeOK'
    <2>1. worker' \in [Request -> Worker]
      BY <1>2 DEF Tick
    <2>2. grace' \in [Release -> Lifecycle]
      BY OlderType DEF Tick, TypeOK
    <2>3. due' \in Nat
      <3>1. due \in Nat /\ due' = Down(due)
        BY DEF Tick, TypeOK
      <3> QED
        BY <3>1 DEF Down
    <2> QED
      BY <1>1, <2>1, <2>2, <2>3 DEF Tick, TypeOK, Worker
  <1>4. WokenCanAnswer'
    BY <1>1 DEF WokenCanAnswer, Tick
  <1>5. WorkersKnow' /\ SingleFlight'
    BY ZenonT(60), <1>2 DEF WorkersKnow, SingleFlight, Busy, Tick
  <1>6. SnapshotSeen'
    BY <1>1 DEF SnapshotSeen, Tick
  <1>7. RefreshHolds'
    BY ZenonT(30), <1>1, <1>2 DEF RefreshHolds, UpToDate, Tick
  <1> QED
    BY <1>3, <1>4, <1>5, <1>6, <1>7

LEMMA InvNext == IInv /\ [Next]_vars => IInv'
  <1> SUFFICES ASSUME IInv, [Next]_vars PROVE IInv'
    OBVIOUS
  <1>1. ASSUME NEW r \in Request, Enter(r) \/ Wake(r)
        PROVE  IInv'
    BY <1>1, InvEnter, InvWake
  <1>2. ASSUME NEW r \in Request, Cancel(r) \/ Respond(r)
        PROVE  IInv'
    BY <1>2, Replies, RequestMoves DEF IInv, Cancel, Respond
  <1>3. ASSUME NEW w \in Request, Refresh(w) \/ Fault(w)
        PROVE  IInv'
    BY <1>3, InvReadState, InvCompare, InvLoad, InvFinish, InvFault DEF Refresh
  <1>4. CASE (\E id \in Release : Activate(id)) \/ (\E life \in Lifecycle : Renew(life))
    BY <1>4, InvRegistry
  <1>5. CASE Tick
    BY <1>5, InvTick
  <1>6. CASE UNCHANGED vars
    <2>1. UNCHANGED request /\ UNCHANGED <<registry, faults, runtime, worker>>
      BY <1>6 DEF vars
    <2>2. RequestsStay
      BY <2>1, Records DEF RequestsStay, IInv
    <2> QED
      BY <2>1, <2>2, RequestMoves
  <1> QED
    BY <1>1, <1>2, <1>3, <1>4, <1>5, <1>6 DEF Next, Serve

LEMMA Invariant == Spec => []IInv
  BY InvInit, InvNext, PTL DEF Spec

-----------------------------------------------------------------------------
(* The theorems.                                                           *)

(* Every reachable state of the runtime is well typed: what current()      *)
(* returns without an error is a snapshot of a release, for the requests   *)
(* that waited for the first one as well, so the handlers that dereference *)
(* it have one.                                                            *)
THEOREM TypeCorrect == Spec => []TypeOK
  <1>1. IInv => TypeOK
    BY DEF IInv
  <1> QED
    BY <1>1, Invariant, PTL

(* However long a refresh takes and wherever the pointer moves meanwhile,  *)
(* the times served with a release are times of that release               *)
(* (refreshReleaseRuntimeLifecycle and the load after it).                 *)
THEOREM ServesOneRelease == Spec => []SnapshotWhole
  <1>1. IInv => SnapshotWhole
    BY DEF IInv, SnapshotSeen, Whole, SnapshotWhole
  <1> QED
    BY <1>1, Invariant, PTL

\* Offers are gated by a time that is exactly that of the binding that ends
\* first: none is offered longer than every binding behind it is usable.
OffersGated == snapshot # None => Gates(snapshot.offers, snapshot.life)

(* The gate of the offers and the times of the bindings are renewed and    *)
(* grow old together, in whatever order refreshes and ticks come.          *)
THEOREM OffersEndTogether == Spec => []OffersGated
  <1>1. IInv => OffersGated
    BY DEF IInv, SnapshotSeen, Whole, OffersGated
  <1> QED
    BY <1>1, Invariant, PTL

\* At most one goroutine refreshes, and the flag says so.
OneRefresh ==
  /\ \A v, w \in Request : worker[v].pc # "none" /\ worker[w].pc # "none" => v = w
  /\ refreshing <=> \E w \in Request : worker[w].pc # "none"

(* However many requests find the snapshot due at once, one of them starts *)
(* a refresh, and the flag is down again when it has ended, also when it   *)
(* has failed.                                                             *)
THEOREM RefreshesOneAtATime == Spec => []OneRefresh
  <1>1. IInv => OneRefresh
    BY DEF IInv, SingleFlight, Busy, OneRefresh
  <1> QED
    BY <1>1, Invariant, PTL

(* finishRefresh never puts an older state of the registry over a newer    *)
(* one, and a failed refresh never takes the snapshot away.                *)
THEOREM SnapshotsOnlyAdvance == Spec => SnapshotsAdvance
  <1> DEFINE Advance == snapshot # None => snapshot' # None /\ snapshot'.epoch >= snapshot.epoch
  <1>1. ASSUME IInv, [Next]_vars, snapshot # None
        PROVE  snapshot' # None /\ snapshot'.epoch >= snapshot.epoch
    <2>1. snapshot \in Snapshot /\ snapshot.epoch \in Nat
      BY <1>1, TimeAssumption DEF IInv, TypeOK, Snapshot
    <2>2. CASE snapshot' = snapshot
      BY <1>1, <2>1, <2>2
    <2>3. ASSUME NEW w \in Request, Finish(w)
          PROVE  snapshot' # None /\ snapshot'.epoch >= snapshot.epoch
      <3>1. CASE worker[w].next = None
        BY <1>1, <2>1, <2>3, <3>1, FinishFacts
      <3>2. CASE worker[w].next # None
        <4>1. snapshot' = worker[w].next /\ snapshot.epoch <= worker[w].next.epoch
          BY <1>1, <2>3, <3>2, FinishFacts DEF UpToDate
        <4>2. worker[w].next.epoch \in Nat
          BY <1>1, <3>2, TimeAssumption, Records DEF IInv, Worker, Snapshot
        <4> QED
          BY <2>1, <3>2, <4>1, <4>2
      <3> QED
        BY <3>1, <3>2
    <2>4. CASE Tick
      <3>1. snapshot' # None /\ snapshot'.epoch = snapshot.epoch
        BY <2>1, <2>4, OlderKeeps DEF Tick
      <3> QED
        BY <2>1, <3>1
    <2> QED
      BY <1>1, <2>2, <2>3, <2>4
      DEF Next, vars, runtime, Activate, Renew, Enter, Cancel, Serve, Wake, Respond,
          Refresh, ReadState, Compare, Load, Fault
  <1>2. IInv /\ [Next]_vars => [Advance]_vars
    BY <1>1
  <1> QED
    BY <1>2, Invariant, PTL DEF Spec, SnapshotsAdvance

-----------------------------------------------------------------------------
(***************************************************************************)
(* The issuance (EudiIssuance), for any documents, contracts, citizens and *)
(* answers that keep to its assumptions, and any number of releases.       *)
(***************************************************************************)

(* Only documents that were validated whole become candidates and releases.*)
Sound(document) == \A d \in ToSet(document.definitions) : ValidAttestation(d)
AllSound ==
  /\ candidate # Absent => Sound(candidate.document)
  /\ cycle.stage = "compiled" => candidate \in Candidates /\ Sound(candidate.document)
  /\ \A i \in DOMAIN releases : Sound(releases[i].document)

(* What a request holds: the release and the type it is bound to, ...      *)
Bound ==
  session.stage # "idle" =>
    /\ session.release \in DOMAIN releases
    /\ session.type \in {t.type : t \in Types(releases[session.release])}
    /\ session.bsn \in Citizens /\ session.supplied \in Supplies

(* ... the offer of the pod it came from, ...                              *)
FromPod ==
  session.pod # 0 =>
    /\ session.pod \in DOMAIN releases
    /\ \E u \in Usecases(releases[session.pod]) :
          u.type = session.type /\ u.supplied = session.supplied

(* ... the plan that was accepted for it, ...                              *)
AskedPlan ==
  session.stage = "asked" \/ session.outcome = "credential" \/ session.plan # Absent =>
    /\ session.stage # "idle"
    /\ Plannable(Definition, session.bsn, session.supplied)
    /\ session.plan = Plan(Definition, session.bsn, session.supplied)

(* ... what was made of an answer to that plan, ...                        *)
Made(answer) == Project(answer, Definition.result_pointer, Definition.claims)
AnsweredClaims ==
  /\ session.stage = "extracted" => session.outcome = "none"
  /\ IF session.outcome = "credential"
     THEN \E answer \in Rows(Definition, session.plan.variables) :
            Made(answer).outcome = "credential" /\ session.claims = Made(answer).claims
     ELSE session.claims = NoClaims

(* ... the type metadata that some release gave its VCT, ...               *)
SignedMetadata ==
  session.stage = "issued" =>
    /\ session.reply = "credential"
    /\ \E i \in DOMAIN releases : \E t \in Types(releases[i]) :
         t.vct = AnsweredVct /\ session.metadata = t.integrity

(* ... and what is on record at each stage, and was answered.              *)
Recorded ==
  /\ \/ session.stage \in {"extracted", "asked", "assembled", "recorded", "issued"}
     \/ session.reply \notin {"none", "not_logged"}
     \/ session.plan # Absent
     => Extraction \in session.records
  /\ session.stage = "recorded" \/ session.reply \in {"failed", "no_data", "credential"} =>
       Assembly(session.outcome, session.claims) \in session.records
  /\ session.reply \in {"failed", "no_data", "credential"} => session.reply = session.outcome
  /\ session.stage \notin {"answered", "issued"} => session.reply = "none"

SessionInv == Bound /\ FromPod /\ AskedPlan /\ AnsweredClaims /\ SignedMetadata /\ Recorded
IssuanceInv == IssuanceTypeOK /\ AllSound /\ SessionInv

-----------------------------------------------------------------------------
(* The release and its types.                                              *)

LEMMA LawfulTypes ==
  ASSUME NEW x \in Candidates, Sound(x.document), NEW t \in Types(x)
  PROVE  /\ t.definition \in Lawful /\ t.type = t.definition.type /\ t.vct = Vct(t.definition)
         /\ t.integrity = TypeMetadata(t.definition, Vct(t.definition))
  <1>1. PICK d \in ToSet(x.document.definitions) : t = ActivatedType(d)
    BY DEF Types
  <1>2. t.definition = d /\ t.type = d.type /\ t.vct = Vct(d) /\ t.integrity = TypeMetadata(d, Vct(d))
    BY <1>1 DEF ActivatedType
  <1>3. x.document \in Documents
    BY DEF Candidates
  <1>4. d \in Lawful
    BY <1>3 DEF Lawful, Definitions, Sound
  <1> QED
    BY <1>2, <1>4

LEMMA ChosenType ==
  ASSUME NEW x, NEW type \in {t.type : t \in Types(x)}
  PROVE  TypeOf(x, type) \in Types(x) /\ TypeOf(x, type).type = type
  BY DEF TypeOf

LEMMA LawfulUsecases ==
  ASSUME NEW x \in Candidates, Sound(x.document), NEW u \in Usecases(x)
  PROVE  \E d \in Lawful : \E o \in d.offers : u.type = d.type /\ u.supplied = o.parameters
  <1>1. PICK t \in Types(x) : u \in {[id |-> o.id, type |-> t.type, supplied |-> o.parameters] :
                                       o \in t.definition.offers}
    BY DEF Usecases
  <1>2. PICK o \in t.definition.offers : u.type = t.type /\ u.supplied = o.parameters
    BY <1>1
  <1>3. t.definition \in Lawful /\ t.type = t.definition.type
    BY LawfulTypes
  <1> QED
    BY <1>2, <1>3

LEMMA SoundReleases ==
  ASSUME IssuanceInv, NEW i \in DOMAIN releases
  PROVE  releases[i] \in Candidates /\ Sound(releases[i].document)
  BY DEF IssuanceInv, IssuanceTypeOK, AllSound

\* The definition a request is bound to is lawful and of its type.
LEMMA BoundDefinition ==
  ASSUME IssuanceInv, session.stage # "idle"
  PROVE  /\ Definition \in Lawful /\ Definition.type = session.type
         /\ AnsweredVct = Vct(Definition)
  <1>1. releases[session.release] \in Candidates /\ Sound(releases[session.release].document)
        /\ session.type \in {t.type : t \in Types(releases[session.release])}
    BY DEF IssuanceInv, IssuanceTypeOK, AllSound, SessionInv, Bound
  <1>2. TypeOf(releases[session.release], session.type) \in Types(releases[session.release])
        /\ TypeOf(releases[session.release], session.type).type = session.type
    BY <1>1, ChosenType
  <1> QED
    BY <1>1, <1>2, LawfulTypes DEF Definition, AnsweredVct

\* What is projected are values of the answer, of the datatypes of the claims.
LEMMA ProjectedRow ==
  ASSUME NEW answer, NEW pointer, NEW claims,
         Project(answer, pointer, claims).outcome = "credential"
  PROVE  /\ answer.at = "rows" /\ answer.rows # <<>>
         /\ Project(answer, pointer, claims).claims
              = [name \in Filled(claims, answer.rows[1]) |-> answer.rows[1][claims[name].pointer]]
         /\ \A name \in Filled(claims, answer.rows[1]) :
              /\ claims[name].pointer \in DOMAIN answer.rows[1]
              /\ Copies(answer.rows[1][claims[name].pointer], claims[name].datatype)
  BY DEF Project, Failed

\* A projection has one of three outcomes, and claims only with a credential.
LEMMA ProjectionOutcomes ==
  ASSUME NEW answer, NEW pointer, NEW claims, NEW p, p = Project(answer, pointer, claims)
  PROVE  /\ p.outcome \in {"failed", "no_data", "credential"}
         /\ p.outcome # "credential" => p.claims = NoClaims
  BY DEF Project, Failed

\* A value that a claim takes over is an instance of the claim's property.
LEMMA CopiesAreInstances ==
  ASSUME NEW value, NEW datatype \in Datatypes \ {"number"}, Copies(value, datatype)
  PROVE  Instance(value, SchemaProperty(datatype))
  BY DEF Copies, Int64, Parsed, Datatypes, SchemaProperty, Instance

-----------------------------------------------------------------------------
(* What the requests keep.                                                 *)

\* A release that is added changes nothing for the request under way.
LEMMA SessionStays ==
  ASSUME IssuanceInv, UNCHANGED session, DOMAIN releases \subseteq DOMAIN releases',
         \A i \in DOMAIN releases : releases'[i] = releases[i]
  PROVE  SessionInv'
  <1>1. SessionInv
    BY DEF IssuanceInv
  <1>2. Bound'
    BY <1>1 DEF SessionInv, Bound
  <1>3. FromPod'
    BY <1>1 DEF SessionInv, FromPod
  <1>4. session.stage # "idle" => Definition' = Definition /\ AnsweredVct' = AnsweredVct
    BY <1>1 DEF SessionInv, Bound, Definition, AnsweredVct
  <1>5. AskedPlan'
    BY <1>1, <1>4 DEF SessionInv, AskedPlan
  <1>6. AnsweredClaims'
    BY <1>1, <1>4 DEF SessionInv, AskedPlan, AnsweredClaims, Made
  <1>7. SignedMetadata'
    <2>1. SUFFICES ASSUME session.stage = "issued"
                   PROVE  \E i \in DOMAIN releases' : \E t \in Types(releases'[i]) :
                            t.vct = AnsweredVct' /\ session.metadata = t.integrity
      BY <1>1 DEF SessionInv, SignedMetadata
    <2>2. PICK i \in DOMAIN releases : \E t \in Types(releases[i]) :
            t.vct = AnsweredVct /\ session.metadata = t.integrity
      BY <1>1, <2>1 DEF SessionInv, SignedMetadata
    <2>3. i \in DOMAIN releases' /\ releases'[i] = releases[i] /\ AnsweredVct' = AnsweredVct
      BY <1>4, <2>1, <2>2
    <2> QED
      BY <2>2, <2>3
  <1>8. Recorded'
    BY <1>1 DEF SessionInv, Recorded
  <1> QED
    BY <1>2, <1>3, <1>5, <1>6, <1>7, <1>8 DEF SessionInv

\* A request that goes on stays bound to what it was bound to.
LEMMA StaysBound ==
  ASSUME IssuanceInv, session.stage # "idle", UNCHANGED releases,
         session'.release = session.release, session'.type = session.type,
         session'.bsn = session.bsn, session'.supplied = session.supplied,
         session'.pod \in {0, session.pod}
  PROVE  Bound' /\ FromPod' /\ Definition' = Definition /\ AnsweredVct' = AnsweredVct
  <1>1. Bound /\ FromPod
    BY DEF IssuanceInv, SessionInv
  <1>2. Bound'
    BY <1>1 DEF Bound
  <1>3. FromPod'
    BY <1>1 DEF FromPod
  <1> QED
    BY <1>2, <1>3 DEF Definition, AnsweredVct

\* A pod that starts forgets what came from the one before.
LEMMA PodForgets ==
  ASSUME IssuanceInv, PodStart
  PROVE  SessionInv'
  <1>1. /\ SessionInv /\ DOMAIN session = DOMAIN NoRequest /\ UNCHANGED releases
        /\ session' = [session EXCEPT !.pod = 0]
    BY DEF IssuanceInv, IssuanceTypeOK, PodStart
  <1>2. /\ session'.pod = 0 /\ session'.stage = session.stage /\ session'.release = session.release
        /\ session'.type = session.type /\ session'.bsn = session.bsn
        /\ session'.supplied = session.supplied /\ session'.plan = session.plan
        /\ session'.outcome = session.outcome /\ session'.reply = session.reply
        /\ session'.claims = session.claims /\ session'.records = session.records
        /\ session'.metadata = session.metadata
    BY <1>1 DEF NoRequest
  <1>3. Bound'
    BY <1>1, <1>2 DEF SessionInv, Bound
  <1>4. FromPod'
    BY <1>2 DEF FromPod
  <1>5. Definition' = Definition /\ AnsweredVct' = AnsweredVct
    BY <1>1, <1>2 DEF Definition, AnsweredVct
  <1>6. AskedPlan'
    BY <1>1, <1>2, <1>5 DEF SessionInv, AskedPlan
  <1>7. AnsweredClaims'
    BY <1>1, <1>2, <1>5 DEF SessionInv, AnsweredClaims, Made
  <1>8. SignedMetadata'
    BY <1>1, <1>2, <1>5 DEF SessionInv, SignedMetadata
  <1>9. Recorded'
    BY <1>1, <1>2 DEF SessionInv, Recorded
  <1> QED
    BY <1>3, <1>4, <1>6, <1>7, <1>8, <1>9 DEF SessionInv

\* A request that is over holds nothing.
LEMMA EndedFits ==
  ASSUME End PROVE SessionInv'
  BY DEF End, NoRequest, SessionInv, Bound, FromPod, AskedPlan, AnsweredClaims, SignedMetadata,
         Recorded

\* A write that is not confirmed ends the request before anything else of it.
LEMMA UnconfirmedFields ==
  ASSUME NEW prior, DOMAIN prior = DOMAIN NoRequest, NEW record,
         NEW next \in Unconfirmed(prior, record)
  PROVE  /\ DOMAIN next = DOMAIN NoRequest
         /\ next.stage = "answered" /\ next.reply = "not_logged"
         /\ next.pod = prior.pod /\ next.release = prior.release /\ next.type = prior.type
         /\ next.bsn = prior.bsn /\ next.supplied = prior.supplied /\ next.plan = prior.plan
         /\ next.outcome = prior.outcome /\ next.claims = prior.claims
         /\ prior.records \subseteq next.records
         /\ next.records \subseteq prior.records \cup {record}
  <1>1. PICK stored \in SUBSET {record} :
          next = [prior EXCEPT !.stage = "answered", !.reply = "not_logged",
                                 !.records = @ \cup stored]
    BY DEF Unconfirmed
  <1> QED
    BY <1>1 DEF NoRequest

\* A request that has just been bound.
BoundTo(call, citizen) == [NoRequest EXCEPT !.stage = "extracted", !.pod = call.pod, !.type = call.type,
                                     !.supplied = call.supplied, !.bsn = citizen, !.release = adapter]

LEMMA BoundFields ==
  ASSUME NEW call, NEW citizen
  PROVE  /\ DOMAIN BoundTo(call, citizen) = DOMAIN NoRequest /\ BoundTo(call, citizen).pod = call.pod
         /\ BoundTo(call, citizen).type = call.type /\ BoundTo(call, citizen).supplied = call.supplied
         /\ BoundTo(call, citizen).bsn = citizen /\ BoundTo(call, citizen).release = adapter
         /\ BoundTo(call, citizen).stage = "extracted" /\ BoundTo(call, citizen).plan = Absent
         /\ BoundTo(call, citizen).outcome = "none" /\ BoundTo(call, citizen).claims = NoClaims
         /\ BoundTo(call, citizen).records = {} /\ BoundTo(call, citizen).reply = "none"
  BY DEF BoundTo, NoRequest

LEMMA ExtractFits ==
  ASSUME IssuanceInv, Extract PROVE SessionInv'
  <1>1. PICK x \in Calls, bsn \in Citizens :
          /\ x.type \in {t.type : t \in Types(releases[adapter])}
          /\ session' \in {[BoundTo(x, bsn) EXCEPT !.records = {Extraction}]}
                            \cup Unconfirmed(BoundTo(x, bsn), Extraction)
    BY DEF Extract, BoundTo
  <1>2. adapter \in DOMAIN releases /\ releases' = releases /\ pod \in {0} \cup DOMAIN releases
    BY DEF Extract, IssuanceInv, IssuanceTypeOK
  <1>5. /\ session'.pod = x.pod /\ session'.type = x.type
        /\ session'.supplied = x.supplied /\ session'.bsn = bsn /\ session'.release = adapter
        /\ session'.plan = Absent /\ session'.outcome = "none" /\ session'.claims = NoClaims
        /\ \/ session'.stage = "extracted" /\ session'.reply = "none" /\ session'.records = {Extraction}
           \/ session'.stage = "answered" /\ session'.reply = "not_logged"
    <2>1. CASE session' = [BoundTo(x, bsn) EXCEPT !.records = {Extraction}]
      BY <2>1, BoundFields DEF NoRequest
    <2>2. CASE session' \in Unconfirmed(BoundTo(x, bsn), Extraction)
      <3>1. DOMAIN BoundTo(x, bsn) = DOMAIN NoRequest
        BY BoundFields
      <3>2. /\ session'.stage = "answered" /\ session'.reply = "not_logged"
            /\ session'.pod = BoundTo(x, bsn).pod /\ session'.release = BoundTo(x, bsn).release
            /\ session'.type = BoundTo(x, bsn).type /\ session'.bsn = BoundTo(x, bsn).bsn
            /\ session'.supplied = BoundTo(x, bsn).supplied /\ session'.plan = BoundTo(x, bsn).plan
            /\ session'.outcome = BoundTo(x, bsn).outcome /\ session'.claims = BoundTo(x, bsn).claims
        BY <2>2, <3>1, UnconfirmedFields
      <3> QED
        BY <3>2, BoundFields
    <2> QED
      BY <1>1, <2>1, <2>2
  <1>6. AskedPlan' /\ AnsweredClaims' /\ SignedMetadata' /\ Recorded'
    BY <1>5 DEF AskedPlan, AnsweredClaims, SignedMetadata, Recorded
  <1>7. CASE x.pod # 0
    <2>1. pod # 0 /\ x \in {[pod |-> pod, type |-> u.type, supplied |-> u.supplied] :
                              u \in Usecases(releases[pod])}
      BY <1>7 DEF Calls
    <2>2. PICK u \in Usecases(releases[pod]) : x = [pod |-> pod, type |-> u.type, supplied |-> u.supplied]
      BY <2>1
    <2>3. pod \in DOMAIN releases
      BY <1>2, <2>1
    <2>4. releases[pod] \in Candidates /\ Sound(releases[pod].document)
      BY <2>3, SoundReleases
    <2>5. x.supplied \in Supplies
      <3>1. PICK d \in Lawful : \E o \in d.offers : u.supplied = o.parameters
        BY <2>4, LawfulUsecases
      <3>2. u.supplied \in {o.parameters : o \in d.offers}
        BY <3>1
      <3>3. x.supplied = u.supplied
        BY <2>2
      <3> QED
        BY <3>2, <3>3 DEF Supplies
    <2>6. FromPod'
      BY <1>2, <1>5, <2>2, <2>3 DEF FromPod
    <2> QED
      BY <1>1, <1>2, <1>5, <1>6, <2>5, <2>6 DEF SessionInv, Bound
  <1>8. CASE x.pod = 0
    <2>1. x.supplied \in Supplies
      <3>1. ASSUME pod # 0, NEW u \in Usecases(releases[pod]),
                   x = [pod |-> pod, type |-> u.type, supplied |-> u.supplied]
            PROVE  FALSE
        BY <1>8, <3>1
      <3>2. x.supplied \in Requests
        BY <3>1 DEF Calls
      <3> QED
        BY <3>2 DEF Supplies
    <2>2. FromPod'
      BY <1>5, <1>8 DEF FromPod
    <2> QED
      BY <1>1, <1>2, <1>5, <1>6, <2>1, <2>2 DEF SessionInv, Bound
  <1> QED
    BY <1>7, <1>8

LEMMA RefuseFits ==
  ASSUME IssuanceInv, Refuse PROVE SessionInv'
  <1>1. /\ session.stage = "extracted" /\ UNCHANGED releases /\ SessionInv
        /\ session' = [session EXCEPT !.stage = "answered", !.reply = "bad_request"]
    BY DEF Refuse, IssuanceInv
  <1>2. /\ session'.stage = "answered" /\ session'.reply = "bad_request"
        /\ session'.pod = session.pod /\ session'.release = session.release
        /\ session'.type = session.type /\ session'.bsn = session.bsn
        /\ session'.supplied = session.supplied /\ session'.plan = session.plan
        /\ session'.outcome = session.outcome /\ session'.claims = session.claims
        /\ session'.records = session.records
    BY <1>1 DEF IssuanceInv, IssuanceTypeOK, NoRequest
  <1>3. Bound' /\ FromPod' /\ Definition' = Definition
    BY <1>1, <1>2, StaysBound
  <1>4. AskedPlan' /\ AnsweredClaims' /\ SignedMetadata' /\ Recorded'
    BY <1>1, <1>2, <1>3
       DEF SessionInv, AskedPlan, AnsweredClaims, Made, SignedMetadata, Recorded
  <1> QED
    BY <1>3, <1>4 DEF SessionInv

LEMMA AskFits ==
  ASSUME IssuanceInv, Ask PROVE SessionInv'
  <1>1. /\ session.stage = "extracted" /\ UNCHANGED releases /\ SessionInv
        /\ Plannable(Definition, session.bsn, session.supplied)
    BY DEF Ask, IssuanceInv
  <1>2. CASE session' = [session EXCEPT !.stage = "asked", !.grant = DataAccess.grant,
                                        !.plan = Plan(Definition, session.bsn, session.supplied)]
    <2>1. /\ session'.stage = "asked" /\ session'.pod = session.pod
          /\ session'.release = session.release /\ session'.type = session.type
          /\ session'.bsn = session.bsn /\ session'.supplied = session.supplied
          /\ session'.plan = Plan(Definition, session.bsn, session.supplied)
          /\ session'.outcome = session.outcome /\ session'.claims = session.claims
          /\ session'.reply = session.reply /\ session'.records = session.records
      BY <1>2 DEF IssuanceInv, IssuanceTypeOK, NoRequest
    <2>2. Bound' /\ FromPod' /\ Definition' = Definition
      BY <1>1, <2>1, StaysBound
    <2>3. AskedPlan'
      BY <1>1, <2>1, <2>2 DEF AskedPlan
    <2>4. session.outcome = "credential" =>
            session.plan = Plan(Definition, session.bsn, session.supplied)
      BY <1>1 DEF SessionInv, AskedPlan
    <2>5. AnsweredClaims'
      BY <1>1, <2>1, <2>2, <2>4 DEF SessionInv, AnsweredClaims, Made
    <2>6. SignedMetadata' /\ Recorded'
      BY <1>1, <2>1 DEF SessionInv, SignedMetadata, Recorded
    <2> QED
      BY <2>2, <2>3, <2>5, <2>6 DEF SessionInv
  <1>3. CASE session' = [session EXCEPT !.stage = "assembled", !.outcome = "failed"]
    <2>1. /\ session'.stage = "assembled" /\ session'.pod = session.pod
          /\ session'.release = session.release /\ session'.type = session.type
          /\ session'.bsn = session.bsn /\ session'.supplied = session.supplied
          /\ session'.plan = session.plan /\ session'.outcome = "failed"
          /\ session'.claims = session.claims
          /\ session'.reply = session.reply /\ session'.records = session.records
      BY <1>3 DEF IssuanceInv, IssuanceTypeOK, NoRequest
    <2>2. Bound' /\ FromPod' /\ Definition' = Definition
      BY <1>1, <2>1, StaysBound
    <2>3. session.claims = NoClaims
      BY <1>1 DEF SessionInv, AskedPlan, AnsweredClaims
    <2>4. AskedPlan' /\ AnsweredClaims'
      BY <1>1, <2>1, <2>2, <2>3 DEF SessionInv, AskedPlan, AnsweredClaims
    <2>5. SignedMetadata' /\ Recorded'
      BY <1>1, <2>1 DEF SessionInv, SignedMetadata, Recorded
    <2> QED
      BY <2>2, <2>4, <2>5 DEF SessionInv
  <1> QED
    BY <1>2, <1>3 DEF Ask

LEMMA AnswerFits ==
  ASSUME IssuanceInv, Answer PROVE SessionInv'
  <1>1. PICK projection \in Projections :
          session' = [session EXCEPT !.stage = "assembled", !.outcome = projection.outcome,
                                     !.claims = projection.claims]
    BY DEF Answer
  <1>2. session.stage = "asked" /\ UNCHANGED releases /\ SessionInv
    BY DEF Answer, IssuanceInv
  <1>3. /\ session'.stage = "assembled" /\ session'.pod = session.pod
        /\ session'.release = session.release /\ session'.type = session.type
        /\ session'.bsn = session.bsn /\ session'.supplied = session.supplied
        /\ session'.plan = session.plan /\ session'.outcome = projection.outcome
        /\ session'.claims = projection.claims
        /\ session'.reply = session.reply /\ session'.records = session.records
    BY <1>1 DEF IssuanceInv, IssuanceTypeOK, NoRequest
  <1>4. Bound' /\ FromPod' /\ Definition' = Definition
    BY <1>2, <1>3, StaysBound
  <1>5. AskedPlan'
    BY <1>2, <1>3, <1>4 DEF SessionInv, AskedPlan
  <1>6. ASSUME projection = Failed PROVE AnsweredClaims'
    BY <1>3, <1>6 DEF AnsweredClaims, Failed
  <1>7. ASSUME NEW answer \in Rows(Definition, session.plan.variables), projection = Made(answer)
        PROVE  AnsweredClaims'
    <2>1. Made(answer)' = Made(answer)
      BY <1>4 DEF Made
    <2>2. projection.outcome # "credential" => projection.claims = NoClaims
      BY <1>7, ProjectionOutcomes DEF Made
    <2> QED
      BY <1>3, <1>4, <1>7, <2>1, <2>2 DEF AnsweredClaims
  <1>8. AnsweredClaims'
    BY <1>6, <1>7 DEF Projections, Made
  <1>9. SignedMetadata' /\ Recorded'
    BY <1>2, <1>3 DEF SessionInv, SignedMetadata, Recorded
  <1> QED
    BY <1>4, <1>5, <1>8, <1>9 DEF SessionInv

LEMMA RecordFits ==
  ASSUME IssuanceInv, Record PROVE SessionInv'
  <1> DEFINE record == Assembly(session.outcome, session.claims)
  <1>1. /\ session.stage = "assembled" /\ UNCHANGED releases /\ SessionInv
        /\ DOMAIN session = DOMAIN NoRequest
        /\ session' \in {[session EXCEPT !.stage = "recorded", !.records = @ \cup {record}]}
                         \cup Unconfirmed(session, record)
    BY DEF Record, IssuanceInv, IssuanceTypeOK
  <1>2. /\ session'.pod = session.pod /\ session'.release = session.release
        /\ session'.type = session.type /\ session'.bsn = session.bsn
        /\ session'.supplied = session.supplied /\ session'.plan = session.plan
        /\ session'.outcome = session.outcome /\ session'.claims = session.claims
        /\ session.records \subseteq session'.records
        /\ \/ /\ session'.stage = "recorded" /\ session'.reply = session.reply
              /\ record \in session'.records
           \/ session'.stage = "answered" /\ session'.reply = "not_logged"
    <2> HIDE DEF record
    <2>1. CASE session' = [session EXCEPT !.stage = "recorded", !.records = @ \cup {record}]
      BY <1>1, <2>1 DEF NoRequest
    <2>2. CASE session' \in Unconfirmed(session, record)
      BY <1>1, <2>2, UnconfirmedFields
    <2> QED
      BY <1>1, <2>1, <2>2
  <1>3. Bound' /\ FromPod' /\ Definition' = Definition
    BY <1>1, <1>2, StaysBound
  <1>4. AskedPlan' /\ AnsweredClaims' /\ SignedMetadata'
    BY <1>1, <1>2, <1>3 DEF SessionInv, AskedPlan, AnsweredClaims, Made, SignedMetadata
  <1>5. Recorded'
    BY <1>1, <1>2 DEF SessionInv, Recorded
  <1> QED
    BY <1>3, <1>4, <1>5 DEF SessionInv

LEMMA ReplyFits ==
  ASSUME IssuanceInv, Reply PROVE SessionInv'
  <1>1. /\ session.stage = "recorded" /\ UNCHANGED releases /\ SessionInv
        /\ session' = [session EXCEPT !.stage = "answered", !.reply = session.outcome]
    BY DEF Reply, IssuanceInv
  <1>2. /\ session'.stage = "answered" /\ session'.reply = session.outcome
        /\ session'.pod = session.pod /\ session'.release = session.release
        /\ session'.type = session.type /\ session'.bsn = session.bsn
        /\ session'.supplied = session.supplied /\ session'.plan = session.plan
        /\ session'.outcome = session.outcome /\ session'.claims = session.claims
        /\ session'.records = session.records
    BY <1>1 DEF IssuanceInv, IssuanceTypeOK, NoRequest
  <1>3. Bound' /\ FromPod' /\ Definition' = Definition
    BY <1>1, <1>2, StaysBound
  <1>4. AskedPlan' /\ AnsweredClaims' /\ SignedMetadata' /\ Recorded'
    BY <1>1, <1>2, <1>3
       DEF SessionInv, AskedPlan, AnsweredClaims, Made, SignedMetadata, Recorded
  <1> QED
    BY <1>3, <1>4 DEF SessionInv

LEMMA IssueFits ==
  ASSUME IssuanceInv, Issue PROVE SessionInv'
  <1>1. /\ session.stage = "answered" /\ session.reply = "credential" /\ UNCHANGED releases
        /\ session.pod # 0 /\ AnsweredVct \in Vcts(releases[session.pod]) /\ SessionInv
        /\ session' = [session EXCEPT !.stage = "issued", !.metadata = Installed]
    BY DEF Issue, Signable, IssuanceInv
  <1>2. /\ session'.stage = "issued" /\ session'.pod = session.pod
        /\ session'.release = session.release /\ session'.type = session.type
        /\ session'.bsn = session.bsn /\ session'.supplied = session.supplied
        /\ session'.plan = session.plan /\ session'.outcome = session.outcome
        /\ session'.claims = session.claims /\ session'.reply = session.reply
        /\ session'.records = session.records /\ session'.metadata = Installed
    BY <1>1 DEF IssuanceInv, IssuanceTypeOK, NoRequest
  <1>3. Bound' /\ FromPod' /\ Definition' = Definition /\ AnsweredVct' = AnsweredVct
    BY <1>1, <1>2, StaysBound
  <1>4. AskedPlan' /\ AnsweredClaims' /\ Recorded'
    BY <1>1, <1>2, <1>3 DEF SessionInv, AskedPlan, AnsweredClaims, Made, Recorded
  <1>5. SignedMetadata'
    <2> DEFINE x == releases[session.pod]
               t == CHOOSE y \in Types(x) : y.vct = AnsweredVct
    <2>1. session.pod \in DOMAIN releases
      BY <1>1 DEF SessionInv, FromPod
    <2>2. t \in Types(x) /\ t.vct = AnsweredVct
      BY <1>1 DEF Vcts
    <2>3. Installed = t.integrity
      BY DEF Installed
    <2> HIDE DEF t
    <2> QED
      BY <1>1, <1>2, <1>3, <2>1, <2>2, <2>3 DEF SignedMetadata
  <1> QED
    BY <1>3, <1>4, <1>5 DEF SessionInv

-----------------------------------------------------------------------------
(* The steps.                                                              *)

\* The grants and the service of a registration are resolved ones.
LEMMA ResolvedTyped ==
  ASSUME IssuanceTypeOK
  PROVE  \A document \in Documents : [document |-> document, registration |-> Resolved(document)]
                                       \in Candidates
  <1> SUFFICES ASSUME NEW document \in Documents
               PROVE  [document |-> document, registration |-> Resolved(document)] \in Candidates
    OBVIOUS
  <1>1. cycle.contracts \in SUBSET Contracts
    BY DEF IssuanceTypeOK
  <1>2. DataService(document) \in Services /\ Configuration.metadata.service \in Services
    BY DEF Services
  <1>3. \A s \in Services : Grant(cycle.contracts, ProviderPeer(Configuration), s) \in Grants
    BY <1>1 DEF Grants
  <1>4. MetadataGrant \in Grants
    BY <1>2, <1>3 DEF MetadataGrant
  <1> DEFINE registrations == {Registration(Configuration, Identity, m, s, g) :
                                 m \in Grants, s \in Services, g \in Grants}
  <1>5. Resolved(document) \in registrations
    BY <1>2, <1>3, <1>4 DEF Resolved
  <1> HIDE DEF registrations
  <1>6. [document |-> document, registration |-> Resolved(document)]
          \in [document : Documents, registration : registrations]
    BY <1>5
  <1> QED
    BY <1>6 DEF Candidates, registrations

\* What is compiled is sound, and what is promoted was compiled.
LEMMA CandidateStep ==
  ASSUME IssuanceInv, Compile \/ Reregister
  PROVE  IssuanceTypeOK' /\ AllSound' /\ UNCHANGED <<releases, session>>
  <1>1. IssuanceTypeOK /\ AllSound
    BY DEF IssuanceInv
  <1>2. UNCHANGED <<published, contracts, releases, activeRelease, adapter, pod, session>>
        /\ cycle' = [stage |-> "compiled", contracts |-> {}]
    BY DEF Compile, Reregister
  <1>3. published \in Documents /\ candidate \in {Absent} \cup Candidates
    BY <1>1 DEF IssuanceTypeOK
  <1>4. candidate' = [document |-> published, registration |-> Resolved(published)]
    <2>1. CASE Compile
      BY <2>1 DEF Compile
    <2>2. CASE Reregister
      <3>1. candidate \in Candidates /\ candidate.document = published
            /\ candidate' = [candidate EXCEPT !.registration = Resolved(published)]
        BY <1>3, <2>2 DEF Reregister
      <3> QED
        BY <3>1 DEF Candidates
    <2> QED
      BY <2>1, <2>2
  <1>5. candidate' \in Candidates
    BY <1>1, <1>3, <1>4, ResolvedTyped
  <1>6. IssuanceTypeOK'
    <2>1. cycle' \in [stage : {"idle", "surveyed", "compiled"}, contracts : SUBSET Contracts]
      BY <1>2
    <2> QED
      BY <1>1, <1>2, <1>5, <2>1 DEF IssuanceTypeOK
  <1>7. Sound(published)
    <2>1. CASE Compile
      <3>1. ValidDocument(Resolved(published), published)
        BY <2>1 DEF Compile
      <3>2. \A i \in DOMAIN published.definitions : ValidAttestation(published.definitions[i])
        BY <3>1 DEF ValidDocument
      <3> QED
        BY <3>2 DEF Sound, ToSet
    <2>2. CASE Reregister
      BY <1>1, <2>2 DEF Reregister, AllSound
    <2> QED
      BY <2>1, <2>2
  <1>8. candidate'.document = published
    BY <1>4
  <1>9. AllSound'
    BY <1>1, <1>2, <1>5, <1>7, <1>8 DEF AllSound, Sound
  <1> QED
    BY <1>2, <1>6, <1>9

LEMMA PromoteStep ==
  ASSUME IssuanceInv, Promote
  PROVE  IssuanceTypeOK' /\ AllSound' /\ SessionInv'
  <1>1. IssuanceTypeOK /\ AllSound
    BY DEF IssuanceInv
  <1>2. UNCHANGED <<published, contracts, candidate, adapter, pod, session>>
        /\ cycle' = [stage |-> "idle", contracts |-> {}]
    BY DEF Promote
  <1>3. cycle' \in [stage : {"idle", "surveyed", "compiled"}, contracts : SUBSET Contracts]
    BY <1>2
  <1>4. candidate \in Candidates /\ Sound(candidate.document) /\ releases \in Seq(Candidates)
    BY <1>1 DEF IssuanceTypeOK, AllSound, Promote
  <1>5. CASE UNCHANGED <<releases, activeRelease>>
    <2>1. IssuanceTypeOK' /\ AllSound'
      BY <1>1, <1>2, <1>3, <1>5 DEF IssuanceTypeOK, AllSound
    <2>2. SessionInv'
      BY <1>2, <1>5, SessionStays
    <2> QED
      BY <2>1, <2>2
  <1>6. CASE releases' = Append(releases, candidate) /\ activeRelease' = Len(releases')
    <2>1. /\ releases' \in Seq(Candidates) /\ DOMAIN releases' = 1 .. Len(releases) + 1
          /\ DOMAIN releases = 1 .. Len(releases) /\ Len(releases) \in Nat
          /\ releases'[Len(releases) + 1] = candidate /\ Len(releases') = Len(releases) + 1
          /\ \A i \in DOMAIN releases : releases'[i] = releases[i]
      BY <1>4, <1>6
    <2>2. DOMAIN releases \subseteq DOMAIN releases' /\ activeRelease' \in DOMAIN releases'
          /\ DOMAIN releases' = DOMAIN releases \cup {Len(releases) + 1}
      BY <1>6, <2>1
    <2>3. IssuanceTypeOK'
      BY <1>1, <1>2, <1>3, <2>1, <2>2 DEF IssuanceTypeOK
    <2>4. AllSound'
      BY <1>1, <1>2, <1>4, <2>1, <2>2 DEF AllSound
    <2>5. SessionInv'
      BY <1>2, <2>1, <2>2, SessionStays
    <2> QED
      BY <2>3, <2>4, <2>5
  <1> QED
    BY <1>5, <1>6 DEF Promote

\* Steps that leave the candidate, the releases and the request as they are.
Apart ==
  \/ Publish \/ Sign \/ Revoke \/ Survey \/ GiveUp \/ Rollback \/ AdapterRefresh
  \/ UNCHANGED issuanceVars

LEMMA ApartStep == IssuanceInv /\ Apart => IssuanceInv'
  <1> SUFFICES ASSUME IssuanceInv, Apart PROVE IssuanceInv'
    OBVIOUS
  <1>1. IssuanceTypeOK /\ AllSound
    BY DEF IssuanceInv
  <1>2. UNCHANGED <<candidate, releases, session, pod>>
    BY DEF Apart, Publish, Sign, Revoke, Survey, GiveUp, Rollback, AdapterRefresh, issuanceVars
  <1>3. \/ cycle' = cycle
        \/ cycle' = [stage |-> "surveyed", contracts |-> IF NeedsContracts(Configuration) THEN contracts ELSE {}]
        \/ cycle' = [stage |-> "idle", contracts |-> {}]
    BY DEF Apart, Publish, Sign, Revoke, Survey, GiveUp, Rollback, AdapterRefresh, issuanceVars
  <1>4. cycle' \in [stage : {"idle", "surveyed", "compiled"}, contracts : SUBSET Contracts]
        /\ (cycle'.stage = "compiled" => cycle.stage = "compiled")
    BY <1>1, <1>3 DEF IssuanceTypeOK
  <1>5. published' \in Documents
    BY <1>1 DEF IssuanceTypeOK, Apart, Publish, Sign, Revoke, Survey, GiveUp, Rollback,
                AdapterRefresh, issuanceVars
  <1>6. contracts' \subseteq Contracts
    BY <1>1, ChangingAssumption DEF IssuanceTypeOK, Apart, Publish, Sign, Revoke, Survey, GiveUp, Rollback,
                AdapterRefresh, issuanceVars
  <1>7. {activeRelease', adapter'} \subseteq {0} \cup DOMAIN releases
    BY <1>1 DEF IssuanceTypeOK, Apart, Publish, Sign, Revoke, Survey, GiveUp, Rollback,
                AdapterRefresh, issuanceVars
  <1>8. IssuanceTypeOK'
    BY <1>1, <1>2, <1>4, <1>5, <1>6, <1>7 DEF IssuanceTypeOK
  <1>9. AllSound'
    BY <1>1, <1>2, <1>4 DEF AllSound
  <1>10. SessionInv'
    BY <1>2, SessionStays
  <1> QED
    BY <1>8, <1>9, <1>10 DEF IssuanceInv

\* Steps of the pod and of the request.
RequestActs == Extract \/ Refuse \/ Ask \/ Answer \/ Record \/ Reply \/ Issue \/ EndRequest

LEMMA RequestTyped ==
  ASSUME IssuanceInv, PodStart \/ RequestActs
  PROVE  /\ DOMAIN session' = DOMAIN NoRequest /\ session'.stage \in Stages
         /\ session'.outcome \in Outcomes /\ session'.reply \in Heard
         /\ \A record \in session'.records : record.kind \in {"extraction", "assembly"}
         /\ session'.stage = "idle" => session' = NoRequest \/ PodStart
  <1>1. /\ DOMAIN session = DOMAIN NoRequest /\ session.stage \in Stages
        /\ session.outcome \in Outcomes /\ session.reply \in Heard
        /\ \A record \in session.records : record.kind \in {"extraction", "assembly"}
    BY DEF IssuanceInv, IssuanceTypeOK
  <1>2. CASE PodStart
    BY <1>1, <1>2 DEF PodStart, NoRequest
  <1>3. CASE EndRequest
    BY <1>3 DEF EndRequest, End, NoRequest, Stages, Outcomes, Heard
  <1>4. CASE Refuse \/ Ask \/ Reply \/ Issue
    <2>1. /\ DOMAIN session' = DOMAIN session /\ session'.records = session.records
          /\ session'.stage \in {"answered", "asked", "assembled", "issued"}
          /\ session'.outcome \in {session.outcome, "failed"}
          /\ session'.reply \in {session.reply, session.outcome, "bad_request"}
      BY <1>1, <1>4 DEF NoRequest, Refuse, Ask, Reply, Issue
    <2> QED
      BY <1>1, <2>1 DEF Stages, Outcomes, Heard
  <1>5. CASE Answer
    <2>1. PICK projection \in Projections :
            session' = [session EXCEPT !.stage = "assembled", !.outcome = projection.outcome,
                                       !.claims = projection.claims]
      BY <1>5 DEF Answer
    <2>2. projection.outcome \in {"failed", "no_data", "credential"}
      <3>1. CASE projection = Failed
        BY <3>1 DEF Failed
      <3>2. ASSUME NEW answer \in Rows(Definition, session.plan.variables),
                   projection = Project(answer, Definition.result_pointer, Definition.claims)
            PROVE  projection.outcome \in {"failed", "no_data", "credential"}
        BY <3>2, ProjectionOutcomes
      <3> QED
        BY <3>1, <3>2 DEF Projections
    <2>3. /\ DOMAIN session' = DOMAIN NoRequest /\ session'.stage = "assembled"
          /\ session'.outcome = projection.outcome /\ session'.reply = session.reply
          /\ session'.records = session.records
      BY <1>1, <2>1 DEF NoRequest
    <2> QED
      BY <1>1, <2>2, <2>3 DEF Stages, Outcomes
  <1>6. CASE Extract
    <2>1. PICK x \in Calls, bsn \in Citizens :
            session' \in {[BoundTo(x, bsn) EXCEPT !.records = {Extraction}]}
                         \cup Unconfirmed(BoundTo(x, bsn), Extraction)
      BY <1>6 DEF Extract, BoundTo
    <2>2. DOMAIN BoundTo(x, bsn) = DOMAIN NoRequest /\ BoundTo(x, bsn).records = {}
          /\ BoundTo(x, bsn).outcome = "none" /\ BoundTo(x, bsn).reply = "none"
          /\ BoundTo(x, bsn).stage = "extracted"
      BY BoundFields
    <2>3. CASE session' = [BoundTo(x, bsn) EXCEPT !.records = {Extraction}]
      <3>1. /\ DOMAIN session' = DOMAIN NoRequest /\ session'.stage = "extracted"
            /\ session'.outcome = "none" /\ session'.reply = "none"
            /\ session'.records = {Extraction}
        BY <2>2, <2>3 DEF NoRequest
      <3> QED
        BY <3>1 DEF Extraction, Stages, Outcomes, Heard
    <2>4. CASE session' \in Unconfirmed(BoundTo(x, bsn), Extraction)
      <3>1. /\ DOMAIN session' = DOMAIN NoRequest /\ session'.stage = "answered"
            /\ session'.outcome = BoundTo(x, bsn).outcome /\ session'.reply = "not_logged"
            /\ session'.records \subseteq BoundTo(x, bsn).records \cup {Extraction}
        BY <2>2, <2>4, UnconfirmedFields
      <3> QED
        BY <2>2, <3>1 DEF Extraction, Stages, Outcomes, Heard
    <2> QED
      BY <2>1, <2>3, <2>4
  <1>7. ASSUME NEW record, record.kind = "assembly",
               session' \in {[session EXCEPT !.stage = "recorded", !.records = @ \cup {record}]}
                            \cup Unconfirmed(session, record)
        PROVE  /\ DOMAIN session' = DOMAIN NoRequest /\ session'.stage \in {"recorded", "answered"}
               /\ session'.outcome = session.outcome /\ session'.reply \in {session.reply, "not_logged"}
               /\ session'.records \subseteq session.records \cup {record}
    <2>1. CASE session' = [session EXCEPT !.stage = "recorded", !.records = @ \cup {record}]
      BY <1>1, <2>1 DEF NoRequest
    <2>2. CASE session' \in Unconfirmed(session, record)
      BY <1>1, <2>2, UnconfirmedFields
    <2> QED
      BY <1>7, <2>1, <2>2
  <1>8. CASE Record
    <2>1. PICK record : /\ record.kind = "assembly"
                        /\ session' \in {[session EXCEPT !.stage = "recorded", !.records = @ \cup {record}]}
                                         \cup Unconfirmed(session, record)
      BY <1>8 DEF Record, Assembly
    <2>2. /\ DOMAIN session' = DOMAIN NoRequest /\ session'.stage \in {"recorded", "answered"}
          /\ session'.outcome = session.outcome /\ session'.reply \in {session.reply, "not_logged"}
          /\ session'.records \subseteq session.records \cup {record}
      BY <1>7, <2>1
    <2> QED
      BY <1>1, <2>1, <2>2 DEF Stages, Outcomes, Heard
  <1> QED
    BY <1>2, <1>3, <1>4, <1>5, <1>6, <1>8 DEF RequestActs

LEMMA RequestStep ==
  ASSUME IssuanceInv, PodStart \/ RequestActs
  PROVE  IssuanceInv'
  <1>1. IssuanceTypeOK /\ AllSound /\ SessionInv
    BY DEF IssuanceInv
  <1>2. UNCHANGED <<published, contracts, cycle, candidate, releases, activeRelease, adapter>>
    BY DEF RequestActs, PodStart, Extract, Refuse, Ask, Answer, Record, Reply, Issue, EndRequest
  <1>3. SessionInv'
    BY PodForgets, ExtractFits, RefuseFits, AskFits, AnswerFits, RecordFits, ReplyFits, IssueFits,
       EndedFits DEF RequestActs, EndRequest
  <1>4. pod' \in {0} \cup DOMAIN releases
    BY <1>1 DEF IssuanceTypeOK, RequestActs, PodStart, Extract, Refuse, Ask, Answer, Record, Reply,
                Issue, EndRequest
  <1>5. /\ DOMAIN session' = DOMAIN NoRequest /\ session'.stage \in Stages
        /\ session'.outcome \in Outcomes /\ session'.reply \in Heard
        /\ \A record \in session'.records : record.kind \in {"extraction", "assembly"}
        /\ session'.stage = "idle" => session' = NoRequest \/ PodStart
    BY RequestTyped
  <1>6. {session'.pod, session'.release} \subseteq {0} \cup DOMAIN releases
    <2>1. CASE session' = NoRequest
      BY <2>1 DEF NoRequest
    <2>2. CASE PodStart
      <3>1. session'.pod = 0 /\ session'.release = session.release
        BY <1>1, <2>2 DEF IssuanceTypeOK, PodStart, NoRequest
      <3> QED
        BY <1>1, <3>1 DEF IssuanceTypeOK
    <2>3. CASE session'.stage # "idle"
      BY <1>2, <1>3, <2>3 DEF SessionInv, Bound, FromPod
    <2> QED
      BY <1>5, <2>1, <2>2, <2>3
  <1>7. IssuanceTypeOK'
    BY <1>1, <1>2, <1>4, <1>5, <1>6 DEF IssuanceTypeOK
  <1>8. AllSound'
    BY <1>1, <1>2 DEF AllSound
  <1> QED
    BY <1>3, <1>7, <1>8 DEF IssuanceInv

LEMMA IssuanceStarts == IssuanceInit => IssuanceInv
  <1> SUFFICES ASSUME IssuanceInit PROVE IssuanceInv
    OBVIOUS
  <1>1. IssuanceTypeOK
    <2>1. releases \in Seq(Candidates)
      BY DEF IssuanceInit
    <2>2. cycle \in [stage : {"idle", "surveyed", "compiled"}, contracts : SUBSET Contracts]
      BY DEF IssuanceInit
    <2> QED
      BY <2>1, <2>2 DEF IssuanceInit, IssuanceTypeOK, NoRequest, Stages, Outcomes, Heard
  <1>2. AllSound
    BY DEF IssuanceInit, AllSound
  <1>3. SessionInv
    BY DEF IssuanceInit, NoRequest, SessionInv, Bound, FromPod, AskedPlan, AnsweredClaims,
           SignedMetadata, Recorded
  <1> QED
    BY <1>1, <1>2, <1>3 DEF IssuanceInv

LEMMA IssuanceStep == IssuanceInv /\ [IssuanceNext]_issuanceVars => IssuanceInv'
  <1> SUFFICES ASSUME IssuanceInv, [IssuanceNext]_issuanceVars PROVE IssuanceInv'
    OBVIOUS
  <1>1. CASE Apart
    BY <1>1, ApartStep
  <1>2. CASE Compile \/ Reregister
    <2>1. IssuanceTypeOK' /\ AllSound' /\ UNCHANGED <<releases, session>>
      BY <1>2, CandidateStep
    <2>2. SessionInv'
      BY <2>1, SessionStays
    <2> QED
      BY <2>1, <2>2 DEF IssuanceInv
  <1>3. CASE Promote
    BY <1>3, PromoteStep DEF IssuanceInv
  <1>4. CASE PodStart \/ RequestActs
    BY <1>4, RequestStep
  <1> QED
    BY <1>1, <1>2, <1>3, <1>4 DEF IssuanceNext, Apart, RequestActs

LEMMA IssuanceHolds == IssuanceSpec => []IssuanceInv
  BY IssuanceStarts, IssuanceStep, PTL DEF IssuanceSpec

-----------------------------------------------------------------------------
(* The type of the state of the issuance.                                  *)
THEOREM IssuanceTypeCorrect == IssuanceSpec => []IssuanceTypeOK
  <1>1. IssuanceInv => IssuanceTypeOK
    BY DEF IssuanceInv
  <1> QED
    BY <1>1, IssuanceHolds, PTL

(* What is heard of a request, in every way it can be answered, is on      *)
(* record first: the extraction before a source is asked or a parameter    *)
(* refused, and the outcome of the assembly before that outcome is told    *)
(* (logPIDExtraction, logAssembly).                                        *)
THEOREM RecordedFirst == IssuanceSpec => []NothingLeavesUnrecorded
  <1>1. ASSUME IssuanceInv PROVE NothingLeavesUnrecorded
    <2>1. Recorded /\ AnsweredClaims /\ (session.stage = "issued" => session.reply = "credential")
      BY <1>1 DEF IssuanceInv, SessionInv, SignedMetadata
    <2>2. session.reply \in {"failed", "no_data"} => session.claims = NoClaims
      BY <2>1 DEF Recorded, AnsweredClaims
    <2>3. session.reply \in {"failed", "no_data", "credential"} =>
            Assembly(session.reply, session.claims) \in session.records
      BY <2>1 DEF Recorded
    <2> QED
      BY <2>1, <2>2, <2>3 DEF NothingLeavesUnrecorded, Recorded
  <1>2. IssuanceInv => NothingLeavesUnrecorded
    BY <1>1
  <1> QED
    BY <1>2, IssuanceHolds, PTL

\* The subject variable is the citizen, unless a parameter overrides it.
LEMMA SubjectFilled ==
  ASSUME NEW d, NEW bsn, NEW supplied, DOMAIN supplied \subseteq DOMAIN d.parameters, OwnSubject(d)
  PROVE  Variables(d, bsn, supplied)[d.subject_variable] = bsn
  BY DEF Variables, OwnSubject

\* The source is asked for exactly the names of the offer that was matched.
LEMMA OfferMatched ==
  ASSUME NEW d \in Lawful, NEW bsn \in Citizens, NEW supplied \in Supplies,
         Plannable(d, bsn, supplied), NEW variables, variables = Variables(d, bsn, supplied)
  PROVE  \E o \in d.offers :
           /\ \A name \in DOMAIN o.parameters :
                name \in DOMAIN variables /\ variables[name] = o.parameters[name]
           /\ OwnSubject(d) =>
                /\ variables[d.subject_variable] = bsn
                /\ DOMAIN variables = DOMAIN o.parameters \cup {d.subject_variable}
  <1>1. DOMAIN supplied \subseteq DOMAIN d.parameters
    BY DEF Plannable
  <1>2. /\ DOMAIN variables = DOMAIN supplied \cup {d.subject_variable}
        /\ OwnSubject(d) => variables[d.subject_variable] = bsn
    BY <1>1 DEF Variables, OwnSubject
  <1>3. PICK o \in d.offers :
          /\ Cardinality(DOMAIN o.parameters) = Cardinality(DOMAIN supplied)
          /\ \A name \in DOMAIN o.parameters :
               /\ name \in DOMAIN d.parameters /\ name \in DOMAIN variables
               /\ variables[name] = o.parameters[name]
    BY DEF Plannable, PublishedOffer
  <1>4. ASSUME OwnSubject(d) PROVE DOMAIN o.parameters = DOMAIN supplied
    <2>1. DOMAIN o.parameters \subseteq DOMAIN supplied
      BY <1>2, <1>3, <1>4 DEF OwnSubject
    <2>2. IsFiniteSet(DOMAIN supplied)
      BY SuppliesAssumption
    <2> QED
      BY <1>3, <2>1, <2>2, FS_Subset
  <1> QED
    BY <1>2, <1>3, <1>4

(* What a source is asked is an offer of the release the adapter answers   *)
(* from, and nothing else; of a request that comes from a pod it is the    *)
(* offer that pod showed in every parameter that has one type in both      *)
(* releases (queryPlan, matchesPublishedOffer), whatever documents were    *)
(* promoted or rolled back in between.                                     *)
THEOREM OffersAreKept == IssuanceSpec => []AskedAsOffered
  <1>1. ASSUME IssuanceInv, session.plan # Absent PROVE AskedAsOffered
    <2> DEFINE d == Definition
               variables == session.plan.variables
    <2>1. /\ session.stage # "idle" /\ Plannable(d, session.bsn, session.supplied)
          /\ variables = Variables(d, session.bsn, session.supplied)
          /\ session.bsn \in Citizens /\ session.supplied \in Supplies
      BY <1>1 DEF IssuanceInv, SessionInv, Bound, AskedPlan, Plan
    <2>2. d \in Lawful
      BY <1>1, <2>1, BoundDefinition
    <2>3. DOMAIN session.supplied \subseteq DOMAIN d.parameters
      BY <2>1 DEF Plannable
    <2>4. /\ DOMAIN variables = DOMAIN session.supplied \cup {d.subject_variable}
          /\ \A name \in DOMAIN session.supplied :
               variables[name] = Parse[d.parameters[name].type][session.supplied[name]]
      BY <2>1 DEF Variables
    <2> HIDE DEF d, variables
    <2>5. \E o \in d.offers :
             /\ \A name \in DOMAIN o.parameters :
                  name \in DOMAIN variables /\ variables[name] = o.parameters[name]
             /\ OwnSubject(d) =>
                  /\ variables[d.subject_variable] = session.bsn
                  /\ DOMAIN variables = DOMAIN o.parameters \cup {d.subject_variable}
      <3>1. PICK bsn \in Citizens : bsn = session.bsn
        BY <2>1
      <3>2. PICK supplied \in Supplies : supplied = session.supplied
        BY <2>1
      <3>3. Plannable(d, bsn, supplied) /\ variables = Variables(d, bsn, supplied)
        BY <2>1, <3>1, <3>2
      <3>4. \E o \in d.offers :
               /\ \A name \in DOMAIN o.parameters :
                    name \in DOMAIN variables /\ variables[name] = o.parameters[name]
               /\ OwnSubject(d) =>
                    /\ variables[d.subject_variable] = bsn
                    /\ DOMAIN variables = DOMAIN o.parameters \cup {d.subject_variable}
        BY <2>2, <3>3, OfferMatched
      <3> QED
        BY <3>1, <3>4
    <2>6. ASSUME session.pod # 0
          PROVE  \E t \in Types(releases[session.pod]) : \E shown \in t.definition.offers :
                   /\ t.type = session.type
                   /\ DOMAIN variables = DOMAIN shown.parameters \cup {d.subject_variable}
                   /\ \A name \in DOMAIN shown.parameters :
                        /\ name \in DOMAIN d.parameters
                        /\ d.parameters[name].type = t.definition.parameters[name].type =>
                              variables[name] = shown.parameters[name]
      <3>1. session.pod \in DOMAIN releases
        BY <1>1, <2>6 DEF IssuanceInv, SessionInv, FromPod
      <3>2. PICK u \in Usecases(releases[session.pod]) : u.type = session.type /\ u.supplied = session.supplied
        BY <1>1, <2>6 DEF IssuanceInv, SessionInv, FromPod
      <3>3. PICK t \in Types(releases[session.pod]) :
              u \in {[id |-> o.id, type |-> t.type, supplied |-> o.parameters] : o \in t.definition.offers}
        BY <3>2 DEF Usecases
      <3>4. PICK o \in t.definition.offers : u.type = t.type /\ u.supplied = o.parameters
        BY <3>3
      <3>5. releases[session.pod] \in Candidates /\ Sound(releases[session.pod].document)
        BY <1>1, <3>1, SoundReleases
      <3>6. t.definition \in Lawful
        BY <3>5, LawfulTypes
      <3>7. \A name \in DOMAIN o.parameters : OfType(t.definition.parameters[name].type, o.parameters[name])
        BY <3>6 DEF Lawful, ValidAttestation, ValidOffers
      <3>8. ASSUME NEW name \in DOMAIN o.parameters,
                   d.parameters[name].type = t.definition.parameters[name].type
            PROVE  variables[name] = o.parameters[name]
        <4>1. Parse[d.parameters[name].type][o.parameters[name]] = o.parameters[name]
          BY <3>7, <3>8, ParseAssumption DEF OfType
        <4> QED
          BY <2>4, <3>2, <3>4, <4>1
      <3> QED
        BY <2>3, <2>4, <3>2, <3>4, <3>8
    <2> QED
      BY <2>5, <2>6 DEF AskedAsOffered, d, variables
  <1>2. IssuanceInv => AskedAsOffered
    BY <1>1 DEF AskedAsOffered
  <1> QED
    BY <1>2, IssuanceHolds, PTL

(* A credential fits the type metadata of the release its claims were      *)
(* mapped by; it fits the metadata it pins as well unless two releases     *)
(* describe its VCT differently, which no code prevents; and it is about   *)
(* the citizen of the PID (Project, newTypeMetadataPublication,            *)
(* materializeIssuanceRelease).                                            *)
THEOREM CredentialsFit == IssuanceSpec => []IssuedAsPublished
  <1>1. ASSUME IssuanceInv, session.stage = "issued" PROVE IssuedAsPublished
    <2> DEFINE d == Definition
    <2>1. d \in Lawful /\ ValidAttestation(d) /\ AnsweredVct = Vct(d)
      BY <1>1, BoundDefinition DEF Lawful
    <2>2. session.outcome = "credential"
      BY <1>1 DEF IssuanceInv, SessionInv, SignedMetadata, Recorded
    <2>3. /\ Plannable(d, session.bsn, session.supplied)
          /\ session.plan.variables = Variables(d, session.bsn, session.supplied)
          /\ session.bsn \in Citizens /\ session.supplied \in Supplies
      BY <1>1, <2>2 DEF IssuanceInv, SessionInv, Bound, AskedPlan, Plan
    <2>4. PICK answer \in Rows(d, session.plan.variables) :
            /\ Project(answer, d.result_pointer, d.claims).outcome = "credential"
            /\ session.claims = Project(answer, d.result_pointer, d.claims).claims
      BY <1>1, <2>2 DEF IssuanceInv, SessionInv, AnsweredClaims, Made
    <2>5. FitsSchema(session.claims, session.metadata)
            \/ session.metadata # TypeMetadata(d, Vct(d))
            \/ ~FitsSchema(session.claims, TypeMetadata(d, Vct(d)))
      OBVIOUS
    <2>6. session.metadata # TypeMetadata(d, Vct(d)) => Redefined(Vct(d))
      <3> DEFINE x == releases[session.release]
                 t == TypeOf(x, session.type)
      <3>1. session.release \in DOMAIN releases /\ session.type \in {y.type : y \in Types(x)}
        BY <1>1 DEF IssuanceInv, SessionInv, Bound
      <3>2. t \in Types(x) /\ t.definition = d /\ x \in Candidates /\ Sound(x.document)
        BY <1>1, <3>1, ChosenType, SoundReleases DEF Definition
      <3>3. t.vct = Vct(d) /\ t.integrity = TypeMetadata(d, Vct(d))
        BY <3>2, LawfulTypes
      <3>4. PICK i \in DOMAIN releases : \E u \in Types(releases[i]) :
              u.vct = Vct(d) /\ session.metadata = u.integrity
        BY <1>1, <2>1 DEF IssuanceInv, SessionInv, SignedMetadata
      <3>5. x \in ToSet(releases) /\ releases[i] \in ToSet(releases)
        BY <3>1, <3>4 DEF ToSet
      <3> HIDE DEF x, t, d
      <3> QED
        BY <3>2, <3>3, <3>4, <3>5 DEF Redefined
    <2> HIDE DEF d
    <2> DEFINE row == answer.rows[1]
               metadata == TypeMetadata(d, Vct(d))
    <2>7. /\ answer.at = "rows" /\ answer.rows # <<>>
          /\ session.claims = [name \in Filled(d.claims, row) |-> row[d.claims[name].pointer]]
          /\ \A name \in Filled(d.claims, row) :
               /\ d.claims[name].pointer \in DOMAIN row
               /\ Copies(row[d.claims[name].pointer], d.claims[name].datatype)
      BY <2>4, ProjectedRow
    <2>8. \A p \in DOMAIN row : row[p][3] = session.plan.variables[d.subject_variable]
      BY <2>1, <2>3, <2>4, <2>7, SourceAssumption
    <2>9. OwnSubject(d) => session.plan.variables[d.subject_variable] = session.bsn
      <3>1. DOMAIN session.supplied \subseteq DOMAIN d.parameters
        BY <2>3 DEF Plannable
      <3> QED
        BY <2>3, <3>1, SubjectFilled
    <2> HIDE DEF row, metadata
    <2>10. \A name \in DOMAIN session.claims :
             session.claims[name][3] = IF OwnSubject(d) THEN session.bsn
                                       ELSE session.plan.variables[d.subject_variable]
      BY <2>7, <2>8, <2>9
    <2>11. \A name \in DOMAIN d.claims : d.claims[name].datatype \in Datatypes \ {"number"}
      BY <2>1 DEF ValidAttestation, ValidClaims, ValidMapping
    <2>12. Filled(d.claims, row) \subseteq DOMAIN d.claims
      BY DEF Filled
    <2>13. \A name \in DOMAIN session.claims :
             Instance(session.claims[name], SchemaProperty(d.claims[name].datatype))
      BY <2>7, <2>11, <2>12, CopiesAreInstances
    <2>14. /\ metadata.required = {name \in DOMAIN d.claims : ~d.claims[name].optional}
           /\ metadata.properties
                = [name \in DOMAIN d.claims |-> SchemaProperty(d.claims[name].datatype)]
      BY DEF TypeMetadata, metadata
    <2>15. metadata.required \subseteq DOMAIN session.claims
      BY <2>7, <2>14 DEF Filled, LeftOut
    <2>16. FitsSchema(session.claims, metadata)
      BY <2>13, <2>14, <2>15 DEF FitsSchema
    <2> QED
      BY <2>5, <2>6, <2>10, <2>16 DEF IssuedAsPublished, metadata, d
  <1>2. IssuanceInv => IssuedAsPublished
    BY <1>1 DEF IssuedAsPublished
  <1> QED
    BY <1>2, IssuanceHolds, PTL
=============================================================================
