--------------------------- MODULE ReleaseRuntime ---------------------------
(***************************************************************************)
(* The data plane's view of the Source Registry: sourceReleaseRuntime of   *)
(* services/eudi-adapter.  Requests are answered from one in-memory        *)
(* snapshot of the active release.  A request that finds the snapshot due  *)
(* starts one refresh goroutine; it, and every request that comes in       *)
(* meanwhile, is answered from the previous snapshot, or waits for the     *)
(* refresh when there is none.                                             *)
(*                                                                         *)
(* A section under the mutex is one step, and so is a call of the          *)
(* registry; the registry may change between any two.  Times are kept as   *)
(* the number of ticks that are left, so that the model needs no clock:    *)
(* due for checkAfter, grace for the stale_until of every source.          *)
(***************************************************************************)
EXTENDS Naturals, FiniteSets, FiniteSetsExt

CONSTANTS
  Release,      \* release identifiers
  Buildable,    \* the releases buildReleaseRuntimeSnapshot accepts
  Source,       \* the sources of every release
  Request,      \* slots for concurrent HTTP requests
  Interval,     \* refreshInterval
  Retry,        \* activationReloadRetryInterval
  Grace,        \* the longest time to stale_until
  MaxSwitches,  \* bound: how often the active pointer changes
  MaxFaults,    \* bound: how often a registry call fails
  None

ASSUME SetAssumption == Buildable \subseteq Release /\ Source # {} /\ IsFiniteSet(Source)
ASSUME TimeAssumption ==
  /\ Interval \in Nat /\ Retry \in Nat /\ Grace \in Nat
  /\ MaxSwitches \in Nat /\ MaxFaults \in Nat

Lifecycle == [Source -> 0 .. Grace]

\* One complete snapshot: bindings, offers and Type Metadata of release id,
\* with the times of each binding and the earliest of them, which gates the
\* offers.  "of" and "epoch" are history: the release those times were read
\* for, and the last move of the pointer that the snapshot has seen.
Snapshot ==
  [id : Release, life : Lifecycle, offers : 0 .. Grace, of : Release, epoch : 0 .. MaxSwitches]

ASSUME NoneAssumption == None \notin Release \cup Snapshot

VARIABLES
  active,      \* registry: the pointer, None before the first promotion
  epoch,       \* registry: how often the pointer was moved
  grace,       \* registry: the lifecycle columns of every release
  faults,      \* how often the registry has failed
  snapshot,    \* sourceReleaseRuntime.snapshot
  due,         \* sourceReleaseRuntime.checkAfter
  refreshing,  \* sourceReleaseRuntime.refreshing
  lastErr,     \* sourceReleaseRuntime.lastErr # nil
  worker,      \* the refresh goroutine a request has started
  request

registry == <<active, epoch, grace>>
runtime == <<snapshot, due, refreshing, lastErr>>
vars == <<registry, faults, runtime, worker, request>>

-----------------------------------------------------------------------------
EarliestOf(life) == Min({life[s] : s \in Source})

SnapshotOf(id, life, of, e) ==
  [id |-> id, life |-> life, offers |-> EarliestOf(life), of |-> of, epoch |-> e]

\* refreshReleaseRuntimeLifecycle renews what is in memory; the mutant renews
\* it with the times of whatever release is active now.
RenewsAny(sn, id) == sn # None
Renews(sn, id) == sn # None /\ sn.id = id

RenewedSnapshot(sn, g) == SnapshotOf(sn.id, g.life, g.id, g.epoch)

Down(n) == IF n = 0 THEN 0 ELSE n - 1
Older(life) == [s \in Source |-> Down(life[s])]
OlderSnapshot(sn) ==
  IF sn = None THEN None ELSE [sn EXCEPT !.life = Older(sn.life), !.offers = Down(sn.offers)]

Resting == [pc |-> "none", id |-> None, life |-> [s \in Source |-> 0], epoch |-> 0, next |-> None]
Idle == [pc |-> "idle", woken |-> FALSE, release |-> None]

Init ==
  /\ active = None
  /\ epoch = 0
  /\ grace = [id \in Release |-> [s \in Source |-> Grace]]
  /\ faults = 0
  /\ snapshot = None
  /\ due = 0
  /\ refreshing = FALSE
  /\ lastErr = FALSE
  /\ worker = [r \in Request |-> Resting]
  /\ request = [r \in Request |-> Idle]

-----------------------------------------------------------------------------
(* The registry: a promotion or an operator moves the pointer, a promotion *)
(* of the active release renews its lifecycle.                             *)

Activate(id) ==
  /\ id # active
  /\ epoch < MaxSwitches
  /\ active' = id
  /\ epoch' = epoch + 1
  /\ UNCHANGED <<grace, faults, runtime, worker, request>>

Renew(life) ==
  /\ active # None
  /\ grace' = [grace EXCEPT ![active] = life]
  /\ UNCHANGED <<active, epoch, faults, runtime, worker, request>>

-----------------------------------------------------------------------------
(* A request: sourceReleaseRuntime.current.                                *)

ReleaseOf(sn) == IF sn = None THEN None ELSE sn.id
Answers(r, sn) ==
  request' = [request EXCEPT ![r] = [pc |-> "served", woken |-> FALSE, release |-> ReleaseOf(sn)]]
Refuses(r) == request' = [request EXCEPT ![r] = [Idle EXCEPT !.pc = "refused"]]
Waits(r) == request' = [request EXCEPT ![r] = [Idle EXCEPT !.pc = "waiting"]]
AnswersOrWaits(r) == IF snapshot # None THEN Answers(r, snapshot) ELSE Waits(r)

Fresh == snapshot # None /\ due > 0

\* Within the retry interval a failure is answered from memory, but only by a
\* runtime that never had a snapshot.
BacksOff == snapshot = None /\ lastErr /\ due > 0

\* A refresh that is running is joined; the mutant joins it only to wait.
JoinsWhenCold == refreshing /\ snapshot = None
Joins == refreshing

Enter(r) ==
  /\ request[r].pc = "idle"
  /\ IF Fresh THEN Answers(r, snapshot) /\ UNCHANGED <<refreshing, worker>>
     ELSE IF BacksOff THEN Refuses(r) /\ UNCHANGED <<refreshing, worker>>
     ELSE IF Joins THEN AnswersOrWaits(r) /\ UNCHANGED <<refreshing, worker>>
     ELSE /\ worker[r].pc = "none"
          /\ refreshing' = TRUE
          /\ worker' = [worker EXCEPT ![r] = [Resting EXCEPT !.pc = "state"]]
          /\ AnswersOrWaits(r)
  /\ UNCHANGED <<registry, faults, snapshot, due, lastErr>>

\* waitForInitialRefresh: the channel was closed, or the client went away.  By
\* the time a waiter has the mutex another refresh may have ended.  A nil
\* snapshot with a nil error would be served, and dereferenced.
Refused == snapshot = None /\ lastErr

Wake(r) ==
  /\ request[r].pc = "waiting"
  /\ request[r].woken
  /\ IF Refused THEN Refuses(r) ELSE Answers(r, snapshot)
  /\ UNCHANGED <<registry, faults, runtime, worker>>

Cancel(r) ==
  /\ request[r].pc = "waiting"
  /\ request' = [request EXCEPT ![r] = Idle]
  /\ UNCHANGED <<registry, faults, runtime, worker>>

\* A snapshot never changes once it is served, so a request need not carry its
\* times (the handlers gate on them): only the release it came from is kept.
Respond(r) ==
  /\ request[r].pc \in {"served", "refused"}
  /\ request' = [request EXCEPT ![r] = Idle]
  /\ UNCHANGED <<registry, faults, runtime, worker>>

-----------------------------------------------------------------------------
(* The refresh goroutine.                                                  *)

Step(w, rec) == worker' = [worker EXCEPT ![w] = rec]
Done(next) == [Resting EXCEPT !.pc = "finish", !.next = next]

\* A registry call returns an error, or its context is done.
Fault(w) ==
  /\ worker[w].pc \in {"state", "load"}
  /\ faults < MaxFaults
  /\ faults' = faults + 1
  /\ Step(w, Done(None))
  /\ UNCHANGED <<registry, runtime, request>>

\* ActiveReleaseState: pointer and lifecycle in one statement.
ReadState(w) ==
  /\ worker[w].pc = "state"
  /\ Step(w, IF active = None THEN Done(None)
             ELSE [pc |-> "compare", id |-> active, life |-> grace[active], epoch |-> epoch, next |-> None])
  /\ UNCHANGED <<registry, faults, runtime, request>>

Compare(w) ==
  LET g == worker[w] IN
  /\ g.pc = "compare"
  /\ Step(w, IF Renews(snapshot, g.id)
             THEN Done(RenewedSnapshot(snapshot, g))
             ELSE [Resting EXCEPT !.pc = "load", !.id = g.id])
  /\ UNCHANGED <<registry, faults, runtime, request>>

\* ActiveRelease reads the pointer again, and the release with it, in one
\* repeatable-read transaction.
ActiveReleaseRead == SnapshotOf(active, grace[active], active, epoch)

Load(w) ==
  LET g == worker[w] IN
  /\ g.pc = "load"
  /\ Step(w, IF active = g.id /\ active \in Buildable
             THEN Done(ActiveReleaseRead)
             ELSE Done(None))
  /\ UNCHANGED <<registry, faults, runtime, request>>

\* finishRefresh.  The mutants keep the flag, or forget the waiters, on the
\* error path.
KeepsFlag(next) == next = None
FlagAfter(next) == FALSE
ErrorAfter(next) == next = None
WakesOnSuccess(next) == next # None
WakesWaiters(next) == TRUE

Finish(w) ==
  LET next == worker[w].next IN
  /\ worker[w].pc = "finish"
  /\ snapshot' = IF next # None THEN next ELSE snapshot
  /\ lastErr' = ErrorAfter(next)
  /\ due' = IF next = None THEN Retry ELSE Interval
  /\ refreshing' = FlagAfter(next)
  /\ request' = [r \in Request |->
       IF request[r].pc = "waiting" /\ WakesWaiters(next) THEN [request[r] EXCEPT !.woken = TRUE]
       ELSE request[r]]
  /\ Step(w, Resting)
  /\ UNCHANGED <<registry, faults>>

-----------------------------------------------------------------------------
Tick ==
  /\ due' = Down(due)
  /\ grace' = [id \in Release |-> Older(grace[id])]
  /\ snapshot' = OlderSnapshot(snapshot)
  /\ worker' = [w \in Request |->
       [worker[w] EXCEPT !.life = Older(worker[w].life), !.next = OlderSnapshot(worker[w].next)]]
  /\ UNCHANGED <<active, epoch, faults, refreshing, lastErr, request>>

Serve(r) == Wake(r) \/ Respond(r)
Refresh(w) == ReadState(w) \/ Compare(w) \/ Load(w) \/ Finish(w)

Next ==
  \/ \E id \in Release : Activate(id)
  \/ \E life \in Lifecycle : Renew(life)
  \/ \E r \in Request : Enter(r) \/ Cancel(r) \/ Serve(r) \/ Refresh(r) \/ Fault(r)
  \/ Tick

Spec == Init /\ [][Next]_vars

\* Handlers and goroutines go on, every registry call ends within its timeout,
\* and requests keep coming: nothing else makes the runtime look.
FairSpec ==
  /\ Spec
  /\ WF_vars(Tick)
  /\ \A r \in Request : WF_vars(Serve(r)) /\ WF_vars(Refresh(r)) /\ WF_vars(Enter(r))

-----------------------------------------------------------------------------
\* The type invariant.  A request that is answered has a release: the handlers
\* dereference the snapshot when there is no error, and a waiter relies on
\* finishRefresh to leave one or the other.
TypeOK ==
  /\ active \in Release \cup {None}
  /\ epoch \in 0 .. MaxSwitches
  /\ grace \in [Release -> Lifecycle]
  /\ faults \in 0 .. MaxFaults
  /\ snapshot \in Snapshot \cup {None}
  /\ due \in Nat
  /\ refreshing \in BOOLEAN
  /\ lastErr \in BOOLEAN
  /\ worker \in [Request -> [pc : {"none", "state", "compare", "load", "finish"},
                             id : Release \cup {None}, life : Lifecycle, epoch : 0 .. MaxSwitches,
                             next : Snapshot \cup {None}]]
  /\ request \in [Request -> [pc : {"idle", "waiting", "refused"}, woken : BOOLEAN, release : {None}]
                              \cup [pc : {"served"}, woken : {FALSE}, release : Release]]

\* What is served is one release: the times of its bindings are those of the
\* release the bindings were built from, never of the one active meanwhile.
SnapshotWhole == snapshot # None => snapshot.of = snapshot.id

\* Snapshots follow the pointer in its own order: a slow refresh never puts an
\* older state of the registry back over a newer one.
SnapshotsAdvance ==
  [][snapshot # None => snapshot' # None /\ snapshot'.epoch >= snapshot.epoch]_vars

\* A request that waits for the first refresh is answered.
WaitersReturn == \A r \in Request : request[r].pc = "waiting" ~> request[r].pc # "waiting"

\* When the pointer rests, the runtime comes to serve the release it names,
\* through every failure on the way, if that release can be built at all.
EventuallyServesActive ==
  \A id \in Buildable : <>[](active = id) => <>[](snapshot # None /\ snapshot.id = id)
=============================================================================
