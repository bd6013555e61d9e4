-------------------------- MODULE SourceOnboarding --------------------------
(***************************************************************************)
(* The control plane of the EUDI sources: the reconciler                   *)
(* (services/eudi-adapter reconcile-sources, on top of the use case in     *)
(* services/source-registry/onboarding) and the PostgreSQL Source Registry *)
(* it writes (services/source-registry/postgresregistry).                  *)
(*                                                                         *)
(* One cycle of a reconciler loads the certificates of every configured    *)
(* source, takes one snapshot of the FSC contracts, fetches and checks the *)
(* metadata of each source, stores a candidate and a status, and, with     *)
(* --auto-promote, composes the candidates into a release and activates    *)
(* it.  Every database statement or transaction is one step here, so a     *)
(* crash, an operator or a second reconciler can come in between any two.  *)
(*                                                                         *)
(* A candidate is abstracted to the document it was compiled from, the     *)
(* time of the check that wrote it and whether this adapter can decode its *)
(* snapshot: expires_at, fresh_until and stale_until are functions of the  *)
(* first two.                                                              *)
(***************************************************************************)
EXTENDS Naturals, FiniteSets

CONSTANTS
  Source,       \* source identifiers
  MetadataFsc,  \* sources whose metadata leg is an FSC service
  DataFsc,      \* sources whose data leg is an FSC service
  Catalog,      \* the sets of sources the operator may configure
  Reconciler,   \* reconciler processes
  Document,     \* source metadata documents
  Version,      \* Version[d]: the numeric version of document d
  Expiry,       \* Expiry[d]: expires_at of document d
  Freshness,    \* MaximumFreshness of the cache policy
  StaleGrace,   \* StaleGrace of the cache policy
  MinValidity,  \* MinimumValidity of the cache policy
  Faults,       \* the kinds of failure a run lets happen
  Legacy,       \* documents an adapter with an older snapshot schema may have left
  MaxTime,      \* bound on the clock
  NoCandidate, NoRelease, NoDigest

FaultKinds == {"certificates", "contracts", "metadata grant", "registry",
               "fetch", "invalid", "status", "crash", "operator"}

ASSUME SourceAssumption ==
  /\ Source # {}
  /\ MetadataFsc \cup DataFsc \subseteq Source
  /\ Catalog \subseteq (SUBSET Source) \ {{}}
ASSUME DocumentAssumption == Version \in [Document -> Nat] /\ Expiry \in [Document -> Nat]
ASSUME PolicyAssumption == Freshness \in Nat /\ StaleGrace \in Nat /\ MinValidity \in Nat /\ MaxTime \in Nat
ASSUME FaultAssumption == Faults \subseteq FaultKinds /\ Legacy \subseteq Document
Candidate == [doc : Document, checked : Nat, loadable : BOOLEAN]
ASSUME SentinelAssumption ==
  /\ NoCandidate \notin Candidate
  /\ NoDigest \notin Candidate
  /\ \A S \in Catalog : NoRelease \notin [S -> Candidate]

VARIABLES
  clock,      \* wall clock
  candidate,  \* table source_candidates
  status,     \* table source_statuses
  stored,     \* tables source_releases and source_release_sources: id -> lifecycle
  active,     \* table active_source_release
  pin,        \* history: the release an operator activated, until another one is
  cycle       \* the local variables of each reconciler; history: lost

vars == <<clock, candidate, status, stored, active, pin, cycle>>

-----------------------------------------------------------------------------
(* Candidates, releases and their lifecycle.                               *)

CandidateOf(d, t, l) == [doc |-> d, checked |-> t, loadable |-> l]

Least(a, b) == IF a <= b THEN a ELSE b

FreshUntil(d, t) == Least(t + Freshness, Expiry[d])

\* activationFromValidatedSource bounds the sum; RefreshCandidate adds the
\* grace to the bounded freshness.  LifecyclesAgree says it is the same.
StaleUntil(d, t) == Least(t + Freshness + StaleGrace, Expiry[d])
RefreshedStaleUntil(d, t) == Least(FreshUntil(d, t) + StaleGrace, Expiry[d])

LongEnough(d, t) == Expiry[d] >= t + MinValidity

\* deployment_digest: the hash over the snapshot document.  The snapshot
\* carries checked_at, fresh_until and stale_until next to the source
\* material, so the digest distinguishes what the candidate distinguishes.
DeploymentDigest(c) == c

Digest == Candidate

\* release_id: the hash over the sources' snapshots and deployment digests.
ReleaseId(S, cands) == [s \in S |-> DeploymentDigest(cands[s])]

IsRelease(id) == DOMAIN id \in Catalog /\ id \in [DOMAIN id -> Digest]

\* The lifecycle columns of a release, kept apart from its identity.
Lifecycle(S, cands) == [s \in S |-> cands[s].checked]

RolloutOfNewSource(s, c) == active = NoRelease \/ s \notin DOMAIN active  \* mutant: digest not compared
RolloutRequired(s, c) ==
  \/ active = NoRelease
  \/ s \notin DOMAIN active
  \/ active[s] # DeploymentDigest(c)

Usable(c, t) == c # NoCandidate /\ t <= StaleUntil(c.doc, c.checked)

\* CurrentCandidate: a snapshot of an older schema counts as no candidate.
Current(s) ==
  IF candidate[s] = NoCandidate \/ ~candidate[s].loadable THEN NoCandidate ELSE candidate[s]

\* The version gate of Activate reads the row, decodable or not.  The mutant
\* compares bytes only.
MayReplaceVersion(c, d) == c = NoCandidate \/ Version[c.doc] # Version[d] \/ c.doc = d
MayReplace(c, d) ==
  \/ c = NoCandidate
  \/ Version[c.doc] < Version[d]
  \/ Version[c.doc] = Version[d] /\ c.doc = d

-----------------------------------------------------------------------------
(* Statuses.                                                               *)

State == {"none", "pending", "active", "stale", "blocked", "rollout_required"}

StatusOf(state, digest, dataAuth) == [state |-> state, digest |-> digest, dataAuth |-> dataAuth]

\* registryStatusWriter.Write copies one of the two authentication flags.
WriterStatus(state, digest) == StatusOf(state, digest, FALSE)

Blocked == [status |-> WriterStatus("blocked", NoDigest), ok |-> FALSE]

\* unavailableWithCandidate
Unavailable(c, t) ==
  IF Usable(c, t) THEN [status |-> WriterStatus("stale", DeploymentDigest(c)), ok |-> FALSE]
  ELSE Blocked

\* activated: the digest is that of the activation just written.
Settled(s, c) ==
  [status |-> WriterStatus(IF RolloutRequired(s, c) THEN "rollout_required" ELSE "active",
                           DeploymentDigest(c)),
   ok |-> TRUE]

\* PutStatus, an upsert.
PutStatus(s, v) == status' = [status EXCEPT ![s] = v.status]

MayFail(kind) == kind \in Faults

AtRest ==
  [pc |-> "idle", at |-> 0, catalog |-> {}, todo |-> {}, ready |-> {}, grants |-> FALSE,
   failed |-> FALSE, lost |-> {}, focus |-> CHOOSE s \in Source : TRUE, seen |-> NoCandidate,
   prep |-> NoCandidate, got |-> [s \in Source |-> NoCandidate], verdict |-> Blocked]

-----------------------------------------------------------------------------
Init ==
  /\ clock = 0
  /\ \/ /\ candidate = [s \in Source |-> NoCandidate]
        /\ stored = [i \in {} |-> {}]
        /\ active = NoRelease
        /\ status = [s \in Source |-> StatusOf("none", NoDigest, FALSE)]
     \/ \E S \in Catalog, d \in Legacy :
          LET old == CandidateOf(d, 0, FALSE)
              id  == [s \in S |-> DeploymentDigest(old)]
          IN  /\ candidate = [s \in Source |-> IF s \in S THEN old ELSE NoCandidate]
              /\ stored = [i \in {id} |-> [s \in S |-> 0]]
              /\ active = id
              /\ status = [s \in Source |->
                   IF s \in S THEN StatusOf("active", DeploymentDigest(old), s \in DataFsc)
                   ELSE StatusOf("none", NoDigest, FALSE)]
  /\ pin = NoRelease
  /\ cycle = [r \in Reconciler |-> AtRest]

-----------------------------------------------------------------------------
(* One cycle.                                                              *)

Becomes(r, c) == cycle' = [cycle EXCEPT ![r] = c]

Begin(r, S) ==
  /\ cycle[r].pc = "idle"
  /\ clock < MaxTime
  /\ clock' = clock + 1
  /\ Becomes(r, [AtRest EXCEPT !.pc = "prepare", !.at = clock + 1, !.catalog = S, !.todo = S])
  /\ UNCHANGED <<candidate, status, stored, active, pin>>

\* History: the sources of which the cycle lost the last status write.
Lost(c, s, written) == IF written THEN c.lost \ {s} ELSE c.lost \cup {s}

\* Certificates.Load and the pending status, or blocked.  A failed write of
\* the pending status is reported, but the source is reconciled all the same.
Prepare(r, s) ==
  LET c == cycle[r] IN
  /\ c.pc = "prepare"
  /\ s \in c.todo
  /\ \/ /\ PutStatus(s, [status |-> WriterStatus("pending", NoDigest)])
        /\ Becomes(r, [c EXCEPT !.todo = c.todo \ {s}, !.ready = c.ready \cup {s}])
     \/ /\ MayFail("status")
        /\ UNCHANGED status
        /\ Becomes(r, [c EXCEPT !.todo = c.todo \ {s}, !.ready = c.ready \cup {s}, !.failed = TRUE,
                                !.lost = Lost(c, s, FALSE)])
     \/ /\ MayFail("certificates")
        /\ \E written \in BOOLEAN :
             /\ IF written THEN PutStatus(s, Blocked) ELSE MayFail("status") /\ UNCHANGED status
             /\ Becomes(r, [c EXCEPT !.todo = c.todo \ {s}, !.failed = TRUE,
                                     !.lost = Lost(c, s, written)])
  /\ UNCHANGED <<clock, candidate, stored, active, pin>>

UsesFSC == MetadataFsc \cup DataFsc

\* One contract snapshot for the cycle, when a ready source uses FSC.
Contracts(r) ==
  LET c == cycle[r] IN
  /\ c.pc = "prepare"
  /\ c.todo = {}
  /\ \E ok \in BOOLEAN :
       /\ ~ok => MayFail("contracts") /\ c.ready \cap UsesFSC # {}
       /\ Becomes(r, [c EXCEPT !.pc = "sources", !.grants = ok])
  /\ UNCHANGED <<clock, candidate, status, stored, active, pin>>

\* The sources without FSC are reconciled after the others were reported.
Takes(r, s) ==
  LET c == cycle[r] IN
  /\ c.pc = "sources"
  /\ s \in c.ready
  /\ c.grants \/ s \in UsesFSC \/ c.ready \cap UsesFSC = {}

HasGrants(r, s) == cycle[r].grants \/ s \notin UsesFSC

GivesUp(r, s, v) == Becomes(r, [cycle[r] EXCEPT !.pc = "report", !.focus = s, !.verdict = v])

\* The returns of reconcileSource before it asks for a write, and unavailable
\* for a source that had no contract snapshot.
FetchFails(r, s) ==
  LET was == Unavailable(Current(s), cycle[r].at) IN
  /\ Takes(r, s)
  /\ \/ MayFail("registry") /\ GivesUp(r, s, Blocked)
     \/ ~HasGrants(r, s) /\ GivesUp(r, s, was)
     \/ HasGrants(r, s) /\ MayFail("metadata grant") /\ s \in MetadataFsc /\ GivesUp(r, s, Blocked)
     \/ HasGrants(r, s) /\ (MayFail("fetch") \/ MayFail("invalid")) /\ GivesUp(r, s, was)
     \/ /\ HasGrants(r, s)
        /\ \E d \in Document : ~LongEnough(d, cycle[r].at)
        /\ GivesUp(r, s, was)
  /\ UNCHANGED <<clock, candidate, status, stored, active, pin>>

\* A 200 with a document that compiles: Activate is next.
FetchDocument(r, s, d) ==
  LET c == cycle[r] IN
  /\ Takes(r, s)
  /\ HasGrants(r, s)
  /\ LongEnough(d, c.at)
  /\ Becomes(r, [c EXCEPT !.pc = "activate", !.focus = s, !.seen = Current(s),
                          !.prep = CandidateOf(d, c.at, TRUE)])
  /\ UNCHANGED <<clock, candidate, status, stored, active, pin>>

\* A 304 for the ETag of the candidate: RefreshCandidate is next.
FetchNotModified(r, s) ==
  /\ Takes(r, s)
  /\ HasGrants(r, s)
  /\ Current(s) # NoCandidate
  /\ Becomes(r, [cycle[r] EXCEPT !.pc = "refresh", !.focus = s, !.seen = Current(s)])
  /\ UNCHANGED <<clock, candidate, status, stored, active, pin>>

\* Activate reads the stored row and refuses a rollback, or other bytes under
\* the version it has.
ActivateCheck(r) ==
  LET c == cycle[r] IN
  /\ c.pc = "activate"
  /\ IF MayReplace(candidate[c.focus], c.prep.doc)
     THEN Becomes(r, [c EXCEPT !.pc = "put activation"])
     ELSE GivesUp(r, c.focus, Blocked)
  /\ UNCHANGED <<clock, candidate, status, stored, active, pin>>

\* RefreshCandidate reads the stored row again and renews its lifecycle.
RefreshCheck(r) ==
  LET c == cycle[r]
      row == Current(c.focus)
  IN
  /\ c.pc = "refresh"
  /\ IF row # NoCandidate /\ LongEnough(row.doc, c.at)
     THEN Becomes(r, [c EXCEPT !.pc = "put refresh", !.prep = CandidateOf(row.doc, c.at, TRUE)])
     ELSE GivesUp(r, c.focus, Unavailable(c.seen, c.at))
  /\ UNCHANGED <<clock, candidate, status, stored, active, pin>>

PutCandidate(r) ==
  LET c == cycle[r] IN
  /\ c.pc \in {"put activation", "put refresh"}
  /\ candidate' = [candidate EXCEPT ![c.focus] = c.prep]
  /\ Becomes(r, [c EXCEPT !.pc = "settle"])
  /\ UNCHANGED <<clock, status, stored, active, pin>>

\* An error of the registry before or at the write of the candidate.
PutFails(r) ==
  LET c == cycle[r] IN
  /\ MayFail("registry")
  /\ \/ c.pc \in {"activate", "put activation"} /\ GivesUp(r, c.focus, Blocked)
     \/ c.pc \in {"refresh", "put refresh"} /\ GivesUp(r, c.focus, Unavailable(c.seen, c.at))
  /\ UNCHANGED <<clock, candidate, status, stored, active, pin>>

\* activated compares with the release that is active now.
Settle(r) ==
  LET c == cycle[r] IN
  /\ c.pc = "settle"
  /\ \/ GivesUp(r, c.focus, Settled(c.focus, c.prep))
     \/ MayFail("registry") /\ GivesUp(r, c.focus, Blocked)
  /\ UNCHANGED <<clock, candidate, status, stored, active, pin>>

\* The loop goes on with the next source; the mutant tries a failed one again.
RetryFailed(c) == IF c.verdict.ok THEN c.ready \ {c.focus} ELSE c.ready
Remaining(c) == c.ready \ {c.focus}

Report(r) ==
  LET c == cycle[r] IN
  /\ c.pc = "report"
  /\ \E written \in BOOLEAN :
       /\ IF written THEN PutStatus(c.focus, c.verdict) ELSE MayFail("status") /\ UNCHANGED status
       /\ Becomes(r, [c EXCEPT !.pc = "sources", !.ready = Remaining(c),
                               !.failed = c.failed \/ ~c.verdict.ok \/ ~written,
                               !.lost = Lost(c, c.focus, written)])
  /\ UNCHANGED <<clock, candidate, stored, active, pin>>

-----------------------------------------------------------------------------
(* Promotion.                                                              *)

\* Any error of a source ends the cycle: nothing is promoted.
MayPromoteRest(c) == \E s \in c.catalog : candidate[s] # NoCandidate  \* mutant
MayPromoteUnwritten(c) == ~c.failed \/ c.lost # {}  \* mutant: a lost status write is tolerated
MayPromote(c) == ~c.failed

Conclude(r) ==
  LET c == cycle[r] IN
  /\ c.pc = "sources"
  /\ c.ready = {}
  /\ Becomes(r, IF MayPromote(c) THEN [c EXCEPT !.pc = "require", !.todo = c.catalog] ELSE AtRest)
  /\ UNCHANGED <<clock, candidate, status, stored, active, pin>>

\* RequireLoadableCandidates skips a source without a candidate.
Require(r, s) ==
  LET c == cycle[r] IN
  /\ c.pc = "require"
  /\ s \in c.todo
  /\ Becomes(r, IF candidate[s] = NoCandidate \/ candidate[s].loadable
                THEN [c EXCEPT !.todo = c.todo \ {s}] ELSE AtRest)
  /\ UNCHANGED <<clock, candidate, status, stored, active, pin>>

\* PromoteCompleteSourceSet is given a time of its own.
StartGather(r) ==
  LET c == cycle[r] IN
  /\ c.pc = "require"
  /\ c.todo = {}
  /\ Becomes(r, [c EXCEPT !.pc = "gather", !.at = clock, !.todo = c.catalog])
  /\ UNCHANGED <<clock, candidate, status, stored, active, pin>>

Gathered(c, s) ==
  [c EXCEPT !.todo = c.todo \ {s}, !.got = [c.got EXCEPT ![s] = candidate[s]]]

Gather(r, s) ==
  LET c == cycle[r] IN
  /\ c.pc = "gather"
  /\ s \in c.todo
  /\ Becomes(r, IF Usable(candidate[s], c.at) THEN Gathered(c, s) ELSE AtRest)
  /\ UNCHANGED <<clock, candidate, status, stored, active, pin>>

\* The transaction of Store.Promote.  A release that was stored before gets
\* its lifecycle columns refreshed; it becomes active only when nothing was.
ActivatesAlways(id) == TRUE  \* mutant: an unconditional upsert of the pointer
Activates(id) == id \notin DOMAIN stored \/ active \in {NoRelease, id}

Promote(r) ==
  LET c == cycle[r]
      id == ReleaseId(c.catalog, c.got)
  IN
  /\ c.pc = "gather"
  /\ c.todo = {}
  /\ stored' = [i \in DOMAIN stored \cup {id} |-> IF i = id THEN Lifecycle(c.catalog, c.got) ELSE stored[i]]
  /\ active' = IF Activates(id) THEN id ELSE active
  /\ pin' = IF active' = active THEN pin ELSE NoRelease
  /\ Becomes(r, IF Activates(id) THEN [c EXCEPT !.pc = "mark", !.todo = c.catalog] ELSE AtRest)
  /\ UNCHANGED <<clock, candidate, status>>

Mark(r, s) ==
  LET c == cycle[r] IN
  /\ c.pc = "mark"
  /\ s \in c.todo
  /\ \/ /\ PutStatus(s, [status |-> StatusOf("active", DeploymentDigest(c.got[s]), s \in DataFsc)])
        /\ Becomes(r, [c EXCEPT !.todo = c.todo \ {s}])
     \/ /\ MayFail("status")
        /\ UNCHANGED status
        /\ Becomes(r, AtRest)
  /\ UNCHANGED <<clock, candidate, stored, active, pin>>

Finish(r) ==
  /\ cycle[r].pc = "mark"
  /\ cycle[r].todo = {}
  /\ Becomes(r, AtRest)
  /\ UNCHANGED <<clock, candidate, status, stored, active, pin>>

\* The process dies, or the registry answers a promotion step with an error.
Crash(r) ==
  /\ cycle[r].pc # "idle"
  /\ MayFail("crash") \/ (MayFail("registry") /\ cycle[r].pc \in {"require", "gather"})
  /\ Becomes(r, AtRest)
  /\ UNCHANGED <<clock, candidate, status, stored, active, pin>>

-----------------------------------------------------------------------------
(* The operator's activate-release, and time.                              *)

OperatorActivate(id) ==
  /\ MayFail("operator")
  /\ id \in DOMAIN stored
  /\ id # active
  /\ \A s \in DOMAIN id : id[s].loadable
  /\ active' = id
  /\ pin' = id
  /\ UNCHANGED <<clock, candidate, status, stored, cycle>>

Tick ==
  /\ clock < MaxTime
  /\ clock' = clock + 1
  /\ UNCHANGED <<candidate, status, stored, active, pin, cycle>>

Reconcile(r) ==
  \/ \E s \in cycle[r].todo : Prepare(r, s) \/ Require(r, s) \/ Gather(r, s) \/ Mark(r, s)
  \/ \E s \in cycle[r].ready :
       \/ FetchFails(r, s)
       \/ FetchNotModified(r, s)
       \/ \E d \in Document : FetchDocument(r, s, d)
  \/ Contracts(r) \/ ActivateCheck(r) \/ RefreshCheck(r) \/ PutCandidate(r) \/ PutFails(r)
  \/ Settle(r) \/ Report(r) \/ Conclude(r) \/ StartGather(r) \/ Promote(r) \/ Finish(r)

Next ==
  \/ \E r \in Reconciler : Reconcile(r) \/ Crash(r) \/ \E S \in Catalog : Begin(r, S)
  \/ \E id \in DOMAIN stored : OperatorActivate(id)
  \/ Tick

Spec == Init /\ [][Next]_vars

\* A started cycle goes on: its calls return, with a result or an error.
FairSpec == Spec /\ \A r \in Reconciler : WF_vars(Reconcile(r))

-----------------------------------------------------------------------------
(* Properties.                                                             *)

Program == {"idle", "prepare", "sources", "activate", "refresh", "put activation",
            "put refresh", "settle", "report", "require", "gather", "mark"}

Status == [state : State, digest : Digest \cup {NoDigest}, dataAuth : BOOLEAN]

Verdict == [status : Status, ok : BOOLEAN]

Cycle ==
  [pc : Program, at : Nat, catalog : SUBSET Source, todo : SUBSET Source, ready : SUBSET Source,
   grants : BOOLEAN, failed : BOOLEAN, lost : SUBSET Source, focus : Source, seen : Candidate \cup {NoCandidate},
   prep : Candidate \cup {NoCandidate}, got : [Source -> Candidate \cup {NoCandidate}],
   verdict : Verdict]

\* The type invariant: the shape of every table row and of every reconciler's
\* local variables.
TypeOK ==
  /\ clock \in Nat
  /\ candidate \in [Source -> Candidate \cup {NoCandidate}]
  /\ status \in [Source -> Status]
  /\ \A id \in DOMAIN stored : IsRelease(id) /\ stored[id] \in [DOMAIN id -> Nat]
  /\ active = NoRelease \/ IsRelease(active)
  /\ pin = NoRelease \/ IsRelease(pin)
  /\ cycle \in [Reconciler -> Cycle]

\* A release is stored and activated whole: the active pointer names a stored
\* release, and a stored release holds every source of a configured catalog
\* (PromoteCompleteSourceSet: never silently drop a configured source).
ReleaseWhole ==
  /\ active = NoRelease <=> DOMAIN stored = {}
  /\ active # NoRelease => active \in DOMAIN stored
  /\ \A id \in DOMAIN stored : DOMAIN id \in Catalog

\* The documents the registry holds of a source: in releases and as candidate.
Holds(s, d) ==
  \/ candidate[s] # NoCandidate /\ candidate[s].doc = d
  \/ \E id \in DOMAIN stored : s \in DOMAIN id /\ id[s].doc = d

\* One metadata version of a source stands for the same bytes wherever it is
\* stored, in whichever releases and across crashes, operator rollbacks and a
\* change of snapshot schema (registryActivationBackend.Activate).
VersionBytesImmutable ==
  \A s \in Source, d, e \in Document :
    Holds(s, d) /\ Holds(s, e) /\ Version[d] = Version[e] => d = e

\* A step of a reconciler that changes the active release.
ReconcilerActivates == active' # active /\ pin' = NoRelease

\* Whatever an operator rolled back to, a reconciler never takes a source of
\* the active release to a lower metadata version.
ReconcilerNeverDowngrades ==
  [][ReconcilerActivates /\ active # NoRelease =>
       \A s \in DOMAIN active \cap DOMAIN active' :
         Version[active[s].doc] <= Version[active'[s].doc]]_vars

\* The candidates of one release were all written by one clean cycle: a source
\* that failed, or was skipped by a crash, never travels into a release with
\* what an earlier cycle left of it.
OneCycleReleases ==
  \A id \in DOMAIN stored : \A s, t \in DOMAIN id : id[s].checked = id[t].checked

\* While no operator has chosen the release, a source reported active is in
\* the active release with the digest its status reports: through failed
\* status writes, crashes between promotion and marking, and new cycles.
StatusActiveHonest ==
  \A s \in Source :
    status[s].state = "active" /\ pin = NoRelease /\ active # NoRelease /\ s \in DOMAIN active
      => status[s].digest = active[s]

\* A release an operator chose is replaced by a reconciler only with a release
\* that was not stored before: composing a stored one again, by an overlapping
\* reconciler that gathered the same candidates, does not undo the rollback
\* (the conditional upsert of Store.Promote).
RollbackSurvivesReplay ==
  [][ReconcilerActivates /\ pin # NoRelease => active' \notin DOMAIN stored]_vars

\* What a cycle leaves in the status table, whatever crashes and lost writes
\* left there before it.  Once every source was reported none of the catalog
\* is pending, but for one whose last status write this cycle lost; a cycle
\* that goes on to promote has every source reported with the candidate that
\* may travel, and as a rollout exactly when the release says so.
SettledByCycle ==
  \A r \in Reconciler : LET c == cycle[r] IN
    /\ c.pc = "sources" /\ c.ready = {} =>
         \A s \in c.catalog \ c.lost : status[s].state # "pending"
    /\ c.pc \in {"require", "gather"} => \A s \in c.catalog :
         /\ status[s].state \in {"active", "rollout_required"}
         /\ status[s].digest = DeploymentDigest(candidate[s])
         /\ pin = NoRelease =>
              (status[s].state = "rollout_required" <=> RolloutRequired(s, candidate[s]))
    /\ c.pc = "mark" => \A s \in c.catalog :
         /\ status[s].digest = DeploymentDigest(c.got[s])
         /\ s \notin c.todo => status[s].state = "active"

\* A cycle that was started comes to an end.
CycleEnds == \A r \in Reconciler : cycle[r].pc # "idle" ~> cycle[r].pc = "idle"

=============================================================================
