----------------------- MODULE SourceOnboardingProofs -----------------------
(***************************************************************************)
(* Theorems about SourceOnboarding, for every set of sources, documents,   *)
(* reconcilers, policy and kinds of failure.                               *)
(***************************************************************************)
EXTENDS SourceOnboarding, TLAPS

-----------------------------------------------------------------------------
(* The lifecycle of a candidate.                                           *)

\* The two formulas the code uses for stale_until, one when a document is
\* activated and one when it is refreshed, give the same time.
THEOREM LifecyclesAgree ==
  ASSUME NEW d \in Document, NEW t \in Nat
  PROVE  RefreshedStaleUntil(d, t) = StaleUntil(d, t)
  BY DocumentAssumption, PolicyAssumption DEF RefreshedStaleUntil, StaleUntil, FreshUntil, Least

\* fresh_until <= stale_until <= expires_at: what SourceCandidate.Validate and
\* the CHECK of the tables demand of every row.
THEOREM LifecycleOrdered ==
  ASSUME NEW d \in Document, NEW t \in Nat
  PROVE  FreshUntil(d, t) <= StaleUntil(d, t) /\ StaleUntil(d, t) <= Expiry[d]
  BY DocumentAssumption, PolicyAssumption DEF StaleUntil, FreshUntil, Least

-----------------------------------------------------------------------------
(* Type correctness.  TypeOK is not inductive: what Promote stores is a    *)
(* release only because the sources gathered so far have candidates, and   *)
(* what PutCandidate stores is a candidate only at the points of the       *)
(* program that have prepared one.                                         *)

CycleOK(c) ==
  /\ c.pc # "idle" => c.catalog \in Catalog
  /\ c.todo \subseteq c.catalog
  /\ c.pc \in {"activate", "put activation", "put refresh", "settle"} => c.prep \in Candidate
  /\ c.pc = "gather" => \A s \in c.catalog \ c.todo : c.got[s] \in Candidate
  /\ c.pc = "mark" => \A s \in c.catalog : c.got[s] \in Candidate

CyclesOK == cycle \in [Reconciler -> Cycle] /\ \A r \in Reconciler : CycleOK(cycle[r])

TypeInv == TypeOK /\ CyclesOK

LEMMA AtRestOK == AtRest \in Cycle /\ CycleOK(AtRest)
  <1>1. (CHOOSE s \in Source : TRUE) \in Source
    BY SourceAssumption
  <1>2. Blocked \in Verdict
    BY DEF Blocked, Verdict, Status, State, WriterStatus, StatusOf
  <1> QED
    BY <1>1, <1>2 DEF AtRest, Cycle, CycleOK, Program

\* A new record for one reconciler keeps the invariant of all.
LEMMA CycleUpdate ==
  ASSUME CyclesOK, NEW r \in Reconciler, NEW c \in Cycle, CycleOK(c),
         Becomes(r, c)
  PROVE  CyclesOK'
  BY DEF Becomes, CyclesOK

LEMMA VerdictTypes ==
  ASSUME TypeOK, NEW s \in Source, NEW t \in Nat
  PROVE  /\ Blocked \in Verdict
         /\ Current(s) \in Candidate \cup {NoCandidate}
         /\ \A c \in Candidate \cup {NoCandidate} : Unavailable(c, t) \in Verdict
         /\ \A c \in Candidate : Settled(s, c) \in Verdict
  BY DEF Blocked, Verdict, Status, State, WriterStatus, StatusOf, Current, Unavailable, Settled,
         Usable, DeploymentDigest, Digest, TypeOK

LEMMA StatusWrite ==
  ASSUME TypeOK, NEW s \in Source, NEW v \in Verdict, PutStatus(s, v)
  PROVE  status' \in [Source -> Status]
  BY DEF TypeOK, PutStatus, Verdict

LEMMA TypeInit == Init => TypeInv
  <1> SUFFICES ASSUME Init PROVE TypeInv
    OBVIOUS
  <1>1. CyclesOK
    BY AtRestOK DEF Init, CyclesOK
  <1>2. clock \in Nat /\ (pin = NoRelease \/ IsRelease(pin))
    BY DEF Init
  <1> DEFINE Tables == /\ candidate \in [Source -> Candidate \cup {NoCandidate}]
                       /\ status \in [Source -> Status]
                       /\ \A id \in DOMAIN stored : IsRelease(id) /\ stored[id] \in [DOMAIN id -> Nat]
                       /\ active = NoRelease \/ IsRelease(active)
  <1>3. Tables
    <2>1. CASE /\ candidate = [s \in Source |-> NoCandidate]
               /\ stored = [i \in {} |-> {}]
               /\ active = NoRelease
               /\ status = [s \in Source |-> StatusOf("none", NoDigest, FALSE)]
      BY <2>1 DEF Status, State, StatusOf
    <2>2. ASSUME NEW S \in Catalog, NEW d \in Legacy,
                 candidate = [s \in Source |-> IF s \in S THEN CandidateOf(d, 0, FALSE) ELSE NoCandidate],
                 active = [s \in S |-> DeploymentDigest(CandidateOf(d, 0, FALSE))],
                 stored = [i \in {active} |-> [s \in S |-> 0]],
                 status = [s \in Source |->
                   IF s \in S THEN StatusOf("active", DeploymentDigest(CandidateOf(d, 0, FALSE)), s \in DataFsc)
                   ELSE StatusOf("none", NoDigest, FALSE)]
          PROVE Tables
      <3>1. CandidateOf(d, 0, FALSE) \in Candidate
        BY FaultAssumption DEF CandidateOf, Candidate
      <3>2. IsRelease(active) /\ DOMAIN active = S
        BY <2>2, <3>1 DEF IsRelease, Digest, DeploymentDigest
      <3>3. candidate \in [Source -> Candidate \cup {NoCandidate}]
        BY <2>2, <3>1
      <3>4. \A id \in DOMAIN stored : IsRelease(id) /\ stored[id] \in [DOMAIN id -> Nat]
        BY <2>2, <3>2
      <3>5. status \in [Source -> Status]
        <4>1. \A b \in BOOLEAN :
                /\ StatusOf("active", DeploymentDigest(CandidateOf(d, 0, FALSE)), b) \in Status
                /\ StatusOf("none", NoDigest, b) \in Status
          BY <3>1 DEF Status, State, StatusOf, Digest, DeploymentDigest
        <4>2. ASSUME NEW s \in Source PROVE status[s] \in Status
          <5>1. CASE s \in S
            <6>1. (s \in DataFsc) \in BOOLEAN
              OBVIOUS
            <6>2. status[s] = StatusOf("active", DeploymentDigest(CandidateOf(d, 0, FALSE)), s \in DataFsc)
              BY <2>2, <5>1, Zenon
            <6> QED
              BY <4>1, <6>1, <6>2, Zenon
          <5>2. CASE s \notin S
            BY <2>2, <4>1, <5>2
          <5> QED
            BY <5>1, <5>2
        <4> QED
          BY <2>2, <4>2
      <3> QED
        BY <3>2, <3>3, <3>4, <3>5
    <2> QED
      BY <2>1, <2>2 DEF Init
  <1> QED
    BY <1>1, <1>2, <1>3 DEF TypeInv, TypeOK, CyclesOK

\* What a cycle holds when it is looked at by one of its steps.
LEMMA CycleFacts ==
  ASSUME TypeInv, NEW r \in Reconciler
  PROVE  cycle[r] \in Cycle /\ CycleOK(cycle[r])
  BY DEF TypeInv, CyclesOK

LEMMA GivesUpType ==
  ASSUME TypeInv, NEW r \in Reconciler, NEW s \in Source, NEW v \in Verdict,
         cycle[r].pc # "idle", GivesUp(r, s, v)
  PROVE  CyclesOK'
  <1> DEFINE c == [cycle[r] EXCEPT !.pc = "report", !.focus = s, !.verdict = v]
  <1>1. c \in Cycle /\ CycleOK(c)
    BY ZenonT(40), CycleFacts DEF Cycle, Program, CycleOK
  <1> QED
    BY <1>1, CycleUpdate DEF TypeInv, GivesUp

\* Every step of a cycle puts a well-formed record in place of the old one.
LEMMA BeginCycle == ASSUME TypeInv, NEW r \in Reconciler, NEW S \in Catalog, Begin(r, S) PROVE CyclesOK'
  <1> DEFINE c == [AtRest EXCEPT !.pc = "prepare", !.at = clock + 1, !.catalog = S, !.todo = S]
  <1>1. clock + 1 \in Nat /\ S \in SUBSET Source
    BY SourceAssumption DEF TypeInv, TypeOK
  <1>2. c \in Cycle
    BY <1>1, AtRestOK DEF Cycle, Program
  <1>3. c.pc = "prepare" /\ c.catalog = S /\ c.todo = S
    BY AtRestOK DEF Cycle
  <1>4. CycleOK(c)
    BY <1>3 DEF CycleOK
  <1> QED
    BY <1>2, <1>4, CycleUpdate DEF Begin, TypeInv

LEMMA PrepareCycle == ASSUME TypeInv, NEW r \in Reconciler, NEW s \in Source, Prepare(r, s) PROVE CyclesOK'
  <1> DEFINE c == [cycle[r] EXCEPT !.todo = cycle[r].todo \ {s}, !.ready = cycle[r].ready \cup {s}]
             d(l) == [cycle[r] EXCEPT !.todo = cycle[r].todo \ {s}, !.ready = cycle[r].ready \cup {s},
                                      !.failed = TRUE, !.lost = l]
             e(l) == [cycle[r] EXCEPT !.todo = cycle[r].todo \ {s}, !.failed = TRUE, !.lost = l]
  <1>1. ASSUME NEW written \in BOOLEAN
        PROVE  Lost(cycle[r], s, written) \in SUBSET Source
    BY CycleFacts DEF Cycle, Lost
  <1>2. c \in Cycle /\ CycleOK(c)
    BY ZenonT(40), CycleFacts DEF Cycle, Program, CycleOK, Prepare
  <1>3. ASSUME NEW l \in SUBSET Source
        PROVE  d(l) \in Cycle /\ CycleOK(d(l)) /\ e(l) \in Cycle /\ CycleOK(e(l))
    BY ZenonT(40), CycleFacts DEF Cycle, Program, CycleOK, Prepare
  <1>4. \/ Becomes(r, c) \/ Becomes(r, d(Lost(cycle[r], s, FALSE)))
        \/ \E written \in BOOLEAN : Becomes(r, e(Lost(cycle[r], s, written)))
    BY DEF Prepare
  <1> HIDE DEF c, d, e
  <1> QED
    BY <1>1, <1>2, <1>3, <1>4, CycleUpdate DEF TypeInv

LEMMA ContractsCycle == ASSUME TypeInv, NEW r \in Reconciler, Contracts(r) PROVE CyclesOK'
  <1>1. PICK ok \in BOOLEAN : Becomes(r, [cycle[r] EXCEPT !.pc = "sources", !.grants = ok])
    BY DEF Contracts
  <1>2. [cycle[r] EXCEPT !.pc = "sources", !.grants = ok] \in Cycle
    BY CycleFacts DEF Cycle, Program
  <1>3. CycleOK([cycle[r] EXCEPT !.pc = "sources", !.grants = ok])
    BY CycleFacts DEF Cycle, CycleOK, Contracts
  <1> QED
    BY <1>1, <1>2, <1>3, CycleUpdate DEF TypeInv

LEMMA FetchFailsCycle == ASSUME TypeInv, NEW r \in Reconciler, NEW s \in Source, FetchFails(r, s) PROVE CyclesOK'
  <1>1. cycle[r].at \in Nat /\ cycle[r].pc # "idle"
    BY CycleFacts DEF Cycle, FetchFails, Takes
  <1>2. Blocked \in Verdict /\ Unavailable(Current(s), cycle[r].at) \in Verdict
    BY <1>1, VerdictTypes DEF TypeInv
  <1> QED
    BY <1>1, <1>2, GivesUpType DEF FetchFails

LEMMA FetchDocumentCycle ==
  ASSUME TypeInv, NEW r \in Reconciler, NEW s \in Source, NEW d \in Document, FetchDocument(r, s, d)
  PROVE  CyclesOK'
  <1> DEFINE p == CandidateOf(d, cycle[r].at, TRUE)
             c == [cycle[r] EXCEPT !.pc = "activate", !.focus = s, !.seen = Current(s), !.prep = p]
  <1>1. p \in Candidate /\ Current(s) \in Candidate \cup {NoCandidate}
    BY CycleFacts, VerdictTypes DEF Cycle, CandidateOf, Candidate, TypeInv
  <1>2. c \in Cycle /\ c.prep = p /\ c.pc = "activate" /\ c.catalog = cycle[r].catalog /\ c.todo = cycle[r].todo
    BY ZenonT(40), <1>1, CycleFacts DEF Cycle, Program
  <1>3. CycleOK(c)
    BY <1>1, <1>2, CycleFacts DEF CycleOK, FetchDocument, Takes
  <1> QED
    BY <1>2, <1>3, CycleUpdate DEF FetchDocument, TypeInv

LEMMA FetchNotModifiedCycle ==
  ASSUME TypeInv, NEW r \in Reconciler, NEW s \in Source, FetchNotModified(r, s)
  PROVE  CyclesOK'
  <1> DEFINE c == [cycle[r] EXCEPT !.pc = "refresh", !.focus = s, !.seen = Current(s)]
  <1>1. Current(s) \in Candidate \cup {NoCandidate}
    BY CycleFacts, VerdictTypes DEF Cycle, TypeInv
  <1>2. c \in Cycle /\ CycleOK(c)
    BY ZenonT(40), <1>1, CycleFacts DEF Cycle, Program, CycleOK, FetchNotModified, Takes
  <1> QED
    BY <1>2, CycleUpdate DEF FetchNotModified, TypeInv

LEMMA ActivateCheckCycle == ASSUME TypeInv, NEW r \in Reconciler, ActivateCheck(r) PROVE CyclesOK'
  <1> DEFINE c == [cycle[r] EXCEPT !.pc = "put activation"]
  <1>1. c \in Cycle /\ CycleOK(c)
    BY ZenonT(40), CycleFacts DEF Cycle, Program, CycleOK, ActivateCheck
  <1>2. cycle[r].focus \in Source /\ Blocked \in Verdict /\ cycle[r].pc # "idle"
    BY CycleFacts, VerdictTypes DEF Cycle, TypeInv, ActivateCheck
  <1>3. Becomes(r, c) \/ GivesUp(r, cycle[r].focus, Blocked)
    BY DEF ActivateCheck
  <1> QED
    BY <1>1, <1>2, <1>3, CycleUpdate, GivesUpType DEF TypeInv

LEMMA RefreshCheckCycle == ASSUME TypeInv, NEW r \in Reconciler, RefreshCheck(r) PROVE CyclesOK'
  <1> DEFINE row == Current(cycle[r].focus)
             c == [cycle[r] EXCEPT !.pc = "put refresh", !.prep = CandidateOf(row.doc, cycle[r].at, TRUE)]
             v == Unavailable(cycle[r].seen, cycle[r].at)
  <1>1. cycle[r].focus \in Source /\ cycle[r].at \in Nat /\ cycle[r].pc = "refresh"
    BY CycleFacts DEF Cycle, RefreshCheck
  <1>2. cycle[r].seen \in Candidate \cup {NoCandidate} /\ row \in Candidate \cup {NoCandidate}
    BY <1>1, CycleFacts, VerdictTypes DEF Cycle, TypeInv
  <1>3. v \in Verdict
    BY <1>1, <1>2, VerdictTypes DEF TypeInv
  <1>4. ASSUME row # NoCandidate PROVE c \in Cycle /\ CycleOK(c)
    <2>1. CandidateOf(row.doc, cycle[r].at, TRUE) \in Candidate
      BY <1>1, <1>2, <1>4 DEF CandidateOf, Candidate
    <2> QED
      BY ZenonT(40), <1>1, <2>1, CycleFacts DEF Cycle, Program, CycleOK
  <1>5. (row # NoCandidate /\ Becomes(r, c)) \/ GivesUp(r, cycle[r].focus, v)
    BY DEF RefreshCheck
  <1>6. cycle[r].pc # "idle"
    BY <1>1
  <1> QED
    BY <1>1, <1>3, <1>4, <1>5, <1>6, CycleUpdate, GivesUpType DEF TypeInv

LEMMA PutCandidateCycle == ASSUME TypeInv, NEW r \in Reconciler, PutCandidate(r) PROVE CyclesOK'
  <1> DEFINE c == [cycle[r] EXCEPT !.pc = "settle"]
  <1>1. c \in Cycle /\ CycleOK(c)
    BY ZenonT(40), CycleFacts DEF Cycle, Program, CycleOK, PutCandidate
  <1> QED
    BY <1>1, CycleUpdate DEF PutCandidate, TypeInv

LEMMA PutFailsCycle == ASSUME TypeInv, NEW r \in Reconciler, PutFails(r) PROVE CyclesOK'
  <1>1. /\ cycle[r].focus \in Source /\ cycle[r].at \in Nat /\ cycle[r].pc # "idle"
        /\ cycle[r].seen \in Candidate \cup {NoCandidate}
    BY CycleFacts DEF Cycle, PutFails
  <1>2. Blocked \in Verdict /\ Unavailable(cycle[r].seen, cycle[r].at) \in Verdict
    BY <1>1, VerdictTypes DEF TypeInv
  <1> QED
    BY <1>1, <1>2, GivesUpType DEF PutFails

LEMMA SettleCycle == ASSUME TypeInv, NEW r \in Reconciler, Settle(r) PROVE CyclesOK'
  <1>1. cycle[r].focus \in Source /\ cycle[r].pc # "idle" /\ cycle[r].prep \in Candidate
    BY CycleFacts DEF Cycle, CycleOK, Settle
  <1>2. Blocked \in Verdict /\ Settled(cycle[r].focus, cycle[r].prep) \in Verdict
    BY <1>1, VerdictTypes DEF TypeInv
  <1> QED
    BY <1>1, <1>2, GivesUpType DEF Settle

LEMMA ReportCycle == ASSUME TypeInv, NEW r \in Reconciler, Report(r) PROVE CyclesOK'
  <1>1. PICK b \in BOOLEAN :
          Becomes(r, [cycle[r] EXCEPT !.pc = "sources", !.ready = Remaining(cycle[r]),
                                      !.failed = cycle[r].failed \/ ~cycle[r].verdict.ok \/ ~b,
                                      !.lost = Lost(cycle[r], cycle[r].focus, b)])
    BY DEF Report
  <1> DEFINE f == cycle[r].failed \/ ~cycle[r].verdict.ok \/ ~b
             l == Lost(cycle[r], cycle[r].focus, b)
             c == [cycle[r] EXCEPT !.pc = "sources", !.ready = Remaining(cycle[r]), !.failed = f, !.lost = l]
  <1>2. f \in BOOLEAN /\ Remaining(cycle[r]) \in SUBSET Source /\ l \in SUBSET Source
    BY CycleFacts DEF Cycle, Remaining, Lost
  <1>3. c.pc = "sources" /\ c.catalog = cycle[r].catalog /\ c.todo = cycle[r].todo
    BY CycleFacts DEF Cycle
  <1>4. c \in Cycle
    <2> HIDE DEF f, l
    <2> QED
      BY ZenonT(40), <1>2, CycleFacts DEF Cycle, Program
  <1>5. CycleOK(c)
    BY <1>3, CycleFacts DEF CycleOK, Report
  <1> QED
    BY <1>1, <1>4, <1>5, CycleUpdate DEF TypeInv

LEMMA ConcludeCycle == ASSUME TypeInv, NEW r \in Reconciler, Conclude(r) PROVE CyclesOK'
  <1> DEFINE c == [cycle[r] EXCEPT !.pc = "require", !.todo = cycle[r].catalog]
  <1>1. c \in Cycle /\ CycleOK(c)
    BY ZenonT(40), CycleFacts DEF Cycle, Program, CycleOK, Conclude
  <1>2. Becomes(r, c) \/ Becomes(r, AtRest)
    BY DEF Conclude
  <1> QED
    BY <1>1, <1>2, AtRestOK, CycleUpdate DEF TypeInv

LEMMA RequireCycle == ASSUME TypeInv, NEW r \in Reconciler, NEW s \in Source, Require(r, s) PROVE CyclesOK'
  <1> DEFINE c == [cycle[r] EXCEPT !.todo = cycle[r].todo \ {s}]
  <1>1. c \in Cycle /\ CycleOK(c)
    BY ZenonT(40), CycleFacts DEF Cycle, Program, CycleOK, Require
  <1>2. Becomes(r, c) \/ Becomes(r, AtRest)
    BY DEF Require
  <1> QED
    BY <1>1, <1>2, AtRestOK, CycleUpdate DEF TypeInv

LEMMA StartGatherCycle == ASSUME TypeInv, NEW r \in Reconciler, StartGather(r) PROVE CyclesOK'
  <1> DEFINE c == [cycle[r] EXCEPT !.pc = "gather", !.at = clock, !.todo = cycle[r].catalog]
  <1>1. clock \in Nat
    BY DEF TypeInv, TypeOK
  <1>2. c \in Cycle /\ CycleOK(c)
    BY ZenonT(40), <1>1, CycleFacts DEF Cycle, Program, CycleOK, StartGather
  <1> QED
    BY <1>2, CycleUpdate DEF StartGather, TypeInv

LEMMA GatherCycle == ASSUME TypeInv, NEW r \in Reconciler, NEW s \in Source, Gather(r, s) PROVE CyclesOK'
  <1> DEFINE c == Gathered(cycle[r], s)
  <1>1. ASSUME Usable(candidate[s], cycle[r].at) PROVE c \in Cycle /\ CycleOK(c)
    <2>1. candidate[s] \in Candidate
      BY <1>1 DEF Usable, TypeInv, TypeOK
    <2>2. /\ c \in Cycle /\ c.pc = "gather" /\ c.catalog = cycle[r].catalog
          /\ c.todo = cycle[r].todo \ {s} /\ c.got = [cycle[r].got EXCEPT ![s] = candidate[s]]
      BY <2>1, CycleFacts DEF Cycle, Gathered, Gather
    <2>3. cycle[r].got \in [Source -> Candidate \cup {NoCandidate}] /\ cycle[r].catalog \subseteq Source
      BY CycleFacts DEF Cycle
    <2> QED
      BY <2>1, <2>2, <2>3, CycleFacts DEF CycleOK, Gather
  <1>2. (Usable(candidate[s], cycle[r].at) /\ Becomes(r, c)) \/ Becomes(r, AtRest)
    BY DEF Gather
  <1> QED
    BY <1>1, <1>2, AtRestOK, CycleUpdate DEF TypeInv

LEMMA PromoteCycle == ASSUME TypeInv, NEW r \in Reconciler, Promote(r) PROVE CyclesOK'
  <1> DEFINE c == [cycle[r] EXCEPT !.pc = "mark", !.todo = cycle[r].catalog]
  <1>1. c \in Cycle /\ CycleOK(c)
    BY ZenonT(40), CycleFacts DEF Cycle, Program, CycleOK, Promote
  <1>2. Becomes(r, c) \/ Becomes(r, AtRest)
    BY DEF Promote
  <1> QED
    BY <1>1, <1>2, AtRestOK, CycleUpdate DEF TypeInv

LEMMA MarkCycle == ASSUME TypeInv, NEW r \in Reconciler, NEW s \in Source, Mark(r, s) PROVE CyclesOK'
  <1> DEFINE c == [cycle[r] EXCEPT !.todo = cycle[r].todo \ {s}]
  <1>1. c \in Cycle /\ CycleOK(c)
    BY ZenonT(40), CycleFacts DEF Cycle, Program, CycleOK, Mark
  <1>2. Becomes(r, c) \/ Becomes(r, AtRest)
    BY DEF Mark
  <1> QED
    BY <1>1, <1>2, AtRestOK, CycleUpdate DEF TypeInv

LEMMA CyclesStep == ASSUME TypeInv, [Next]_vars PROVE CyclesOK'
  <1>1. ASSUME NEW r \in Reconciler, Reconcile(r) PROVE CyclesOK'
    <2>1. cycle[r].todo \subseteq Source /\ cycle[r].ready \subseteq Source
      BY CycleFacts DEF Cycle
    <2>2. CASE \E s \in cycle[r].todo : Prepare(r, s) \/ Require(r, s) \/ Gather(r, s) \/ Mark(r, s)
      BY <2>1, <2>2, PrepareCycle, RequireCycle, GatherCycle, MarkCycle
    <2>3. CASE \E s \in cycle[r].ready : \/ FetchFails(r, s) \/ FetchNotModified(r, s)
                                         \/ \E d \in Document : FetchDocument(r, s, d)
      BY <2>1, <2>3, FetchFailsCycle, FetchNotModifiedCycle, FetchDocumentCycle
    <2>4. CASE Finish(r)
      BY <2>4, AtRestOK, CycleUpdate DEF Finish, TypeInv
    <2> QED
      BY <1>1, <2>2, <2>3, <2>4, ContractsCycle, ActivateCheckCycle, RefreshCheckCycle, PutCandidateCycle,
         PutFailsCycle, SettleCycle, ReportCycle, ConcludeCycle, StartGatherCycle, PromoteCycle
         DEF Reconcile
  <1>2. ASSUME NEW r \in Reconciler, Crash(r) PROVE CyclesOK'
    BY <1>2, AtRestOK, CycleUpdate DEF Crash, TypeInv
  <1>3. CASE UNCHANGED cycle
    BY <1>3 DEF TypeInv, CyclesOK
  <1>4. ASSUME NEW id \in DOMAIN stored, OperatorActivate(id) PROVE CyclesOK'
    BY <1>3, <1>4 DEF OperatorActivate
  <1>5. (Tick \/ UNCHANGED vars) => UNCHANGED cycle
    BY DEF Tick, vars
  <1> QED
    BY <1>1, <1>2, <1>3, <1>4, <1>5, BeginCycle DEF Next

LEMMA PromotedIsRelease ==
  ASSUME TypeInv, NEW r \in Reconciler, Promote(r)
  PROVE  LET id == ReleaseId(cycle[r].catalog, cycle[r].got)
         IN  IsRelease(id) /\ Lifecycle(cycle[r].catalog, cycle[r].got) \in [DOMAIN id -> Nat]
  <1>1. cycle[r].catalog \in Catalog /\ \A s \in cycle[r].catalog : cycle[r].got[s] \in Candidate
    BY CycleFacts DEF CycleOK, Promote
  <1> QED
    BY <1>1 DEF ReleaseId, IsRelease, Lifecycle, DeploymentDigest, Digest, Candidate

\* Which steps touch which table.
LEMMA StepFrame ==
  ASSUME NEW r \in Reconciler, Reconcile(r)
  PROVE  /\ clock' = clock
         /\ PutCandidate(r) \/ candidate' = candidate
         /\ Promote(r) \/ UNCHANGED <<stored, active, pin>>
         /\ Report(r) \/ (\E s \in cycle[r].todo : Prepare(r, s) \/ Mark(r, s)) \/ status' = status
  <1>1. ASSUME NEW s \in cycle[r].todo, Prepare(r, s) \/ Mark(r, s)
        PROVE  UNCHANGED <<clock, candidate, stored, active, pin>>
    BY <1>1 DEF Prepare, Mark
  <1>2. ASSUME NEW s \in cycle[r].todo, Require(r, s) \/ Gather(r, s)
        PROVE  UNCHANGED <<clock, candidate, status, stored, active, pin>>
    BY <1>2 DEF Require, Gather
  <1>3. ASSUME NEW s \in cycle[r].ready,
               FetchFails(r, s) \/ FetchNotModified(r, s) \/ \E d \in Document : FetchDocument(r, s, d)
        PROVE  UNCHANGED <<clock, candidate, status, stored, active, pin>>
    BY <1>3 DEF FetchFails, FetchNotModified, FetchDocument
  <1>4. CASE Contracts(r) \/ ActivateCheck(r) \/ RefreshCheck(r) \/ PutFails(r)
             \/ Settle(r) \/ Conclude(r) \/ StartGather(r) \/ Finish(r)
    BY <1>4 DEF Contracts, ActivateCheck, RefreshCheck, PutFails, Settle, Conclude, StartGather, Finish
  <1>5. CASE PutCandidate(r)
    BY <1>5 DEF PutCandidate
  <1>6. CASE Promote(r)
    BY <1>6 DEF Promote
  <1>7. CASE Report(r)
    BY <1>7 DEF Report
  <1> QED
    BY <1>1, <1>2, <1>3, <1>4, <1>5, <1>6, <1>7, Zenon DEF Reconcile

LEMMA NextFrame ==
  ASSUME [Next]_vars
  PROVE  \/ \E r \in Reconciler : Reconcile(r)
         \/ /\ UNCHANGED <<candidate, status, stored>>
            /\ clock' \in {clock, clock + 1}
            /\ \/ UNCHANGED <<active, pin>>
               \/ \E id \in DOMAIN stored : OperatorActivate(id)
  <1>1. ASSUME NEW r \in Reconciler, Crash(r) \/ \E S \in Catalog : Begin(r, S)
        PROVE  UNCHANGED <<candidate, status, stored, active, pin>> /\ clock' \in {clock, clock + 1}
    BY <1>1 DEF Crash, Begin
  <1>2. ASSUME NEW id \in DOMAIN stored, OperatorActivate(id)
        PROVE  UNCHANGED <<candidate, status, stored, clock>>
    BY <1>2 DEF OperatorActivate
  <1>3. Tick \/ UNCHANGED vars =>
          UNCHANGED <<candidate, status, stored, active, pin>> /\ clock' \in {clock, clock + 1}
    BY DEF Tick, vars
  <1> QED
    BY <1>1, <1>2, <1>3 DEF Next

\* What the steps of a cycle do to the tables, one table at a time.
LEMMA StatusRow ==
  ASSUME TypeInv, NEW s \in Source, NEW v, v.status \in Status, PutStatus(s, v)
  PROVE  status' \in [Source -> Status]
  BY DEF TypeInv, TypeOK, PutStatus

LEMMA StatusStep == ASSUME TypeInv, [Next]_vars PROVE status' \in [Source -> Status]
  <1>1. CASE UNCHANGED status
    BY <1>1 DEF TypeInv, TypeOK
  <1>2. ASSUME NEW r \in Reconciler, NEW s \in cycle[r].todo, Prepare(r, s) PROVE status' \in [Source -> Status]
    <2>1. WriterStatus("pending", NoDigest) \in Status /\ Blocked.status \in Status /\ s \in Source
      BY CycleFacts DEF Cycle, Status, State, WriterStatus, StatusOf, Blocked
    <2> DEFINE pending == [status |-> WriterStatus("pending", NoDigest)]
    <2>2. pending.status \in Status
      BY <2>1
    <2>3. PutStatus(s, pending) \/ PutStatus(s, Blocked) \/ UNCHANGED status
      BY <1>2 DEF Prepare
    <2> HIDE DEF pending
    <2> QED
      BY <1>1, <2>1, <2>2, <2>3, StatusRow
  <1>3. ASSUME NEW r \in Reconciler, Report(r) PROVE status' \in [Source -> Status]
    <2>1. cycle[r].verdict.status \in Status /\ cycle[r].focus \in Source
      BY CycleFacts DEF Cycle, Verdict
    <2>2. PutStatus(cycle[r].focus, cycle[r].verdict) \/ UNCHANGED status
      BY <1>3 DEF Report
    <2> QED
      BY <1>1, <2>1, <2>2, StatusRow
  <1>4. ASSUME NEW r \in Reconciler, NEW s \in cycle[r].todo, Mark(r, s) PROVE status' \in [Source -> Status]
    <2>1. cycle[r].got[s] \in Candidate /\ s \in Source
      BY <1>4, CycleFacts DEF Cycle, CycleOK, Mark
    <2>2. (s \in DataFsc) \in BOOLEAN
      OBVIOUS
    <2>3. \A b \in BOOLEAN : StatusOf("active", DeploymentDigest(cycle[r].got[s]), b) \in Status
      BY <2>1 DEF Status, State, StatusOf, DeploymentDigest, Digest
    <2>4. StatusOf("active", DeploymentDigest(cycle[r].got[s]), s \in DataFsc) \in Status
      BY <2>2, <2>3, Zenon
    <2> DEFINE done == [status |-> StatusOf("active", DeploymentDigest(cycle[r].got[s]), s \in DataFsc)]
    <2>5. done.status = StatusOf("active", DeploymentDigest(cycle[r].got[s]), s \in DataFsc)
      BY Zenon
    <2>6. PutStatus(s, done) \/ UNCHANGED status
      BY <1>4, Zenon DEF Mark
    <2>7. done.status \in Status
      BY <2>4, <2>5, Zenon
    <2> HIDE DEF done
    <2> QED
      BY <1>1, <2>1, <2>6, <2>7, StatusRow
  <1> QED
    BY <1>1, <1>2, <1>3, <1>4, StepFrame, NextFrame

LEMMA CandidateStep == ASSUME TypeInv, [Next]_vars PROVE candidate' \in [Source -> Candidate \cup {NoCandidate}]
  <1>1. CASE UNCHANGED candidate
    BY <1>1 DEF TypeInv, TypeOK
  <1>2. ASSUME NEW r \in Reconciler, PutCandidate(r) PROVE candidate' \in [Source -> Candidate \cup {NoCandidate}]
    BY <1>2, CycleFacts DEF PutCandidate, Cycle, CycleOK, TypeInv, TypeOK
  <1> QED
    BY <1>1, <1>2, StepFrame, NextFrame

ReleasesOK ==
  /\ \A id \in DOMAIN stored : IsRelease(id) /\ stored[id] \in [DOMAIN id -> Nat]
  /\ active = NoRelease \/ IsRelease(active)
  /\ pin = NoRelease \/ IsRelease(pin)

LEMMA ReleasesStep == ASSUME TypeInv, [Next]_vars PROVE ReleasesOK'
  <1>0. ReleasesOK
    BY DEF TypeInv, TypeOK, ReleasesOK
  <1>1. CASE UNCHANGED <<stored, active, pin>>
    BY <1>0, <1>1 DEF ReleasesOK
  <1>2. ASSUME NEW r \in Reconciler, Promote(r) PROVE ReleasesOK'
    BY <1>0, <1>2, PromotedIsRelease DEF Promote, ReleasesOK
  <1>3. ASSUME NEW id \in DOMAIN stored, OperatorActivate(id) PROVE ReleasesOK'
    BY <1>0, <1>3 DEF OperatorActivate, ReleasesOK
  <1> QED
    BY <1>1, <1>2, <1>3, StepFrame, NextFrame

LEMMA ClockStep == ASSUME TypeInv, [Next]_vars PROVE clock' \in Nat
  BY StepFrame, NextFrame DEF TypeInv, TypeOK

LEMMA TypeStep == TypeInv /\ [Next]_vars => TypeInv'
  BY CyclesStep, StatusStep, CandidateStep, ReleasesStep, ClockStep
     DEF TypeInv, TypeOK, ReleasesOK, CyclesOK

\* Every row of the registry and every local variable of a reconciler keeps its
\* shape; in particular a stored release is a candidate for each source of a
\* configured catalog, whatever failed or crashed while it was composed.
THEOREM TypeCorrect == Spec => []TypeOK
  <1>1. TypeInv => TypeOK
    BY DEF TypeInv
  <1> QED
    BY <1>1, TypeInit, TypeStep, PTL DEF Spec


-----------------------------------------------------------------------------
(* Releases are whole.                                                     *)

LEMMA ReleaseIsNotTheSentinel == ASSUME NEW id, IsRelease(id) PROVE id # NoRelease
  BY SentinelAssumption DEF IsRelease, Digest

\* The active pointer always names a stored release and every stored release
\* covers a configured catalog: a promotion stores and activates in one
\* transaction, and an operator can only choose what is stored.
THEOREM ReleasesAreWhole == Spec => []ReleaseWhole
  <1>1. Init => ReleaseWhole
    <2> SUFFICES ASSUME Init PROVE ReleaseWhole
      OBVIOUS
    <2>1. \A id \in DOMAIN stored : IsRelease(id)
      BY TypeInit DEF TypeInv, TypeOK
    <2>2. (active = NoRelease /\ DOMAIN stored = {}) \/ (active \in DOMAIN stored)
      BY DEF Init
    <2> QED
      BY <2>1, <2>2, ReleaseIsNotTheSentinel DEF ReleaseWhole, IsRelease
  <1>2. TypeInv /\ ReleaseWhole /\ [Next]_vars => ReleaseWhole'
    <2> SUFFICES ASSUME TypeInv, ReleaseWhole, [Next]_vars PROVE ReleaseWhole'
      OBVIOUS
    <2>1. \A id \in DOMAIN stored : IsRelease(id)
      BY DEF TypeInv, TypeOK
    <2>2. CASE UNCHANGED <<stored, active>>
      BY <2>2 DEF ReleaseWhole
    <2>3. ASSUME NEW id \in DOMAIN stored, OperatorActivate(id) PROVE ReleaseWhole'
      BY <2>1, <2>3, ReleaseIsNotTheSentinel DEF OperatorActivate, ReleaseWhole
    <2>4. ASSUME NEW r \in Reconciler, Promote(r) PROVE ReleaseWhole'
      <3> DEFINE id == ReleaseId(cycle[r].catalog, cycle[r].got)
      <3>1. IsRelease(id)
        BY <2>4, PromotedIsRelease
      <3>2. DOMAIN stored' = DOMAIN stored \cup {id} /\ active' \in {id, active}
        BY <2>4 DEF Promote
      <3>3. active = NoRelease => active' = id
        BY <2>4 DEF Promote, Activates, ReleaseWhole
      <3> HIDE DEF id
      <3> QED
        BY <2>1, <3>1, <3>2, <3>3, ReleaseIsNotTheSentinel DEF ReleaseWhole, IsRelease
    <2> QED
      BY <2>2, <2>3, <2>4, StepFrame, NextFrame
  <1> QED
    BY <1>1, <1>2, TypeInit, TypeStep, PTL DEF Spec

\* However many reconcilers overlap, none replaces the active release with one
\* that was stored before: the upsert of Store.Promote is conditional.
THEOREM ReplayKeepsRollback == Spec => RollbackSurvivesReplay
  <1>1. TypeInv /\ ReleaseWhole /\ [Next]_vars =>
          [ReconcilerActivates /\ pin # NoRelease => active' \notin DOMAIN stored]_vars
    <2> SUFFICES ASSUME TypeInv, ReleaseWhole, [Next]_vars, ReconcilerActivates
                 PROVE  active' \notin DOMAIN stored
      OBVIOUS
    <2>1. \A id \in DOMAIN stored : OperatorActivate(id) => pin' # NoRelease
      BY ReleaseIsNotTheSentinel DEF OperatorActivate, TypeInv, TypeOK
    <2>2. PICK r \in Reconciler : Promote(r)
      BY <2>1, StepFrame, NextFrame DEF ReconcilerActivates
    <2> DEFINE id == ReleaseId(cycle[r].catalog, cycle[r].got)
    <2>3. active' = id /\ Activates(id) /\ active # id
      BY <2>2 DEF Promote, ReconcilerActivates
    <2> HIDE DEF id
    <2> QED
      BY <2>3 DEF Activates, ReleaseWhole
  <1> QED
    BY <1>1, TypeInit, TypeStep, ReleasesAreWhole, PTL DEF Spec, RollbackSurvivesReplay

-----------------------------------------------------------------------------
(* The version history of a source, when one reconciler runs at a time: the *)
(* deployment the code is written for, as Activate reads, compares and      *)
(* writes in three statements.                                              *)

\* A document may be followed by itself or by one of a higher version.
Precedes(d, e) == Version[d] < Version[e] \/ d = e

StoredBehindCandidate ==
  \A id \in DOMAIN stored : \A s \in DOMAIN id :
    candidate[s] # NoCandidate /\ Precedes(id[s].doc, candidate[s].doc)

StoredInOrder ==
  \A i, j \in DOMAIN stored : \A s \in DOMAIN i \cap DOMAIN j :
    Precedes(i[s].doc, j[s].doc) \/ Precedes(j[s].doc, i[s].doc)

WriteInOrder ==
  \A r \in Reconciler :
    LET c == cycle[r] IN
    c.pc \in {"put activation", "put refresh"} =>
      candidate[c.focus] = NoCandidate \/ Precedes(candidate[c.focus].doc, c.prep.doc)

GatheredIsCurrent ==
  \A r \in Reconciler :
    LET c == cycle[r] IN
    c.pc = "gather" => \A s \in c.catalog \ c.todo : c.got[s] = candidate[s]

HistoryInv == StoredBehindCandidate /\ StoredInOrder /\ WriteInOrder /\ GatheredIsCurrent


LEMMA PrecedesTransitive ==
  ASSUME NEW d \in Document, NEW e \in Document, NEW f \in Document, Precedes(d, e), Precedes(e, f)
  PROVE  Precedes(d, f)
  BY DocumentAssumption DEF Precedes

LEMMA NewCycle ==
  ASSUME TypeInv, NEW r \in Reconciler, NEW c, Becomes(r, c)
  PROVE  cycle'[r] = c
  BY DEF TypeInv, CyclesOK, Becomes

\* The points of the program HistoryInv speaks of.
Sensitive == {"put activation", "put refresh", "gather"}

LEMMA InsensitiveAtRest == AtRest.pc \notin Sensitive
  BY DEF AtRest, Sensitive

LEMMA InsensitiveGivesUp ==
  ASSUME TypeInv, NEW r \in Reconciler, NEW s, NEW v, GivesUp(r, s, v)
  PROVE  cycle'[r].pc \notin Sensitive
  <1> DEFINE c == [cycle[r] EXCEPT !.pc = "report", !.focus = s, !.verdict = v]
  <1>1. c.pc = "report"
    BY CycleFacts DEF Cycle
  <1> QED
    BY <1>1, NewCycle DEF GivesUp, Sensitive

\* Every other step leaves the reconciler at another point.
LEMMA InsensitiveSteps ==
  ASSUME TypeInv, NEW r \in Reconciler, Reconcile(r)
  PROVE  \/ cycle'[r].pc \notin Sensitive
         \/ ActivateCheck(r) \/ RefreshCheck(r) \/ StartGather(r)
         \/ \E s \in cycle[r].todo : Gather(r, s)
  <1> USE CycleFacts
  <1>1. ASSUME NEW s \in cycle[r].todo, Prepare(r, s) PROVE cycle'[r].pc \notin Sensitive
    <2> DEFINE ready == [cycle[r] EXCEPT !.todo = cycle[r].todo \ {s}, !.ready = cycle[r].ready \cup {s}]
               unsure == [cycle[r] EXCEPT !.todo = cycle[r].todo \ {s}, !.ready = cycle[r].ready \cup {s},
                                          !.failed = TRUE, !.lost = Lost(cycle[r], s, FALSE)]
               failed(w) == [cycle[r] EXCEPT !.todo = cycle[r].todo \ {s}, !.failed = TRUE,
                                             !.lost = Lost(cycle[r], s, w)]
    <2>1. ready.pc = "prepare" /\ unsure.pc = "prepare" /\ \A w \in BOOLEAN : failed(w).pc = "prepare"
      BY <1>1 DEF Prepare, Cycle
    <2>2. Becomes(r, ready) \/ Becomes(r, unsure) \/ \E w \in BOOLEAN : Becomes(r, failed(w))
      BY <1>1 DEF Prepare
    <2> HIDE DEF ready, unsure, failed
    <2> QED
      BY <2>1, <2>2, NewCycle DEF Sensitive
  <1>2. ASSUME NEW s \in cycle[r].todo, Require(r, s) PROVE cycle'[r].pc \notin Sensitive
    <2> DEFINE c == [cycle[r] EXCEPT !.todo = cycle[r].todo \ {s}]
    <2>1. c.pc = "require"
      BY <1>2 DEF Require, Cycle
    <2>2. Becomes(r, c) \/ Becomes(r, AtRest)
      BY <1>2 DEF Require
    <2> HIDE DEF c
    <2> QED
      BY <2>1, <2>2, NewCycle, InsensitiveAtRest DEF Sensitive
  <1>3. ASSUME NEW s \in cycle[r].todo, Mark(r, s) PROVE cycle'[r].pc \notin Sensitive
    <2> DEFINE c == [cycle[r] EXCEPT !.todo = cycle[r].todo \ {s}]
    <2>1. c.pc = "mark"
      BY <1>3 DEF Mark, Cycle
    <2>2. Becomes(r, c) \/ Becomes(r, AtRest)
      BY <1>3 DEF Mark
    <2> HIDE DEF c
    <2> QED
      BY <2>1, <2>2, NewCycle, InsensitiveAtRest DEF Sensitive
  <1>4. ASSUME NEW s \in cycle[r].ready, FetchFails(r, s) PROVE cycle'[r].pc \notin Sensitive
    BY <1>4, InsensitiveGivesUp DEF FetchFails
  <1>5. ASSUME NEW s \in cycle[r].ready, FetchNotModified(r, s) PROVE cycle'[r].pc \notin Sensitive
    <2> DEFINE c == [cycle[r] EXCEPT !.pc = "refresh", !.focus = s, !.seen = Current(s)]
    <2>1. c.pc = "refresh" /\ Becomes(r, c)
      BY <1>5 DEF FetchNotModified, Cycle
    <2> HIDE DEF c
    <2> QED
      BY <2>1, NewCycle DEF Sensitive
  <1>6. ASSUME NEW s \in cycle[r].ready, NEW d \in Document, FetchDocument(r, s, d)
        PROVE  cycle'[r].pc \notin Sensitive
    <2> DEFINE c == [cycle[r] EXCEPT !.pc = "activate", !.focus = s, !.seen = Current(s),
                                     !.prep = CandidateOf(d, cycle[r].at, TRUE)]
    <2>1. c.pc = "activate" /\ Becomes(r, c)
      BY <1>6 DEF FetchDocument, Cycle
    <2> HIDE DEF c
    <2> QED
      BY <2>1, NewCycle DEF Sensitive
  <1>7. CASE Contracts(r)
    <2>1. PICK ok \in BOOLEAN : Becomes(r, [cycle[r] EXCEPT !.pc = "sources", !.grants = ok])
      BY <1>7 DEF Contracts
    <2> DEFINE c == [cycle[r] EXCEPT !.pc = "sources", !.grants = ok]
    <2>2. c.pc = "sources" /\ Becomes(r, c)
      BY <2>1 DEF Cycle
    <2> HIDE DEF c
    <2> QED
      BY <2>2, NewCycle DEF Sensitive
  <1>8. CASE PutCandidate(r)
    <2> DEFINE c == [cycle[r] EXCEPT !.pc = "settle"]
    <2>1. c.pc = "settle" /\ Becomes(r, c)
      BY <1>8 DEF PutCandidate, Cycle
    <2> HIDE DEF c
    <2> QED
      BY <2>1, NewCycle DEF Sensitive
  <1>9. CASE PutFails(r)
    BY <1>9, InsensitiveGivesUp DEF PutFails
  <1>10. CASE Settle(r)
    BY <1>10, InsensitiveGivesUp DEF Settle
  <1>11. CASE Report(r)
    <2>1. PICK written \in BOOLEAN :
            Becomes(r, [cycle[r] EXCEPT !.pc = "sources", !.ready = Remaining(cycle[r]),
                         !.failed = cycle[r].failed \/ ~cycle[r].verdict.ok \/ ~written,
                         !.lost = Lost(cycle[r], cycle[r].focus, written)])
      BY <1>11 DEF Report
    <2> DEFINE failed == cycle[r].failed \/ ~cycle[r].verdict.ok \/ ~written
               lost == Lost(cycle[r], cycle[r].focus, written)
               c == [cycle[r] EXCEPT !.pc = "sources", !.ready = Remaining(cycle[r]), !.failed = failed,
                                     !.lost = lost]
    <2>2. Becomes(r, c)
      BY <2>1
    <2> HIDE DEF failed
    <2>3. c.pc = "sources"
      BY DEF Cycle
    <2> HIDE DEF c
    <2> QED
      BY <2>2, <2>3, NewCycle DEF Sensitive
  <1>12. CASE Conclude(r)
    <2> DEFINE c == [cycle[r] EXCEPT !.pc = "require", !.todo = cycle[r].catalog]
    <2>1. c.pc = "require"
      BY DEF Cycle
    <2>2. Becomes(r, c) \/ Becomes(r, AtRest)
      BY <1>12 DEF Conclude
    <2> HIDE DEF c
    <2> QED
      BY <2>1, <2>2, NewCycle, InsensitiveAtRest DEF Sensitive
  <1>13. CASE Promote(r)
    <2> DEFINE c == [cycle[r] EXCEPT !.pc = "mark", !.todo = cycle[r].catalog]
    <2>1. c.pc = "mark"
      BY DEF Cycle
    <2>2. Becomes(r, c) \/ Becomes(r, AtRest)
      BY <1>13 DEF Promote
    <2> HIDE DEF c
    <2> QED
      BY <2>1, <2>2, NewCycle, InsensitiveAtRest DEF Sensitive
  <1>14. CASE Finish(r)
    BY <1>14, NewCycle, InsensitiveAtRest DEF Finish
  <1> QED
    BY <1>1, <1>2, <1>3, <1>4, <1>5, <1>6, <1>7, <1>8, <1>9, <1>10, <1>11, <1>12, <1>13, <1>14, Zenon
       DEF Reconcile


LEMMA HistoryInit == Init => HistoryInv
  <1> SUFFICES ASSUME Init PROVE HistoryInv
    OBVIOUS
  <1>1. WriteInOrder /\ GatheredIsCurrent
    BY InsensitiveAtRest DEF Init, WriteInOrder, GatheredIsCurrent, Sensitive
  <1>2. CASE DOMAIN stored = {}
    BY <1>1, <1>2 DEF HistoryInv, StoredBehindCandidate, StoredInOrder
  <1>3. ASSUME NEW S \in Catalog, NEW d \in Legacy,
               candidate = [s \in Source |-> IF s \in S THEN CandidateOf(d, 0, FALSE) ELSE NoCandidate],
               stored = [i \in {[s \in S |-> DeploymentDigest(CandidateOf(d, 0, FALSE))]} |-> [s \in S |-> 0]]
        PROVE  HistoryInv
    <2> DEFINE old == CandidateOf(d, 0, FALSE)
    <2>1. old \in Candidate
      BY FaultAssumption DEF CandidateOf, Candidate
    <2>2. \A id \in DOMAIN stored : DOMAIN id = S /\ \A s \in S : id[s] = old
      BY <1>3 DEF DeploymentDigest
    <2>3. \A s \in S : candidate[s] = old
      BY <1>3, SourceAssumption
    <2> HIDE DEF old
    <2> QED
      BY <1>1, <2>1, <2>2, <2>3, SentinelAssumption
         DEF HistoryInv, StoredBehindCandidate, StoredInOrder, Precedes
  <1> QED
    BY <1>2, <1>3 DEF Init

\* Steps that leave the candidates and the stored releases alone.
LEMMA HistoryFrame ==
  ASSUME HistoryInv, UNCHANGED <<candidate, DOMAIN stored>>
  PROVE  StoredBehindCandidate' /\ StoredInOrder'
  BY DEF HistoryInv, StoredBehindCandidate, StoredInOrder

LEMMA InsensitiveKeeps ==
  ASSUME NEW r \in Reconciler, Reconciler = {r}, cycle'[r].pc \notin Sensitive
  PROVE  WriteInOrder' /\ GatheredIsCurrent'
  BY DEF WriteInOrder, GatheredIsCurrent, Sensitive

LEMMA ActivateCheckHistory ==
  ASSUME TypeInv, HistoryInv, NEW r \in Reconciler, Reconciler = {r}, ActivateCheck(r)
  PROVE  HistoryInv'
  <1>1. UNCHANGED <<candidate, DOMAIN stored>>
    BY DEF ActivateCheck
  <1>2. CASE MayReplace(candidate[cycle[r].focus], cycle[r].prep.doc)
    <2> DEFINE c == [cycle[r] EXCEPT !.pc = "put activation"]
    <2>1. c.pc = "put activation" /\ c.focus = cycle[r].focus /\ c.prep = cycle[r].prep
      BY CycleFacts DEF Cycle
    <2>2. Becomes(r, c)
      BY <1>2 DEF ActivateCheck
    <2>3. candidate[c.focus] = NoCandidate \/ Precedes(candidate[c.focus].doc, c.prep.doc)
      BY <1>2, <2>1 DEF MayReplace, Precedes
    <2> HIDE DEF c
    <2>4. cycle'[r] = c
      BY <2>2, NewCycle
    <2>5. WriteInOrder' /\ GatheredIsCurrent'
      BY <1>1, <2>1, <2>3, <2>4 DEF WriteInOrder, GatheredIsCurrent
    <2> QED
      BY <1>1, <2>5, HistoryFrame DEF HistoryInv
  <1>3. CASE ~MayReplace(candidate[cycle[r].focus], cycle[r].prep.doc)
    <2>1. cycle'[r].pc \notin Sensitive
      BY <1>3, InsensitiveGivesUp DEF ActivateCheck
    <2> QED
      BY <1>1, <2>1, HistoryFrame, InsensitiveKeeps DEF HistoryInv
  <1> QED
    BY <1>2, <1>3

LEMMA RefreshCheckHistory ==
  ASSUME TypeInv, HistoryInv, NEW r \in Reconciler, Reconciler = {r}, RefreshCheck(r)
  PROVE  HistoryInv'
  <1> DEFINE row == Current(cycle[r].focus)
             may == row # NoCandidate /\ LongEnough(row.doc, cycle[r].at)
  <1>1. UNCHANGED <<candidate, DOMAIN stored>>
    BY DEF RefreshCheck
  <1>2. CASE may
    <2> DEFINE c == [cycle[r] EXCEPT !.pc = "put refresh", !.prep = CandidateOf(row.doc, cycle[r].at, TRUE)]
    <2>1. c.pc = "put refresh" /\ c.focus = cycle[r].focus /\ c.prep.doc = row.doc
      BY CycleFacts DEF Cycle, CandidateOf
    <2>2. Becomes(r, c)
      BY <1>2 DEF RefreshCheck
    <2>3. candidate[c.focus] = row
      BY <1>2, <2>1 DEF Current
    <2> HIDE DEF c, row
    <2>4. cycle'[r] = c
      BY <2>2, NewCycle
    <2>5. WriteInOrder' /\ GatheredIsCurrent'
      BY <1>1, <2>1, <2>3, <2>4 DEF WriteInOrder, GatheredIsCurrent, Precedes
    <2> QED
      BY <1>1, <2>5, HistoryFrame DEF HistoryInv
  <1>3. CASE ~may
    <2>1. cycle'[r].pc \notin Sensitive
      BY <1>3, InsensitiveGivesUp DEF RefreshCheck
    <2> QED
      BY <1>1, <2>1, HistoryFrame, InsensitiveKeeps DEF HistoryInv
  <1> QED
    BY <1>2, <1>3

LEMMA PutCandidateHistory ==
  ASSUME TypeInv, HistoryInv, NEW r \in Reconciler, Reconciler = {r}, PutCandidate(r)
  PROVE  HistoryInv'
  <1> DEFINE f == cycle[r].focus
             new == cycle[r].prep
  <1>1. f \in Source /\ new \in Candidate /\ new # NoCandidate
    BY CycleFacts, SentinelAssumption DEF Cycle, CycleOK, PutCandidate
  <1>2. candidate' = [candidate EXCEPT ![f] = new] /\ UNCHANGED stored
    BY DEF PutCandidate
  <1>3. candidate[f] = NoCandidate \/ Precedes(candidate[f].doc, new.doc)
    BY DEF PutCandidate, HistoryInv, WriteInOrder
  <1>4. candidate \in [Source -> Candidate \cup {NoCandidate}] /\ \A id \in DOMAIN stored : IsRelease(id)
    BY DEF TypeInv, TypeOK
  <1> HIDE DEF f, new
  <1>5. StoredBehindCandidate'
    <2> SUFFICES ASSUME NEW id \in DOMAIN stored, NEW s \in DOMAIN id
                 PROVE  candidate'[s] # NoCandidate /\ Precedes(id[s].doc, candidate'[s].doc)
      BY <1>2 DEF StoredBehindCandidate
    <2>1. candidate[s] # NoCandidate /\ Precedes(id[s].doc, candidate[s].doc)
      BY DEF HistoryInv, StoredBehindCandidate
    <2>2. s \in Source /\ id[s].doc \in Document /\ candidate[s].doc \in Document /\ new.doc \in Document
      BY <1>1, <1>4, <2>1, SourceAssumption DEF IsRelease, Digest, Candidate
    <2>3. CASE s = f
      BY <1>1, <1>2, <1>3, <1>4, <2>1, <2>2, <2>3, PrecedesTransitive
    <2>4. CASE s # f
      BY <1>1, <1>2, <1>4, <2>1, <2>2, <2>4
    <2> QED
      BY <2>3, <2>4
  <1>6. StoredInOrder'
    BY <1>2 DEF HistoryInv, StoredInOrder
  <1>7. cycle'[r].pc \notin Sensitive
    <2> DEFINE c == [cycle[r] EXCEPT !.pc = "settle"]
    <2>1. c.pc = "settle" /\ Becomes(r, c)
      BY CycleFacts DEF PutCandidate, Cycle
    <2> HIDE DEF c
    <2> QED
      BY <2>1, NewCycle DEF Sensitive
  <1> QED
    BY <1>5, <1>6, <1>7, InsensitiveKeeps DEF HistoryInv

LEMMA StartGatherHistory ==
  ASSUME TypeInv, HistoryInv, NEW r \in Reconciler, Reconciler = {r}, StartGather(r)
  PROVE  HistoryInv'
  <1> DEFINE c == [cycle[r] EXCEPT !.pc = "gather", !.at = clock, !.todo = cycle[r].catalog]
  <1>1. c.pc = "gather" /\ c.catalog = c.todo /\ Becomes(r, c)
    BY CycleFacts DEF StartGather, Cycle
  <1>2. UNCHANGED <<candidate, DOMAIN stored>>
    BY DEF StartGather
  <1> HIDE DEF c
  <1>3. cycle'[r] = c
    BY <1>1, NewCycle
  <1>4. WriteInOrder' /\ GatheredIsCurrent'
    BY <1>1, <1>3 DEF WriteInOrder, GatheredIsCurrent
  <1> QED
    BY <1>2, <1>4, HistoryFrame DEF HistoryInv

LEMMA GatherHistory ==
  ASSUME TypeInv, HistoryInv, NEW r \in Reconciler, Reconciler = {r}, NEW s \in cycle[r].todo, Gather(r, s)
  PROVE  HistoryInv'
  <1> DEFINE c == Gathered(cycle[r], s)
  <1>1. UNCHANGED <<candidate, DOMAIN stored>>
    BY DEF Gather
  <1>2. Becomes(r, c) \/ Becomes(r, AtRest)
    BY DEF Gather
  <1>3. CASE Becomes(r, AtRest)
    BY <1>1, <1>3, NewCycle, InsensitiveAtRest, InsensitiveKeeps, HistoryFrame DEF HistoryInv
  <1>4. CASE Becomes(r, c)
    <2>1. c.pc = "gather" /\ c.catalog = cycle[r].catalog /\ c.todo = cycle[r].todo \ {s}
      BY CycleFacts DEF Gather, Cycle, Gathered
    <2>2. c.got = [cycle[r].got EXCEPT ![s] = candidate[s]] /\ cycle[r].got \in [Source -> Candidate \cup {NoCandidate}]
      BY CycleFacts DEF Cycle, Gathered
    <2>3. \A t \in cycle[r].catalog \ cycle[r].todo : cycle[r].got[t] = candidate[t]
      BY DEF HistoryInv, GatheredIsCurrent, Gather
    <2>4. s \in Source /\ cycle[r].catalog \subseteq Source
      BY CycleFacts DEF Cycle
    <2> HIDE DEF c
    <2>5. \A t \in c.catalog \ c.todo : c.got[t] = candidate[t]
      BY <2>1, <2>2, <2>3, <2>4
    <2>6. cycle'[r] = c
      BY <1>4, NewCycle
    <2>7. WriteInOrder' /\ GatheredIsCurrent'
      BY <1>1, <2>1, <2>5, <2>6 DEF WriteInOrder, GatheredIsCurrent
    <2> QED
      BY <1>1, <2>7, HistoryFrame DEF HistoryInv
  <1> QED
    BY <1>2, <1>3, <1>4

\* What a promotion stores is what is the candidate of every source now.
LEMMA PromotesCandidates ==
  ASSUME TypeInv, HistoryInv, NEW r \in Reconciler, Promote(r)
  PROVE  LET id == ReleaseId(cycle[r].catalog, cycle[r].got)
         IN  /\ DOMAIN stored' = DOMAIN stored \cup {id}
             /\ DOMAIN id \subseteq Source
             /\ \A s \in DOMAIN id : id[s] = candidate[s] /\ id[s] \in Candidate
  <1>1. /\ cycle[r].catalog \subseteq Source
        /\ \A s \in cycle[r].catalog : cycle[r].got[s] = candidate[s] /\ cycle[r].got[s] \in Candidate
    BY CycleFacts DEF CycleOK, Cycle, Promote, HistoryInv, GatheredIsCurrent
  <1> QED
    BY <1>1 DEF Promote, ReleaseId, DeploymentDigest

LEMMA PromoteHistory ==
  ASSUME TypeInv, HistoryInv, NEW r \in Reconciler, Reconciler = {r}, Promote(r)
  PROVE  HistoryInv'
  <1> DEFINE id == ReleaseId(cycle[r].catalog, cycle[r].got)
  <1>1. DOMAIN stored' = DOMAIN stored \cup {id} /\ \A s \in DOMAIN id : id[s] = candidate[s] /\ id[s] \in Candidate
    BY PromotesCandidates
  <1>2. candidate' = candidate
    BY DEF Promote
  <1> HIDE DEF id
  <1>3. StoredBehindCandidate'
    BY <1>1, <1>2, SentinelAssumption DEF HistoryInv, StoredBehindCandidate, Precedes
  <1>4. StoredInOrder'
    BY <1>1 DEF HistoryInv, StoredBehindCandidate, StoredInOrder, Precedes
  <1>5. cycle'[r].pc \notin Sensitive
    <2> DEFINE c == [cycle[r] EXCEPT !.pc = "mark", !.todo = cycle[r].catalog]
    <2>1. c.pc = "mark"
      BY CycleFacts DEF Cycle
    <2>2. Becomes(r, c) \/ Becomes(r, AtRest)
      BY DEF Promote
    <2> HIDE DEF c
    <2> QED
      BY <2>1, <2>2, NewCycle, InsensitiveAtRest DEF Sensitive
  <1> QED
    BY <1>3, <1>4, <1>5, InsensitiveKeeps DEF HistoryInv

LEMMA HistoryStep ==
  ASSUME TypeInv, HistoryInv, NEW r \in Reconciler, Reconciler = {r}, [Next]_vars
  PROVE  HistoryInv'
  <1>1. CASE Reconcile(r)
    <2>1. ASSUME ~PutCandidate(r), ~Promote(r), cycle'[r].pc \notin Sensitive PROVE HistoryInv'
      BY <1>1, <2>1, StepFrame, HistoryFrame, InsensitiveKeeps DEF HistoryInv
    <2> QED
      BY <1>1, <2>1, InsensitiveSteps, ActivateCheckHistory, RefreshCheckHistory, PutCandidateHistory,
         StartGatherHistory, GatherHistory, PromoteHistory
  <1>2. CASE Crash(r) \/ \E S \in Catalog : Begin(r, S)
    <2> DEFINE begun(S) == [AtRest EXCEPT !.pc = "prepare", !.at = clock + 1, !.catalog = S, !.todo = S]
    <2>1. \A S \in Catalog : begun(S).pc = "prepare"
      BY AtRestOK DEF Cycle
    <2>2. Becomes(r, AtRest) \/ \E S \in Catalog : Becomes(r, begun(S))
      BY <1>2 DEF Crash, Begin
    <2> HIDE DEF begun
    <2>3. cycle'[r].pc \notin Sensitive
      BY <2>1, <2>2, NewCycle, InsensitiveAtRest DEF Sensitive
    <2>4. UNCHANGED <<candidate, DOMAIN stored>>
      BY <1>2 DEF Crash, Begin
    <2> QED
      BY <2>3, <2>4, HistoryFrame, InsensitiveKeeps DEF HistoryInv
  <1>3. CASE UNCHANGED <<candidate, stored, cycle>>
    BY <1>3, HistoryFrame DEF HistoryInv, WriteInOrder, GatheredIsCurrent
  <1>4. (Tick \/ UNCHANGED vars \/ \E id \in DOMAIN stored : OperatorActivate(id)) => UNCHANGED <<candidate, stored, cycle>>
    BY DEF Tick, vars, OperatorActivate
  <1> QED
    BY <1>1, <1>2, <1>3, <1>4 DEF Next

\* With one reconciler, one metadata version of a source stands for the same
\* bytes in every release and candidate that is ever stored.
THEOREM VersionsImmutable ==
  ASSUME NEW r \in Reconciler, Reconciler = {r}
  PROVE  Spec => []VersionBytesImmutable
  <1>1. TypeInv /\ HistoryInv => VersionBytesImmutable
    <2> SUFFICES ASSUME TypeInv, HistoryInv, NEW s \in Source, NEW d \in Document, NEW e \in Document,
                        Holds(s, d), Holds(s, e), Version[d] = Version[e]
                 PROVE  d = e
      BY DEF VersionBytesImmutable
    <2>1. Precedes(d, e) \/ Precedes(e, d)
      BY DEF HistoryInv, StoredBehindCandidate, StoredInOrder, Holds, Precedes
    <2> QED
      BY <2>1, DocumentAssumption DEF Precedes
  <1>2. TypeInv /\ HistoryInv /\ [Next]_vars => HistoryInv'
    BY HistoryStep
  <1> QED
    BY <1>1, <1>2, TypeInit, HistoryInit, TypeStep, PTL DEF Spec

\* With one reconciler, no promotion takes a source of the active release to a
\* lower version, whichever release an operator had made active before.
THEOREM NeverDowngrades ==
  ASSUME NEW r \in Reconciler, Reconciler = {r}
  PROVE  Spec => ReconcilerNeverDowngrades
  <1>1. TypeInv /\ ReleaseWhole /\ HistoryInv /\ [Next]_vars =>
          [ReconcilerActivates /\ active # NoRelease =>
             \A s \in DOMAIN active \cap DOMAIN active' :
               Version[active[s].doc] <= Version[active'[s].doc]]_vars
    <2> SUFFICES ASSUME TypeInv, ReleaseWhole, HistoryInv, [Next]_vars, ReconcilerActivates, active # NoRelease,
                        NEW s \in DOMAIN active \cap DOMAIN active'
                 PROVE  Version[active[s].doc] <= Version[active'[s].doc]
      OBVIOUS
    <2>1. active \in DOMAIN stored
      BY DEF ReleaseWhole
    <2>2. \A id \in DOMAIN stored : OperatorActivate(id) => pin' # NoRelease
      BY ReleaseIsNotTheSentinel DEF OperatorActivate, TypeInv, TypeOK
    <2>3. PICK q \in Reconciler : Promote(q)
      BY <2>2, StepFrame, NextFrame DEF ReconcilerActivates
    <2> DEFINE id == ReleaseId(cycle[q].catalog, cycle[q].got)
    <2>4. active' = id
      BY <2>3 DEF Promote, ReconcilerActivates
    <2>5. id[s] = candidate[s] /\ id[s] \in Candidate
      BY <2>3, <2>4, PromotesCandidates
    <2> HIDE DEF id
    <2>6. Precedes(active[s].doc, id[s].doc)
      BY <2>1, <2>5 DEF HistoryInv, StoredBehindCandidate
    <2>7. active[s].doc \in Document /\ id[s].doc \in Document
      BY <2>1, <2>5 DEF TypeInv, TypeOK, IsRelease, Digest, Candidate
    <2> QED
      BY <2>4, <2>6, <2>7, DocumentAssumption DEF Precedes
  <1>2. TypeInv /\ HistoryInv /\ [Next]_vars => HistoryInv'
    BY HistoryStep
  <1> QED
    BY <1>1, <1>2, TypeInit, HistoryInit, TypeStep, ReleasesAreWhole, PTL DEF Spec, ReconcilerNeverDowngrades

-----------------------------------------------------------------------------
(* What each step of a cycle does to the reconciler's own variables, for   *)
(* the invariants below.                                                   *)

Kept(r) ==
  LET c == cycle[r]
      d == cycle'[r]
  IN  d.at = c.at /\ d.catalog = c.catalog /\ d.ready = c.ready /\ d.failed = c.failed /\ d.lost = c.lost

\* The reconciler goes on at pc, and what it has gathered stays.
GoesOn(r, pc) == cycle'[r].pc = pc /\ Kept(r)
SameWork(r) == cycle'[r].focus = cycle[r].focus /\ cycle'[r].prep = cycle[r].prep

LEMMA MovesGivesUp ==
  ASSUME TypeInv, NEW r \in Reconciler, NEW s, NEW v, GivesUp(r, s, v)
  PROVE  GoesOn(r, "report") /\ cycle'[r].focus = s /\ cycle'[r].verdict = v
  <1> DEFINE d == [cycle[r] EXCEPT !.pc = "report", !.focus = s, !.verdict = v]
  <1>1. /\ d.pc = "report" /\ d.focus = s /\ d.verdict = v /\ d.at = cycle[r].at
        /\ d.catalog = cycle[r].catalog /\ d.ready = cycle[r].ready /\ d.failed = cycle[r].failed /\ d.lost = cycle[r].lost
    BY CycleFacts DEF Cycle
  <1> HIDE DEF d
  <1>2. cycle'[r] = d
    BY NewCycle DEF GivesUp, d
  <1> QED
    BY <1>1, <1>2 DEF GoesOn, Kept

LEMMA MovesBegin ==
  ASSUME TypeInv, NEW r \in Reconciler, NEW S \in Catalog, Begin(r, S)
  PROVE  cycle'[r].pc = "prepare" /\ cycle'[r].catalog = S /\ cycle'[r].todo = S /\ cycle'[r].ready = {}
  <1> DEFINE d == [AtRest EXCEPT !.pc = "prepare", !.at = clock + 1, !.catalog = S, !.todo = S]
  <1>1. d.pc = "prepare" /\ d.catalog = S /\ d.todo = S /\ d.ready = {}
    BY DEF AtRest
  <1> HIDE DEF d
  <1>2. cycle'[r] = d
    BY NewCycle DEF Begin, d
  <1> QED
    BY <1>1, <1>2

LEMMA MovesPrepare ==
  ASSUME TypeInv, NEW r \in Reconciler, NEW s, Prepare(r, s)
  PROVE  /\ cycle'[r].pc = "prepare" /\ cycle'[r].catalog = cycle[r].catalog
         /\ cycle'[r].todo = cycle[r].todo \ {s}
         /\ \/ cycle'[r].ready = cycle[r].ready \cup {s} /\ (cycle'[r].failed \/ ~cycle[r].failed)
            \/ cycle'[r].failed /\ cycle'[r].ready = cycle[r].ready
         /\ \/ /\ PutStatus(s, [status |-> WriterStatus("pending", NoDigest)])
               /\ s \in cycle'[r].ready /\ cycle'[r].lost = cycle[r].lost
            \/ PutStatus(s, Blocked) /\ cycle'[r].lost = cycle[r].lost \ {s}
            \/ UNCHANGED status /\ cycle'[r].lost = cycle[r].lost \cup {s}
         /\ cycle[r].ready \subseteq cycle'[r].ready
  <1> DEFINE c == cycle[r]
             a == [c EXCEPT !.todo = c.todo \ {s}, !.ready = c.ready \cup {s}]
             b == [c EXCEPT !.todo = c.todo \ {s}, !.ready = c.ready \cup {s}, !.failed = TRUE,
                            !.lost = Lost(c, s, FALSE)]
             e(written) == [c EXCEPT !.todo = c.todo \ {s}, !.failed = TRUE, !.lost = Lost(c, s, written)]
  <1>1. /\ a.pc = c.pc /\ a.catalog = c.catalog /\ a.todo = c.todo \ {s} /\ a.ready = c.ready \cup {s}
        /\ a.failed = c.failed /\ a.lost = c.lost
        /\ b.pc = c.pc /\ b.catalog = c.catalog /\ b.todo = c.todo \ {s} /\ b.ready = c.ready \cup {s}
        /\ b.failed = TRUE /\ b.lost = c.lost \cup {s}
        /\ \A written \in BOOLEAN :
             /\ e(written).pc = c.pc /\ e(written).catalog = c.catalog /\ e(written).todo = c.todo \ {s}
             /\ e(written).ready = c.ready /\ e(written).failed = TRUE
             /\ e(written).lost = IF written THEN c.lost \ {s} ELSE c.lost \cup {s}
        /\ c.failed \in BOOLEAN
    BY CycleFacts DEF Cycle, Lost
  <1> DEFINE pending == PutStatus(s, [status |-> WriterStatus("pending", NoDigest)])
             blocked == PutStatus(s, Blocked)
  <1>2. \/ pending /\ Becomes(r, a)
        \/ UNCHANGED status /\ (Becomes(r, b) \/ Becomes(r, e(FALSE)))
        \/ blocked /\ Becomes(r, e(TRUE))
    BY DEF Prepare
  <1>3. c.pc = "prepare"
    BY DEF Prepare
  <1> HIDE DEF a, b, e, c, pending, blocked
  <1>4. \/ pending /\ cycle'[r] = a
        \/ UNCHANGED status /\ (cycle'[r] = b \/ cycle'[r] = e(FALSE))
        \/ blocked /\ cycle'[r] = e(TRUE)
    BY <1>2, NewCycle
  <1> QED
    BY <1>1, <1>3, <1>4 DEF c, pending, blocked

LEMMA MovesContracts ==
  ASSUME TypeInv, NEW r \in Reconciler, Contracts(r)
  PROVE  GoesOn(r, "sources")
  <1>1. PICK ok \in BOOLEAN : Becomes(r, [cycle[r] EXCEPT !.pc = "sources", !.grants = ok])
    BY DEF Contracts
  <1> DEFINE d == [cycle[r] EXCEPT !.pc = "sources", !.grants = ok]
  <1>2. /\ d.pc = "sources" /\ d.at = cycle[r].at /\ d.catalog = cycle[r].catalog
        /\ d.ready = cycle[r].ready /\ d.failed = cycle[r].failed /\ d.lost = cycle[r].lost
    BY CycleFacts DEF Cycle
  <1>3. Becomes(r, d)
    BY <1>1
  <1> HIDE DEF d
  <1>4. cycle'[r] = d
    BY <1>3, NewCycle
  <1> QED
    BY <1>2, <1>4 DEF GoesOn, Kept

LEMMA MovesFetch ==
  ASSUME TypeInv, NEW r \in Reconciler, NEW s \in Source
  PROVE  /\ FetchNotModified(r, s) => GoesOn(r, "refresh") /\ cycle'[r].focus = s
         /\ \A d \in Document : FetchDocument(r, s, d) =>
              GoesOn(r, "activate") /\ cycle'[r].focus = s /\ cycle'[r].prep.checked = cycle[r].at
  <1> DEFINE c == cycle[r]
  <1>1. ASSUME FetchNotModified(r, s)
        PROVE  GoesOn(r, "refresh") /\ cycle'[r].focus = s
    <2> DEFINE e == [c EXCEPT !.pc = "refresh", !.focus = s, !.seen = Current(s)]
    <2>1. /\ e.pc = "refresh" /\ e.focus = s /\ e.at = c.at /\ e.catalog = c.catalog
          /\ e.ready = c.ready /\ e.failed = c.failed /\ e.lost = c.lost
      BY CycleFacts DEF Cycle
    <2>2. Becomes(r, e)
      BY <1>1 DEF FetchNotModified
    <2> HIDE DEF e
    <2>3. cycle'[r] = e
      BY <2>2, NewCycle
    <2> QED
      BY <2>1, <2>3 DEF GoesOn, Kept
  <1>2. ASSUME NEW d \in Document, FetchDocument(r, s, d)
        PROVE  GoesOn(r, "activate") /\ cycle'[r].focus = s /\ cycle'[r].prep.checked = cycle[r].at
    <2> DEFINE e == [c EXCEPT !.pc = "activate", !.focus = s, !.seen = Current(s),
                              !.prep = CandidateOf(d, c.at, TRUE)]
    <2>1. /\ e.pc = "activate" /\ e.focus = s /\ e.at = c.at /\ e.catalog = c.catalog
          /\ e.ready = c.ready /\ e.failed = c.failed /\ e.lost = c.lost /\ e.prep.checked = c.at
      BY CycleFacts DEF Cycle, CandidateOf
    <2>2. Becomes(r, e)
      BY <1>2 DEF FetchDocument
    <2> HIDE DEF e
    <2>3. cycle'[r] = e
      BY <2>2, NewCycle
    <2> QED
      BY <2>1, <2>3 DEF GoesOn, Kept
  <1> QED
    BY <1>1, <1>2

LEMMA MovesActivateCheck ==
  ASSUME TypeInv, NEW r \in Reconciler, ActivateCheck(r)
  PROVE  \/ GoesOn(r, "put activation") /\ SameWork(r)
         \/ GivesUp(r, cycle[r].focus, Blocked)
  <1> DEFINE d == [cycle[r] EXCEPT !.pc = "put activation"]
  <1>1. /\ d.pc = "put activation" /\ d.at = cycle[r].at /\ d.catalog = cycle[r].catalog
        /\ d.ready = cycle[r].ready /\ d.failed = cycle[r].failed /\ d.lost = cycle[r].lost
        /\ d.focus = cycle[r].focus /\ d.prep = cycle[r].prep
    BY CycleFacts DEF Cycle
  <1>2. Becomes(r, d) \/ GivesUp(r, cycle[r].focus, Blocked)
    BY DEF ActivateCheck
  <1> HIDE DEF d
  <1>3. Becomes(r, d) => cycle'[r] = d
    BY NewCycle
  <1> QED
    BY <1>1, <1>2, <1>3 DEF GoesOn, Kept, SameWork

LEMMA MovesRefreshCheck ==
  ASSUME TypeInv, NEW r \in Reconciler, RefreshCheck(r)
  PROVE  \/ /\ GoesOn(r, "put refresh") /\ cycle'[r].focus = cycle[r].focus
            /\ cycle'[r].prep.checked = cycle[r].at
         \/ GivesUp(r, cycle[r].focus, Unavailable(cycle[r].seen, cycle[r].at))
  <1> DEFINE p == CandidateOf(Current(cycle[r].focus).doc, cycle[r].at, TRUE)
             d == [cycle[r] EXCEPT !.pc = "put refresh", !.prep = p]
  <1>1. /\ d.pc = "put refresh" /\ d.at = cycle[r].at /\ d.catalog = cycle[r].catalog
        /\ d.ready = cycle[r].ready /\ d.failed = cycle[r].failed /\ d.lost = cycle[r].lost
        /\ d.focus = cycle[r].focus /\ d.prep = p
    BY CycleFacts DEF Cycle
  <1>2. p.checked = cycle[r].at
    BY DEF CandidateOf
  <1>3. Becomes(r, d) \/ GivesUp(r, cycle[r].focus, Unavailable(cycle[r].seen, cycle[r].at))
    BY DEF RefreshCheck
  <1> HIDE DEF d, p
  <1>4. Becomes(r, d) => cycle'[r] = d
    BY NewCycle
  <1> QED
    BY <1>1, <1>2, <1>3, <1>4 DEF GoesOn, Kept

LEMMA MovesPutCandidate ==
  ASSUME TypeInv, NEW r \in Reconciler, PutCandidate(r)
  PROVE  GoesOn(r, "settle") /\ SameWork(r)
  <1> DEFINE d == [cycle[r] EXCEPT !.pc = "settle"]
  <1>1. /\ d.pc = "settle" /\ d.at = cycle[r].at /\ d.catalog = cycle[r].catalog
        /\ d.ready = cycle[r].ready /\ d.failed = cycle[r].failed /\ d.lost = cycle[r].lost
        /\ d.focus = cycle[r].focus /\ d.prep = cycle[r].prep
    BY CycleFacts DEF Cycle
  <1>2. Becomes(r, d)
    BY DEF PutCandidate
  <1> HIDE DEF d
  <1>3. cycle'[r] = d
    BY <1>2, NewCycle
  <1> QED
    BY <1>1, <1>3 DEF GoesOn, Kept, SameWork

LEMMA MovesReport ==
  ASSUME TypeInv, NEW r \in Reconciler, Report(r)
  PROVE  \E written \in BOOLEAN :
           LET c == cycle[r]
               d == cycle'[r]
           IN  /\ IF written THEN PutStatus(c.focus, c.verdict) ELSE MayFail("status") /\ UNCHANGED status
               /\ d.pc = "sources" /\ d.at = c.at /\ d.catalog = c.catalog
               /\ d.ready = c.ready \ {c.focus}
               /\ d.failed <=> c.failed \/ ~c.verdict.ok \/ ~written
               /\ d.lost = Lost(c, c.focus, written)
  <1> DEFINE c == cycle[r]
             failed(written) == c.failed \/ ~c.verdict.ok \/ ~written
             d(written) == [c EXCEPT !.pc = "sources", !.ready = Remaining(c), !.failed = failed(written),
                                    !.lost = Lost(c, c.focus, written)]
             put(written) == IF written THEN PutStatus(c.focus, c.verdict)
                             ELSE MayFail("status") /\ UNCHANGED status
  <1>1. PICK written \in BOOLEAN : put(written) /\ Becomes(r, d(written))
    BY DEF Report
  <1>2. /\ d(written).pc = "sources" /\ d(written).at = c.at /\ d(written).catalog = c.catalog
        /\ d(written).ready = c.ready \ {c.focus} /\ d(written).failed = failed(written)
        /\ d(written).lost = Lost(c, c.focus, written)
    <2> HIDE DEF failed
    <2> QED
      BY CycleFacts DEF Cycle, Remaining
  <1> HIDE DEF d
  <1>3. cycle'[r] = d(written)
    BY <1>1, NewCycle
  <1> QED
    BY <1>1, <1>2, <1>3

LEMMA MovesPromotion ==
  ASSUME TypeInv, NEW r \in Reconciler
  PROVE  /\ Conclude(r) => \/ ~cycle[r].failed /\ GoesOn(r, "require")
                           \/ Becomes(r, AtRest)
         /\ StartGather(r) => /\ cycle'[r].pc = "gather" /\ cycle'[r].catalog = cycle[r].catalog
                              /\ cycle'[r].ready = cycle[r].ready
         /\ Promote(r) => \/ Activates(ReleaseId(cycle[r].catalog, cycle[r].got))
                             /\ GoesOn(r, "mark") /\ cycle'[r].got = cycle[r].got
                             /\ cycle'[r].todo = cycle[r].catalog
                          \/ Becomes(r, AtRest)
         /\ \A s \in Source :
              /\ Require(r, s) => GoesOn(r, "require") \/ Becomes(r, AtRest)
              /\ Gather(r, s) => GoesOn(r, "gather") \/ Becomes(r, AtRest)
              /\ Mark(r, s) => \/ /\ GoesOn(r, "mark") /\ cycle'[r].got = cycle[r].got
                                  /\ cycle'[r].todo = cycle[r].todo \ {s}
                               \/ Becomes(r, AtRest)
  <1> DEFINE c == cycle[r]
             Goes(d, pc) == /\ d.pc = pc /\ d.at = c.at /\ d.catalog = c.catalog /\ d.ready = c.ready
                            /\ d.failed = c.failed /\ d.lost = c.lost
  <1>0. ASSUME NEW d, NEW pc, Becomes(r, d), Goes(d, pc)
        PROVE  GoesOn(r, pc) /\ cycle'[r] = d
    <2>1. cycle'[r] = d
      BY <1>0, NewCycle
    <2> QED
      BY <1>0, <2>1 DEF GoesOn, Kept
  <1>1. ASSUME Conclude(r), ~Becomes(r, AtRest)
        PROVE  ~c.failed /\ GoesOn(r, "require")
    <2> DEFINE d == [c EXCEPT !.pc = "require", !.todo = c.catalog]
    <2>1. Goes(d, "require")
      BY CycleFacts DEF Cycle
    <2>2. ~c.failed /\ Becomes(r, d)
      BY <1>1 DEF Conclude, MayPromote
    <2> HIDE DEF d
    <2> QED
      BY <1>0, <2>1, <2>2
  <1>2. ASSUME StartGather(r)
        PROVE  cycle'[r].pc = "gather" /\ cycle'[r].catalog = c.catalog /\ cycle'[r].ready = c.ready
    <2> DEFINE d == [c EXCEPT !.pc = "gather", !.at = clock, !.todo = c.catalog]
    <2>1. d.pc = "gather" /\ d.catalog = c.catalog /\ d.ready = c.ready
      BY CycleFacts DEF Cycle
    <2>2. Becomes(r, d)
      BY <1>2 DEF StartGather
    <2> HIDE DEF d
    <2>3. cycle'[r] = d
      BY <2>2, NewCycle
    <2> QED
      BY <2>1, <2>3
  <1>3. ASSUME Promote(r), ~Becomes(r, AtRest)
        PROVE  /\ Activates(ReleaseId(c.catalog, c.got))
               /\ GoesOn(r, "mark") /\ cycle'[r].got = c.got /\ cycle'[r].todo = c.catalog
    <2> DEFINE d == [c EXCEPT !.pc = "mark", !.todo = c.catalog]
    <2>1. Goes(d, "mark") /\ d.got = c.got /\ d.todo = c.catalog
      BY CycleFacts DEF Cycle
    <2>2. Activates(ReleaseId(c.catalog, c.got)) /\ Becomes(r, d)
      BY <1>3 DEF Promote
    <2> HIDE DEF d
    <2> QED
      BY <1>0, <2>1, <2>2
  <1>4. ASSUME NEW s \in Source, Require(r, s), ~Becomes(r, AtRest)
        PROVE  GoesOn(r, "require")
    <2> DEFINE d == [c EXCEPT !.todo = c.todo \ {s}]
    <2>1. Goes(d, "require")
      BY <1>4, CycleFacts DEF Cycle, Require
    <2>2. Becomes(r, d)
      BY <1>4 DEF Require
    <2> HIDE DEF d
    <2> QED
      BY <1>0, <2>1, <2>2
  <1>5. ASSUME NEW s \in Source, Gather(r, s), ~Becomes(r, AtRest)
        PROVE  GoesOn(r, "gather")
    <2> DEFINE d == Gathered(c, s)
    <2>1. Goes(d, "gather")
      BY <1>5, CycleFacts DEF Cycle, Gather, Gathered
    <2>2. Becomes(r, d)
      BY <1>5 DEF Gather
    <2> HIDE DEF d
    <2> QED
      BY <1>0, <2>1, <2>2
  <1>6. ASSUME NEW s \in Source, Mark(r, s), ~Becomes(r, AtRest)
        PROVE  GoesOn(r, "mark") /\ cycle'[r].got = c.got /\ cycle'[r].todo = c.todo \ {s}
    <2> DEFINE d == [c EXCEPT !.todo = c.todo \ {s}]
    <2>1. Goes(d, "mark") /\ d.got = c.got /\ d.todo = c.todo \ {s}
      BY <1>6, CycleFacts DEF Cycle, Mark
    <2>2. Becomes(r, d)
      BY <1>6 DEF Mark
    <2> HIDE DEF d
    <2> QED
      BY <1>0, <2>1, <2>2
  <1> QED
    BY <1>1, <1>2, <1>3, <1>4, <1>5, <1>6

-----------------------------------------------------------------------------
(* One reconciler: what a release is composed of, and what is reported.    *)
(* A promotion follows a cycle without a single failure, so every source   *)
(* of the catalog was written, and reported, by that cycle.                *)

\* The candidate of s is the one this cycle wrote.
Written(c, s) == candidate[s] # NoCandidate /\ candidate[s].checked = c.at

\* A status reports the candidate that s has.
Reports(st, s) == st.state \in {"active", "rollout_required"} /\ st.digest = candidate[s]

\* A digest reported active is that of the active release, until an operator
\* chooses another.
Honest(st, s) ==
  st.state = "active" /\ pin = NoRelease /\ active # NoRelease /\ s \in DOMAIN active
    => st.digest = active[s]

InFocus == {"activate", "refresh", "put activation", "put refresh", "settle", "report"}

\* The source a cycle is busy with.
FocusOK(c) ==
  /\ c.pc \in InFocus => c.focus \in c.ready
  /\ c.pc \in {"activate", "put activation", "put refresh"} => c.prep.checked = c.at
  /\ c.pc = "settle" => c.prep = candidate[c.focus] /\ c.prep.checked = c.at
  /\ c.pc = "report" =>
       /\ c.verdict.ok => Written(c, c.focus) /\ Reports(c.verdict.status, c.focus)
       /\ Honest(c.verdict.status, c.focus)

\* The sources a clean cycle is done with, until it has promoted them.
DoneOK(c) ==
  /\ c.pc = "prepare" /\ ~c.failed => c.catalog \subseteq c.todo \cup c.ready
  /\ c.pc \in InFocus \cup {"sources"} /\ ~c.failed =>
       \A s \in c.catalog \ c.ready : Written(c, s) /\ Reports(status[s], s)
  /\ c.pc = "require" => \A s \in c.catalog : Written(c, s) /\ Reports(status[s], s)
  /\ c.pc = "gather" =>
       /\ \A s, t \in c.catalog : candidate[s].checked = candidate[t].checked
       /\ \A s \in c.catalog : Reports(status[s], s)

MarksOK(c) ==
  c.pc = "mark" => \A s \in c.catalog : Honest(StatusOf("active", c.got[s], TRUE), s)

CleanCycle(c) == FocusOK(c) /\ DoneOK(c) /\ MarksOK(c)

CleanInv ==
  /\ \A r \in Reconciler : CleanCycle(cycle[r])
  /\ \A s \in Source : Honest(status[s], s)
  /\ OneCycleReleases

LEMMA RestIsClean ==
  ASSUME NEW c, c.pc = "idle"
  PROVE  CleanCycle(c)
  BY SMT DEF CleanCycle, FocusOK, DoneOK, MarksOK, InFocus

LEMMA CleanInit == Init => CleanInv
  <1> SUFFICES ASSUME Init PROVE CleanInv
    OBVIOUS
  <1>1. \A r \in Reconciler : CleanCycle(cycle[r])
    <2>1. AtRest.pc = "idle"
      BY DEF AtRest
    <2> QED
      BY <2>1, RestIsClean DEF Init
  <1>2. CASE active = NoRelease /\ DOMAIN stored = {}
    BY <1>1, <1>2 DEF CleanInv, Honest, OneCycleReleases
  <1>3. ASSUME NEW S \in Catalog, NEW d \in Legacy,
               active = [s \in S |-> DeploymentDigest(CandidateOf(d, 0, FALSE))],
               stored = [i \in {active} |-> [s \in S |-> 0]],
               status = [s \in Source |->
                 IF s \in S THEN StatusOf("active", DeploymentDigest(CandidateOf(d, 0, FALSE)), s \in DataFsc)
                 ELSE StatusOf("none", NoDigest, FALSE)]
        PROVE  CleanInv
    <2> DEFINE old == DeploymentDigest(CandidateOf(d, 0, FALSE))
    <2>1. DOMAIN active = S /\ \A s \in S : active[s] = old
      BY <1>3
    <2>2. OneCycleReleases
      BY <1>3, <2>1 DEF OneCycleReleases
    <2>3. ASSUME NEW s \in S PROVE status[s].digest = old
      <3>1. s \in Source
        BY SourceAssumption
      <3>2. status[s] = StatusOf("active", old, s \in DataFsc)
        BY <1>3, <3>1, Zenon
      <3> QED
        BY <3>2 DEF StatusOf
    <2>4. \A s \in Source : Honest(status[s], s)
      BY <2>1, <2>3 DEF Honest
    <2> QED
      BY <1>1, <2>2, <2>4 DEF CleanInv
  <1> QED
    BY <1>2, <1>3 DEF Init

\* A step that leaves the registry alone only has to keep the cycle clean.
LEMMA CleanFrame ==
  ASSUME CleanInv, NEW r \in Reconciler, Reconciler = {r},
         UNCHANGED <<candidate, status, stored, active, pin>>, CleanCycle(cycle'[r])
  PROVE  CleanInv'
  <1>1. CleanCycle(cycle[r])'
    <2>1. FocusOK(cycle[r])'
      BY DEF CleanCycle, FocusOK, Written, Reports, Honest
    <2>2. DoneOK(cycle[r])'
      BY DEF CleanCycle, DoneOK, Written, Reports
    <2>3. MarksOK(cycle[r])'
      BY DEF CleanCycle, MarksOK, Honest
    <2> QED
      BY <2>1, <2>2, <2>3 DEF CleanCycle
  <1>2. (\A s \in Source : Honest(status[s], s))'
    BY DEF CleanInv, Honest
  <1>3. OneCycleReleases'
    BY DEF CleanInv, OneCycleReleases
  <1> QED
    BY <1>1, <1>2, <1>3 DEF CleanInv

LEMMA CleanRest ==
  ASSUME TypeInv, NEW r \in Reconciler, Becomes(r, AtRest)
  PROVE  CleanCycle(cycle'[r])
  <1>1. cycle'[r].pc = "idle"
    BY NewCycle DEF AtRest
  <1> QED
    BY <1>1, RestIsClean

\* A source that was given up is not reported active.
LEMMA NotActive ==
  ASSUME NEW c, NEW t
  PROVE  /\ Blocked.ok = FALSE /\ Blocked.status.state \notin {"active", "pending"}
         /\ Unavailable(c, t).ok = FALSE /\ Unavailable(c, t).status.state \notin {"active", "pending"}
  BY DEF Blocked, Unavailable, WriterStatus, StatusOf

LEMMA CleanGivesUp ==
  ASSUME TypeInv, CleanInv, NEW r \in Reconciler, NEW s \in cycle[r].ready, NEW v,
         cycle[r].pc \in InFocus \cup {"sources"}, GivesUp(r, s, v),
         v.ok = FALSE, v.status.state # "active"
  PROVE  CleanCycle(cycle'[r])
  <1>1. GoesOn(r, "report") /\ cycle'[r].focus = s /\ cycle'[r].verdict = v
    BY MovesGivesUp
  <1> QED
    BY ZenonT(40), <1>1 DEF CleanInv, CleanCycle, FocusOK, DoneOK, MarksOK, GoesOn, Kept, InFocus, Written, Honest

LEMMA CleanSources ==
  ASSUME TypeInv, CleanInv, NEW r \in Reconciler, Reconciler = {r},
         \/ Contracts(r)
         \/ \E s \in cycle[r].ready : \/ FetchFails(r, s) \/ FetchNotModified(r, s)
                                      \/ \E d \in Document : FetchDocument(r, s, d)
  PROVE  CleanInv'
  <1>1. CASE Contracts(r)
    <2>1. cycle[r].pc = "prepare" /\ cycle[r].todo = {} /\ GoesOn(r, "sources")
      BY <1>1, MovesContracts DEF Contracts
    <2>2. CleanCycle(cycle'[r])
      BY <2>1 DEF CleanInv, CleanCycle, FocusOK, DoneOK, MarksOK, GoesOn, Kept, InFocus
    <2> QED
      BY <1>1, <2>2, CleanFrame DEF Contracts
  <1>2. ASSUME NEW s \in cycle[r].ready, FetchFails(r, s)
        PROVE  CleanInv'
    <2>1. CleanCycle(cycle'[r])
      BY <1>2, CleanGivesUp, NotActive DEF FetchFails, Takes
    <2> QED
      BY <1>2, <2>1, CleanFrame DEF FetchFails
  <1>3. ASSUME NEW s \in cycle[r].ready,
               FetchNotModified(r, s) \/ \E d \in Document : FetchDocument(r, s, d)
        PROVE  CleanInv'
    <2>1. s \in Source
      BY CycleFacts DEF Cycle
    <2>2. /\ cycle[r].pc = "sources" /\ cycle'[r].focus = s
          /\ \/ GoesOn(r, "refresh")
             \/ GoesOn(r, "activate") /\ cycle'[r].prep.checked = cycle[r].at
      BY <1>3, <2>1, MovesFetch DEF FetchNotModified, FetchDocument, Takes
    <2>3. CleanCycle(cycle'[r])
      BY <2>2 DEF CleanInv, CleanCycle, FocusOK, DoneOK, MarksOK, GoesOn, Kept, InFocus, Written
    <2> QED
      BY <1>3, <2>3, CleanFrame DEF FetchNotModified, FetchDocument
  <1> QED
    BY <1>1, <1>2, <1>3

LEMMA CleanWrites ==
  ASSUME TypeInv, CleanInv, NEW r \in Reconciler, Reconciler = {r},
         ActivateCheck(r) \/ RefreshCheck(r) \/ PutFails(r) \/ Settle(r)
  PROVE  CleanInv'
  <1> DEFINE c == cycle[r]
  <1>1. c.pc \in InFocus /\ c.focus \in c.ready
    BY DEF ActivateCheck, RefreshCheck, PutFails, Settle, InFocus, CleanInv, CleanCycle, FocusOK
  <1>2. ASSUME NEW v, GivesUp(r, c.focus, v), v.ok = FALSE, v.status.state # "active"
        PROVE  CleanCycle(cycle'[r])
    BY <1>1, <1>2, CleanGivesUp
  <1>3. ASSUME ActivateCheck(r)
        PROVE  CleanCycle(cycle'[r])
    <2>1. CASE GoesOn(r, "put activation") /\ SameWork(r)
      BY <1>1, <1>3, <2>1 DEF CleanInv, CleanCycle, FocusOK, DoneOK, MarksOK, GoesOn, Kept, SameWork,
                              InFocus, Written, ActivateCheck
    <2>2. CASE GivesUp(r, c.focus, Blocked)
      BY <1>2, <2>2, NotActive
    <2> QED
      BY <1>3, <2>1, <2>2, MovesActivateCheck
  <1>4. ASSUME RefreshCheck(r)
        PROVE  CleanCycle(cycle'[r])
    <2>1. CASE GoesOn(r, "put refresh") /\ cycle'[r].focus = c.focus /\ cycle'[r].prep.checked = c.at
      BY <1>1, <1>4, <2>1 DEF CleanInv, CleanCycle, FocusOK, DoneOK, MarksOK, GoesOn, Kept,
                              InFocus, Written, RefreshCheck
    <2>2. CASE GivesUp(r, c.focus, Unavailable(c.seen, c.at))
      BY <1>2, <2>2, NotActive
    <2> QED
      BY <1>4, <2>1, <2>2, MovesRefreshCheck
  <1>5. ASSUME PutFails(r)
        PROVE  CleanCycle(cycle'[r])
    BY <1>2, <1>5, NotActive DEF PutFails
  <1>6. ASSUME Settle(r)
        PROVE  CleanCycle(cycle'[r])
    <2>1. CASE GivesUp(r, c.focus, Blocked)
      BY <1>2, <2>1, NotActive
    <2>2. CASE GivesUp(r, c.focus, Settled(c.focus, c.prep))
      <3> DEFINE v == Settled(c.focus, c.prep)
      <3>1. GoesOn(r, "report") /\ cycle'[r].focus = c.focus /\ cycle'[r].verdict = v
        BY <2>2, MovesGivesUp
      <3>2. /\ v.status.state \in {"active", "rollout_required"} /\ v.status.digest = c.prep
            /\ v.status.state = "active" => ~RolloutRequired(c.focus, c.prep)
        BY DEF Settled, WriterStatus, StatusOf, DeploymentDigest
      <3>3. c.prep = candidate[c.focus] /\ c.prep.checked = c.at /\ c.prep \in Candidate
        BY <1>6, CycleFacts DEF CleanInv, CleanCycle, FocusOK, Settle, CycleOK
      <3> HIDE DEF v
      <3>4. Honest(v.status, c.focus)
        BY <3>2 DEF Honest, RolloutRequired, DeploymentDigest
      <3>5. Written(c, c.focus) /\ Reports(v.status, c.focus)
        BY <3>2, <3>3, SentinelAssumption DEF Written, Reports
      <3>6. DoneOK(cycle'[r]) /\ MarksOK(cycle'[r])
        BY <1>1, <3>1 DEF CleanInv, CleanCycle, DoneOK, MarksOK, GoesOn, Kept, InFocus, Written
      <3>7. FocusOK(cycle'[r])
        BY <1>1, <3>1, <3>4, <3>5 DEF FocusOK, GoesOn, Kept, InFocus, Written
      <3> QED
        BY <3>6, <3>7 DEF CleanCycle
    <2> QED
      BY <1>6, <2>1, <2>2 DEF Settle
  <1>7. UNCHANGED <<candidate, status, stored, active, pin>>
    BY DEF ActivateCheck, RefreshCheck, PutFails, Settle
  <1> QED
    BY <1>3, <1>4, <1>5, <1>6, <1>7, CleanFrame

LEMMA CleanPutCandidate ==
  ASSUME TypeInv, CleanInv, NEW r \in Reconciler, Reconciler = {r}, PutCandidate(r)
  PROVE  CleanInv'
  <1> DEFINE c == cycle[r]
             d == cycle'[r]
  <1>1. d.pc = "settle" /\ Kept(r) /\ d.focus = c.focus /\ d.prep = c.prep
    BY MovesPutCandidate DEF GoesOn, SameWork
  <1>2. /\ candidate' = [candidate EXCEPT ![c.focus] = c.prep]
        /\ UNCHANGED <<status, stored, active, pin>> /\ c.pc \in {"put activation", "put refresh"}
    BY DEF PutCandidate
  <1>3. c.focus \in Source /\ c.focus \in c.ready /\ c.prep.checked = c.at
        /\ candidate \in [Source -> Candidate \cup {NoCandidate}]
    BY <1>2, CycleFacts DEF CleanInv, CleanCycle, FocusOK, InFocus, TypeInv, TypeOK, Cycle
  <1>4. candidate'[c.focus] = c.prep /\ \A s \in Source : s # c.focus => candidate'[s] = candidate[s]
    BY <1>2, <1>3
  <1>5. FocusOK(cycle[r])'
    BY <1>1, <1>3, <1>4 DEF FocusOK, Kept, InFocus
  <1>6. DoneOK(cycle[r])'
    <2>1. c.catalog \subseteq Source
      BY CycleFacts DEF Cycle
    <2>2. ~c.failed => \A s \in c.catalog \ c.ready : Written(c, s) /\ Reports(status[s], s)
      BY <1>2 DEF CleanInv, CleanCycle, DoneOK, InFocus
    <2>3. ASSUME ~c.failed, NEW s \in c.catalog \ c.ready
          PROVE  /\ candidate'[s] # NoCandidate /\ candidate'[s].checked = c.at
                 /\ status[s].state \in {"active", "rollout_required"} /\ status[s].digest = candidate'[s]
      BY <1>3, <1>4, <2>1, <2>2, <2>3 DEF Written, Reports
    <2> QED
      BY <1>1, <1>2, <2>3 DEF DoneOK, Kept, InFocus, Written, Reports
  <1>7. MarksOK(cycle[r])'
    BY <1>1 DEF MarksOK
  <1>8. (\A s \in Source : Honest(status[s], s))' /\ OneCycleReleases'
    BY <1>2 DEF CleanInv, Honest, OneCycleReleases
  <1> QED
    BY <1>5, <1>6, <1>7, <1>8 DEF CleanInv, CleanCycle

LEMMA CleanPrepare ==
  ASSUME TypeInv, CleanInv, NEW r \in Reconciler, Reconciler = {r}, NEW s \in Source, Prepare(r, s)
  PROVE  CleanInv'
  <1> DEFINE c == cycle[r]
             d == cycle'[r]
             pending == [status |-> WriterStatus("pending", NoDigest)]
  <1>1. /\ d.pc = "prepare" /\ d.catalog = c.catalog /\ d.todo = c.todo \ {s}
        /\ \/ d.ready = c.ready \cup {s} /\ (d.failed \/ ~c.failed)
           \/ d.failed
    BY MovesPrepare
  <1>2. c.pc = "prepare" /\ UNCHANGED <<candidate, stored, active, pin>>
    BY DEF Prepare
  <1>3. CleanCycle(cycle[r])'
    <2>1. FocusOK(cycle[r])' /\ MarksOK(cycle[r])'
      BY <1>1 DEF FocusOK, MarksOK, InFocus
    <2>2. DoneOK(cycle[r])'
      BY <1>1, <1>2 DEF DoneOK, InFocus, CleanInv, CleanCycle
    <2> QED
      BY <2>1, <2>2 DEF CleanCycle
  <1>4. ASSUME NEW t \in Source
        PROVE  status'[t].state # "active" \/ status'[t] = status[t]
    <2>1. PutStatus(s, pending) \/ PutStatus(s, Blocked) \/ UNCHANGED status
      BY MovesPrepare
    <2>2. pending.status.state # "active" /\ Blocked.status.state # "active"
      BY DEF WriterStatus, StatusOf, Blocked
    <2>3. status \in [Source -> Status]
      BY DEF TypeInv, TypeOK
    <2> HIDE DEF pending
    <2> QED
      BY <2>1, <2>2, <2>3 DEF PutStatus
  <1>5. (\A t \in Source : Honest(status[t], t))'
    BY <1>2, <1>4 DEF CleanInv, Honest
  <1> QED
    BY <1>2, <1>3, <1>5 DEF CleanInv, OneCycleReleases

LEMMA CleanReport ==
  ASSUME TypeInv, CleanInv, NEW r \in Reconciler, Reconciler = {r}, Report(r)
  PROVE  CleanInv'
  <1> DEFINE c == cycle[r]
             d == cycle'[r]
  <1>1. PICK written \in BOOLEAN :
          /\ IF written THEN PutStatus(c.focus, c.verdict) ELSE MayFail("status") /\ UNCHANGED status
          /\ d.pc = "sources" /\ d.at = c.at /\ d.catalog = c.catalog /\ d.ready = c.ready \ {c.focus}
          /\ d.failed <=> c.failed \/ ~c.verdict.ok \/ ~written
    BY MovesReport
  <1>2. c.pc = "report" /\ UNCHANGED <<candidate, stored, active, pin>>
    BY DEF Report
  <1>3. c.focus \in Source /\ c.catalog \subseteq Source /\ status \in [Source -> Status]
    BY CycleFacts DEF Cycle, TypeInv, TypeOK
  <1>4. /\ c.verdict.ok => Written(c, c.focus) /\ Reports(c.verdict.status, c.focus)
        /\ Honest(c.verdict.status, c.focus)
        /\ ~c.failed => \A s \in c.catalog \ c.ready : Written(c, s) /\ Reports(status[s], s)
    BY <1>2 DEF CleanInv, CleanCycle, FocusOK, DoneOK, InFocus
  <1>5. /\ \A s \in Source : s # c.focus => status'[s] = status[s]
        /\ status'[c.focus] \in {status[c.focus], c.verdict.status}
        /\ written => status'[c.focus] = c.verdict.status
    BY <1>1, <1>3 DEF PutStatus
  <1>6. FocusOK(cycle[r])' /\ MarksOK(cycle[r])'
    BY <1>1 DEF FocusOK, MarksOK, InFocus
  <1>7. DoneOK(cycle[r])'
    <2>1. ASSUME ~d.failed, NEW s \in d.catalog \ d.ready
          PROVE  Written(d, s) /\ Reports(status'[s], s)
      BY <1>1, <1>3, <1>4, <1>5, <2>1 DEF Written
    <2> QED
      BY <1>1, <1>2, <2>1 DEF DoneOK, InFocus, Written, Reports
  <1>8. (\A s \in Source : Honest(status[s], s))'
    <2>1. ASSUME NEW s \in Source PROVE Honest(status'[s], s)
      BY <1>3, <1>4, <1>5 DEF CleanInv
    <2> QED
      BY <1>2, <2>1 DEF Honest
  <1> QED
    BY <1>2, <1>6, <1>7, <1>8 DEF CleanInv, CleanCycle, OneCycleReleases

LEMMA CleanComposes ==
  ASSUME TypeInv, CleanInv, NEW r \in Reconciler, Reconciler = {r},
         \/ Conclude(r) \/ StartGather(r) \/ Finish(r)
         \/ \E s \in cycle[r].todo : Require(r, s) \/ Gather(r, s)
  PROVE  CleanInv'
  <1> DEFINE c == cycle[r]
  <1>1. CASE Conclude(r)
    <2>1. CASE Becomes(r, AtRest)
      BY <1>1, <2>1, CleanRest, CleanFrame DEF Conclude
    <2>2. CASE ~c.failed /\ GoesOn(r, "require")
      <3>1. c.pc = "sources" /\ c.ready = {}
        BY <1>1 DEF Conclude
      <3>2. \A s \in c.catalog : Written(c, s) /\ Reports(status[s], s)
        BY <2>2, <3>1 DEF CleanInv, CleanCycle, DoneOK
      <3>3. CleanCycle(cycle'[r])
        BY <2>2, <3>2 DEF CleanCycle, FocusOK, DoneOK, MarksOK, GoesOn, Kept, InFocus, Written
      <3> QED
        BY <1>1, <3>3, CleanFrame DEF Conclude
    <2> QED
      BY <1>1, <2>1, <2>2, MovesPromotion
  <1>2. CASE StartGather(r)
    <2>1. /\ cycle'[r].pc = "gather" /\ cycle'[r].catalog = c.catalog /\ c.pc = "require"
          /\ UNCHANGED <<candidate, status, stored, active, pin>>
      BY <1>2, MovesPromotion DEF StartGather
    <2>2. \A s \in c.catalog : Written(c, s) /\ Reports(status[s], s)
      BY <2>1 DEF CleanInv, CleanCycle, DoneOK
    <2>3. CleanCycle(cycle'[r])
      BY <2>1, <2>2 DEF CleanCycle, FocusOK, DoneOK, MarksOK, InFocus, Written
    <2> QED
      BY <2>1, <2>3, CleanFrame
  <1>3. ASSUME NEW s \in c.todo, Require(r, s) \/ Gather(r, s)
        PROVE  CleanInv'
    <2>1. UNCHANGED <<candidate, status, stored, active, pin>>
      BY <1>3 DEF Require, Gather
    <2>2. CASE Becomes(r, AtRest)
      BY <2>1, <2>2, CleanRest, CleanFrame
    <2>3. CASE GoesOn(r, c.pc) /\ c.pc \in {"require", "gather"}
      <3>1. CleanCycle(cycle'[r])
        BY ZenonT(40), <2>3 DEF CleanInv, CleanCycle, FocusOK, DoneOK, MarksOK, GoesOn, Kept, InFocus, Written
      <3> QED
        BY <2>1, <3>1, CleanFrame
    <2>4. s \in Source
      BY CycleFacts DEF Cycle
    <2> QED
      BY <1>3, <2>2, <2>3, <2>4, MovesPromotion DEF Require, Gather
  <1>4. CASE Finish(r)
    BY <1>4, CleanRest, CleanFrame DEF Finish
  <1> QED
    BY <1>1, <1>2, <1>3, <1>4

LEMMA CleanPromote ==
  ASSUME TypeInv, HistoryInv, CleanInv, NEW r \in Reconciler, Reconciler = {r}, Promote(r)
  PROVE  CleanInv'
  <1> DEFINE c == cycle[r]
             d == cycle'[r]
             id == ReleaseId(c.catalog, c.got)
  <1>1. /\ DOMAIN stored' = DOMAIN stored \cup {id} /\ UNCHANGED <<candidate, status>> /\ c.pc = "gather"
        /\ active' = IF Activates(id) THEN id ELSE active
        /\ pin' = IF active' = active THEN pin ELSE NoRelease
    BY DEF Promote
  <1>2. DOMAIN id = c.catalog /\ c.catalog \subseteq Source /\ \A s \in c.catalog : id[s] = c.got[s]
    BY CycleFacts DEF ReleaseId, DeploymentDigest, Cycle
  <1>3. \A s \in c.catalog : id[s] = candidate[s]
    BY <1>2, PromotesCandidates
  <1>4. /\ \A s, t \in c.catalog : candidate[s].checked = candidate[t].checked
        /\ \A s \in c.catalog : Reports(status[s], s)
    BY <1>1 DEF CleanInv, CleanCycle, DoneOK
  <1>5. \/ Activates(id) /\ d.pc = "mark" /\ d.catalog = c.catalog /\ d.got = c.got
        \/ Becomes(r, AtRest)
    BY MovesPromotion DEF GoesOn, Kept
  <1> HIDE DEF id
  <1>6. OneCycleReleases'
    BY <1>1, <1>2, <1>3, <1>4 DEF CleanInv, OneCycleReleases
  <1>7. (\A s \in Source : Honest(status[s], s))'
    <2>1. CASE active' = active
      BY <1>1, <2>1 DEF CleanInv, Honest
    <2>2. CASE active' # active
      BY <1>1, <1>2, <1>3, <1>4, <2>2 DEF Honest, Reports
    <2> QED
      BY <2>1, <2>2
  <1>8. CleanCycle(cycle[r])'
    <2>1. CASE Becomes(r, AtRest)
      <3>1. d.pc = "idle"
        BY <2>1, NewCycle DEF AtRest
      <3> QED
        BY <3>1 DEF CleanCycle, FocusOK, DoneOK, MarksOK, InFocus
    <2>2. CASE Activates(id) /\ d.pc = "mark" /\ d.catalog = c.catalog /\ d.got = c.got
      <3>1. active' = id
        BY <1>1, <2>2
      <3>2. MarksOK(cycle[r])'
        BY <1>2, <2>2, <3>1 DEF MarksOK, Honest, StatusOf
      <3>3. FocusOK(cycle[r])' /\ DoneOK(cycle[r])'
        BY <2>2 DEF FocusOK, DoneOK, InFocus
      <3> QED
        BY <3>2, <3>3 DEF CleanCycle
    <2> QED
      BY <1>5, <2>1, <2>2
  <1> QED
    BY <1>6, <1>7, <1>8 DEF CleanInv

LEMMA CleanMark ==
  ASSUME TypeInv, CleanInv, NEW r \in Reconciler, Reconciler = {r}, NEW s \in cycle[r].todo, Mark(r, s)
  PROVE  CleanInv'
  <1> DEFINE c == cycle[r]
             done == [status |-> StatusOf("active", DeploymentDigest(c.got[s]), s \in DataFsc)]
  <1>1. c.pc = "mark" /\ UNCHANGED <<candidate, stored, active, pin>> /\ s \in Source /\ s \in c.catalog
    BY CycleFacts DEF Mark, Cycle, CycleOK
  <1>2. CleanCycle(cycle[r])'
    <2>1. \/ cycle'[r].pc = "mark" /\ cycle'[r].catalog = c.catalog /\ cycle'[r].got = c.got
          \/ cycle'[r].pc = "idle"
      <3>1. AtRest.pc = "idle"
        BY DEF AtRest
      <3> QED
        BY <1>1, <3>1, MovesPromotion, NewCycle DEF GoesOn, Kept
    <2>2. MarksOK(cycle[r])'
      BY <1>1, <2>1 DEF CleanInv, CleanCycle, MarksOK, Honest
    <2>3. FocusOK(cycle[r])' /\ DoneOK(cycle[r])'
      BY <2>1 DEF FocusOK, DoneOK, InFocus
    <2> QED
      BY <2>2, <2>3 DEF CleanCycle
  <1>3. (\A t \in Source : Honest(status[t], t))'
    <2>1. Honest(StatusOf("active", c.got[s], TRUE), s)
      BY <1>1 DEF CleanInv, CleanCycle, MarksOK
    <2>2. done.status.digest = c.got[s]
      BY Zenon DEF StatusOf, DeploymentDigest
    <2>3. Honest(done.status, s)
      <3>1. StatusOf("active", c.got[s], TRUE).state = "active" /\ StatusOf("active", c.got[s], TRUE).digest = c.got[s]
        BY DEF StatusOf
      <3> HIDE DEF done
      <3> QED
        BY <2>1, <2>2, <3>1 DEF Honest
    <2>4. PutStatus(s, done) \/ UNCHANGED status
      BY Zenon DEF Mark
    <2>5. status \in [Source -> Status]
      BY DEF TypeInv, TypeOK
    <2> HIDE DEF done
    <2>6. \A t \in Source : status'[t] = status[t] \/ (t = s /\ status'[t] = done.status)
      BY <2>4, <2>5 DEF PutStatus
    <2> QED
      BY <1>1, <2>3, <2>6 DEF CleanInv, Honest
  <1> QED
    BY <1>1, <1>2, <1>3 DEF CleanInv, OneCycleReleases

LEMMA CleanOperator ==
  ASSUME TypeInv, CleanInv, NEW id \in DOMAIN stored, OperatorActivate(id)
  PROVE  CleanInv'
  <1>1. pin' # NoRelease /\ UNCHANGED <<candidate, status, stored, cycle>>
    BY ReleaseIsNotTheSentinel DEF OperatorActivate, TypeInv, TypeOK
  <1>2. ASSUME NEW r \in Reconciler
        PROVE  CleanCycle(cycle[r])'
    <2>1. FocusOK(cycle[r])'
      BY <1>1 DEF CleanInv, CleanCycle, FocusOK, Written, Reports, Honest
    <2>2. DoneOK(cycle[r])'
      BY <1>1 DEF CleanInv, CleanCycle, DoneOK, Written, Reports
    <2>3. MarksOK(cycle[r])'
      BY <1>1 DEF MarksOK, Honest
    <2> QED
      BY <2>1, <2>2, <2>3 DEF CleanCycle
  <1> QED
    BY <1>1, <1>2 DEF CleanInv, Honest, OneCycleReleases

LEMMA CleanStep ==
  ASSUME TypeInv, HistoryInv, CleanInv, NEW r \in Reconciler, Reconciler = {r}, [Next]_vars
  PROVE  CleanInv'
  <1>1. CASE Reconcile(r)
    <2>1. cycle[r].todo \subseteq Source
      BY CycleFacts DEF Cycle
    <2> QED
      BY <1>1, <2>1, CleanSources, CleanWrites, CleanPutCandidate, CleanPrepare, CleanReport,
         CleanComposes, CleanPromote, CleanMark, Zenon DEF Reconcile
  <1>2. CASE Crash(r)
    BY <1>2, CleanRest, CleanFrame DEF Crash
  <1>3. ASSUME NEW S \in Catalog, Begin(r, S)
        PROVE  CleanInv'
    <2>1. CleanCycle(cycle'[r])
      BY <1>3, MovesBegin DEF CleanCycle, FocusOK, DoneOK, MarksOK, InFocus
    <2> QED
      BY <1>3, <2>1, CleanFrame DEF Begin
  <1>4. CASE UNCHANGED <<candidate, status, stored, active, pin, cycle>>
    BY <1>4, CleanFrame DEF CleanInv
  <1>5. Tick \/ UNCHANGED vars => UNCHANGED <<candidate, status, stored, active, pin, cycle>>
    BY DEF Tick, vars
  <1> QED
    BY <1>1, <1>2, <1>3, <1>4, <1>5, CleanOperator DEF Next

(* With one reconciler, the candidates of every release that is ever       *)
(* stored were written by one clean cycle (PromoteCompleteSourceSet after  *)
(* a cycle without an error): whatever failed, crashed or was rolled back  *)
(* before, nothing an earlier cycle left travels into a release.           *)
THEOREM ReleasesOfOneCycle ==
  ASSUME NEW r \in Reconciler, Reconciler = {r}
  PROVE  Spec => []OneCycleReleases
  <1>1. TypeInv /\ HistoryInv /\ CleanInv /\ [Next]_vars => HistoryInv' /\ CleanInv'
    BY HistoryStep, CleanStep
  <1>2. CleanInv => OneCycleReleases
    BY DEF CleanInv
  <1> QED
    BY <1>1, <1>2, TypeInit, HistoryInit, CleanInit, TypeStep, PTL DEF Spec

(* With one reconciler, a source of the active release that is reported    *)
(* active is reported with the digest the release has, unless an operator  *)
(* chose the release: at every point of a cycle, after failed status       *)
(* writes, and after a crash between the promotion and the marking.        *)
THEOREM ActiveStatusHonest ==
  ASSUME NEW r \in Reconciler, Reconciler = {r}
  PROVE  Spec => []StatusActiveHonest
  <1>1. TypeInv /\ HistoryInv /\ CleanInv /\ [Next]_vars => HistoryInv' /\ CleanInv'
    BY HistoryStep, CleanStep
  <1>2. CleanInv => StatusActiveHonest
    BY DEF CleanInv, StatusActiveHonest, Honest
  <1> QED
    BY <1>1, <1>2, TypeInit, HistoryInit, CleanInit, TypeStep, PTL DEF Spec

-----------------------------------------------------------------------------
(* One reconciler: what a cycle leaves in the status table.  A source the  *)
(* cycle is done with is pending only if the cycle lost its last write,    *)
(* and a cycle without a failure has reported each as the release demands. *)

\* A status calls for a rollout exactly when the release does, unless an
\* operator chose another release.
Agrees(st, s) ==
  pin = NoRelease => (st.state = "rollout_required" <=> RolloutRequired(s, candidate[s]))

NonePending(S) == \A s \in S : status[s].state # "pending"

SettledCycle(c) ==
  /\ c.pc = "prepare" => NonePending(c.catalog \ (c.todo \cup c.ready \cup c.lost))
  /\ c.pc \in InFocus \cup {"sources"} =>
       /\ NonePending(c.catalog \ (c.ready \cup c.lost))
       /\ ~c.failed => \A s \in c.catalog \ c.ready : Agrees(status[s], s)
  /\ c.pc = "report" => /\ c.verdict.status.state # "pending"
                        /\ c.verdict.ok => Agrees(c.verdict.status, c.focus)
  /\ c.pc \in {"require", "gather"} => \A s \in c.catalog : Agrees(status[s], s)
  /\ c.pc = "mark" => \A s \in c.catalog : /\ status[s].digest = c.got[s]
                                           /\ s \notin c.todo => status[s].state = "active"

SettledInv == \A r \in Reconciler : SettledCycle(cycle[r])

LEMMA RestIsSettled ==
  ASSUME NEW c, c.pc = "idle"
  PROVE  SettledCycle(c)
  BY SMT DEF SettledCycle, InFocus

LEMMA SettledInit == Init => SettledInv
  <1>1. AtRest.pc = "idle"
    BY DEF AtRest
  <1> QED
    BY <1>1, RestIsSettled DEF Init, SettledInv

\* A step that leaves candidates, statuses and the pointer alone only has to
\* keep the cycle settled.
LEMMA SettledFrame ==
  ASSUME NEW r \in Reconciler, Reconciler = {r},
         UNCHANGED <<candidate, status, active, pin>>, SettledCycle(cycle'[r])
  PROVE  SettledInv'
  BY DEF SettledInv, SettledCycle, NonePending, Agrees, RolloutRequired, DeploymentDigest

LEMMA SettledRest ==
  ASSUME TypeInv, NEW r \in Reconciler, Becomes(r, AtRest)
  PROVE  SettledCycle(cycle'[r])
  <1>1. cycle'[r].pc = "idle"
    BY NewCycle DEF AtRest
  <1> QED
    BY <1>1, RestIsSettled

\* The steps between two sources keep what is known of the others.
LEMMA SettledGoesOn ==
  ASSUME SettledInv, NEW r \in Reconciler, NEW pc, GoesOn(r, pc),
         cycle[r].pc \in InFocus \cup {"sources"},
         pc \in InFocus \cup {"sources"}, pc # "report"
  PROVE  SettledCycle(cycle'[r])
  BY DEF SettledInv, SettledCycle, GoesOn, Kept, InFocus

LEMMA SettledGivesUp ==
  ASSUME TypeInv, SettledInv, NEW r \in Reconciler, NEW s, NEW v, GivesUp(r, s, v),
         cycle[r].pc \in InFocus \cup {"sources"},
         v.status.state # "pending", v.ok => Agrees(v.status, s)
  PROVE  SettledCycle(cycle'[r])
  <1>1. GoesOn(r, "report") /\ cycle'[r].focus = s /\ cycle'[r].verdict = v
    BY MovesGivesUp
  <1> QED
    BY <1>1 DEF SettledInv, SettledCycle, GoesOn, Kept, InFocus

LEMMA SettledSources ==
  ASSUME TypeInv, CleanInv, SettledInv, NEW r \in Reconciler, Reconciler = {r},
         \/ Contracts(r)
         \/ \E s \in cycle[r].ready : \/ FetchFails(r, s) \/ FetchNotModified(r, s)
                                      \/ \E d \in Document : FetchDocument(r, s, d)
  PROVE  SettledInv'
  <1> DEFINE c == cycle[r]
  <1>1. CASE Contracts(r)
    <2>1. c.pc = "prepare" /\ c.todo = {} /\ GoesOn(r, "sources")
      BY <1>1, MovesContracts DEF Contracts
    <2>2. ~c.failed => c.catalog \subseteq c.ready
      BY <2>1 DEF CleanInv, CleanCycle, DoneOK
    <2>3. NonePending(c.catalog \ (c.ready \cup c.lost))
      BY <2>1 DEF SettledInv, SettledCycle, NonePending
    <2>4. SettledCycle(cycle'[r])
      BY <2>1, <2>2, <2>3 DEF SettledCycle, GoesOn, Kept, InFocus
    <2> QED
      BY <1>1, <2>4, SettledFrame DEF Contracts
  <1>2. ASSUME NEW s \in c.ready, FetchFails(r, s)
        PROVE  SettledInv'
    <2>1. SettledCycle(cycle'[r])
      BY <1>2, SettledGivesUp, NotActive DEF FetchFails, Takes
    <2> QED
      BY <1>2, <2>1, SettledFrame DEF FetchFails
  <1>3. ASSUME NEW s \in c.ready,
               FetchNotModified(r, s) \/ \E d \in Document : FetchDocument(r, s, d)
        PROVE  SettledInv'
    <2>1. s \in Source /\ c.pc = "sources"
      BY <1>3, CycleFacts DEF Cycle, FetchNotModified, FetchDocument, Takes
    <2>2. GoesOn(r, "refresh") \/ GoesOn(r, "activate")
      BY <1>3, <2>1, MovesFetch
    <2>3. SettledCycle(cycle'[r])
      BY <2>1, <2>2, SettledGoesOn DEF InFocus
    <2> QED
      BY <1>3, <2>3, SettledFrame DEF FetchNotModified, FetchDocument
  <1> QED
    BY <1>1, <1>2, <1>3

LEMMA SettledWrites ==
  ASSUME TypeInv, CleanInv, SettledInv, NEW r \in Reconciler, Reconciler = {r},
         ActivateCheck(r) \/ RefreshCheck(r) \/ PutFails(r) \/ Settle(r)
  PROVE  SettledInv'
  <1> DEFINE c == cycle[r]
  <1>1. c.pc \in InFocus
    BY DEF ActivateCheck, RefreshCheck, PutFails, Settle, InFocus
  <1>2. CASE ActivateCheck(r) \/ RefreshCheck(r)
    <2>1. \/ GoesOn(r, "put activation") \/ GoesOn(r, "put refresh")
          \/ GivesUp(r, c.focus, Blocked) \/ GivesUp(r, c.focus, Unavailable(c.seen, c.at))
      BY <1>2, MovesActivateCheck, MovesRefreshCheck
    <2>2. SettledCycle(cycle'[r])
      BY <1>1, <2>1, SettledGoesOn, SettledGivesUp, NotActive DEF InFocus
    <2> QED
      BY <1>2, <2>2, SettledFrame DEF ActivateCheck, RefreshCheck
  <1>3. CASE PutFails(r)
    <2>1. SettledCycle(cycle'[r])
      BY <1>1, <1>3, SettledGivesUp, NotActive DEF PutFails
    <2> QED
      BY <1>3, <2>1, SettledFrame DEF PutFails
  <1>4. CASE Settle(r)
    <2> DEFINE v == Settled(c.focus, c.prep)
    <2>1. c.prep = candidate[c.focus]
      BY <1>4 DEF CleanInv, CleanCycle, FocusOK, Settle
    <2>2. v.status.state = IF RolloutRequired(c.focus, c.prep) THEN "rollout_required" ELSE "active"
      BY DEF Settled, WriterStatus, StatusOf
    <2> HIDE DEF v
    <2>3. v.status.state # "pending" /\ Agrees(v.status, c.focus)
      BY <2>1, <2>2 DEF Agrees
    <2>4. GivesUp(r, c.focus, v) \/ GivesUp(r, c.focus, Blocked)
      BY <1>4 DEF Settle, v
    <2>5. SettledCycle(cycle'[r])
      BY <1>1, <2>3, <2>4, SettledGivesUp, NotActive
    <2> QED
      BY <1>4, <2>5, SettledFrame DEF Settle
  <1> QED
    BY <1>2, <1>3, <1>4

\* The candidate that is written is of the source the cycle is busy with.
LEMMA SettledPutCandidate ==
  ASSUME TypeInv, CleanInv, SettledInv, NEW r \in Reconciler, Reconciler = {r}, PutCandidate(r)
  PROVE  SettledInv'
  <1> DEFINE c == cycle[r]
             d == cycle'[r]
  <1>1. d.pc = "settle" /\ Kept(r)
    BY MovesPutCandidate DEF GoesOn
  <1>2. /\ candidate' = [candidate EXCEPT ![c.focus] = c.prep]
        /\ UNCHANGED <<status, active, pin>> /\ c.pc \in {"put activation", "put refresh"}
    BY DEF PutCandidate
  <1>3. c.focus \in c.ready /\ c.catalog \subseteq Source
        /\ candidate \in [Source -> Candidate \cup {NoCandidate}]
    BY <1>2, CycleFacts DEF CleanInv, CleanCycle, FocusOK, InFocus, TypeInv, TypeOK, Cycle
  <1>4. \A s \in c.catalog \ c.ready : candidate'[s] = candidate[s]
    BY <1>2, <1>3
  <1>5. /\ NonePending(c.catalog \ (c.ready \cup c.lost))
        /\ ~c.failed => \A s \in c.catalog \ c.ready : Agrees(status[s], s)
    BY <1>2 DEF SettledInv, SettledCycle, InFocus
  <1>6. \A s \in d.catalog \ (d.ready \cup d.lost) : status'[s].state # "pending"
    BY <1>1, <1>2, <1>5 DEF Kept, NonePending
  <1>7. ASSUME ~d.failed, NEW s \in d.catalog \ d.ready
        PROVE  Agrees(status[s], s)'
    BY <1>1, <1>2, <1>4, <1>5, <1>7 DEF Kept, Agrees, RolloutRequired
  <1>8. SettledCycle(cycle[r])'
    BY <1>1, <1>6, <1>7 DEF SettledCycle, NonePending, InFocus
  <1> QED
    BY <1>8 DEF SettledInv

LEMMA SettledPrepare ==
  ASSUME TypeInv, SettledInv, NEW r \in Reconciler, Reconciler = {r}, NEW s \in Source, Prepare(r, s)
  PROVE  SettledInv'
  <1> DEFINE c == cycle[r]
             d == cycle'[r]
             pending == [status |-> WriterStatus("pending", NoDigest)]
  <1>1. /\ d.pc = "prepare" /\ d.catalog = c.catalog /\ d.todo = c.todo \ {s} /\ c.ready \subseteq d.ready
        /\ \/ PutStatus(s, pending) /\ s \in d.ready /\ d.lost = c.lost
           \/ PutStatus(s, Blocked) /\ d.lost = c.lost \ {s}
           \/ UNCHANGED status /\ d.lost = c.lost \cup {s}
    BY MovesPrepare
  <1>2. NonePending(c.catalog \ (c.todo \cup c.ready \cup c.lost))
    BY DEF Prepare, SettledInv, SettledCycle
  <1>3. status \in [Source -> Status] /\ c.catalog \subseteq Source
    BY CycleFacts DEF TypeInv, TypeOK, Cycle
  <1> HIDE DEF pending
  <1>4. ASSUME NEW t \in d.catalog \ (d.todo \cup d.ready \cup d.lost)
        PROVE  status'[t].state # "pending"
    <2>1. CASE t = s
      BY <1>1, <1>3, <1>4, <2>1, NotActive DEF PutStatus
    <2>2. CASE t # s
      <3>1. status'[t] = status[t]
        BY <1>1, <1>3, <2>2 DEF PutStatus
      <3>2. t \in c.catalog \ (c.todo \cup c.ready \cup c.lost)
        BY <1>1, <1>4, <2>2
      <3> QED
        BY <1>2, <3>1, <3>2 DEF NonePending
    <2> QED
      BY <2>1, <2>2
  <1>5. SettledCycle(cycle[r])'
    BY <1>1, <1>4 DEF SettledCycle, NonePending, InFocus
  <1> QED
    BY <1>5 DEF SettledInv

LEMMA SettledReport ==
  ASSUME TypeInv, CleanInv, SettledInv, NEW r \in Reconciler, Reconciler = {r}, Report(r)
  PROVE  SettledInv'
  <1> DEFINE c == cycle[r]
             d == cycle'[r]
  <1>1. PICK written \in BOOLEAN :
          /\ IF written THEN PutStatus(c.focus, c.verdict) ELSE MayFail("status") /\ UNCHANGED status
          /\ d.pc = "sources" /\ d.catalog = c.catalog /\ d.ready = c.ready \ {c.focus}
          /\ d.failed <=> c.failed \/ ~c.verdict.ok \/ ~written
          /\ d.lost = Lost(c, c.focus, written)
    BY MovesReport
  <1>2. c.pc = "report" /\ UNCHANGED <<candidate, active, pin>>
    BY DEF Report
  <1>3. c.focus \in Source /\ c.catalog \subseteq Source /\ status \in [Source -> Status]
    BY CycleFacts DEF Cycle, TypeInv, TypeOK
  <1>4. /\ NonePending(c.catalog \ (c.ready \cup c.lost))
        /\ ~c.failed => \A s \in c.catalog \ c.ready : Agrees(status[s], s)
        /\ c.verdict.status.state # "pending"
        /\ c.verdict.ok => Agrees(c.verdict.status, c.focus)
    BY <1>2 DEF SettledInv, SettledCycle, InFocus
  <1>5. /\ \A s \in Source : s # c.focus => status'[s] = status[s]
        /\ written => status'[c.focus] = c.verdict.status
    BY <1>1, <1>3 DEF PutStatus
  <1>6. ASSUME NEW s \in d.catalog \ (d.ready \cup d.lost)
        PROVE  status'[s].state # "pending"
    BY <1>1, <1>3, <1>4, <1>5, <1>6 DEF Lost, NonePending
  <1>7. ASSUME ~d.failed, NEW s \in d.catalog \ d.ready
        PROVE  Agrees(status[s], s)'
    <2>1. Agrees(status'[s], s)
      BY <1>1, <1>3, <1>4, <1>5, <1>7
    <2> QED
      BY <1>2, <2>1 DEF Agrees, RolloutRequired
  <1>8. SettledCycle(cycle[r])'
    BY <1>1, <1>6, <1>7 DEF SettledCycle, NonePending, InFocus
  <1> QED
    BY <1>8 DEF SettledInv

LEMMA SettledComposes ==
  ASSUME TypeInv, SettledInv, NEW r \in Reconciler, Reconciler = {r},
         \/ Conclude(r) \/ StartGather(r) \/ Finish(r)
         \/ \E s \in cycle[r].todo : Require(r, s) \/ Gather(r, s)
  PROVE  SettledInv'
  <1> DEFINE c == cycle[r]
  <1>1. UNCHANGED <<candidate, status, active, pin>>
    BY DEF Conclude, StartGather, Finish, Require, Gather
  <1>2. CASE Becomes(r, AtRest)
    BY <1>1, <1>2, SettledRest, SettledFrame
  <1>3. CASE cycle'[r].pc \in {"require", "gather"} /\ cycle'[r].catalog = c.catalog
             /\ \A s \in c.catalog : Agrees(status[s], s)
    <2>1. SettledCycle(cycle'[r])
      BY <1>3 DEF SettledCycle, InFocus
    <2> QED
      BY <1>1, <2>1, SettledFrame
  <1>4. ASSUME Conclude(r), ~Becomes(r, AtRest)
        PROVE  /\ cycle'[r].pc = "require" /\ cycle'[r].catalog = c.catalog
               /\ \A s \in c.catalog : Agrees(status[s], s)
    <2>1. ~c.failed /\ c.pc = "sources" /\ c.ready = {} /\ GoesOn(r, "require")
      BY <1>4, MovesPromotion DEF Conclude
    <2> QED
      BY <2>1 DEF SettledInv, SettledCycle, GoesOn, Kept
  <1>5. ASSUME c.pc \in {"require", "gather"}
        PROVE  \A s \in c.catalog : Agrees(status[s], s)
    BY <1>5 DEF SettledInv, SettledCycle
  <1>6. ASSUME NEW s \in c.todo, Require(r, s) \/ Gather(r, s), ~Becomes(r, AtRest)
        PROVE  /\ c.pc \in {"require", "gather"}
               /\ cycle'[r].pc \in {"require", "gather"} /\ cycle'[r].catalog = c.catalog
    <2>1. s \in Source
      BY CycleFacts DEF Cycle
    <2> QED
      BY <1>6, <2>1, MovesPromotion DEF Require, Gather, GoesOn, Kept
  <1>7. StartGather(r) => /\ c.pc = "require" /\ cycle'[r].pc = "gather"
                          /\ cycle'[r].catalog = c.catalog
    BY MovesPromotion DEF StartGather
  <1>8. Finish(r) => Becomes(r, AtRest)
    BY DEF Finish
  <1> QED
    BY <1>2, <1>3, <1>4, <1>5, <1>6, <1>7, <1>8

\* What is promoted are the candidates the statuses report.
LEMMA SettledPromote ==
  ASSUME TypeInv, HistoryInv, CleanInv, SettledInv, NEW r \in Reconciler, Reconciler = {r}, Promote(r)
  PROVE  SettledInv'
  <1> DEFINE c == cycle[r]
             d == cycle'[r]
  <1>1. UNCHANGED <<candidate, status>> /\ c.pc = "gather"
    BY DEF Promote
  <1>2. CASE Becomes(r, AtRest)
    <2>1. d.pc = "idle"
      BY <1>2, NewCycle DEF AtRest
    <2>2. SettledCycle(cycle[r])'
      BY <2>1 DEF SettledCycle, InFocus
    <2> QED
      BY <2>2 DEF SettledInv
  <1>3. CASE GoesOn(r, "mark") /\ d.got = c.got /\ d.todo = c.catalog
    <2>1. \A s \in c.catalog : status[s].digest = c.got[s]
      <3>1. \A s \in c.catalog : status[s].digest = candidate[s]
        BY <1>1 DEF CleanInv, CleanCycle, DoneOK, Reports
      <3>2. \A s \in c.catalog : c.got[s] = candidate[s]
        BY CycleFacts DEF CycleOK, Cycle, Promote, HistoryInv, GatheredIsCurrent
      <3> QED
        BY <3>1, <3>2
    <2>2. SettledCycle(cycle[r])'
      BY <1>1, <1>3, <2>1 DEF SettledCycle, GoesOn, Kept, InFocus
    <2> QED
      BY <2>2 DEF SettledInv
  <1> QED
    BY <1>2, <1>3, MovesPromotion

LEMMA SettledMark ==
  ASSUME TypeInv, SettledInv, NEW r \in Reconciler, Reconciler = {r}, NEW s \in cycle[r].todo, Mark(r, s)
  PROVE  SettledInv'
  <1> DEFINE c == cycle[r]
             d == cycle'[r]
             done == [status |-> StatusOf("active", DeploymentDigest(c.got[s]), s \in DataFsc)]
  <1>1. /\ c.pc = "mark" /\ UNCHANGED <<candidate, active, pin>> /\ s \in Source
        /\ c.catalog \subseteq Source /\ status \in [Source -> Status]
    BY CycleFacts DEF Mark, Cycle, TypeInv, TypeOK
  <1>2. CASE Becomes(r, AtRest)
    <2>1. d.pc = "idle"
      BY <1>2, NewCycle DEF AtRest
    <2>2. SettledCycle(cycle[r])'
      BY <2>1 DEF SettledCycle, InFocus
    <2> QED
      BY <2>2 DEF SettledInv
  <1>3. CASE ~Becomes(r, AtRest)
    <2>1. GoesOn(r, "mark") /\ d.got = c.got /\ d.todo = c.todo \ {s}
      BY <1>1, <1>3, MovesPromotion
    <2>2. PutStatus(s, done)
      BY <1>3, Zenon DEF Mark
    <2>3. done.status.digest = c.got[s] /\ done.status.state = "active"
      BY Zenon DEF StatusOf, DeploymentDigest
    <2> HIDE DEF done
    <2>4. status'[s] = done.status /\ \A t \in Source : t # s => status'[t] = status[t]
      BY <1>1, <2>2 DEF PutStatus
    <2>5. \A t \in c.catalog : status[t].digest = c.got[t] /\ (t \notin c.todo => status[t].state = "active")
      BY <1>1 DEF SettledInv, SettledCycle
    <2>6. ASSUME NEW t \in c.catalog
          PROVE  status'[t].digest = d.got[t] /\ (t \notin d.todo => status'[t].state = "active")
      BY <1>1, <2>1, <2>3, <2>4, <2>5
    <2>7. SettledCycle(cycle[r])'
      BY <2>1, <2>6 DEF SettledCycle, GoesOn, Kept, InFocus
    <2> QED
      BY <2>7 DEF SettledInv
  <1> QED
    BY <1>2, <1>3

LEMMA SettledOperator ==
  ASSUME TypeInv, SettledInv, NEW id \in DOMAIN stored, OperatorActivate(id)
  PROVE  SettledInv'
  <1>1. pin' # NoRelease /\ UNCHANGED <<candidate, status, cycle>>
    BY ReleaseIsNotTheSentinel DEF OperatorActivate, TypeInv, TypeOK
  <1> QED
    BY <1>1 DEF SettledInv, SettledCycle, NonePending, Agrees

LEMMA SettledStep ==
  ASSUME TypeInv, HistoryInv, CleanInv, SettledInv, NEW r \in Reconciler, Reconciler = {r}, [Next]_vars
  PROVE  SettledInv'
  <1>1. CASE Reconcile(r)
    <2>1. cycle[r].todo \subseteq Source
      BY CycleFacts DEF Cycle
    <2> QED
      BY <1>1, <2>1, SettledSources, SettledWrites, SettledPutCandidate, SettledPrepare, SettledReport,
         SettledComposes, SettledPromote, SettledMark, Zenon DEF Reconcile
  <1>2. CASE Crash(r)
    BY <1>2, SettledRest, SettledFrame DEF Crash
  <1>3. ASSUME NEW S \in Catalog, Begin(r, S)
        PROVE  SettledInv'
    <2>1. SettledCycle(cycle'[r])
      BY <1>3, MovesBegin DEF SettledCycle, NonePending, InFocus
    <2> QED
      BY <1>3, <2>1, SettledFrame DEF Begin
  <1>4. CASE UNCHANGED <<candidate, status, active, pin, cycle>>
    BY <1>4, SettledFrame DEF SettledInv
  <1>5. Tick \/ UNCHANGED vars => UNCHANGED <<candidate, status, active, pin, cycle>>
    BY DEF Tick, vars
  <1> QED
    BY <1>1, <1>2, <1>3, <1>4, <1>5, SettledOperator DEF Next

(* With one reconciler, and whatever failed, crashed or was lost before or *)
(* on the way: a cycle that got through its sources leaves none pending    *)
(* but one whose last status write it lost; a cycle that goes on to        *)
(* promote has every source reported with the candidate that travels, as a *)
(* rollout exactly when the release says so; and marking starts from those *)
(* reports.                                                                *)
THEOREM StatusesSettled ==
  ASSUME NEW r \in Reconciler, Reconciler = {r}
  PROVE  Spec => []SettledByCycle
  <1>1. TypeInv /\ HistoryInv /\ CleanInv /\ SettledInv /\ [Next]_vars
          => HistoryInv' /\ CleanInv' /\ SettledInv'
    BY HistoryStep, CleanStep, SettledStep
  <1>2. CleanInv /\ SettledInv => SettledByCycle
    BY DEF CleanInv, CleanCycle, DoneOK, SettledInv, SettledCycle, NonePending, Agrees, Reports,
           SettledByCycle, DeploymentDigest
  <1> QED
    BY <1>1, <1>2, TypeInit, HistoryInit, CleanInit, SettledInit, TypeStep, PTL DEF Spec

=============================================================================
