---------------------------- MODULE EudiIssuance ----------------------------
(* The issuance of attestations from one onboarded source: what the source   *)
(* publishes, the reconciler that compiles it into a candidate and promotes  *)
(* a release, the EUDI adapter that serves the active release, the issuance  *)
(* server ("pod") that was configured from the release that was active when  *)
(* it started, and a wallet that asks for a credential                       *)
(* (services/eudi-adapter: main.go, source_release_runtime.go,               *)
(* issuance_release.go, source_reconciler_adapters.go).                      *)
(*                                                                           *)
(* Adapter and pod read the release at different moments: the adapter polls, *)
(* the pod reads it once.  One request is followed at a time; requests share *)
(* nothing but the adapter's snapshot, which each captures at its start.     *)
EXTENDS SourceDocument

CONSTANTS
    Configuration, \* the operator's configuration of the source
    Identity,      \* the OIN and the name its certificates carry
    Documents,     \* the documents the source may publish
    Contracts,     \* the contracts that may be signed with it
    Changing,      \* bound: those of them that are signed or revoked while we look
    Citizens,      \* the values a disclosed PID gives for the BSN; "" when it has none
    Requests,      \* raw parameters a caller may send to the route itself
    Rows(_, _),    \* the answers a source may give to a definition and its variables
    Unwritable,    \* parameter values an issuance URL cannot carry: fractions
    QtspMaterial,  \* "off", "absent", "partial" or "present"
    MaxReleases,   \* bound on the number of releases
    Absent         \* no document, no definition

ASSUME ChangingAssumption == Changing \subseteq Contracts

VARIABLES
    published,     \* the document the source serves
    contracts,     \* the contracts that are valid
    cycle,         \* the reconciler: its stage and the contracts it has listed
    candidate,     \* the compiled candidate of the source
    releases,      \* every release, in the order of promotion
    activeRelease, \* which of them is active; 0 when none is
    adapter,       \* which release the adapter serves; 0 when it has none
    pod,           \* which release the pod was configured from; 0 when it is down
    session        \* the request under way; once "issued", the credential in the wallet

issuanceVars ==
    <<published, contracts, cycle, candidate, releases, activeRelease, adapter, pod, session>>

Stages == {"idle", "extracted", "asked", "assembled", "recorded", "answered", "issued"}

\* what comes of an assembly, and what the caller hears: 502, 404, the
\* attestation, or else 400 and 500
Outcomes == {"none", "failed", "no_data", "credential"}
Heard    == Outcomes \cup {"bad_request", "not_logged"}

NoRequest ==
    [stage |-> "idle", pod |-> 0, release |-> 0, type |-> "", supplied |-> <<>>, bsn |-> "",
     plan |-> Absent, grant |-> 0, outcome |-> "none", claims |-> NoClaims, records |-> {},
     reply |-> "none", metadata |-> Absent]

IssuanceInit ==
    /\ published \in {d \in Documents : d.version = 1}
    /\ contracts = Contracts
    /\ cycle = [stage |-> "idle", contracts |-> {}]
    /\ candidate = Absent /\ releases = <<>> /\ activeRelease = 0 /\ adapter = 0 /\ pod = 0
    /\ session = NoRequest

-----------------------------------------------------------------------------
(* The source and the FSC manager, which the adapter only sees the result of. *)

Publish ==
    /\ published' \in Documents \ {published}
    /\ UNCHANGED <<contracts, cycle, candidate, releases, activeRelease, adapter, pod, session>>

Sign ==
    /\ \E c \in Changing \ contracts : contracts' = contracts \cup {c}
    /\ UNCHANGED <<published, cycle, candidate, releases, activeRelease, adapter, pod, session>>

Revoke ==
    /\ \E c \in Changing \cap contracts : contracts' = contracts \ {c}
    /\ UNCHANGED <<published, cycle, candidate, releases, activeRelease, adapter, pod, session>>

\* a call under a grant gets through as long as its contract is valid
Honoured(grant) == \E c \in contracts : c.hash = grant

-----------------------------------------------------------------------------
(* The reconciler.                                                            *)

\* the contracts are listed once for the whole cycle
Survey ==
    /\ cycle.stage = "idle" /\ ValidConfiguration(Configuration)
    /\ cycle' = [stage |-> "surveyed",
                 contracts |-> IF NeedsContracts(Configuration) THEN contracts ELSE {}]
    /\ UNCHANGED <<published, contracts, candidate, releases, activeRelease, adapter, pod, session>>

MetadataGrant == Grant(cycle.contracts, ProviderPeer(Configuration), Configuration.metadata.service)

\* the metadata call gets through: an FSC call needs a grant that still counts
Fetchable == Configuration.metadata.transport = "fsc" => MetadataGrant # 0 /\ Honoured(MetadataGrant)

Resolved(document) ==
    Registration(Configuration, Identity, MetadataGrant, DataService(document),
                 Grant(cycle.contracts, ProviderPeer(Configuration), DataService(document)))

\* a document that is new to the candidate is described, compiled and activated
Compile ==
    /\ cycle.stage = "surveyed" /\ Fetchable
    /\ candidate # Absent => candidate.document # published
    /\ Describable(published)
    /\ LET r == Resolved(published) IN
        /\ ValidRegistration(r) /\ ValidDocument(r, published)
        /\ candidate # Absent => MayReplace(candidate.document, published)
        /\ candidate' = [document |-> published, registration |-> r]
    /\ cycle' = [stage |-> "compiled", contracts |-> {}]
    /\ UNCHANGED <<published, contracts, releases, activeRelease, adapter, pod, session>>

\* "not modified": the candidate keeps its document and is registered anew
Reregister ==
    /\ cycle.stage = "surveyed" /\ Fetchable
    /\ candidate # Absent /\ candidate.document = published
    /\ ValidRegistration(Resolved(published))
    /\ candidate' = [candidate EXCEPT !.registration = Resolved(published)]
    /\ cycle' = [stage |-> "compiled", contracts |-> {}]
    /\ UNCHANGED <<published, contracts, releases, activeRelease, adapter, pod, session>>

\* the source is blocked, or the reconciler stops: nothing is promoted
GiveUp ==
    /\ cycle.stage # "idle"
    /\ cycle' = [stage |-> "idle", contracts |-> {}]
    /\ UNCHANGED <<published, contracts, candidate, releases, activeRelease, adapter, pod, session>>

\* the complete set of candidates becomes a release, unless it has been one
Promote ==
    /\ cycle.stage = "compiled"
    /\ IF candidate \in ToSet(releases) THEN UNCHANGED <<releases, activeRelease>>
       ELSE /\ Len(releases) < MaxReleases
            /\ releases' = Append(releases, candidate)
            /\ activeRelease' = Len(releases')
    /\ cycle' = [stage |-> "idle", contracts |-> {}]
    /\ UNCHANGED <<published, contracts, candidate, adapter, pod, session>>

Rollback ==
    /\ \E i \in DOMAIN releases : i # activeRelease /\ activeRelease' = i
    /\ UNCHANGED <<published, contracts, cycle, candidate, releases, adapter, pod, session>>

AdapterRefresh ==
    /\ adapter # activeRelease
    /\ adapter' = activeRelease
    /\ UNCHANGED <<published, contracts, cycle, candidate, releases, activeRelease, pod, session>>

-----------------------------------------------------------------------------
(* The pod: the release as the issuance server's configuration.               *)

Types(release)  == {ActivatedType(d) : d \in ToSet(release.document.definitions)}
Vcts(release)   == {t.vct : t \in Types(release)}
TypeOf(release, type) == CHOOSE t \in Types(release) : t.type = type

\* the usecase of an offer: the callback URL with the offer's parameters
Usecases(release) ==
    UNION {{[id |-> o.id, type |-> t.type, supplied |-> o.parameters] :
              o \in t.definition.offers} : t \in Types(release)}

QtspVct == <<"qtsp", "1">>

\* the reference QTSP's usecase next to those of the sources: absent material
\* is left out with a warning, partial material or a name in use is an error
QtspFits(release) ==
    \/ QtspMaterial \in {"off", "absent"}
    \/ /\ QtspMaterial = "present"
       /\ \A u \in Usecases(release) : u.id # "qtsp-attestation"
       /\ QtspVct \notin Vcts(release)

Materializable(release) ==
    /\ \A u, w \in Usecases(release) : u.id = w.id => u = w
    /\ \A u \in Usecases(release) : Range(u.supplied) \cap Unwritable = {}
    /\ QtspFits(release)
    /\ Usecases(release) # {}

\* a pod starts from the active release; what was under way in it is lost, and
\* a release it cannot be configured from leaves it down
PodStart ==
    /\ activeRelease # 0
    /\ pod' = IF Materializable(releases[activeRelease]) THEN activeRelease ELSE 0
    /\ session' = [session EXCEPT !.pod = 0]
    /\ UNCHANGED <<published, contracts, cycle, candidate, releases, activeRelease, adapter>>

-----------------------------------------------------------------------------
(* A request: the handler of the attestation route, step by step.             *)

End == session' = NoRequest

\* a wallet discloses a PID to a usecase of the pod, whose callback calls the
\* route; the route does not know its caller, so any parameters may come in
Calls ==
    (IF pod = 0 THEN {}
     ELSE {[pod |-> pod, type |-> u.type, supplied |-> u.supplied] : u \in Usecases(releases[pod])})
    \cup [pod : {0}, type : {d.type : d \in UNION {ToSet(x.definitions) : x \in Documents}},
          supplied : Requests]

\* what the logbook holds of a request: that the BSN was read, and what came of
\* the assembly: whether it failed and how many claims it made
Extraction == [kind |-> "extraction", failed |-> FALSE, claims |-> 0]
Assembly(outcome, claims) ==
    [kind |-> "assembly", failed |-> outcome = "failed", claims |-> Cardinality(DOMAIN claims)]

\* a write the logbook does not confirm, which may have arrived all the same,
\* ends the request with 500
Unconfirmed(request, record) ==
    {[request EXCEPT !.stage = "answered", !.reply = "not_logged", !.records = @ \cup stored] :
        stored \in SUBSET {record}}

\* the route is bound to a type of the release the adapter serves, and that
\* binding holds for the whole request.  Reading the BSN out of the PID is
\* recorded before anything is asked; without a binding or a BSN the request
\* ends at once
Extract ==
    /\ session.stage = "idle" /\ adapter # 0
    /\ \E call \in Calls, bsn \in Citizens \ {""} :
        LET bound == [NoRequest EXCEPT !.stage = "extracted", !.pod = call.pod, !.type = call.type,
                                       !.supplied = call.supplied, !.bsn = bsn, !.release = adapter]
        IN  /\ call.type \in {t.type : t \in Types(releases[adapter])}
            /\ session' \in {[bound EXCEPT !.records = {Extraction}]} \cup Unconfirmed(bound, Extraction)
    /\ UNCHANGED <<published, contracts, cycle, candidate, releases, activeRelease, adapter, pod>>

Definition   == TypeOf(releases[session.release], session.type).definition
DataAccess   == releases[session.release].registration.data

\* callSource: the plan must be for the service the grant was resolved for
Callable == Definition.service = DataAccess.service
            /\ (DataAccess.transport = "fsc" => DataAccess.grant # 0)

\* parameters that are not offered end the request with 400
Refuse ==
    /\ session.stage = "extracted"
    /\ ~Plannable(Definition, session.bsn, session.supplied)
    /\ session' = [session EXCEPT !.stage = "answered", !.reply = "bad_request"]
    /\ UNCHANGED <<published, contracts, cycle, candidate, releases, activeRelease, adapter, pod>>

\* the parameters become the plan of the query, which goes to the source; a plan
\* that may not be called is an assembly that failed.  No release that was
\* validated has such a plan
Ask ==
    /\ session.stage = "extracted"
    /\ Plannable(Definition, session.bsn, session.supplied)
    /\ session' = IF Callable
                  THEN [session EXCEPT !.stage = "asked", !.grant = DataAccess.grant,
                                       !.plan = Plan(Definition, session.bsn, session.supplied)]
                  ELSE [session EXCEPT !.stage = "assembled", !.outcome = "failed"]
    /\ UNCHANGED <<published, contracts, cycle, candidate, releases, activeRelease, adapter, pod>>

\* what the profile can make of the call: of an answer of the source, or of a
\* call that fails, also because its grant is honoured no longer
Projections ==
    IF DataAccess.transport = "fsc" => Honoured(session.grant)
    THEN {Project(answer, Definition.result_pointer, Definition.claims) :
            answer \in Rows(Definition, session.plan.variables)}
    ELSE {Failed}

Answer ==
    /\ session.stage = "asked"
    /\ \E projection \in Projections :
          session' = [session EXCEPT !.stage = "assembled", !.outcome = projection.outcome,
                                     !.claims = projection.claims]
    /\ UNCHANGED <<published, contracts, cycle, candidate, releases, activeRelease, adapter, pod>>

\* a bug this code could have: only an answer of the source is recorded, and a
\* call that failed is answered at once
RecordAnswers ==
    /\ session.stage = "assembled"
    /\ LET record == Assembly(session.outcome, session.claims) IN
       session' \in {[session EXCEPT !.stage = "recorded",
                                     !.records = IF session.outcome = "failed" THEN @ ELSE @ \cup {record}]}
                    \cup Unconfirmed(session, record)
    /\ UNCHANGED <<published, contracts, cycle, candidate, releases, activeRelease, adapter, pod>>

\* the assembly is recorded whatever came of it, before anything is answered
Record ==
    /\ session.stage = "assembled"
    /\ LET record == Assembly(session.outcome, session.claims) IN
       session' \in {[session EXCEPT !.stage = "recorded", !.records = @ \cup {record}]}
                    \cup Unconfirmed(session, record)
    /\ UNCHANGED <<published, contracts, cycle, candidate, releases, activeRelease, adapter, pod>>

Reply ==
    /\ session.stage = "recorded"
    /\ session' = [session EXCEPT !.stage = "answered", !.reply = session.outcome]
    /\ UNCHANGED <<published, contracts, cycle, candidate, releases, activeRelease, adapter, pod>>

AnsweredVct == TypeOf(releases[session.release], session.type).vct

\* the pod signs what it is answered if it was configured with that VCT
Signable ==
    /\ session.stage = "answered" /\ session.reply = "credential"
    /\ session.pod # 0 /\ AnsweredVct \in Vcts(releases[session.pod])

\* the type metadata a credential refers to by its VCT and its integrity
Installed == (CHOOSE t \in Types(releases[session.pod]) : t.vct = AnsweredVct).integrity

Issue ==
    /\ Signable
    /\ session' = [session EXCEPT !.stage = "issued", !.metadata = Installed]
    /\ UNCHANGED <<published, contracts, cycle, candidate, releases, activeRelease, adapter, pod>>

\* the request is over, or the adapter has stopped under it, or the wallet
\* parts with the credential
EndRequest ==
    /\ session.stage # "idle" /\ End
    /\ UNCHANGED <<published, contracts, cycle, candidate, releases, activeRelease, adapter, pod>>

IssuanceNext ==
    \/ Publish \/ Sign \/ Revoke
    \/ Survey \/ Compile \/ Reregister \/ GiveUp \/ Promote \/ Rollback
    \/ AdapterRefresh \/ PodStart
    \/ Extract \/ Refuse \/ Ask \/ Answer \/ Record \/ Reply \/ Issue \/ EndRequest

IssuanceSpec == IssuanceInit /\ [][IssuanceNext]_issuanceVars

-----------------------------------------------------------------------------
(* What the parts keep to, and what holds then.                               *)

\* the definitions of all documents, and what a request can supply
Definitions == UNION {ToSet(d.definitions) : d \in Documents}
Lawful == {d \in Definitions : ValidAttestation(d)}
Supplies == Requests \cup UNION {{o.parameters : o \in d.offers} : d \in Lawful}

ASSUME SuppliesAssumption == \A supplied \in Supplies : IsFiniteSet(DOMAIN supplied)

\* A source answers about the citizen that the subject variable names.
ASSUME SourceAssumption ==
    \A d \in Lawful : \A bsn \in Citizens : \A supplied \in Supplies :
       Plannable(d, bsn, supplied) =>
          LET variables == Variables(d, bsn, supplied) IN
          \A answer \in Rows(d, variables) :
             answer.at = "rows" /\ answer.rows # <<>> =>
                \A p \in DOMAIN answer.rows[1] :
                   answer.rows[1][p][3] = variables[d.subject_variable]

\* what a candidate may hold: a document, and the registration of one resolution
Services == {Configuration.metadata.service} \cup {DataService(d) : d \in Documents}
Grants == {Grant(cs, ProviderPeer(Configuration), s) : cs \in SUBSET Contracts, s \in Services}
Candidates ==
    [document : Documents,
     registration : {Registration(Configuration, Identity, m, s, g) :
                       m \in Grants, s \in Services, g \in Grants}]

\* Every variable has the type its section gives it.
IssuanceTypeOK ==
    /\ published \in Documents
    /\ contracts \subseteq Contracts
    /\ cycle \in [stage : {"idle", "surveyed", "compiled"}, contracts : SUBSET Contracts]
    /\ candidate \in {Absent} \cup Candidates
    /\ releases \in Seq(Candidates)
    /\ {activeRelease, adapter, pod} \subseteq {0} \cup DOMAIN releases
    /\ DOMAIN session = DOMAIN NoRequest
    /\ session.stage \in Stages /\ session.outcome \in Outcomes /\ session.reply \in Heard
    /\ \A record \in session.records : record.kind \in {"extraction", "assembly"}
    /\ {session.pod, session.release} \subseteq {0} \cup DOMAIN releases

\* A document may name its own subject variable as a parameter, which then
\* overrides the BSN, and may change its claims or display without a new type
\* version (docs/source-onboarding.md:385-388 asks it not to).  The adapter
\* checks neither: the properties say what holds of such documents too.
OwnSubject(definition) == definition.subject_variable \notin DOMAIN definition.parameters

\* two releases describe one VCT in different ways
Redefined(vct) ==
    \E x, y \in ToSet(releases) : \E t \in Types(x), u \in Types(y) :
        t.vct = vct /\ u.vct = vct /\ t.integrity # u.integrity

\* A credential in a wallet fits the type metadata of the release that mapped
\* its claims, and also the metadata it pins, which the pod took from the
\* release it was started from, unless the source has released that VCT with
\* other metadata; and everything in it is about the citizen of the PID, or
\* about whom the parameters name if the definition lets them.
IssuedAsPublished ==
    session.stage = "issued" =>
        LET d == Definition IN
        /\ FitsSchema(session.claims, TypeMetadata(d, Vct(d)))
        /\ FitsSchema(session.claims, session.metadata) \/ Redefined(Vct(d))
        /\ \A name \in DOMAIN session.claims :
             session.claims[name][3] = IF OwnSubject(d) THEN session.bsn
                                       ELSE session.plan.variables[d.subject_variable]

\* What the source is asked is one of the offers of the release that the
\* request is bound to, value by value; and nothing else but the BSN, unless a
\* parameter overrides that.  When the request came from a pod, which may have
\* been started from another release, it is also the offer that pod showed in
\* each parameter that is of one type in both releases.
AskedAsOffered ==
    session.plan # Absent =>
        LET d == Definition
            variables == session.plan.variables
        IN  /\ \E o \in d.offers :
                 /\ \A name \in DOMAIN o.parameters :
                      name \in DOMAIN variables /\ variables[name] = o.parameters[name]
                 /\ OwnSubject(d) =>
                      /\ variables[d.subject_variable] = session.bsn
                      /\ DOMAIN variables = DOMAIN o.parameters \cup {d.subject_variable}
            /\ session.pod # 0 =>
                 \E t \in Types(releases[session.pod]) : \E shown \in t.definition.offers :
                    /\ t.type = session.type
                    /\ DOMAIN variables = DOMAIN shown.parameters \cup {d.subject_variable}
                    /\ \A name \in DOMAIN shown.parameters :
                         /\ name \in DOMAIN d.parameters
                         /\ d.parameters[name].type = t.definition.parameters[name].type =>
                               variables[name] = shown.parameters[name]

\* No source is asked and no parameter refused without a record of the
\* extraction; whatever the caller hears of an assembly, that it failed, that
\* there is nothing, or the attestation, the logbook has a record of just that,
\* and so it has of the claims in a wallet.
NothingLeavesUnrecorded ==
    /\ session.plan # Absent \/ session.reply \notin {"none", "not_logged"} =>
          Extraction \in session.records
    /\ session.reply \in {"failed", "no_data", "credential"} =>
          Assembly(session.reply, session.claims) \in session.records
    /\ session.stage = "issued" => Assembly("credential", session.claims) \in session.records
    /\ session.reply \in {"failed", "no_data"} => session.claims = NoClaims

=============================================================================
