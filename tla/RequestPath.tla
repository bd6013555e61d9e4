---------------------------- MODULE RequestPath ----------------------------
(* One GraphQL request on its way through a source: a peer asks, or the       *)
(* consumer backend for a question put to it (Consumer); the Inway asks the   *)
(* PDP, whose adapter maps the request (GraphqlMapper) and whose policy       *)
(* judges it (RuleCascade); the sidecar puts the citizen of the consent in    *)
(* the placeholder's place; the source runs the query and spools a record per *)
(* processing; the sidecar spools its own and lets the answer out.            *)
EXTENDS Consumer, AdmissionRegister

CONSTANTS
    Requests,       \* what peers ask: [service, acting, delegator, http, token]
    Questions,      \* what is put to the consumer backend
    ConsumerParty,  \* the peer the consumer backend is
    Contracts,      \* the contracts peers submit: [self, peers, grants, wellFormed]
    MaxContracts,   \* bound: how many a behaviour signs
    Deployments,    \* what may be deployed: [catalog, source], catalog per service
                    \* [path, sdl], the PDP's bundle, source the schema it runs
    Pinned,         \* the services whose schema has the digest the policy pins
    OwnOIN          \* per service the peer that serves it

LOCAL INSTANCE SequencesExt

VARIABLES
    deployment,     \* the deployment under way
    contracts,      \* the contracts the source's Manager counter-signed
    req,            \* the request under way, None between requests
    stage,          \* where it is
    mapped,         \* the mapper's output
    variables,           \* the body's variables, as they are now
    filled,         \* the BSN or pseudonym put in the placeholder's place
    executed,       \* the fields the source ran
    facts,          \* what the resolvers noted
    spool,          \* the records made durable, of each party on the way
    answer,         \* what left the Inway: [client, data]
    question,       \* the question the request is for, None when a peer asks
    result          \* what the consumer backend hands its caller

requestVars == <<req, stage, mapped, variables, filled, executed, facts, answer>>
consumerVars == <<question, result>>
allVars == <<deployment, registerVars, contracts, requestVars, spool, consumerVars>>

NoAnswer == [client |-> "", data |-> {}]

Init ==
    /\ deployment \in Deployments
    /\ RegisterInit
    /\ contracts = {} /\ spool = {}
    /\ req = None /\ stage = "idle" /\ mapped = None /\ variables = None /\ filled = None
    /\ executed = {} /\ facts = NoFacts /\ answer = NoAnswer
    /\ question = None /\ result = NoResult

Answer(client, data) ==
    /\ stage' = "answered"
    /\ answer' = [client |-> client, data |-> data]

----------------------------------------------------------------------------
(* The PDP.                                                                  *)

\* The admission register the PDP holds; None until it was pulled once.
participants == IF pulled THEN copy ELSE None

\* The register, its operators and OpenFTV's pull do not wait for requests; a
\* decision reads the copy once, so what they do during a request is what they
\* do before or after it.
Register(A) == stage = "idle" /\ A /\ UNCHANGED <<deployment, contracts, requestVars, spool, consumerVars>>

\* A peer submits a contract; the Manager asks the PDP and signs on allow.
Sign(c) ==
    /\ stage = "idle" /\ c \notin contracts /\ Cardinality(contracts) < MaxContracts
    /\ AutosignRefusal(c, c.self, participants) = "none"
    /\ contracts' = contracts \cup {c}
    /\ UNCHANGED <<deployment, registerVars, requestVars, spool, consumerVars>>

\* The Manager issues an access token on a signed contract; the input of the
\* contract decision names no direction, so either counterparty may delegate.
Connected(r) ==
    \E c \in {k \in contracts : k.self = OwnOIN[r.service]} :
        IF r.delegator = None
        THEN c.grants = {"connection"} /\ r.acting \in c.peers
        ELSE c.grants = {"delegated"} /\ {r.acting, r.delegator} \subseteq c.peers

Ask ==
    /\ stage = "idle"
    /\ \E r \in Requests :
          /\ Connected(r)
          /\ req' = r /\ stage' = "asked" /\ variables' = r.http.body.variables
    /\ UNCHANGED <<deployment, registerVars, contracts, mapped, filled, executed, facts, spool, answer,
                   consumerVars>>

\* A question is put to the consumer backend: refused when it cannot be asked,
\* else sent through the Outway, which reaches nobody without a contract, or
\* when the connection fails.
PutQuestion(q, reached) ==
    /\ stage = "idle" /\ question' = q
    /\ IF CallerError(q) \/ Unreadable(q.token)
       THEN /\ stage' = "handed"
            /\ result' = IF CallerError(q) THEN Result("BadRequest", {}, "", {})
                         ELSE Result("InvalidToken", {}, Unavailable, {})
            /\ UNCHANGED <<req, variables, answer>>
       ELSE LET r == [service |-> ServiceOf(q), acting |-> ConsumerParty, delegator |-> None,
                      http |-> Post(q), token |-> q.token]
            IN  /\ req' = r /\ variables' = r.http.body.variables /\ UNCHANGED result
                /\ IF ~reached THEN Answer("UNREACHED", {})
                   ELSE IF ~Connected(r) THEN Answer("NO_GRANT", {})
                   ELSE stage' = "asked" /\ UNCHANGED answer
    /\ UNCHANGED <<deployment, registerVars, contracts, mapped, filled, executed, facts, spool>>

Context ==
    [service |-> req.service, acting |-> req.acting, delegator |-> req.delegator,
     consent |-> IF req.token = None THEN None ELSE req.token.resolved,
     participants |-> participants,
     pinned |-> req.service \in Pinned]

\* LoadCatalog: the bundle's schemas, loaded once.
Catalog == [s \in DOMAIN deployment.catalog |->
    [path |-> deployment.catalog[s].path, schema |-> LoadSchema(deployment.catalog[s].sdl)]]

\* The adapter maps the request and the policy decides.  The mapper's output
\* could not be added: the policy denies without it.
Decide(attached) ==
    /\ stage = "asked"
    /\ mapped' = CatalogMap(Catalog, req.service, req.http)
    /\ LET d == Decision(Context, mapped', attached)
       IN  IF d.allow THEN stage' = "allowed" /\ UNCHANGED answer ELSE Answer(d.client, {})
    /\ UNCHANGED <<deployment, registerVars, contracts, req, variables, filled, executed, facts, spool,
                   consumerVars>>

----------------------------------------------------------------------------
(* The sidecar.                                                              *)

SubjectVariable == "bsn"

\* Who the request is about as it arrived: the subject variable's value.
Subject == IF SubjectVariable \in DOMAIN req.http.body.variables
           THEN req.http.body.variables[SubjectVariable] ELSE None

\* Substituter.Apply: what the token's value for this source reads as, or the
\* refusal.  up is whether the decryption component answers.
Apply(up) ==
    LET value == IF Subject = Identity THEN req.token.values.identity ELSE req.token.values.pseudonym
    IN  CASE Subject = None                      -> [ok |-> TRUE, read |-> None]
          [] Subject # None /\ Subject \notin SubjectPlaceholders -> [ok |-> FALSE, read |-> None]
          [] OTHER -> IF value = None \/ ~up \/ value.recipient # OwnOIN[req.service]
                      THEN [ok |-> FALSE, read |-> None]
                      ELSE [ok |-> TRUE, read |-> value.reads]

\* forwardHandler up to the call: the transport check in front of it, and under
\* a consent token the substitution, whose reading is itself recorded, also
\* when it failed.  A record that cannot be spooled refuses the request.
Forward(up, durable) ==
    /\ stage = "allowed"
    /\ IF ~CheckTransport(req.http, deployment.catalog[req.service].path)
       THEN Answer("TRANSPORT", {}) /\ UNCHANGED <<variables, filled, spool>>
       ELSE IF req.token = None
       THEN stage' = "forwarded" /\ UNCHANGED <<variables, filled, spool, answer>>
       ELSE LET applied == Apply(up)
                logs == applied.read # None \/ ~applied.ok
                rec == Record("ontsleuteling", IF applied.read = None THEN "consent" ELSE applied.read,
                              applied.ok, "doorgifte")
            IN  /\ spool' = IF logs /\ durable THEN spool \cup {rec} ELSE spool
                /\ IF logs /\ ~durable THEN Answer("NOT_LOGGED", {}) /\ UNCHANGED <<variables, filled>>
                   ELSE IF ~applied.ok THEN Answer("NO_SUBJECT", {}) /\ UNCHANGED <<variables, filled>>
                   ELSE /\ stage' = "forwarded" /\ filled' = applied.read
                        /\ variables' = IF applied.read = None THEN variables
                                   ELSE [variables EXCEPT ![SubjectVariable] = applied.read]
                        /\ UNCHANGED answer
    /\ UNCHANGED <<deployment, registerVars, contracts, req, mapped, executed, facts, consumerVars>>

\* The upstream does not answer: nothing was recorded here, nothing is returned.
Unreachable ==
    /\ stage = "forwarded"
    /\ Answer("BAD_GATEWAY", {})
    /\ UNCHANGED <<deployment, registerVars, contracts, req, mapped, variables, filled, executed, facts, spool,
                   consumerVars>>

\* The name passed to the source for the Betrokkene, from the subject variable.
Passed == IF Subject = None THEN None ELSE IF filled # None THEN filled
          ELSE IF req.token = None THEN Subject ELSE None

\* ParentSpanFor: the record the caller's processing has, if it keeps one.
Caller == IF question # None /\ question.logbook THEN "opvraging" ELSE "caller"

\* logForward: the record of the forward, before the answer leaves.
LogForward(durable) ==
    /\ stage = "sourced"
    /\ LET named == IF Passed # None THEN Passed ELSE Subject
       IN  IF Subject = None \/ durable
           THEN /\ Answer(answer.client, answer.data)
                /\ spool' = IF Subject = None THEN spool
                            ELSE spool \cup {Record("doorgifte", named, "forward", Caller)}
           ELSE Answer("NOT_LOGGED", {}) /\ UNCHANGED spool
    /\ UNCHANGED <<deployment, registerVars, contracts, req, mapped, variables, filled, executed, facts,
                   consumerVars>>

----------------------------------------------------------------------------
(* The source.                                                               *)

\* The source runs the query on its own schema and buffers the answer.
Execute ==
    /\ stage = "forwarded"
    /\ LET schema == deployment.source[req.service]
           doc == req.http.body.doc
           op == SelectOperation(doc, req.http.body.operationName).op
           coerced == CoerceVariables(schema, op, variables)
           fails == ~ValidSet(schema, doc, op.sels, QueryRoot(schema), {}) \/ coerced.fault # "none"
           run == IF fails THEN {}
                  ELSE Executed(req.service, schema, doc, coerced.vars, op.sels,
                                Object(QueryRoot(schema), None, None), <<>>)
       IN  /\ executed' = run
           /\ facts' \in Noted(req.service, run)
    /\ stage' = "executed"
    /\ UNCHANGED <<deployment, registerVars, contracts, req, mapped, variables, filled, spool, answer,
                   consumerVars>>

Disclosed == {r \in executed : r.leaf /\ r.about # None}

LogQueryAnswersAnyway ==
    /\ stage = "executed"
    /\ \E written \in SUBSET QueryRecords(facts, Passed) : spool' = spool \cup written
    /\ answer' = [client |-> "ok", data |-> Disclosed]
    /\ stage' = "sourced"
    /\ UNCHANGED <<deployment, registerVars, contracts, req, mapped, variables, filled, executed, facts,
                   consumerVars>>

\* logQuery: the records one by one; the first that cannot be spooled withholds
\* the answer, and those before it stay.
LogQuery ==
    /\ stage = "executed"
    /\ LET records == QueryRecords(facts, Passed)
       IN  \E written \in SUBSET records :
              /\ spool' = spool \cup written
              /\ answer' = IF written = records THEN [client |-> "ok", data |-> Disclosed]
                           ELSE [client |-> "SOURCE_NOT_LOGGED", data |-> {}]
    /\ stage' = "sourced"
    /\ UNCHANGED <<deployment, registerVars, contracts, req, mapped, variables, filled, executed, facts,
                   consumerVars>>

----------------------------------------------------------------------------
(* The caller.                                                               *)

\* The backend's record of the call comes before the answer is used, whatever
\* the answer is, and when none arrives (lost).  It names the consent.
HandOver(durable, lost) ==
    /\ stage = "answered" /\ question # None
    /\ answer.client = "UNREACHED" => lost
    /\ LET logged == ~question.logbook \/ durable
           rec == Record("opvraging", "consent", ~lost /\ answer.client = "ok", None)
       IN  /\ result' = ResultOf(question, answer.client, answer.data, logged, lost)
           /\ spool' = IF question.logbook /\ durable THEN spool \cup {rec} ELSE spool
    /\ stage' = "handed"
    /\ UNCHANGED <<deployment, registerVars, contracts, req, mapped, variables, filled, executed, facts,
                   answer, question>>

\* The answer is with the caller, and the records are delivered from the spools
\* (LdvOutbox models how).
Done ==
    /\ stage = "handed" \/ (stage = "answered" /\ question = None)
    /\ req' = None /\ stage' = "idle" /\ mapped' = None /\ variables' = None /\ filled' = None
    /\ executed' = {} /\ facts' = NoFacts /\ answer' = NoAnswer /\ spool' = {}
    /\ question' = None /\ result' = NoResult
    /\ UNCHANGED <<deployment, registerVars, contracts>>

----------------------------------------------------------------------------

Next ==
    \/ Done
    \/ Register(RegisterNext)
    \/ \E c \in Contracts : Sign(c)
    \/ Ask
    \/ \E attached \in BOOLEAN : Decide(attached)
    \/ \E up, durable \in BOOLEAN : Forward(up, durable)
    \/ Unreachable
    \/ Execute
    \/ LogQuery
    \/ \E durable \in BOOLEAN : LogForward(durable)
    \/ \E q \in Questions, reached \in BOOLEAN : PutQuestion(q, reached)
    \/ \E durable, lost \in BOOLEAN : HandOver(durable, lost)

Spec == Init /\ [][Next]_allVars

----------------------------------------------------------------------------
(* Properties.                                                               *)

Stages == {"idle", "asked", "allowed", "forwarded", "executed", "sourced", "answered", "handed"}

\* The state has the shape the other definitions read.
TypeOK ==
    /\ configuration \in Configurations /\ pulled \in BOOLEAN /\ contracts \subseteq Contracts
    /\ DOMAIN copy \subseteq DOMAIN rows \cup UNION {Peers(c.system) : c \in Configurations}
    /\ stage \in Stages /\ (req = None => stage \in {"idle", "handed"})
    /\ executed # {} => mapped.code = "none" /\ stage \in {"executed", "sourced", "answered", "handed"}

\* Every field the source ran, with the subject and the years it ran on, was in
\* the list the policy judged: nothing a fragment, an alias, a variable, a
\* skipped field or a default of the source's own schema brings in escapes it.
RunsOnlyWhatWasJudged ==
    \A e \in executed : \E i \in DOMAIN mapped.fields :
        LET r == mapped.fields[i]
        IN  /\ r.path = e.path /\ r.field = e.field
            /\ \A a \in {"bsn", "belastingjaren"} :
                  \/ LibArgument(r, a) = Arg(e.args, a)
                  \/ /\ filled # None /\ Arg(e.args, a) = filled
                     /\ LibArgument(r, a) \in SubjectPlaceholders

\* What the schema check promises: without drift, whatever more the source
\* serves, it reads the request as the mapper did.  A query that was mapped is valid there, and every argument has
\* the value the mapper gave, also where a schema default supplied it.
DriftFreeReadsAlike ==
    stage = "executed" /\ NoDrift(Catalog[req.service].schema, deployment.source[req.service]) =>
        /\ ValidSet(deployment.source[req.service], req.http.body.doc,
                    SelectOperation(req.http.body.doc, req.http.body.operationName).op.sels,
                    QueryRoot(deployment.source[req.service]), {})
        /\ \A e \in executed : \E i \in DOMAIN mapped.fields :
              LET r == mapped.fields[i]
              IN  /\ r.path = e.path /\ r.field = e.field /\ DOMAIN r.args = DOMAIN e.args
                  /\ \A a \in DOMAIN e.args :
                        r.args[a].value = e.args[a] \/ (filled # None /\ e.args[a] = filled)

OnlyTheConsented ==
    req # None /\ req.token # None =>
        \A d \in answer.data :
            /\ d.about = req.token.citizen
            /\ d.year # None => YearScope(d.year) \in req.token.resolved.scopes

\* The question of the income consumer as a citizen's browser puts it, to a
\* source that runs the schema of the bundle.
BrowserQuestion ==
    /\ question # None /\ question.kind = "bd" /\ ~question.devPortal
    /\ NoDrift(Catalog["bri"].schema, deployment.source["bri"])
InForce(c) ==
    c.code = "" /\ c.available /\ c.exists /\ ~c.withdrawn /\ ~c.expired /\ c.provider = ConsumerParty
Covered(y) == YearScope(y) \in question.token.claims

AllOfTheConsented ==
    BrowserQuestion =>
        /\ answer.client = "FIELD_NOT_PERMITTED" =>
              \/ ~InForce(question.token.resolved)
              \/ \A y \in ToSet(Requested(question)) : ~Covered(y)
              \/ ~ToSet(question.fields) \subseteq ToSet(DefaultFields)
        /\ result.outcome = "Allowed" =>
              \A y \in ToSet(Requested(question)) :
                 y \in result.denied \/ y \notin Declarations[question.token.citizen]
                    \/ \E d \in result.data : d.year = y

\* Under a consent the answer is about the consent's citizen only, and about no
\* year outside its scopes, whichever way the query names either.  And what the
\* consumer backend asks for a citizen is answered: the policy refuses no
\* question that asks a covered year under a consent in force, and every year
\* asked for is in the data, not declared, or reported as denied.
ExactlyTheConsented == OnlyTheConsented /\ AllOfTheConsented

SourceRecorded ==
    stage = "answered" /\ answer.data # {} =>
        /\ \A d \in answer.data : d.year # None =>
              \E s \in spool : s.kind = "bronbevraging" /\ s.what = d.year
        /\ \A p \in facts.relatives : \E s \in spool : s.kind = "medebetrokkene" /\ s.about = p
        /\ filled # None => Record("ontsleuteling", filled, TRUE, "doorgifte") \in spool
        /\ Subject # None => \E s \in spool : s.kind = "doorgifte"
        /\ req.token # None =>
              \A d \in answer.data : \E s \in spool : s.kind = "bronbevraging" /\ s.about = d.about

\* A record hangs under the caller's, which is not in these spools, or under
\* one that is here; a relative's under that of the same activity.
Hangs(s) ==
    \/ s.under \in {None, "caller"}
    \/ \E t \in spool : t.kind = s.under /\ (s.kind = "medebetrokkene" => t.what = s.what)

\* No data leaves without the records of what was done for it: each year or
\* activity at the source, the living relatives of a certificate, the reading
\* of the identity, and the forward; under a consent the source's records name
\* the citizen the data is about.  A consumer that keeps a log hands out no data
\* before its own record, and by then the records of all parties are one tree.
NothingUnrecorded ==
    /\ SourceRecorded
    /\ stage = "handed" /\ result.data # {} /\ question.logbook =>
          (\E s \in spool : s.kind = "opvraging") /\ \A s \in spool : Hangs(s)

============================================================================
