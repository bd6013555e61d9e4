---------------------------- MODULE SourceDocument ----------------------------
(* What the EUDI adapter makes of the operator's configuration of a source,  *)
(* of the FSC contracts and of the document the source publishes: pure       *)
(* functions that the reconciler and the issuance route use                  *)
(* (source_configuration.go, source_registration.go, source_metadata.go,     *)
(* fsc_contract_discovery.go, source_reconciler_adapters.go).                *)
(*                                                                           *)
(* An endpoint is <<form, name>> with form "path", "url" or "none"; an       *)
(* absent string is "".  A document is                                       *)
(*   [oin, schema_version, version, eudi, definitions, asi_service]          *)
(* and a definition                                                          *)
(*   [type, type_version, profile, claims, display, service, endpoint,       *)
(*    document, subject_variable, result_pointer, parameters, offers].       *)
EXTENDS SimpleProfile, SequencesExt

CONSTANTS
    Parse,     \* parameter type -> the texts that parse as it -> the value each stands for
    Consumer   \* the FSC peer of the adapter's own outway

\* how a value is written out stands for that value
ASSUME ParseAssumption ==
    \A type \in DOMAIN Parse : \A value \in Range(Parse[type]) :
       value \in DOMAIN Parse[type] /\ Parse[type][value] = value

-----------------------------------------------------------------------------
(* The operator's configuration: one source, its metadata leg and its data leg. *)

DataTransport(source) ==
    IF source.data = "inherit" THEN source.metadata.transport ELSE source.data

ProviderPeer(source) ==
    IF source.data_peer # "" THEN source.data_peer ELSE source.metadata.peer

ValidMetadataLeg(leg) ==
    \/ /\ leg.transport = "fsc"
       /\ leg.peer # "" /\ leg.service # "" /\ leg.endpoint[1] = "none"
    \/ /\ leg.transport = "unsecured"
       /\ leg.peer = "" /\ leg.service = "" /\ leg.endpoint[1] = "url"
    \/ /\ leg.transport = "file"
       /\ leg.peer = "" /\ leg.service = "" /\ leg.endpoint[1] = "path"

\* a document on disk says nothing of the data leg, and an authenticated
\* description may not be followed by an unauthenticated data call
ValidDataLeg(source) ==
    \/ source.data = "inherit" /\ source.metadata.transport # "file"
    \/ source.data = "fsc" /\ (source.metadata.transport = "fsc") = (source.data_peer = "")
    \/ source.data = "unsecured" /\ source.data_peer = "" /\ source.metadata.transport # "fsc"

ValidConfiguration(source) == ValidMetadataLeg(source.metadata) /\ ValidDataLeg(source)

NeedsContracts(source) ==
    "fsc" \in {source.metadata.transport, DataTransport(source)}

-----------------------------------------------------------------------------
(* The contracts of the FSC manager: of the valid ones that connect the own   *)
(* outway to a service of a peer, the newest counts; of two signed in the     *)
(* same second the one with the greater hash.                                 *)

Connects(contract, peer, service) ==
    /\ contract.state = "valid" /\ contract.in_period
    /\ contract.kind = "service_connection" /\ contract.outway = Consumer
    /\ contract.peer = peer /\ contract.service = service /\ contract.hash # 0

\* the hash of the grant for a service of a peer, 0 when there is none
Grant(contracts, peer, service) ==
    LET found == {c \in contracts : Connects(c, peer, service)}
        newest == {c \in found : \A o \in found : o.created <= c.created}
    IN  IF found = {} THEN 0 ELSE Max({c.hash : c \in newest})

\* registrationFromResolvedSource: both legs filled in from what was resolved
Registration(source, identity, metadata_grant, data_service, data_grant) ==
    LET transport == source.metadata.transport
        fsc == DataTransport(source) = "fsc"
    IN  [oin |-> identity.oin, name |-> identity.name, peer |-> ProviderPeer(source),
         metadata |-> [transport |-> transport,
                       service |-> IF transport = "fsc" THEN source.metadata.service ELSE "",
                       grant |-> IF transport = "fsc" THEN metadata_grant ELSE 0],
         data |-> [transport |-> DataTransport(source),
                   service |-> IF fsc THEN data_service ELSE "",
                   grant |-> IF fsc THEN data_grant ELSE 0]]

ValidAccess(leg) ==
    IF leg.transport = "fsc" THEN leg.service # "" /\ leg.grant # 0
                             ELSE leg.service = "" /\ leg.grant = 0

ValidRegistration(r) ==
    /\ ("fsc" \in {r.metadata.transport, r.data.transport}) = (r.peer # "")
    /\ r.name # "" /\ ValidAccess(r.metadata) /\ ValidAccess(r.data)
    /\ ~(r.metadata.transport = "fsc" /\ r.data.transport = "fsc"
         /\ r.metadata.service = r.data.service)
    /\ ~(r.metadata.transport = "fsc" /\ r.data.transport = "unsecured")

-----------------------------------------------------------------------------
(* Parameters and offers.                                                     *)

\* parseSourceParameter: the text stands for a value of the declared type
Parses(type, text) == type \in DOMAIN Parse /\ text \in DOMAIN Parse[type]

\* formatOfferParameter: a value of the type has one canonical text
OfType(type, value) == type \in DOMAIN Parse /\ value \in Range(Parse[type])

ValidOffers(definition) ==
    /\ definition.offers # {}
    /\ \A o, p \in definition.offers : o.id = p.id => o = p
    /\ \A o \in definition.offers :
        /\ o.id # "" /\ o.label # ""
        /\ DOMAIN o.parameters \subseteq DOMAIN definition.parameters
        /\ \A name \in DOMAIN definition.parameters :
            IF name \in DOMAIN o.parameters
            THEN OfType(definition.parameters[name].type, o.parameters[name])
            ELSE ~definition.parameters[name].required

\* the subject variable is filled first; a declared parameter of the same
\* name is written over it
Variables(definition, bsn, supplied) ==
    [name \in DOMAIN supplied \cup {definition.subject_variable} |->
       IF name \in DOMAIN supplied
       THEN Parse[definition.parameters[name].type][supplied[name]] ELSE bsn]

\* a bug this code could have: only the names of the parameters are compared
PublishedNames(definition, supplied, variables) ==
    \E o \in definition.offers : DOMAIN o.parameters = DOMAIN supplied

PublishedOffer(definition, supplied, variables) ==
    \E o \in definition.offers :
        /\ Cardinality(DOMAIN o.parameters) = Cardinality(DOMAIN supplied)
        /\ \A name \in DOMAIN o.parameters :
            /\ name \in DOMAIN definition.parameters /\ name \in DOMAIN variables
            /\ variables[name] = o.parameters[name]

\* queryPlan accepts what the request supplies (every parameter once)
Plannable(definition, bsn, supplied) ==
    /\ DOMAIN supplied \subseteq DOMAIN definition.parameters
    /\ \A name \in DOMAIN definition.parameters :
        IF name \in DOMAIN supplied
        THEN Parses(definition.parameters[name].type, supplied[name])
        ELSE ~definition.parameters[name].required
    /\ PublishedOffer(definition, supplied, Variables(definition, bsn, supplied))

Plan(definition, bsn, supplied) ==
    [service |-> definition.service, endpoint |-> definition.endpoint,
     document |-> definition.document, variables |-> Variables(definition, bsn, supplied)]

-----------------------------------------------------------------------------
(* The document of a source.                                                  *)

ValidEndpoint(service, endpoint, transport) ==
    IF transport = "fsc" THEN service # "" /\ endpoint[1] = "path"
                         ELSE service = "" /\ endpoint[1] = "url"

ValidAttestation(definition) ==
    /\ definition.subject_variable # "" /\ definition.result_pointer # ""
    /\ ValidOffers(definition)
    /\ definition.profile = "gbo-simple-v1"
    /\ ValidClaims(definition) /\ ValidDisplay(definition)
    /\ definition.document.operations = 1 /\ definition.document.query

\* Describe: the one data service of a document with EUDI attestations
Describable(document) ==
    /\ document.definitions # <<>>
    /\ \A i \in DOMAIN document.definitions :
          document.definitions[i].service = document.definitions[1].service
    /\ document.asi_service \in {"absent", document.definitions[1].service}

DataService(document) == document.definitions[1].service

\* the VCT of a definition: below the adapter's own public URL
Vct(definition) == <<definition.type, definition.type_version>>

\* validateSourcePayload
ValidDocument(registration, document) ==
    /\ document.oin = registration.oin
    /\ document.schema_version \in {"1.0", "1.1"} /\ document.eudi = "1.0"
    /\ document.definitions # <<>>
    /\ \A i, j \in DOMAIN document.definitions :
          document.definitions[i].type = document.definitions[j].type => i = j
    /\ \A i \in DOMAIN document.definitions :
        LET definition == document.definitions[i] IN
        /\ ValidAttestation(definition)
        /\ ValidEndpoint(definition.service, definition.endpoint, registration.data.transport)
        /\ Represented(definition)

ActivatedType(d) ==
    [type |-> d.type, vct |-> Vct(d), integrity |-> TypeMetadata(d, Vct(d)), definition |-> d]

\* compareNumericVersion and the rules of Activate: a version never goes back,
\* and one version is one payload
MayReplace(existing, document) ==
    /\ existing.version <= document.version
    /\ existing.version = document.version => existing = document
=============================================================================
