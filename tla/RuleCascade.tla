---------------------------- MODULE RuleCascade ----------------------------
(* The policy: which rules judge a field of the mapper's list, their reasons  *)
(* to refuse it, and the decision on the whole request; and the cascade that  *)
(* admits a contract.                                                         *)
(*                                                                            *)
(* ctx is what a decision reads besides the fields: [service, acting,         *)
(* delegator, consent, participants, pinned].  consent is None without a      *)
(* consent token, else what the consent PIP resolved: [code, available,       *)
(* exists, withdrawn, expired, scopes, provider], code "" for a verified      *)
(* token.  participants is the admission register the PDP holds: None, or a   *)
(* function from peers to [active, actsFor, sources], actsFor a set of        *)
(* [peer, rules].                                                             *)
EXTENDS GraphqlMapper

CONSTANTS
    Asips, Issuers,     \* peers the ASI and EUDI rules admit by name
    AllowedYears,       \* the years EUD0001 answers
    YearScope(_),       \* the scope of a year of the income declaration
    OwnershipScope      \* the scope of the LVG question

Identity == <<"str", "consent:identity">>
Pseudonym == <<"str", "consent:pseudonym">>
SubjectPlaceholders == {Identity, Pseudonym}

----------------------------------------------------------------------------
(* Reading the request.                                                      *)

Key(f) == <<f.parentType, f.field>>

LibArgumentTrustsDefaults(f, a) == IF a \in DOMAIN f.args THEN f.args[a].value ELSE None

\* The value of an argument as the request supplied it; None when it is absent
\* or partly from a schema default, which the source need not share.
LibArgument(f, a) ==
    IF /\ a \in DOMAIN f.args
       /\ f.args[a].origin # "schema-default"
       /\ ~f.args[a].schemaDefaults
    THEN f.args[a].value ELSE None

ArgumentValues(f, a) ==
    LET v == LibArgument(f, a)
    IN  IF v = None \/ v = Null THEN {} ELSE {v[2][n] : n \in DOMAIN v[2]}

RepresentedParty(ctx) == IF ctx.delegator # None THEN ctx.delegator ELSE ctx.acting
Delegated(ctx) == RepresentedParty(ctx) # ctx.acting

----------------------------------------------------------------------------
(* The rules.                                                                *)

Rules == {"DVT0001", "LVG0001", "ASI0001", "EUD0001", "EUD0002"}
Regime(rid) == IF rid \in {"DVT0001", "LVG0001"} THEN "consent" ELSE "pid"
Services(rid) ==
    CASE rid \in {"DVT0001", "EUD0001"} -> {"bri"}
      [] rid \in {"ASI0001", "EUD0002"} -> {"brp"}
      [] rid = "LVG0001"                -> {"lvg"}
CoversTypes(rid) == IF rid \in {"DVT0001", "EUD0001"} THEN {"Bedrag"} ELSE {}

DeclarationFields == {"belastingjaar", "status", "indieningsdatum"}
\* Per rule and type the fields it covers; the BRP lists are cut to the fields
\* the schemas of this model name.
CoversFields(rid) ==
    CASE rid \in {"DVT0001", "EUD0001"} ->
           {<<"Query", "ingeschrevenPersoon">>, <<"IngeschrevenPersoon", "heeftBelastingjaarAangifte">>}
           \cup {<<t, f>> : t \in {"BelastingjaarAangifte", "AangifteIH"}, f \in DeclarationFields}
           \cup {<<"AangifteIH", f>> : f \in {"verzamelinkomen", "box1Inkomen"} \cup
                    (IF rid = "EUD0001" THEN {"box2Inkomen", "box3Inkomen"} ELSE {})}
      [] rid = "LVG0001" -> {<<"Query", "vbo">>, <<"Verblijfsobject", "vboId">>}
      [] rid = "ASI0001" ->
           {<<"Query", "ingeschrevenPersoon">>} \cup
           {<<"IngeschrevenPersoon", f>> : f \in {"geslachtsnaam", "voorvoegsel", "voornamen",
                                                  "geboortedatum", "heeftNationaliteit"}}
           \cup {<<"Ingezetene", "woontOp">>, <<"Nationaliteit", "nationaliteit">>}
           \cup {<<"Binnenlandsadres", f>> : f \in {"straatnaam", "huisnummer", "postcode", "woonplaatsnaam"}}
      [] rid = "EUD0002" ->
           {<<"Query", "akteVanOverlijden">>} \cup
           {<<"AkteVanOverlijden", f>> : f \in {"overledene_geslachtsnaam", "datum_overlijden"}}

ConsentVerified(ctx) == ctx.consent # None /\ ctx.consent.code = ""

\* What the consent rules ask of the consent itself.
ConsentReasons(ctx) ==
    LET c == ctx.consent
    IN  (IF c.code # "" THEN {c.code} ELSE {}) \cup
        (IF ~c.available THEN {"CONSENT_STATUS_UNAVAILABLE"} ELSE {}) \cup
        (IF ~c.exists THEN {"CONSENT_NOT_FOUND"} ELSE {}) \cup
        (IF c.withdrawn THEN {"CONSENT_WITHDRAWN"} ELSE {}) \cup
        (IF c.expired THEN {"CONSENT_EXPIRED"} ELSE {}) \cup
        (IF RepresentedParty(ctx) # c.provider THEN {"CONSENT_ACTOR_MISMATCH"} ELSE {})

\* deny: a rule's reasons about the request as a whole.
Deny(rid, ctx) ==
    CASE rid = "DVT0001" -> ConsentReasons(ctx) \cup
            (IF ~\E s \in ctx.consent.scopes : s # OwnershipScope THEN {"SCOPE_NOT_ALLOWED"} ELSE {})
      [] rid = "LVG0001" -> ConsentReasons(ctx) \cup
            (IF OwnershipScope \notin ctx.consent.scopes THEN {"SCOPE_NOT_ALLOWED"} ELSE {})
      [] OTHER ->
            (IF ctx.consent # None THEN {"PID_NOT_PRESENT"} ELSE {}) \cup
            (IF ctx.acting \notin (IF rid = "ASI0001" THEN Asips ELSE Issuers)
             THEN {"ACTOR_NOT_ALLOWED"} ELSE {})

\* A placeholder stands for the citizen only under a verified consent.
NamesConsentCitizen(ctx, f) == ConsentVerified(ctx) /\ LibArgument(f, "bsn") = Identity
NamesACitizen(f) ==
    LET v == LibArgument(f, "bsn")
    IN  v # None /\ v[1] = "str" /\ v[2] # "" /\ v \notin SubjectPlaceholders

\* deny_field: a rule's reasons about one field: the subject where the query
\* names it, and a year filter that is there and asks nothing beyond.
DenyField(rid, ctx, f) ==
    LET years == ArgumentValues(f, "belastingjaren")
        root == Key(f)[1] = "Query"
        filter == Key(f) = <<"IngeschrevenPersoon", "heeftBelastingjaarAangifte">>
    IN  CASE Regime(rid) = "consent" ->
               (IF root /\ ~NamesConsentCitizen(ctx, f) THEN {"CONSTRAINT_MISMATCH"} ELSE {}) \cup
               (IF filter /\ (\/ years = {}
                              \/ \E y \in years : YearScope(y[2]) \notin ctx.consent.scopes)
                THEN {"YEAR_NOT_COVERED"} ELSE {})
          [] Regime(rid) = "pid" ->
               (IF root /\ ~NamesACitizen(f) THEN {"PID_NOT_PRESENT"} ELSE {}) \cup
               (IF rid = "EUD0001" /\ filter /\ (years = {} \/ \E y \in years : y[2] \notin AllowedYears)
                THEN {"YEAR_NOT_ALLOWED"} ELSE {})

----------------------------------------------------------------------------
(* The engine.                                                               *)

ActiveRules(ctx) ==
    {rid \in Rules : /\ Regime(rid) = IF ctx.consent # None THEN "consent" ELSE "pid"
                     /\ ctx.service \in Services(rid)}

RootTypes == {"Query", "Mutation", "Subscription"}
IntrospectionTypes == {"__Schema", "__Type", "__Field", "__InputValue"}

DataFieldsWithoutRoots(fields) ==
    {i \in DOMAIN fields : /\ fields[i].field # "__typename"
                           /\ fields[i].parentType \notin IntrospectionTypes \cup RootTypes}

\* Every record but __typename and introspection internals, root fields too.
DataFields(fields) ==
    {i \in DOMAIN fields : /\ fields[i].field # "__typename"
                           /\ fields[i].parentType \notin IntrospectionTypes}

\* The rules that name the field; else, for a leaf without arguments outside
\* the root types, those that cover its parent type.
PolicyIds(ctx, f) ==
    LET naming == {rid \in ActiveRules(ctx) : Key(f) \in CoversFields(rid)}
    IN  IF naming # {} THEN naming
        ELSE IF f.leaf /\ DOMAIN f.args = {} /\ f.parentType \notin RootTypes
        THEN {rid \in ActiveRules(ctx) : f.parentType \in CoversTypes(rid)}
        ELSE {}


\* The integrator's mandate: on every delegated call, for the represented
\* provider and for the rule that grants, whatever the rule says.
Mandated(ctx, rid) ==
    /\ ctx.acting \in DOMAIN ctx.participants
    /\ ctx.participants[ctx.acting].active
    /\ \E m \in ctx.participants[ctx.acting].actsFor :
          m.peer = RepresentedParty(ctx) /\ rid \in m.rules
MandateReasons(ctx, rid) ==
    IF ~Delegated(ctx) THEN {}
    ELSE IF ctx.participants = None THEN {"INTEGRATOR_REGISTER_UNAVAILABLE"}
    ELSE IF ~Mandated(ctx, rid) THEN {"INTEGRATOR_NOT_REGISTERED"} ELSE {}

Reasons(rid, ctx, f) == Deny(rid, ctx) \cup DenyField(rid, ctx, f) \cup MandateReasons(ctx, rid)

\* The first bound rule without reasons grants the field.
Granted(ctx, f) == \E rid \in PolicyIds(ctx, f) : Reasons(rid, ctx, f) = {}

ReasonOrder == <<"CONSENT_CONTEXT_INVALID", "CONSENT_SIGNATURE_INVALID", "CONSENT_KEYS_UNAVAILABLE",
    "CONSENT_TOKEN_EXPIRED", "CONSENT_STATUS_UNAVAILABLE", "CONSENT_NOT_FOUND", "CONSENT_WITHDRAWN",
    "CONSENT_EXPIRED", "CONSTRAINT_MISMATCH", "PID_NOT_PRESENT", "SCOPE_NOT_ALLOWED", "YEAR_NOT_ALLOWED",
    "YEAR_NOT_COVERED", "CONSENT_ACTOR_MISMATCH", "ACTOR_NOT_ALLOWED", "INTEGRATOR_REGISTER_UNAVAILABLE",
    "INTEGRATOR_NOT_REGISTERED">>
FirstReason(rs) == SelectSeq(ReasonOrder, LAMBDA r : r \in rs)[1]
PipUnavailable == {"CONSENT_STATUS_UNAVAILABLE", "CONSENT_KEYS_UNAVAILABLE", "INTEGRATOR_REGISTER_UNAVAILABLE"}

\* A field is denied for a server problem if the first reason of any of its
\* rules is one.
ServerProblem(ctx, f) ==
    \E rid \in PolicyIds(ctx, f) :
        /\ Reasons(rid, ctx, f) # {}
        /\ FirstReason(Reasons(rid, ctx, f)) \in PipUnavailable


\* _request_failure: the mapper's output is checked before any rule.  attached
\* is FALSE when the PDP adapter could not add it; an output made without a
\* schema names none that could mismatch.
RequestFailure(ctx, out, attached) ==
    LET mismatch == out.schema /\ ~ctx.pinned
    IN  CASE ~attached                                   -> "MAPPER_OUTPUT_MISSING"
          [] attached /\ mismatch                        -> "SCHEMA_MISMATCH"
          [] attached /\ ~mismatch /\ out.code # "none"  -> out.code
          [] attached /\ ~mismatch /\ out.code = "none" /\ DataFields(out.fields) = {} -> "NO_DATA_FIELDS"
          [] OTHER                                       -> "none"

\* What the caller is told.  A server problem and an invalid query are hidden,
\* so that trying names does not map the schema.
ClientCode(code, subcode) ==
    IF code \in {"CONFIG_ERROR", "PIP_UNAVAILABLE", "MAPPER_OUTPUT_MISSING", "SCHEMA_MISMATCH"}
    THEN "ACCESS_DENIED"
    ELSE IF subcode = "INVALID_QUERY" THEN "FIELD_NOT_PERMITTED" ELSE code

\* RULE_NOT_EVALUABLE, the code of a field one of whose rules does not evaluate,
\* does not arise: the rules here are those of policies/gbo/rules, and each has
\* its reasons as a set for every field and context.
Decision(ctx, out, attached) ==
    LET failure == RequestFailure(ctx, out, attached)
        denied == {i \in DataFields(out.fields) : ~Granted(ctx, out.fields[i])}
        code == IF failure # "none" THEN failure
                ELSE IF \E i \in denied : ServerProblem(ctx, out.fields[i]) THEN "PIP_UNAVAILABLE"
                ELSE "FIELD_NOT_PERMITTED"
    IN  IF failure = "none" /\ denied = {} THEN [allow |-> TRUE, client |-> "none"]
        ELSE [allow |-> FALSE,
              client |-> ClientCode(code, IF failure = out.code THEN out.subcode ELSE "")]

----------------------------------------------------------------------------
(* Contract auto-signing.                                                    *)

\* The ordered cascade: the first check that fails is the refusal, "none" signs.
\* The input names no direction, so a delegated contract is admitted for the
\* pair.
AutosignRefusal(contract, self, participants) ==
    LET known == IF participants = None THEN {} ELSE DOMAIN participants
        others == contract.peers \ {self}
        delegated == contract.grants = {"delegated"}
        pair == /\ Cardinality(others) = 2
                /\ \E a \in others, b \in others :
                      a # b /\ \E m \in participants[a].actsFor : m.peer = b
    IN  CASE ~contract.wellFormed                            -> "NOT_AN_AUTOSIGN_REQUEST"
          [] contract.grants \notin {{"connection"}, {"delegated"}} -> "GRANT_TYPE_NOT_ALLOWED"
          [] others = {}                                    -> "NO_COUNTERPARTY"
          [] participants = None                            -> "ADMISSION_REGISTER_UNAVAILABLE"
          [] others \ known # {}                            -> "PARTY_NOT_IN_REGISTRY"
          [] \E p \in others : ~participants[p].active      -> "PARTY_NOT_ACTIVE"
          [] \E p \in others : self \notin participants[p].sources -> "SOURCE_NOT_ALLOWED"
          [] delegated /\ ~pair                             -> "DELEGATION_NOT_REGISTERED"
          [] OTHER                                          -> "none"
============================================================================
