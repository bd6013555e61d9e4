------------------------------ MODULE Consumer ------------------------------
(* The consumer backend: the question a service provider puts to its source   *)
(* under a citizen's consent, and what it hands its own caller of the answer. *)
(*                                                                            *)
(* A question is [kind, token, years, fields, vbo, devPortal, logbook]: kind  *)
(* "bd" or "lvg" as the backend is configured, token None when there is none, *)
(* devPortal a run the developer portal drives, logbook whether the backend   *)
(* keeps a log of its own.  token.claims is what anyone reads in the token:   *)
(* the scopes, or None when it cannot be read.                                *)
EXTENDS RuleCascade, Sources

LOCAL INSTANCE SequencesExt

Unavailable == "UNAVAILABLE"

\* Kinds: what the backend of each kind asks, and of which service.
ServiceOf(q) == IF q.kind = "bd" THEN "bri" ELSE "lvg"

\* readConsentToken: not a decision, only what is needed to build the question.
Unreadable(token) == token.claims = None

\* What makes a question one that cannot be asked at all: no token, or no
\* dwelling next to a token that reads.
CallerError(q) == q.token = None \/ (q.kind = "lvg" /\ ~Unreadable(q.token) /\ q.vbo = None)

----------------------------------------------------------------------------
(* The query.                                                                *)

Select(name, args, sub) ==
    [kind |-> "field", name |-> name, alias |-> None, args |-> args, skip |-> FALSE, sub |-> sub]
Leaf(name) == Select(name, <<>>, <<>>)
BsnVariable == "bsn" :> [type |-> Named("BSN", TRUE), default |-> None]
Query(vars, sels) ==
    [syntax |-> "sound", frags |-> <<>>, typeSystem |-> FALSE, directives |-> {}, validation |-> "quick",
     ops |-> <<[name |-> None, type |-> "query", vars |-> vars, sels |-> sels]>>]

BedragFields == {"verzamelinkomen", "box1Inkomen", "box2Inkomen", "box3Inkomen"}
DefaultFields == <<"belastingjaar", "verzamelinkomen", "box1Inkomen", "status", "indieningsdatum">>

\* buildQuery: the years inside the query, where the policy can see them; the
\* amounts exist only on the concrete type.
BuildQuery(years, fields) ==
    LET chosen == IF fields = <<>> THEN DefaultFields ELSE fields
        amount(f) == Select(f, <<>>, <<Leaf("waarde"), Leaf("valuta")>>)
        plain == SelectSeq(chosen, LAMBDA f : f \notin BedragFields)
        amounts == SelectSeq(chosen, LAMBDA f : f \in BedragFields)
        selection == [n \in DOMAIN plain |-> Leaf(plain[n])] \o
            IF amounts = <<>> THEN <<>>
            ELSE <<[kind |-> "inline", on |-> "AangifteIH", skip |-> FALSE,
                    sub |-> [n \in DOMAIN amounts |-> amount(amounts[n])]]>>
        filter == <<"list", [n \in DOMAIN years |-> <<"int", years[n]>>]>>
    IN  Query(BsnVariable,
          <<Select("ingeschrevenPersoon", "bsn" :> <<"var", "bsn">>,
              <<Select("heeftBelastingjaarAangifte", "belastingjaren" :> filter, selection)>>)>>)

\* intersectYears: of the years asked for, those the consent covers.
CoveredYears(years, scopes) == SelectSeq(years, LAMBDA y : YearScope(y) \in scopes)

Requested(q) == IF q.years = <<>> THEN <<2024, 2025>> ELSE q.years

\* buildIncomeQuery: only the covered years are asked, the others are reported
\* as denied; a developer portal's run is asked as it is, and so is one that no
\* year of is covered, so that the PDP sees the token all the same.
BuildIncomeQuery(q) ==
    LET covered == CoveredYears(Requested(q), q.token.claims)
    IN  [doc |-> BuildQuery(IF q.devPortal \/ covered = <<>> THEN Requested(q) ELSE covered, q.fields),
         variables |-> "bsn" :> Identity,
         denied |-> IF q.devPortal THEN {} ELSE ToSet(Requested(q)) \ ToSet(covered)]

BuildOwnershipQuery(q) ==
    [doc |-> Query(BsnVariable @@ "vboId" :> [type |-> Named("String", TRUE), default |-> None],
        <<Select("vbo", "bsn" :> <<"var", "bsn">> @@ "vboId" :> <<"var", "vboId">>, <<Leaf("vboId")>>)>>),
     variables |-> "bsn" :> Identity @@ "vboId" :> q.vbo, denied |-> {}]

Build(q) == IF q.kind = "bd" THEN BuildIncomeQuery(q) ELSE BuildOwnershipQuery(q)

\* outway.Source.Ask: a plain GraphQL POST with the token next to it.
Body(doc, variables) ==
    [size |-> "small", json |-> "plain", members |-> {"query", "variables"}, operationName |-> None,
     extensions |-> {}, variables |-> variables, doc |-> doc]
Http(body) ==
    [target |-> "/graphql", method |-> "POST", contentTypes |-> <<"json">>, headers |-> {}, body |-> body]
Post(q) == Http(Body(Build(q).doc, Build(q).variables))

----------------------------------------------------------------------------
(* The result.                                                               *)

Result(outcome, data, code, denied) ==
    [outcome |-> outcome, data |-> data, code |-> code, denied |-> denied]
NoResult == Result("", {}, "", {})

\* denialCodeFor: of a refusal's codes a citizen is told one only.
DenialCode(reason) == IF reason = "FIELD_NOT_PERMITTED" THEN reason ELSE Unavailable

\* Consumer.Ask after the call.  logged is whether its record is durable, lost
\* whether the answer came at all; reason is "ok" or why the other side refused.
ResultOf(q, reason, data, logged, lost) ==
    CASE ~logged          -> Result("Unlogged", {}, Unavailable, {})
      [] logged /\ lost   -> Result("Unreachable", {}, Unavailable, {})
      [] logged /\ ~lost /\ reason = "ok" -> Result("Allowed", data, "", Build(q).denied)
      [] OTHER            -> Result("Denied", {}, DenialCode(reason), {})
============================================================================
