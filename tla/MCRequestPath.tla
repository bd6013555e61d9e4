--------------------------- MODULE MCRequestPath ---------------------------
(***************************************************************************)
(* Three sources (income, population, dwellings), a provider that asks on  *)
(* consent, an integrator for it, an ASI provider and an issuer that ask   *)
(* on the BSN, and queries that name the citizen and the years in every    *)
(* way a query can: literal, variable, default, alias, fragment, skip.     *)
(***************************************************************************)
EXTENDS RequestPath

Str(s) == <<"str", s>>
Int1(n) == <<"int", n>>
List(s) == <<"list", s>>
Var(x) == <<"var", x>>
A == Str("A")
B == Str("B")
MCYearScope(y) == IF y = 2024 THEN "income2024" ELSE IF y = 2025 THEN "income2025" ELSE "no scope"

----------------------------------------------------------------------------
(* Deployments.                                                            *)

Default == List(<<Int1(2024)>>)
MCLimits == [nesting |-> 6, fragments |-> 4, depth |-> 5, records |-> 12, aliases |-> 2,
             int |-> 5000]
Bundle(schema) == [path |-> "/graphql", sdl |-> [executableDirective |-> FALSE, types |-> schema]]
Served(bri) == "bri" :> bri @@ "brp" :> BrpSchema @@ "lvg" :> LvgSchema
Bundled(bri) == [s \in {"bri", "brp", "lvg"} |-> Bundle(Served(bri)[s])]
\* The source stopped serving a field of the bundle.
Dropped == [BriSchema(None) EXCEPT !["AangifteIH"].fields = Restrict(@, DOMAIN @ \ {"box1Inkomen"})]
\* An argument more, of an input type whose field has a default.
View(default) ==
  "Weergave" :> Kind("INPUT_OBJECT", "soort" :> [type |-> Named("String", FALSE), default |-> default], {})
Viewed(schema, default) ==
  [schema EXCEPT !["IngeschrevenPersoon"].fields["heeftBelastingjaarAangifte"].args =
      @ @@ "weergave" :> [type |-> Named("Weergave", FALSE), default |-> None]] @@ View(default)
Short == Viewed(BriSchema(Default), Str("short"))
\* The source grew: a type, fields on types the bundle names, a mutation root.
Grown(schema) ==
  [schema EXCEPT !["AangifteIH"].fields = Leaves({"nieuw"}) @@ Edge("box4Inkomen", "Box4") @@ @,
                 !["BelastingjaarAangifte"].fields = Leaves({"nieuw"}) @@ @,
                 !["Query"].fields = Edge("box4", "Box4") @@ @]
  @@ "Box4" :> Kind("OBJECT", Leaves({"waarde"}), {})
  @@ "Mutation" :> [Kind("OBJECT", Leaves({"wijzig"}), {}) EXCEPT !.root = "mutation"]
\* The source's query root has another name; Query is a type like any other.
Renamed(schema) ==
  [schema EXCEPT !["Query"].root = "none"] @@ "BriQuery" :> schema["Query"]
\* As published; a bundle whose defaults and input type are those of a source
\* that grew; a default only the PDP's copy has, or only the source has; a field
\* only the PDP's copy has; another default in an input type; another root.
MCDeployments ==
  {[catalog |-> Bundled(d[1]), source |-> Served(d[2])] : d \in {
      <<BriSchema(None), BriSchema(None)>>, <<Short, Grown(Short)>>,
      <<BriSchema(Default), BriSchema(None)>>, <<BriSchema(None), BriSchema(Default)>>,
      <<BriSchema(None), Dropped>>, <<Short, Viewed(BriSchema(Default), Str("long"))>>,
      <<BriSchema(None), Renamed(BriSchema(None))>>}}
MCOwnOIN == "bri" :> "bd" @@ "brp" :> "rvig" @@ "lvg" :> "kadaster"

----------------------------------------------------------------------------
(* Queries.                                                                *)

F(name, alias, args, skip, sub) ==
  [kind |-> "field", name |-> name, alias |-> alias, args |-> args, skip |-> skip, sub |-> sub]
Plain(name) == F(name, None, <<>>, FALSE, <<>>)
Sub(name, args, sub) == F(name, None, args, FALSE, sub)
On(type, skip, sub) == [kind |-> "inline", on |-> type, skip |-> skip, sub |-> sub]
Spread(f) == [kind |-> "spread", frag |-> f, skip |-> FALSE]
Op(vars, sels) == [name |-> "q", type |-> "query", vars |-> vars, sels |-> sels]
Doc(op, frags) == [syntax |-> "sound", ops |-> <<op>>, frags |-> frags, typeSystem |-> FALSE,
                   directives |-> {"skip"}, validation |-> "quick"]
Box(n) == Sub(n, <<>>, <<Plain("waarde")>>)

NoVars == [x \in {} |-> None]
BsnVar(value) == "bsn" :> [type |-> Named("BSN", TRUE), default |-> value]
YearVar == "j" :> [type |-> ListOf(Named("Int", TRUE)), default |-> None]
\* How a query names the citizen: [arg, vars].
Citizens == {[arg |-> Var("bsn"), vars |-> BsnVar(None)],
             [arg |-> Identity, vars |-> NoVars], [arg |-> A, vars |-> NoVars]}
\* How it names the years.
YearForms == {[args |-> NoVars, vars |-> NoVars],
              [args |-> "belastingjaren" :> List(<<Int1(2025)>>), vars |-> NoVars],
              [args |-> "belastingjaren" :> List(<<Int1(2025), Int1(2024)>>), vars |-> NoVars],
              [args |-> "belastingjaren" :> Int1(2025), vars |-> NoVars],
              [args |-> "belastingjaren" :> Var("j"), vars |-> YearVar]}
Selections == {<<Plain("belastingjaar")>>, <<Plain("__typename")>>,
               <<On("AangifteIH", FALSE, <<Box("box1Inkomen"), On("AangifteIH", TRUE, <<Box("box2Inkomen")>>)>>)>>,
               <<Spread("box1")>>, <<Spread("box2")>>}
Frags == "box1" :> [on |-> "AangifteIH", sels |-> <<Box("box1Inkomen")>>]
         @@ "box2" :> [on |-> "AangifteIH", sels |-> <<Box("box2Inkomen")>>]
BriRoot(alias, arg, years, sels) ==
  F("ingeschrevenPersoon", alias, "bsn" :> arg, FALSE, <<Sub("heeftBelastingjaarAangifte", years, sels)>>)
BriDocs ==
  {Doc(Op(c.vars @@ y.vars, <<BriRoot(None, c.arg, y.args, s)>>), Frags) :
      c \in Citizens, y \in YearForms, s \in Selections}
  \cup {Doc(Op(c.vars, <<BriRoot(None, c.arg, y.args, <<Spread("box1")>>),
                         BriRoot("other", B, y.args, <<Plain("belastingjaar")>>)>>), Frags) :
      c \in Citizens, y \in {z \in YearForms : z.vars = NoVars}}
\* The view left to its default, and the query root named by a fragment.
ViewDocs ==
  {Doc(Op(c.vars, <<BriRoot(None, c.arg, "belastingjaren" :> List(<<Int1(2025)>>)
                                         @@ "weergave" :> <<"obj", NoVars>>, <<Spread("box1")>>)>>), Frags) :
      c \in Citizens}
RootDocs ==
  {Doc(Op(c.vars, <<On("Query", FALSE, <<BriRoot(None, c.arg, "belastingjaren" :> List(<<Int1(2025)>>),
                                                 <<Spread("box1")>>)>>)>>), Frags) : c \in Citizens}
BrpDocs ==
  {Doc(Op(c.vars, <<Sub("ingeschrevenPersoon", "bsn" :> c.arg, s)>>), <<>>) : c \in Citizens,
      s \in {<<Plain("geslachtsnaam")>>,
             <<Sub("heeftNationaliteit", <<>>, <<Plain("nationaliteit")>>),
               On("Ingezetene", FALSE, <<Sub("woontOp", <<>>, <<Plain("postcode")>>)>>)>>,
             <<On("Partij", FALSE, <<Plain("id")>>)>>}}
  \cup {Doc(Op(c.vars, <<Sub("akteVanOverlijden", "bsn" :> c.arg, <<Plain("datum_overlijden")>>)>>), <<>>) :
      c \in Citizens}
LvgDocs ==
  {Doc(Op(c.vars, <<Sub("vbo", "bsn" :> c.arg @@ "vboId" :> Str("house"), <<Plain("vboId")>>)>>), <<>>) :
      c \in Citizens}
GoodDoc == Doc(Op(BsnVar(None), <<BriRoot(None, Var("bsn"),
    "belastingjaren" :> List(<<Int1(2025)>>), <<Spread("box1")>>)>>), Frags)

Supplied == {NoVars, "bsn" :> Identity, "bsn" :> A, "bsn" :> Identity @@ "j" :> List(<<Int1(2025)>>),
             "bsn" :> A @@ "j" :> List(<<Int1(2024)>>)}

----------------------------------------------------------------------------
(* Consents, callers and contracts.                                        *)

Value(to, reads) == [recipient |-> to, reads |-> reads]
Resolved(code, available, exists, withdrawn, expired, scopes) ==
  [code |-> code, available |-> available, exists |-> exists, withdrawn |-> withdrawn,
   expired |-> expired, scopes |-> scopes, provider |-> "dv"]
Valid == Resolved("", TRUE, TRUE, FALSE, FALSE, {"income2025"})
Token(citizen, identity, resolved) ==
  [citizen |-> citizen, values |-> [identity |-> identity, pseudonym |-> None], resolved |-> resolved,
   claims |-> IF resolved.exists THEN resolved.scopes ELSE {"income2025"}]
T1 == Token(A, Value("bd", A), Valid)
OtherTokens == {
  Token(A, Value("bd", A), Resolved("", TRUE, TRUE, TRUE, FALSE, {"income2025"})),
  Token(A, Value("bd", A), Resolved("", FALSE, FALSE, FALSE, FALSE, {})),
  Token(A, Value("bd", A), Resolved("CONSENT_SIGNATURE_INVALID", FALSE, FALSE, TRUE, TRUE, {})),
  Token(A, Value("rvig", A), Valid), Token(A, None, Valid)}
Owned == Token(A, Value("kadaster", A), Resolved("", TRUE, TRUE, FALSE, FALSE, {"owner"}))

Call(service, acting, delegator, http, token) ==
  [service |-> service, acting |-> acting, delegator |-> delegator, http |-> http, token |-> token]
Good == Http(Body(GoodDoc, "bsn" :> Identity))
Faulty == {[Good EXCEPT !.method = "GET"], [Good EXCEPT !.headers = {"Content-Encoding"}],
           [Good EXCEPT !.body = [@ EXCEPT !.json = "ambiguous"]],
           [Good EXCEPT !.body = [@ EXCEPT !.extensions = {"persistedQuery"}]],
           [Good EXCEPT !.body = [@ EXCEPT !.operationName = "p"]],
           [Good EXCEPT !.body = [@ EXCEPT !.doc = [@ EXCEPT !.validation = "slow"]]],
           [Good EXCEPT !.body = [@ EXCEPT !.doc = [@ EXCEPT !.ops = <<@[1], @[1]>>]]]}
MCRequests ==
  {Call("bri", "dv", None, Http(Body(d, v)), T1) : d \in BriDocs \cup ViewDocs \cup RootDocs, v \in Supplied}
  \cup {Call("bri", "issuer", None, Http(Body(d, v)), None) : d \in BriDocs, v \in Supplied}
  \cup {Call("brp", "issuer", None, Http(Body(d, v)), None) : d \in BrpDocs, v \in Supplied}
  \cup {Call("brp", "asip", None, Http(Body(d, v)), None) : d \in BrpDocs, v \in Supplied}
  \cup {Call("lvg", "dv", None, Http(Body(d, v)), Owned) : d \in LvgDocs, v \in Supplied}
  \cup {Call("bri", "dv", None, Good, t) : t \in OtherTokens}
  \cup {Call("bri", "dv", None, h, T1) : h \in Faulty}
  \cup {Call("bri", "int", "dv", Good, T1), Call("bri", "dv", "int", Good, T1)}

\* What is put to the consumer backend: of every token, the years in and out of
\* the consent, fields the rule covers and one it does not.
Put(kind, token, years, fields, devPortal, logbook) ==
  [kind |-> kind, token |-> token, years |-> years, fields |-> fields, vbo |-> Str("house"),
   devPortal |-> devPortal, logbook |-> logbook]
Both == Token(A, Value("bd", A), Resolved("", TRUE, TRUE, FALSE, FALSE, {"income2024", "income2025"}))
Years == {<<>>, <<2025>>, <<2024>>}
MCQuestions ==
  {Put("bd", T1, y, <<>>, p, TRUE) : y \in Years, p \in BOOLEAN}
  \cup {Put("bd", t, y, <<>>, FALSE, TRUE) : t \in {Both, Token(B, Value("bd", B), Valid)} \cup OtherTokens,
          y \in {<<>>, <<2024>>}}
  \cup {Put("bd", T1, <<>>, f, FALSE, TRUE) : f \in {<<"status">>, <<"box2Inkomen">>}}
  \cup {[Put("lvg", Owned, <<>>, <<>>, FALSE, TRUE) EXCEPT !.vbo = v] : v \in {None, Str("house"), Str("barn")}}
  \cup {Put("lvg", T1, <<>>, <<>>, FALSE, TRUE), Put("bd", T1, <<>>, <<>>, FALSE, FALSE),
        Put("bd", None, <<>>, <<>>, FALSE, TRUE),
        Put("bd", [T1 EXCEPT !.claims = None], <<>>, <<>>, FALSE, TRUE)}

Contract(self, peers, grants) ==
  [self |-> self, peers |-> peers \cup {self}, grants |-> grants, wellFormed |-> TRUE]
MCContracts == {
  Contract("bd", {"dv"}, {"connection"}), Contract("bd", {"issuer"}, {"connection"}),
  Contract("rvig", {"issuer", "asip"}, {"connection"}), Contract("kadaster", {"dv"}, {"connection"}),
  Contract("bd", {"int", "dv"}, {"delegated"}), Contract("bd", {"dv"}, {"connection", "delegated"}),
  Contract("bd", {"issuer", "dv"}, {"delegated"})}

Holders == {"bd", "rvig", "kadaster"}
Entry(peer, active) == [peer |-> peer, active |-> active, sources |-> Holders]
Integrations == {[integrator |-> "int", provider |-> "dv", rules |-> {"DVT0001", "LVG0001"}]}
Deployed(technical, integrations) ==
  [holders |-> Holders, system |-> {Entry(p, TRUE) : p \in technical},
   seeds |-> {Entry(p, TRUE) : p \in {"dv", "int"} \ technical}, integrations |-> integrations]
\* With the integration and without.
MCConfigurations == {Deployed({"issuer", "asip"}, Integrations), Deployed({"issuer", "asip"}, {})}
MCForms == {Entry("int", TRUE)}

----------------------------------------------------------------------------
(* The registers of the sources.                                           *)

MCDeclarations == A :> {2024, 2025} @@ B :> {2025}
MCOwners == {<<A, Str("house")>>}
Date(full, day) == [full |-> full, day |-> day]
Partner(id, died, parents) == [id |-> id, died |-> died, parents |-> parents]
Parent(id, died) == [id |-> id, died |-> died]
Marriage(reason, ended, partners) == [reason |-> reason, ended |-> ended, partners |-> partners]
First == Partner("first", Date(TRUE, 1), {Parent("mother1", None)})
Last == Partner("last", Date(FALSE, 3), {Parent("mother2", None), Parent("father2", Date(TRUE, 0))})
Ex == Partner("ex", Date(TRUE, 4), {Parent("mother3", None)})
Herself == Partner("a", None, {})
MCPersons ==
  A :> [id |-> "a", kind |-> "Ingezetene", addresses |-> {"Binnenlandsadres"}, marriages |-> {
      Marriage("Overlijden", Date(TRUE, 1), {Herself, First}),
      Marriage("Overlijden", Date(TRUE, 2), {Herself, Last}),
      Marriage("Overlijden", Date(TRUE, 2), {Herself, Ex})}]
  @@ B :> [id |-> "b", kind |-> "NietIngezetene", addresses |-> {}, marriages |-> {Marriage("Scheiding", Date(TRUE, 1), {Herself, Ex})}]
============================================================================
