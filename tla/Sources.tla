------------------------------ MODULE Sources ------------------------------
(* The three GraphQL sources: the schema each serves, what its resolvers      *)
(* return, what they note about the processing while a query runs, and the    *)
(* records a query leaves.                                                    *)
EXTENDS GraphqlMapper, TLC

CONSTANTS
    Declarations,   \* bri: per BSN the years with a declaration
    Persons,        \* brp: per BSN [id, kind, addresses, marriages]
    Owners          \* lvg: the pairs <<BSN, VBO-id>>

LOCAL INSTANCE SequencesExt

----------------------------------------------------------------------------
(* Schemas.  Scalars are told apart only where an argument has one.          *)

Named(n, nonNull) == <<"named", n, nonNull>>
ListOf(t) == <<"list", t, FALSE>>
Kind(kind, fields, members) ==
    [kind |-> kind, fields |-> fields, members |-> members, values |-> {}, root |-> "none"]
QueryType(fields) == [Kind("OBJECT", fields, {}) EXCEPT !.root = "query"]
Leaves(names) == [f \in names |-> [type |-> Named("scalar", FALSE), args |-> <<>>]]
Edge(field, type) == field :> [type |-> Named(type, FALSE), args |-> <<>>]
Edges(field, type) == field :> [type |-> ListOf(Named(type, TRUE)), args |-> <<>>]
BsnArgument == "bsn" :> [type |-> Named("BSN", TRUE), default |-> None]
Root(field, type, args) == field :> [type |-> Named(type, FALSE), args |-> BsnArgument @@ args]

Bedrag == Kind("OBJECT", Leaves({"waarde", "valuta"}), {})
AangifteLeaves == Leaves({"aangifteIdentificatie", "indieningsdatum", "status", "belastingjaar",
                          "belastingsoort", "ingangsdatumAangifte", "einddatumAangifte"})
AangifteIH ==
    Kind("OBJECT", AangifteLeaves @@ Edge("verzamelinkomen", "Bedrag") @@ Edge("box1Inkomen", "Bedrag")
                   @@ Edge("box2Inkomen", "Bedrag") @@ Edge("box3Inkomen", "Bedrag"), {})
IngeschrevenPersoonBri(default) ==
    Kind("OBJECT", Leaves({"bsn"}) @@ "heeftBelastingjaarAangifte" :>
        [type |-> ListOf(Named("BelastingjaarAangifte", TRUE)),
         args |-> "belastingjaren" :> [type |-> ListOf(Named("Int", TRUE)), default |-> default]], {})
\* default stands for a schema default of the year filter; the source has none.
BriSchema(default) ==
    "Query" :> QueryType(Root("ingeschrevenPersoon", "IngeschrevenPersoon", <<>>))
    @@ "IngeschrevenPersoon" :> IngeschrevenPersoonBri(default)
    @@ "BelastingjaarAangifte" :> Kind("INTERFACE", AangifteLeaves, {"AangifteIH"})
    @@ "AangifteIH" :> AangifteIH @@ "Bedrag" :> Bedrag

PartijFields == Leaves({"ingeschrevenAls", "id"})
NatuurlijkPersoonFields ==
    PartijFields @@ Leaves({"geslachtsnaam", "voornamen", "voorvoegsel", "adellijkeTitelPredicaat",
        "geboortedatum", "geboorteplaats", "geboorteland", "geslacht", "datumOverlijden",
        "plaatsOverlijden", "landOverlijden"})
    @@ Edges("heeftOuder", "NatuurlijkPersoon") @@ Edges("heeftHuwelijk", "Huwelijk")
IngeschrevenPersoonFields ==
    NatuurlijkPersoonFields @@ Leaves({"bsn", "tin", "datumEersteInschrijving", "gemeenteVanInschrijving",
        "opschortingBijhouding", "uitsluitingKiesrecht", "europeesKiesrecht", "verificatie", "inOnderzoek"})
    @@ Edges("heeftNationaliteit", "Nationaliteit") @@ Edge("heeftVerblijfstitel", "Verblijfstitel")
    @@ Edge("gezag", "Gezagsverhouding") @@ Edge("heeftImmigratie", "Immigratie")
BrpTypes ==
    "Partij" :> Kind("INTERFACE", PartijFields, {"NatuurlijkPersoon", "Ingezetene", "NietIngezetene"})
    @@ "IngeschrevenPersoon" :>
          Kind("INTERFACE", IngeschrevenPersoonFields, {"Ingezetene", "NietIngezetene"})
    @@ "Adres" :> Kind("INTERFACE", Leaves({"volledigAdres"}), {"Binnenlandsadres", "Buitenlandsadres"})
    @@ "NatuurlijkPersoon" :> Kind("OBJECT", NatuurlijkPersoonFields, {})
    @@ "Huwelijk" :> Kind("OBJECT", Leaves({"soortVerbintenis", "datumVoltrekking", "datumOntbinding",
          "redenOntbinding"}) @@ Edges("partners", "NatuurlijkPersoon"), {})
    @@ "Nationaliteit" :> Kind("OBJECT", Leaves({"nationaliteit", "redenVerkrijging", "redenVerlies",
          "datumVerkrijging", "datumVerlies"}), {})
    @@ "Verblijfstitel" :> Kind("OBJECT", Leaves({"aanduiding", "datumIngang", "datumEinde"}), {})
    @@ "Gezagsverhouding" :> Kind("OBJECT", Leaves({"indicatieGezagMinderjarige", "indicatieCuratele"}), {})
    @@ "Immigratie" :> Kind("OBJECT", Leaves({"datumVestigingInNederland", "landVanwaar"}), {})
BrpAdressen ==
    "Binnenlandsadres" :> Kind("OBJECT", Leaves({"volledigAdres", "adresId", "straatnaam", "huisnummer",
          "huisletter", "huisnummertoevoeging", "postcode", "woonplaatsnaam"}), {})
    @@ "Buitenlandsadres" :> Kind("OBJECT", Leaves({"volledigAdres", "adresId", "adresregel1", "land"}), {})
    @@ "Ingezetene" :> Kind("OBJECT", IngeschrevenPersoonFields @@ Leaves({"datumInschrijvingGemeente",
          "indicatieGeheim"}) @@ Edge("woontOp", "Binnenlandsadres"), {})
    @@ "NietIngezetene" :> Kind("OBJECT", IngeschrevenPersoonFields @@ Leaves({"datumInschrijvingRNI",
          "landVanVerblijf", "deelnemerCodeRNI"}) @@ Edge("woontOp", "Buitenlandsadres"), {})
BrpSchema ==
    BrpTypes @@ BrpAdressen
    @@ "AkteVanOverlijden" :> Kind("OBJECT", Leaves({"overledene_geslachtsnaam", "datum_overlijden",
          "overledene_ouders", "verklaring_tekst"}), {})
    @@ "Query" :> QueryType(Root("ingeschrevenPersoon", "IngeschrevenPersoon", <<>>)
          @@ Root("akteVanOverlijden", "AkteVanOverlijden", <<>>))

LvgSchema ==
    "Query" :> QueryType(Root("vbo", "Verblijfsobject",
        "vboId" :> [type |-> Named("String", TRUE), default |-> None]))
    @@ "Verblijfsobject" :> Kind("OBJECT", Leaves({"vboId"}), {})

----------------------------------------------------------------------------
(* Resolvers.  An object is [type, about, year]: the citizen whose data it   *)
(* is, and the year it is of.                                                *)

Object(type, about, year) == [type |-> type, about |-> about, year |-> year]
Arg(args, a) == IF a \in DOMAIN args THEN args[a] ELSE None
YearsAsked(args) ==
    LET v == Arg(args, "belastingjaren")
    IN  IF v = None \/ v = Null THEN {} ELSE {v[2][n][2] : n \in DOMAIN v[2]}

\* No filter is every year served.
AangiftenOf(parent, args) ==
    LET asked == YearsAsked(args)
    IN  {Object("AangifteIH", parent.about, y) :
            y \in {x \in Declarations[parent.about] : asked = {} \/ x \in asked}}

\* akteVanOverlijden: of the marriages that ended by a death, the partner who
\* died last, unless the dates, both full, say the marriage ended on another day.
DeceasedPartners(person) ==
    UNION {{p \in m.partners :
              /\ p.id # person.id /\ p.died # None
              /\ m.ended.full /\ p.died.full => m.ended.day = p.died.day} :
           m \in {x \in person.marriages : x.reason = "Overlijden"}}
Certificate(person) ==
    {p \in DeceasedPartners(person) : \A q \in DeceasedPartners(person) : q.died.day <= p.died.day}
LivingParents(partner) == {p.id : p \in {x \in partner.parents : x.died = None /\ x.id # None}}

\* resolvePersoonType, and the address the kind of person has.
PersoonType(person) == IF person.kind = "NietIngezetene" THEN "NietIngezetene" ELSE "Ingezetene"
WoontOp(parent) ==
    LET type == IF parent.type = "Ingezetene" THEN "Binnenlandsadres" ELSE "Buitenlandsadres"
    IN  IF type \in Persons[parent.about].addresses THEN {Object(type, parent.about, None)} ELSE {}

RootObjects(service, field, args) ==
    LET bsn == Arg(args, "bsn")
    IN  CASE service = "bri" -> IF bsn \in DOMAIN Declarations
                                THEN {Object("IngeschrevenPersoon", bsn, None)} ELSE {}
          [] service = "brp" /\ bsn \notin DOMAIN Persons -> {}
          [] service = "brp" /\ bsn \in DOMAIN Persons /\ field = "ingeschrevenPersoon" ->
                {Object(PersoonType(Persons[bsn]), bsn, None)}
          [] service = "brp" /\ bsn \in DOMAIN Persons /\ field = "akteVanOverlijden" ->
                IF Certificate(Persons[bsn]) # {} THEN {Object("AkteVanOverlijden", bsn, None)} ELSE {}
          [] service = "lvg" -> IF <<bsn, Arg(args, "vboId")>> \in Owners
                                THEN {Object("Verblijfsobject", bsn, None)} ELSE {}

\* The objects a field returns; one without a resolver of its own is read from
\* its parent.
Resolve(service, schema, parent, field, args) ==
    CASE schema[parent.type].root = "query"    -> RootObjects(service, field, args)
      [] field = "heeftBelastingjaarAangifte"  -> AangiftenOf(parent, args)
      [] field = "woontOp"                     -> WoontOp(parent)
      [] schema[parent.type].root = "none" /\ field \notin {"heeftBelastingjaarAangifte", "woontOp", "__typename"} ->
            LET type == NamedType(FieldOf(schema, parent.type, field).type)
            IN  IF Composite(schema, type) THEN {Object(type, parent.about, parent.year)} ELSE {}
      [] schema[parent.type].root = "none" /\ field = "__typename" -> {}

RECURSIVE Executed(_, _, _, _, _, _, _)
\* Execution as the GraphQL specification has it: what @skip leaves out is not
\* run, a fragment applies to the object types of its condition, and every
\* field runs on every object its parent returned.
Executed(service, schema, doc, values, sels, object, path) ==
    LET applies(on) == on = None \/ object.type \in Possible(schema, on)
        run(sub, o, at) == Executed(service, schema, doc, values, sub, o, at)
        field(s) ==
            LET here == Append(path, ResponseKey(s))
                defs == IF s.name = "__typename" THEN <<>> ELSE FieldOf(schema, object.type, s.name).args
                got == [a \in DOMAIN defs |-> Argument(schema, values, defs[a], Written(s, a))]
                args == [a \in {x \in DOMAIN got : got[x].st = "ok"} |-> got[a].value]
            IN  {[path |-> here, field |-> s.name, args |-> args, leaf |-> s.sub = <<>>,
                  about |-> object.about, year |-> object.year]}
                \cup UNION {run(s.sub, o, here) : o \in Resolve(service, schema, object, s.name, args)}
    IN  UNION {CASE s.skip                        -> {}
                 [] ~s.skip /\ s.kind = "field"   -> field(s)
                 [] ~s.skip /\ s.kind = "inline"  -> IF applies(s.on) THEN run(s.sub, object, path) ELSE {}
                 [] ~s.skip /\ s.kind = "spread"  ->
                       IF applies(doc.frags[s.frag].on) THEN run(doc.frags[s.frag].sels, object, path) ELSE {}
               : s \in ToSet(sels)}

----------------------------------------------------------------------------
(* The facts and the records.                                                *)

\* noteSubject: the income and population sources note a citizen they know, the
\* dwellings source whoever was asked about; one value, that the resolver that
\* ran last keeps.
Subjects(service, run) ==
    {r.args["bsn"] : r \in {x \in run : /\ "bsn" \in DOMAIN x.args
                                        /\ (service = "lvg" \/ RootObjects(service, x.field, x.args) # {})}}
YearsTouched(run) ==
    UNION {IF YearsAsked(r.args) = {} THEN Declarations[r.about] ELSE YearsAsked(r.args) :
             r \in {x \in run : x.field = "heeftBelastingjaarAangifte"}}
Activities(run) == {r.field : r \in {x \in run : "bsn" \in DOMAIN x.args
                                                  /\ RootObjects("brp", x.field, x.args) # {}}}
Relatives(run) ==
    UNION {LivingParents(CHOOSE p \in Certificate(Persons[r.args["bsn"]]) : TRUE) :
             r \in {x \in run : /\ x.field = "akteVanOverlijden"
                                /\ RootObjects("brp", x.field, x.args) # {}}}

NoFacts == [subject |-> None, what |-> {}, relatives |-> {}]
\* The collectors a query can leave; what names the activities of its records:
\* a year (0 without any) or an activity.
Noted(service, run) ==
    LET subjects == Subjects(service, run)
        what == CASE service = "bri" -> IF YearsTouched(run) = {} THEN {0} ELSE YearsTouched(run)
                  [] service = "brp" -> Activities(run)
                  [] service = "lvg" -> {"eigendom"}
    IN  IF subjects = {} THEN {NoFacts}
        ELSE {[subject |-> s, what |-> what,
               relatives |-> IF service = "brp" THEN Relatives(run) ELSE {}] : s \in subjects}

\* under is the kind of the record it hangs under, as the trace context had it.
Record(kind, about, what, under) == [kind |-> kind, about |-> about, what |-> what, under |-> under]
\* The records of one query, named as the sidecar passed or else as noted: one
\* per activity, under the forward, and under it one per further Betrokkene.
\* No subject, no record.
QueryRecords(facts, passed) ==
    IF facts.subject = None THEN {}
    ELSE {Record("bronbevraging", IF passed # None THEN passed ELSE facts.subject, w, "doorgifte") :
                  w \in facts.what}
         \cup {Record("medebetrokkene", p, w, "bronbevraging") : p \in facts.relatives, w \in facts.what}
============================================================================
