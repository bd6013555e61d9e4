--------------------------- MODULE GraphqlMapper ---------------------------
(* The mapping function of the FTV GraphQL profile: one GraphQL request in,   *)
(* the list of fields the policy judges out, or the reason there is no list.  *)
(*                                                                            *)
(* A type is <<"named", name, nonNull>> or <<"list", type, nonNull>>.  A value*)
(* is <<"int", n>>, <<"str", s>>, <<"enum", e>>, <<"null">>, <<"list", seq>>, *)
(* <<"obj", fn>> or, in a document only, <<"var", name>>.  A selection is     *)
(* [kind |-> "field", name, alias, args, skip, sub] (args a function from     *)
(* argument names to written values, alias None when none is written),        *)
(* [kind |-> "inline", on, skip, sub] (on = None without a type condition) or *)
(* [kind |-> "spread", frag, skip]; skip is what @skip and @include make of it.*)
EXTENDS Integers, Sequences, FiniteSets, Functions

CONSTANTS
    None,       \* absent: no alias, no default, no condition, no schema
    Limits      \* [nesting, fragments, depth, records, aliases], and int, the
                \* largest Int of the specification (2^31 - 1)

LOCAL INSTANCE SequencesExt

Null == <<"null">>

----------------------------------------------------------------------------
(* The transport subset and the body.                                        *)

\* A request is in the subset when the PDP and the source read the same request
\* from it: this path, POST, one JSON content type, no upgrade, no encoding.
IsJSONMediaType(contentType) == contentType = "json"
CheckTransport(req, path) ==
    /\ path # None /\ req.target = path
    /\ req.method = "POST"
    /\ Len(req.contentTypes) = 1 /\ IsJSONMediaType(req.contentTypes[1])
    /\ req.headers \cap {"Upgrade", "Content-Encoding"} = {}
    /\ req.body # None

\* What is refused in the body: what two JSON parsers may read differently, a
\* member outside the request's four, and any extension that is not listed.
BodyFault(body) ==
    CASE body.size = "large"           -> "LIMIT_EXCEEDED"
      [] body.json = "ambiguous"       -> "INVALID_BODY"
      [] body.json = "deep"            -> "LIMIT_EXCEEDED"
      [] body.members \ {"query", "operationName", "variables", "extensions"} # {}
                                       -> "INVALID_BODY"
      [] "query" \notin body.members   -> "INVALID_BODY"
      [] body.operationName = ""       -> "INVALID_BODY"
      [] body.extensions # {}          -> "INVALID_BODY"
      [] OTHER                         -> "none"

----------------------------------------------------------------------------
(* The document.                                                             *)

RECURSIVE Depth(_)
\* The deepest nesting of selection sets.
Depth(sels) ==
    1 + Max({0} \cup {Depth(s.sub) : s \in {t \in ToSet(sels) : t.kind # "spread"}})

\* scanDocument and the parser: type-system definitions are set aside, every
\* written alias is recorded.  A document without an operation is named so
\* before validation would call its fragments unused.
ParseFault(doc) ==
    CASE \E o \in ToSet(doc.ops) : Depth(o.sels) > Limits.nesting        -> "LIMIT_EXCEEDED"
      [] doc.syntax = "broken"                                          -> "PARSE_ERROR"
      [] Cardinality(DOMAIN doc.frags) > Limits.fragments               -> "LIMIT_EXCEEDED"
      [] doc.ops = <<>>                                                 -> "NO_OPERATION"
      [] OTHER                                                          -> "none"

\* The schema: a function from type names to [kind, fields, members, values, root],
\* root the operation whose root type it is, "none" for any other type.
QueryRoot(schema) == CHOOSE t \in DOMAIN schema : schema[t].root = "query"
FieldOf(schema, type, name) == schema[type].fields[name]
RECURSIVE NamedType(_)
NamedType(t) == IF t[1] = "named" THEN t[2] ELSE NamedType(t[2])
Composite(schema, type) ==
    type \in DOMAIN schema /\ schema[type].kind \in {"OBJECT", "INTERFACE", "UNION"}
\* The object types a value of this type can have.
Possible(schema, type) ==
    IF schema[type].kind = "OBJECT" THEN {type} ELSE schema[type].members

RECURSIVE ValidSet(_, _, _, _, _)
\* The rules of the specification's validation chapter that decide which names
\* a walk meets: fields exist on their parent, leaves have no selection and
\* edges have one, required arguments are written, arguments are known,
\* fragments are defined, acyclic (within: the spreads we are in) and possible.
ValidSet(schema, doc, sels, parent, within) ==
    \A s \in ToSet(sels) :
        CASE s.kind = "field" /\ s.name = "__typename" -> s.sub = <<>>
          [] s.kind = "field" /\ s.name # "__typename" ->
                /\ s.name \in DOMAIN schema[parent].fields
                /\ LET def == FieldOf(schema, parent, s.name)
                       type == NamedType(def.type)
                   IN  /\ (s.sub = <<>>) = ~Composite(schema, type)
                       /\ DOMAIN s.args \subseteq DOMAIN def.args
                       /\ \A a \in DOMAIN def.args :
                             def.args[a].type[3] /\ def.args[a].default = None
                                => a \in DOMAIN s.args
                       /\ Composite(schema, type) => ValidSet(schema, doc, s.sub, type, within)
          [] s.kind = "inline" ->
                LET type == IF s.on = None THEN parent ELSE s.on
                IN  /\ Composite(schema, type)
                    /\ Possible(schema, type) \cap Possible(schema, parent) # {}
                    /\ ValidSet(schema, doc, s.sub, type, within)
          [] s.kind = "spread" ->
                /\ s.frag \in DOMAIN doc.frags \ within
                /\ LET f == doc.frags[s.frag]
                   IN  /\ Composite(schema, f.on)
                       /\ Possible(schema, f.on) \cap Possible(schema, parent) # {}
                       /\ ValidSet(schema, doc, f.sels, f.on, within \cup {s.frag})

\* validate: the validation chapter, only @skip and @include, no type-system
\* definition in the document.  A validation that outlives its time limit, or
\* that finds no free slot within it ("slow"), is not waited for.
Validate(schema, doc) ==
    CASE doc.validation = "slow" -> "LIMIT_EXCEEDED"
      [] \/ doc.typeSystem
         \/ doc.directives \ {"skip", "include"} # {}
         \/ \E o \in ToSet(doc.ops) :
               o.type = "query" /\ ~ValidSet(schema, doc, o.sels, QueryRoot(schema), {})
                         -> "INVALID_QUERY"
      [] OTHER           -> "none"

\* GetOperation of the GraphQL specification.
SelectOperation(doc, name) ==
    LET named == SelectSeq(doc.ops, LAMBDA o : o.name = name)
    IN  CASE name # None /\ named # <<>>           -> [fault |-> "none", op |-> named[1]]
          [] name # None /\ named = <<>>           -> [fault |-> "OPERATION_NOT_FOUND", op |-> None]
          [] name = None /\ Len(doc.ops) > 1       -> [fault |-> "OPERATION_AMBIGUOUS", op |-> None]
          [] OTHER                                 -> [fault |-> "none", op |-> doc.ops[1]]

----------------------------------------------------------------------------
(* Coercion.  The result is [st, v, used, defaulted]: st is "ok", "absent"    *)
(* (a variable without a value), "bad" (the document) or "varbad" (a value).  *)

Coerced(st, v, used, defaulted) == [st |-> st, v |-> v, used |-> used, defaulted |-> defaulted]
Bad == Coerced("bad", Null, {}, FALSE)
VarBad == Coerced("varbad", Null, {}, FALSE)

ScalarFits(name, v) ==
    CASE name = "Int"     -> v[1] = "int" /\ v[2] \in -Limits.int - 1 .. Limits.int
      [] name = "String"  -> v[1] = "str"
      [] name = "Boolean" -> v[1] = "bool"
      [] name = "ID"      -> v[1] \in {"str", "int"}
      [] OTHER            -> TRUE      \* a custom scalar passes as received

\* Parts joined: the worst status, every variable, any schema default inside.
Joined(parts, v) ==
    LET sts == {p.st : p \in parts}
    IN  Coerced(IF "bad" \in sts THEN "bad" ELSE IF "varbad" \in sts THEN "varbad" ELSE "ok",
                v, UNION {p.used : p \in parts}, \E p \in parts : p.defaulted)

RECURSIVE Literal(_, _, _, _)
\* coercer.literal: a value of the document in a position of type t.  vars maps
\* the variables that have a value to [v, declared, defaulted].
Literal(schema, vars, t, v) ==
    CASE v[1] = "var" /\ v[2] \notin DOMAIN vars -> Coerced("absent", Null, {v[2]}, FALSE)
      [] v[1] = "var" /\ v[2] \in DOMAIN vars ->
            IF vars[v[2]].v = Null /\ t[3] THEN VarBad
            ELSE Coerced("ok", vars[v[2]].v, {v[2]}, vars[v[2]].defaulted)
      [] v = Null -> IF t[3] THEN Bad ELSE Coerced("ok", Null, {}, FALSE)
      [] v[1] # "var" /\ v # Null /\ t[1] = "list" ->
            IF v[1] # "list"
            THEN LET i == Literal(schema, vars, t[2], v) IN [i EXCEPT !.v = <<"list", <<i.v>>>>]
            ELSE LET items == [n \in 1..Len(v[2]) |-> Literal(schema, vars, t[2], v[2][n])]
                     one(i) == IF i.st # "absent" THEN i
                               ELSE IF t[2][3] THEN Bad ELSE [i EXCEPT !.st = "ok"]
                 IN  Joined({one(items[n]) : n \in DOMAIN items},
                            <<"list", [n \in DOMAIN items |-> items[n].v]>>)
      [] OTHER ->
            IF t[2] \in DOMAIN schema /\ schema[t[2]].kind = "ENUM"
            THEN IF v[1] = "enum" /\ v[2] \in schema[t[2]].values
                 THEN Coerced("ok", v, {}, FALSE) ELSE Bad
            ELSE IF t[2] \in DOMAIN schema /\ schema[t[2]].kind = "INPUT_OBJECT"
            THEN IF v[1] # "obj" \/ DOMAIN v[2] \ DOMAIN schema[t[2]].fields # {} THEN Bad
                 ELSE LET defs == schema[t[2]].fields
                          part(f) ==
                             LET w == IF f \in DOMAIN v[2] THEN Literal(schema, vars, defs[f].type, v[2][f])
                                      ELSE Coerced("absent", Null, {}, FALSE)
                             IN  IF w.st # "absent" THEN w
                                 ELSE IF defs[f].default # None
                                      THEN Coerced("ok", defs[f].default, w.used, TRUE)
                                      ELSE IF defs[f].type[3] THEN Bad ELSE w
                          parts == [f \in DOMAIN defs |-> part(f)]
                          has == {f \in DOMAIN defs : parts[f].st = "ok"}
                      IN  Joined(Range(parts), <<"obj", [f \in has |-> parts[f].v]>>)
            ELSE IF ScalarFits(t[2], v) THEN Coerced("ok", v, {}, FALSE) ELSE Bad

\* coerceVariables: a supplied value, else the declared default, else nothing;
\* nothing is an error for a non-null variable.  A value from JSON is coerced as
\* a literal without variables is.
CoerceVariables(schema, op, supplied) ==
    LET decl(x) == op.vars[x]
        value(x) == IF x \in DOMAIN supplied THEN supplied[x] ELSE decl(x).default
        has == {x \in DOMAIN op.vars : x \in DOMAIN supplied \/ decl(x).default # None}
        got == [x \in has |-> Literal(schema, <<>>, decl(x).type, value(x))]
    IN  [fault |-> IF \/ \E x \in has : got[x].st # "ok"
                      \/ \E x \in DOMAIN op.vars \ has : decl(x).type[3]
                   THEN "VARIABLE_ERROR" ELSE "none",
         vars |-> [x \in has |-> [v |-> got[x].v, declared |-> x \notin DOMAIN supplied,
                                  defaulted |-> got[x].defaulted]]]

\* argument: the value the source executes for one argument, and where it is
\* from.  An argument that is not written, or is a variable without a value,
\* takes the schema's default if there is one.
Argument(schema, vars, def, written) ==
    LET w == IF written = None THEN Coerced("absent", Null, {}, FALSE)
             ELSE Literal(schema, vars, def.type, written)
        origin == IF written[1] = "var"
                  THEN IF vars[written[2]].declared THEN "default" ELSE "variable"
                  ELSE IF w.used = {} THEN "literal" ELSE "mixed"
    IN  CASE w.st \in {"bad", "varbad"} -> [st |-> w.st]
          [] w.st = "ok" -> [st |-> "ok", value |-> w.v, origin |-> origin, schemaDefaults |-> w.defaulted]
          [] w.st = "absent" /\ def.default = None -> [st |-> "absent"]
          [] w.st = "absent" /\ def.default # None ->
                [st |-> "ok", value |-> def.default, origin |-> "schema-default", schemaDefaults |-> FALSE]

Written(s, a) == IF a \in DOMAIN s.args THEN s.args[a] ELSE None

----------------------------------------------------------------------------
(* The walk.                                                                 *)

ResponseKey(s) == IF s.alias = None THEN s.name ELSE s.alias

RECURSIVE Walk(_, _, _, _, _, _, _)
\* One record per selection, in document order, after fragment expansion.  skip
\* is not looked at: a field that may be skipped still counts.  A fragment
\* spread twice is walked twice.
Walk(schema, doc, vars, sels, parent, path, on) ==
    LET one(s) ==
          CASE s.kind = "inline" ->
                 Walk(schema, doc, vars, s.sub, IF s.on = None THEN parent ELSE s.on, path, s.on)
            [] s.kind = "spread" ->
                 LET f == doc.frags[s.frag] IN Walk(schema, doc, vars, f.sels, f.on, path, f.on)
            [] s.kind = "field" ->
                 LET here == Append(path, ResponseKey(s))
                     defs == IF s.name = "__typename" THEN <<>> ELSE FieldOf(schema, parent, s.name).args
                     got == [a \in DOMAIN defs |-> Argument(schema, vars, defs[a], Written(s, a))]
                     rec == [path |-> here, aliased |-> s.alias # None, parentType |-> parent, on |-> on,
                             field |-> s.name, leaf |-> s.sub = <<>>,
                             args |-> Restrict(got, {a \in DOMAIN got : got[a].st # "absent"})]
                 IN  <<rec>> \o IF rec.leaf THEN <<>>
                                ELSE Walk(schema, doc, vars, s.sub,
                                          NamedType(FieldOf(schema, parent, s.name).type), here, None)
    IN  FlattenSeq([n \in 1..Len(sels) |-> one(sels[n])])

\* checkArguments and walk: an argument a variable spoils is told before any
\* walk limit is, and a literal that does not fit before the variable.
WalkFault(fields) ==
    LET sts == UNION {{f.args[a].st : a \in DOMAIN f.args} : f \in ToSet(fields)}
    IN  CASE "bad" \in sts                                                -> "INVALID_QUERY"
          [] "varbad" \in sts                                             -> "VARIABLE_ERROR"
          [] \/ Len(fields) > Limits.records
             \/ \E f \in ToSet(fields) : Len(f.path) > Limits.depth
             \/ Len(SelectSeq(fields, LAMBDA f : f.aliased)) > Limits.aliases
                                                                          -> "LIMIT_EXCEEDED"
          [] OTHER                                                        -> "none"

\* schema is whether the output names the schema it was made with.
Unverifiable(code, subcode) == [fields |-> <<>>, code |-> code, subcode |-> subcode, schema |-> FALSE]
Uncovered(subcode) == Unverifiable("COVERAGE_UNVERIFIABLE", subcode)

\* mapping.run: the checks in the order the profile fixes; the first that fails
\* is the answer, and then there are no fields.
MapRequest(req, schema, path) ==
    IF ~CheckTransport(req, path) THEN Uncovered("UNSUPPORTED_TRANSPORT")
    ELSE IF BodyFault(req.body) # "none" THEN Uncovered(BodyFault(req.body))
    ELSE LET doc == req.body.doc
             parse == ParseFault(doc)
    IN IF parse # "none" THEN Uncovered(parse)
    ELSE IF schema = None THEN Unverifiable("CONFIG_ERROR", "SCHEMA_UNAVAILABLE")
    ELSE IF Validate(schema, doc) # "none" THEN Uncovered(Validate(schema, doc))
    ELSE LET sel == SelectOperation(doc, req.body.operationName)
    IN IF sel.fault # "none" THEN Uncovered(sel.fault)
    ELSE IF sel.op.type # "query" THEN Unverifiable("OPERATION_NOT_SUPPORTED", "")
    ELSE LET coerced == CoerceVariables(schema, sel.op, req.body.variables)
    IN IF coerced.fault # "none" THEN Uncovered(coerced.fault)
    ELSE LET fields == Walk(schema, doc, coerced.vars, sel.op.sels, QueryRoot(schema), <<>>, None)
    IN IF WalkFault(fields) # "none" THEN Uncovered(WalkFault(fields))
       ELSE [fields |-> fields, code |-> "none", subcode |-> "", schema |-> FALSE]

----------------------------------------------------------------------------
(* The catalog and the schema check.                                         *)

\* Catalog.Map: a service the catalog does not know, or whose schema did not
\* load (an executable directive, a OneOf with a default, no query root), has
\* no schema, and its requests are not mapped.
LoadSchema(sdl) ==
    IF \/ sdl.executableDirective
       \/ \A t \in DOMAIN sdl.types : sdl.types[t].root # "query" THEN None ELSE sdl.types

CatalogMap(catalog, service, req) ==
    IF service \notin DOMAIN catalog THEN Unverifiable("CONFIG_ERROR", "SCHEMA_UNAVAILABLE")
    ELSE [MapRequest(req, catalog[service].schema, catalog[service].path)
             EXCEPT !.schema = catalog[service].schema # None]

\* inputDrift: the same arguments, no more and no fewer, of the same type and
\* with the same default.
InputsAgree(bundled, source) ==
    /\ DOMAIN bundled = DOMAIN source
    /\ \A a \in DOMAIN bundled : /\ bundled[a].type = source[a].type
                                 /\ bundled[a].default = source[a].default

NoDriftInTypes(bundled, source) ==
    \A t \in DOMAIN bundled : t \in DOMAIN source /\ bundled[t].kind = source[t].kind

\* What is selected on a type: the source may have more of it.
FieldsAgree(bundled, source) ==
    \A f \in DOMAIN bundled : /\ f \in DOMAIN source
                              /\ bundled[f].type = source[f].type
                              /\ InputsAgree(bundled[f].args, source[f].args)

\* drift finds nothing: what the bundle names is the same in the source, which
\* may have more types, more fields on a type and a root for another operation.
NoDrift(bundled, source) ==
    \A t \in DOMAIN bundled :
        /\ t \in DOMAIN source
        /\ bundled[t].root # "none" => source[t].root = bundled[t].root
        /\ bundled[t].kind = source[t].kind
        /\ bundled[t].members = source[t].members
        /\ bundled[t].values = source[t].values
        /\ IF bundled[t].kind = "INPUT_OBJECT"
           THEN InputsAgree(bundled[t].fields, source[t].fields)
           ELSE FieldsAgree(bundled[t].fields, source[t].fields)
============================================================================
