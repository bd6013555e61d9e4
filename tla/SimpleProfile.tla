---------------------------- MODULE SimpleProfile ----------------------------
(* The mapping profile "gbo-simple-v1" of the EUDI adapter                   *)
(* (internal/gbosimplev1/profile.go), the Type Metadata generated from the   *)
(* same claims (type_metadata.go) and the checks on a source's claims and    *)
(* display (source_claims.go).                                               *)
(*                                                                           *)
(* A JSON value is a tuple <<kind, form, subject>>: the form says what the   *)
(* profile tells apart about a text or a number, the subject is the citizen  *)
(* the value is about.  A pointer is a name; "" and any name of BadPointers  *)
(* are those validatePointer refuses.  An answer of a source is              *)
(* [at, rows]: what its result pointer selects ("nothing", "other" for       *)
(* something that is no array, or "rows"), and the rows, each a function     *)
(* from the pointers that exist in it to their values.                       *)
EXTENDS Naturals, Sequences, FiniteSets

CONSTANTS
    BadPointers,   \* pointers that are not absolute, too long, too deep or badly escaped
    BadNames       \* claim names that do not match the claim pattern or are too long

Datatypes == {"string", "boolean", "integer", "number", "date", "gYear"}

\* a claim of a definition: where its value is, and what is shown of it
\*   [pointer, datatype, optional, labels, descriptions, sd]

ValidPointer(pointer) == pointer \notin BadPointers \cup {""}

\* 1 to MaxClaims claims with a lawful name, pointer and datatype
ValidMapping(claims) ==
    /\ DOMAIN claims # {}
    /\ \A name \in DOMAIN claims :
        /\ name \notin BadNames
        /\ ValidPointer(claims[name].pointer)
        /\ claims[name].datatype \in Datatypes

\* what parseNumber accepts: a JSON number of a bounded length and exponent
Parsed(value) == value[1] = "number" /\ value[2] # "unparsed"

Int64(value) == Parsed(value) /\ value[2] \in {"year", "int64"}

\* copyValue: a value of this datatype is taken over unchanged
Copies(value, datatype) ==
    \/ datatype = "string" /\ value[1] = "text" /\ value[2] # "long"
    \/ datatype = "boolean" /\ value[1] = "boolean"
    \/ datatype = "integer" /\ Int64(value)
    \/ datatype = "gYear" /\ Int64(value) /\ value[2] = "year"
    \/ datatype = "number" /\ Parsed(value)
    \/ datatype = "date" /\ value[1] = "text" /\ value[2] = "date"

NoClaims == [name \in {} |-> <<>>]
Failed   == [outcome |-> "failed", claims |-> NoClaims]

\* a bug this code could have: any claim is left out when its value is null
LeftOutWhenNull(claim, row) ==
    IF claim.pointer \in DOMAIN row THEN row[claim.pointer][1] = "null" ELSE claim.optional

\* an optional claim is left out when its pointer is missing or null
LeftOut(claim, row) ==
    /\ claim.optional
    /\ claim.pointer \in DOMAIN row => row[claim.pointer][1] = "null"

Filled(claims, row) == {name \in DOMAIN claims : ~LeftOut(claims[name], row)}

Project(answer, result_pointer, claims) ==
    IF ~ValidMapping(claims) \/ ~ValidPointer(result_pointer) \/ answer.at # "rows"
       \/ Len(answer.rows) > 1
    THEN Failed
    ELSE IF answer.rows = <<>> THEN [outcome |-> "no_data", claims |-> NoClaims]
    ELSE LET row == answer.rows[1]
             names == Filled(claims, row)
         IN  IF \A name \in names :
                  /\ claims[name].pointer \in DOMAIN row
                  /\ Copies(row[claims[name].pointer], claims[name].datatype)
             THEN [outcome |-> "credential",
                   claims |-> [name \in names |-> row[claims[name].pointer]]]
             ELSE Failed

-----------------------------------------------------------------------------
(* Type Metadata.  The bytes that are published are this record; their hash  *)
(* is the record itself.                                                     *)

\* the JSON Schema type of a datatype; "none" for number, which is refused
SchemaProperty(datatype) ==
    CASE datatype \in {"string", "boolean", "integer"} -> datatype
      [] datatype = "date"  -> "full-date"
      [] datatype = "gYear" -> "integer"
      [] OTHER -> "none"

Represented(definition) ==
    /\ DOMAIN definition.claims # {} /\ definition.display # <<>>
    /\ \A name \in DOMAIN definition.claims :
          SchemaProperty(definition.claims[name].datatype) # "none"

\* sd is filled in with "always" when the source says nothing
Disclosure(claim) == IF claim.sd = "" THEN "always" ELSE claim.sd

TypeMetadata(definition, vct) ==
    LET claims == definition.claims IN
    [vct |-> vct, display |-> definition.display,
     claims |-> [name \in DOMAIN claims |->
                   [labels |-> claims[name].labels, descriptions |-> claims[name].descriptions,
                    sd |-> Disclosure(claims[name])]],
     properties |-> [name \in DOMAIN claims |-> SchemaProperty(claims[name].datatype)],
     required |-> {name \in DOMAIN claims : ~claims[name].optional}]

\* whether a JSON value is an instance of a schema property
Instance(value, property) ==
    \/ property = "string" /\ value[1] = "text"
    \/ property = "boolean" /\ value[1] = "boolean"
    \/ property = "integer" /\ value[1] = "number" /\ value[2] \in {"year", "int64", "wide"}
    \/ property = "full-date" /\ value[1] = "text" /\ value[2] = "date"

\* a validator of the published schema: every required claim is there, and
\* every claim the schema names is of its type
FitsSchema(claims, metadata) ==
    /\ metadata.required \subseteq DOMAIN claims
    /\ \A name \in DOMAIN claims \cap DOMAIN metadata.properties :
          Instance(claims[name], metadata.properties[name])

-----------------------------------------------------------------------------
(* What a source may say about its claims and their display.  A label or a   *)
(* description is the set of languages it is given in; that a language is a  *)
(* lawful tag and its text not empty is left out.                            *)

\* names the issuer fills in itself
Reserved == {"attestation_qualification", "cnf", "exp", "iat", "iss", "nbf", "status", "sub",
             "vct", "vct#integrity"}

ValidClaims(definition) ==
    /\ ValidMapping(definition.claims)
    /\ \A name \in DOMAIN definition.claims :
        LET claim == definition.claims[name] IN
        /\ name \notin Reserved
        /\ claim.datatype # "number"
        /\ claim.labels # {}
        /\ claim.descriptions \subseteq claim.labels
        /\ claim.sd \in {"", "always", "allowed", "never"}

\* a display names its language and the type, and its summary only shows claims
ValidDisplay(definition) ==
    /\ definition.display # <<>>
    /\ \A i \in DOMAIN definition.display :
        /\ definition.display[i].name # ""
        /\ definition.display[i].rendering \in {"none", "object"}
        /\ definition.display[i].summary \subseteq DOMAIN definition.claims
=============================================================================
