---------------------------- MODULE AsiMapping ----------------------------
(***************************************************************************)
(* How a source's description (the asi capability of its metadata) turns a *)
(* request for attributes into a question to the source, and the answer    *)
(* into attribute values (asi-mapping: capability.go, plan.go, build.go),  *)
(* and how the ASIP compares those with what a QTSP claims                 *)
(* (asi-provider, verification: match.go).                                 *)
(*                                                                         *)
(* A source field holds a set of elements: none for null, one for a scalar,*)
(* several for a list; "empty" is an empty string, "shape" a value of a    *)
(* shape nobody expects. Members are numbers: the order of their names.    *)
(***************************************************************************)
EXTENDS Naturals, FiniteSets

CONSTANTS
  SourceField,   \* the pointers into the source's answer
  NoType,        \* no GraphQL type
  Norm,          \* element -> its form after normaliseString
  Catalogue      \* attribute identifier -> its value schema

ASSUME CatalogueAssumption ==
  \A id \in DOMAIN Catalogue :
    /\ Catalogue[id].members \subseteq Nat
    /\ Catalogue[id].required \cup Catalogue[id].lists \cup Catalogue[id].exact
         \subseteq Catalogue[id].members

(* An item of a request: the whole attribute, or one member of it.          *)
Whole(id) == [id |-> id, members |-> {}]
Part(id, m) == [id |-> id, members |-> {m}]
Ids(items) == {i.id : i \in items}

---------------------------------------------------------------------------
(* The description.                                                        *)

(* Validate: the document is one path to ...Selected, and the mapping fits  *)
(* the catalogue. A field is [kind, from]: const, pointer, join or each.    *)
FieldFits(field, isList) == isList <=> field.kind = "each"

Validate(asi) ==
  /\ asi.onePath
  /\ \A id \in DOMAIN asi.attributes :
       LET fields == asi.attributes[id].fields IN
       /\ id \in DOMAIN Catalogue
       /\ DOMAIN fields \subseteq Catalogue[id].members
       /\ Catalogue[id].required \subseteq DOMAIN fields
       /\ \A m \in DOMAIN fields : FieldFits(fields[m], m \in Catalogue[id].lists)

(* requested: the members named, or all of them.                            *)
Requested(attribute, members) ==
  IF members = {} THEN DOMAIN attribute.fields ELSE members
IsConst(asi, id, m) == asi.attributes[id].fields[m].kind = "const"

(* A fragment on a member that is not there, or a const, asks nothing.      *)
Askable(asi, items) ==
  {i \in items : \A m \in i.members :
     m \in DOMAIN asi.attributes[i.id].fields /\ ~IsConst(asi, i.id, m)}

---------------------------------------------------------------------------
(* Plan: the fields to ask, each in the fragment of its attribute's type.   *)
Pointers(asi, i) ==
  LET attribute == asi.attributes[i.id] IN
  {<<attribute.on, p>> :
     p \in UNION {attribute.fields[m].from : m \in Requested(attribute, i.members)}}
Selection(asi, items) == UNION {Pointers(asi, i) : i \in items}

(* A bug this code could have: a field under a type's fragment is asked, but*)
(* not the type of the answer.                                              *)
AsksNoType(selection) == FALSE
AsksType(selection) == \E s \in selection : s[1] # NoType

(* What the source answers: of a person it knows, the fields that apply to  *)
(* its type, and nothing that was not asked.                                *)
AnswerOf(person, selection) ==
  [type |-> IF AsksType(selection) THEN person.type ELSE NoType,
   fields |-> [p \in SourceField |->
     IF \E s \in selection : s[2] = p /\ s[1] \in {NoType, person.type}
     THEN person.fields[p] ELSE {}]]

---------------------------------------------------------------------------
(* Build: the value of the attribute, or of some members, from the answer.  *)
NonEmpty(elements) == elements \ {"empty"}
Held(field, answer) ==
  field.kind = "const" \/ \E p \in field.from : NonEmpty(answer.fields[p]) # {}
Misfits(field, answer) == \E p \in field.from : "shape" \in answer.fields[p]
MemberValue(field, answer) ==
  [p \in {q \in field.from : NonEmpty(answer.fields[q]) # {}} |-> NonEmpty(answer.fields[p])]

(* The first member, by name, that ends the building: an answer of another  *)
(* shape, or no value for a member that is required or was asked by name.   *)
Ending(attribute, answer, required, members) ==
  {m \in Requested(attribute, members) :
     \/ Misfits(attribute.fields[m], answer)
     \/ ~Held(attribute.fields[m], answer) /\ (members # {} \/ m \in required)}
First(numbers) == CHOOSE m \in numbers : \A n \in numbers : m <= n

NotHeld == [is |-> "not held"]
Misfit == [is |-> "misfit"]

(* Build knows the answer's type only when it was asked.                    *)
Build(attribute, answer, known, required, members) ==
  LET ending == Ending(attribute, answer, required, members) IN
  IF ~known \/ \E m \in members : attribute.fields[m].kind = "const" THEN NotHeld
  ELSE IF attribute.on # NoType /\ answer.type = NoType THEN Misfit
  ELSE IF attribute.on # NoType /\ answer.type # attribute.on THEN NotHeld
  ELSE IF ending # {} THEN
    IF Misfits(attribute.fields[First(ending)], answer) THEN Misfit ELSE NotHeld
  ELSE [is |-> "held",
        value |-> [m \in {n \in Requested(attribute, members) :
                            Held(attribute.fields[n], answer)}
                     |-> MemberValue(attribute.fields[m], answer)]]

BuildItem(asi, answer, known, i) ==
  Build(asi.attributes[i.id], answer, known, Catalogue[i.id].required, i.members)

---------------------------------------------------------------------------
(* compareValues: equal, equal after the normalisation of every string      *)
(* without a format, or neither.                                            *)
Normalised(value, exact) ==
  [m \in DOMAIN value |->
     IF m \in exact THEN value[m]
     ELSE [p \in DOMAIN value[m] |-> {Norm[e] : e \in value[m][p]}]]

CompareValues(claimed, held, exact) ==
  IF claimed = held THEN "Match"
  ELSE IF Normalised(claimed, exact) = Normalised(held, exact) THEN "MatchWithVariation"
  ELSE "NoMatch"

(* The result for one item; a const or absent member is Unknown.            *)
ItemResult(asi, answer, known, i, claimed) ==
  IF i \notin Askable(asi, {i}) THEN "Unknown"
  ELSE LET built == BuildItem(asi, answer, known, i) IN
       IF built.is = "held"
       THEN CompareValues(claimed, built.value, Catalogue[i.id].exact)
       ELSE IF built.is = "misfit" THEN "misfit" ELSE "Unknown"
=============================================================================
