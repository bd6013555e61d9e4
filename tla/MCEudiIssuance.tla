--------------------------- MODULE MCEudiIssuance ---------------------------
(* One source with FSC on both legs, one contract for its metadata service,  *)
(* one for its data service and two that must not count, and four documents: *)
(* a first one, one with other pointers and another offer under the same type*)
(* version, one with a new type version and both offers, and one that changes*)
(* its claims and the type of its parameter and names its own subject        *)
(* variable under the type version it had.                                   *)
EXTENDS EudiIssuance

MCParse == [integer |-> ("2023" :> "2023") @@ ("02023" :> "2023") @@ ("2024" :> "2024")
                        @@ ("2025" :> "2025"),
            string |-> ("c2" :> "c2") @@ ("2025" :> "2025") @@ ("02023" :> "02023")]
MCConsumer == "gbo"

MCSource == [metadata |-> [transport |-> "fsc", peer |-> "bron", service |-> "metadata",
                           endpoint |-> <<"none", "">>],
             data |-> "inherit", data_peer |-> ""]
MCIdentity == [oin |-> "oin", name |-> "Bron"]

MCContract(service, hash, created) ==
    [state |-> "valid", in_period |-> TRUE, kind |-> "service_connection", outway |-> "gbo",
     peer |-> "bron", service |-> service, hash |-> hash, created |-> created]
MCContracts == {MCContract("metadata", 1, 1), MCContract("data", 3, 2),
                [MCContract("data", 9, 3) EXCEPT !.outway = "other"],
                [MCContract("data", 8, 4) EXCEPT !.state = "proposed"]}
MCChanging == {MCContract("data", 3, 2)}

\* of contracts that count the newest does, and of two equally new the greater hash
ASSUME NewestCounts ==
    /\ Grant(MCContracts \cup {MCContract("data", 7, 1)}, "bron", "data") = 3
    /\ Grant(MCContracts \cup {MCContract("data", 7, 2)}, "bron", "data") = 7
    /\ Grant(MCContracts \ MCChanging, "bron", "data") = 0

Claim(pointer, datatype, optional) ==
    [pointer |-> pointer, datatype |-> datatype, optional |-> optional,
     labels |-> {"nl"}, descriptions |-> {}, sd |-> ""]

Offer(id, year) == [id |-> id, label |-> id, parameters |-> [jaar |-> year]]

First ==
    [type |-> "inkomen", type_version |-> "1", profile |-> "gbo-simple-v1",
     claims |-> [jaar |-> Claim("/jaar", "gYear", FALSE), bedrag |-> Claim("/bedrag", "integer", TRUE)],
     display |-> <<[lang |-> "nl", name |-> "Inkomen", rendering |-> "none", summary |-> {"bedrag"}]>>,
     service |-> "data", endpoint |-> <<"path", "/graphql">>,
     document |-> [operations |-> 1, query |-> TRUE],
     subject_variable |-> "bsn", result_pointer |-> "/data/inkomens",
     parameters |-> [jaar |-> [type |-> "integer", required |-> TRUE]],
     offers |-> {Offer("o23", "2023")}]

Moved == [First EXCEPT !.claims.jaar = Claim("/belastingjaar", "gYear", FALSE),
                       !.offers = {Offer("o24", "2024")}]
Grown == [First EXCEPT !.type_version = "2",
                       !.offers = @ \cup {Offer("o24", "2024")},
                       !.claims = @ @@ [datum |-> Claim("/datum", "date", FALSE)]]

Careless == [First EXCEPT
    !.claims.bedrag = Claim("/bedrag", "date", FALSE),
    !.parameters = [jaar |-> [type |-> "string", required |-> FALSE],
                    bsn |-> [type |-> "string", required |-> FALSE]],
    !.offers = {Offer("o23", "02023"), [id |-> "oc", label |-> "oc", parameters |-> [bsn |-> "c2"]]}]

\* what must not get through: a claim the issuer fills in itself, an offer whose
\* parameter is no integer, none for a parameter that is required, one that is
\* not declared, no offers, and two operations
Unlawful ==
    {[First EXCEPT !.claims = @ @@ [vct |-> Claim("/jaar", "string", FALSE)]],
     [First EXCEPT !.offers = {Offer("o23", "2023"), Offer("ox", "c2")}],
     [First EXCEPT !.offers = {[id |-> "o23", label |-> "o23", parameters |-> <<>>]}],
     [First EXCEPT !.parameters = <<>>],
     [First EXCEPT !.offers = {}],
     [First EXCEPT !.document.operations = 2]}
ASSUME OnlyLawful ==
    /\ \A d \in {First, Moved, Grown, Careless} : ValidAttestation(d)
    /\ \A d \in Unlawful : ~ValidAttestation(d)

Document(version, definition) ==
    [oin |-> "oin", schema_version |-> "1.1", version |-> version, eudi |-> "1.0",
     definitions |-> <<definition>>, asi_service |-> "absent"]

MCDocuments ==
    {Document(1, First), Document(2, Moved), Document(3, Grown), Document(4, Careless)}

\* a text that stands for an offered value, and is not how the pod writes it
MCRequests == {[jaar |-> "02023"]}

Values(subject) ==
    {<<"number", "year", subject>>, <<"number", "wide", subject>>, <<"text", "date", subject>>,
     <<"null", "null", subject>>}

Fitting(datatype, subject) ==
    IF datatype = "date" THEN <<"text", "date", subject>> ELSE <<"number", "year", subject>>

\* the answers about the subject of the variables: no array, no row, two rows,
\* or one row that differs from a fitting one behind at most one pointer
MCRows(definition, variables) ==
    LET subject == variables[definition.subject_variable]
        claims == definition.claims
        names == DOMAIN claims
        row == [p \in {claims[n].pointer : n \in names} |->
                  Fitting(claims[CHOOSE n \in names : claims[n].pointer = p].datatype, subject)]
        rows == {[row EXCEPT ![p] = v] : p \in DOMAIN row, v \in Values(subject)}
                \cup {[q \in DOMAIN row \ {p} |-> row[q]] : p \in DOMAIN row}
    IN  {[at |-> "other", rows |-> <<>>], [at |-> "rows", rows |-> <<>>],
         [at |-> "rows", rows |-> <<row, row>>]}
        \cup {[at |-> "rows", rows |-> <<r>>] : r \in rows}
=============================================================================
