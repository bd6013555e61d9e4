---------------------------- MODULE MCAsiProvider ----------------------------
(***************************************************************************)
(* A catalogue of three attributes, and a source that describes them in one*)
(* release for persons of two types, in the next otherwise, and in a third *)
(* in a way the ASIP cannot read. The country is made of a constant only.  *)
(***************************************************************************)
EXTENDS AsiProvider, TLC

CONSTANTS address, trade, country, street, number, names, T1, T2, x, y, xv

MCSourceField == {street, number, names}
MCNorm == (x :> x) @@ (xv :> x) @@ (y :> y) @@ ("shape" :> "shape")
MCCatalogue ==
  address :> [members |-> {1, 2, 3}, required |-> {1}, lists |-> {}, exact |-> {2}]
  @@ trade :> [members |-> {1, 2}, required |-> {1}, lists |-> {2}, exact |-> {}]
  @@ country :> [members |-> {1}, required |-> {1}, lists |-> {}, exact |-> {}]

Field(kind, from) == [kind |-> kind, from |-> from]
AddressFields == 1 :> Field("join", {street, number}) @@ 2 :> Field("pointer", {number})
                 @@ 3 :> Field("const", {})
TradeFields == 1 :> Field("pointer", {street}) @@ 2 :> Field("each", {names})
First1 == [onePath |-> TRUE, attributes |->
  address :> [on |-> NoType, fields |-> AddressFields]
  @@ trade :> [on |-> T1, fields |-> TradeFields]
  @@ country :> [on |-> T1, fields |-> 1 :> Field("const", {})]]
Second2 == [onePath |-> TRUE, attributes |->
  address :> [on |-> T2, fields |-> 1 :> Field("pointer", {number}) @@ 3 :> Field("const", {})]
  @@ country :> [on |-> NoType, fields |-> 1 :> Field("const", {})]]
Third3 == [onePath |-> TRUE, attributes |->
  trade :> [on |-> NoType, fields |-> 1 :> Field("pointer", {street})
                                      @@ 2 :> Field("pointer", {names})]]
s1 == "s1"
MCSource == {s1}
MCCapability == [r \in 1 .. 3 |-> [s \in MCSource |->
  IF r = 1 THEN First1 ELSE IF r = 2 THEN Second2 ELSE Third3]]

Record(type, a, b, c) ==
  [type |-> type, fields |-> street :> a @@ number :> b @@ names :> c]
Frouke == Record(T1, {x}, {y}, {x, "empty"})
Variant == Record(T1, {xv}, {y}, {y})
Poor == Record(T2, {}, {xv}, {})
Odd == Record(T1, {x}, {"empty"}, {"shape"})
MCPerson == {Frouke, Poor, Odd}

Ask(operation, asked, claim) == [operation |-> operation, asked |-> asked, claim |-> claim]
MCRequests == {
  Ask("verify", <<Whole(address), Part(trade, 2)>>, Frouke),
  Ask("verify", <<Whole(trade), Part(address, 2), Part(address, 3)>>, Variant),
  Ask("verify", <<Whole(country), Part(address, 2)>>, Frouke),
  Ask("retrieve", <<Whole(country)>>, Frouke),
  Ask("retrieve", <<Whole(address), Whole(trade)>>, Frouke)}
Calls == Permutations(Call)
MCGranted == <<{address, trade, country}, {address}>>
MCOperations == <<{"verify", "retrieve"}, {"verify"}>>
=============================================================================
