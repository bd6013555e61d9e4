---------------------------- MODULE AsiProvider ----------------------------
(***************************************************************************)
(* The ASIP: it validates the access token and the DPoP proof of a request *)
(* (accesstoken), with the keys of the authorization server as it has them *)
(* (asmetadata), takes the description of its source from the active       *)
(* release of the Source Registry (sourcedescription), asks the source what*)
(* the request needs (graphqlsource) and answers (verification). The       *)
(* registry, the authorization server and the source are around it.        *)
(***************************************************************************)
EXTENDS AsiMapping

CONSTANTS
  Call,            \* requests handled at a time
  Source,          \* sources of the registry; a data service is one of them
  Proof,           \* DPoP proofs; a QTSP may send one again
  Capability,      \* release -> source -> its asi capability
  StaleTimes,      \* the stale_until times the registry gives
  Person,          \* the records a source may hold
  Requests,        \* what is asked: [operation, asked, claim]
  TokenAttributes, \* key number -> the attributes of the token signed with it
  Operations,      \* key number -> the operations in that token's scope
  Nothing,         \* no record
  Window, Leeway, TokenLife, RefetchInterval,
  MaxKeys, MaxTime \* bounds

Release == DOMAIN Capability
Never == MaxTime + 1

ASSUME ProviderAssumption ==
  /\ Release \subseteq Nat \ {0}
  /\ StaleTimes \subseteq Nat /\ StaleTimes # {}
  /\ {Window, Leeway, TokenLife, RefetchInterval, MaxTime} \subseteq Nat
  /\ MaxKeys \in Nat \ {0}

(* What a request asks, in its order: attributes before fragments. A        *)
(* retrieval asks whole attributes only.                                   *)
Items(request) == {request.asked[n] : n \in DOMAIN request.asked}

ASSUME RequestsAssumption ==
  \A r \in Requests : r.operation # "verify" => \A i \in Items(r) : i.members = {}

(* What the metadata schema has a description keep to: a const is made of  *)
(* no field of the answer, every other member of at least one.             *)
WellDescribed(attribute) ==
  LET fields == attribute.fields IN
  /\ DOMAIN fields \subseteq Nat
  /\ \A m \in DOMAIN fields :
       /\ fields[m].from \subseteq SourceField
       /\ fields[m].kind = "const" <=> fields[m].from = {}

ASSUME DescriptionsAssumption ==
  \A r \in Release : \A s \in Source : \A id \in DOMAIN Capability[r][s].attributes :
    WellDescribed(Capability[r][s].attributes[id])

VARIABLES
  now,
  active,      \* the registry: the active release (0: none)
  staleUntil,  \* the registry: release -> source -> stale_until
  described,   \* Descriptions: releaseID and per source its description
  refresh,     \* where Refresh is, and the state it read
  signing,     \* the authorization server: its key, and so its last token
  expiry,      \* key -> the expiry of the token signed with it
  keys,        \* asmetadata.Keys: the keys it has, and when it fetched them
  spent,       \* the replay cache
  madeAt,      \* proof -> its iat, Never before it was made
  used,        \* history: the proofs that were accepted
  call

registryVars == <<active, staleUntil>>
serverVars == <<signing, expiry>>
proofVars == <<spent, madeAt, used>>
providerVars == <<now, registryVars, described, refresh, serverVars, keys, proofVars, call>>

Free == [at |-> "idle"]

ProviderTypeOK ==
  /\ now \in 0 .. MaxTime
  /\ active \in {0} \cup Release
  /\ staleUntil \in [Release -> [Source -> StaleTimes]]
  /\ described \in [release : {0} \cup Release, stale : [Source -> StaleTimes]]
  /\ refresh \in {Free} \cup [at : {"state"}, release : Release, stale : [Source -> StaleTimes]]
  /\ signing \in 1 .. MaxKeys
  /\ expiry \in [1 .. MaxKeys -> 0 .. MaxTime + TokenLife]
  /\ keys \in [set : SUBSET (1 .. MaxKeys), fetched : 0 .. Never]
  /\ spent \subseteq [proof : Proof, until : 0 .. MaxTime + Window]
  /\ madeAt \in [Proof -> 0 .. Never]
  /\ used \subseteq Proof
  /\ DOMAIN call = Call
  /\ \A h \in Call : call[h].at \in
       {"idle", "keys", "proof", "describe", "asking", "done"}

FirstStale == CHOOSE t \in StaleTimes : \A u \in StaleTimes : t <= u

ProviderInit ==
  /\ now = 0
  /\ active = 0
  /\ staleUntil = [r \in Release |-> [s \in Source |-> FirstStale]]
  /\ described = [release |-> 0, stale |-> [s \in Source |-> FirstStale]]
  /\ refresh = Free
  /\ signing = 1
  /\ expiry = [k \in 1 .. MaxKeys |-> TokenLife]
  /\ keys = [set |-> {}, fetched |-> Never]
  /\ spent = {}
  /\ madeAt = [j \in Proof |-> Never]
  /\ used = {}
  /\ call = [h \in Call |-> Free]

---------------------------------------------------------------------------
(* Around the ASIP: releases are activated and observed again, and the      *)
(* authorization server starts with another key.                            *)
Activate(r) ==
  /\ active' = r
  /\ UNCHANGED <<now, staleUntil, described, refresh, serverVars, keys, proofVars, call>>

Observe(s, t) ==
  /\ active # 0
  /\ t > staleUntil[active][s]
  /\ staleUntil' = [staleUntil EXCEPT ![active][s] = t]
  /\ UNCHANGED <<now, active, described, refresh, serverVars, keys, proofVars, call>>

NewKey ==
  /\ signing < MaxKeys
  /\ signing' = signing + 1
  /\ expiry' = [expiry EXCEPT ![signing + 1] = now + TokenLife]
  /\ UNCHANGED <<now, registryVars, described, refresh, keys, proofVars, call>>

TimePasses ==
  /\ now < MaxTime
  /\ now' = now + 1
  /\ UNCHANGED <<registryVars, described, refresh, serverVars, keys, proofVars, call>>

---------------------------------------------------------------------------
(* Refresh, by one goroutine: the state of the pointer first.               *)
ReadState ==
  /\ refresh.at = "idle"
  /\ active # 0
  /\ refresh' = [at |-> "state", release |-> active, stale |-> staleUntil[active]]
  /\ UNCHANGED <<now, registryVars, described, serverVars, keys, proofVars, call>>

(* Of the release it has, it takes the lifecycle only.                      *)
(* A bug this code could have: of any release.                              *)
AnyRelease == described.release # 0
SameRelease == refresh.release = described.release

TakeLifecycle ==
  /\ refresh.at = "state"
  /\ SameRelease
  /\ described' = [described EXCEPT !.stale = refresh.stale]
  /\ refresh' = Free
  /\ UNCHANGED <<now, registryVars, serverVars, keys, proofVars, call>>

(* A new release is read whole; it is kept when it is still the one of the  *)
(* pointer and every source can be read.                                    *)
Readable(r) == \A s \in Source : Validate(Capability[r][s])

LoadRelease ==
  /\ refresh.at = "state"
  /\ ~SameRelease
  /\ IF refresh.release = active /\ Readable(active)
     THEN described' = [release |-> active, stale |-> staleUntil[active]]
     ELSE UNCHANGED described
  /\ refresh' = Free
  /\ UNCHANGED <<now, registryVars, serverVars, keys, proofVars, call>>

(* The registry cannot be reached, or has no active release.                *)
RefreshFails ==
  /\ refresh.at = "state"
  /\ ~SameRelease
  /\ refresh' = Free
  /\ UNCHANGED <<now, registryVars, described, serverVars, keys, proofVars, call>>

(* Current: a description that has not gone stale.                          *)
Current(s) == described.release # 0 /\ now <= described.stale[s]

---------------------------------------------------------------------------
(* A request with a token, and a proof: one just made, or one sent before.  *)
Receive(h, k, j) ==
  /\ call[h].at = "idle"
  /\ k <= signing
  /\ madeAt' = [madeAt EXCEPT ![j] = IF @ = Never THEN now ELSE @]
  /\ call' = [call EXCEPT ![h] = [at |-> "keys", token |-> k, proof |-> j]]
  /\ UNCHANGED <<now, registryVars, described, refresh, serverVars, keys, spent, used>>

Refuse(h) == call' = [call EXCEPT ![h] = Free]

(* With the key, Authenticate reads the clock, once: the token and the proof*)
(* are checked against it.                                                  *)
ProofInTime(j) == now <= madeAt[j] + Window

ReadClock(h) ==
  LET p == call[h] IN
  IF now <= expiry[p.token] + Leeway /\ ProofInTime(p.proof)
  THEN call' = [call EXCEPT ![h] =
         [at |-> "proof", token |-> p.token, proof |-> p.proof, clock |-> now]]
  ELSE Refuse(h)

(* Keys, under its mutex: what is known is used, and so is what was fetched *)
(* less than the interval ago; otherwise the server is asked. A fetch that  *)
(* fails keeps the keys and refuses the token.                              *)
KnownEnough(k) ==
  k \in keys.set \/ (keys.fetched # Never /\ now - keys.fetched < RefetchInterval)

UseKnown(h) ==
  /\ call[h].at = "keys"
  /\ KnownEnough(call[h].token)
  /\ IF call[h].token \in keys.set THEN ReadClock(h) ELSE Refuse(h)
  /\ UNCHANGED <<now, registryVars, described, refresh, serverVars, keys, proofVars>>

FetchKeys(h) ==
  /\ call[h].at = "keys"
  /\ ~KnownEnough(call[h].token)
  /\ keys' = [set |-> {signing}, fetched |-> now]
  /\ IF call[h].token = signing THEN ReadClock(h) ELSE Refuse(h)
  /\ UNCHANGED <<now, registryVars, described, refresh, serverVars, proofVars>>

FetchFails(h) ==
  /\ call[h].at = "keys"
  /\ ~KnownEnough(call[h].token)
  /\ Refuse(h)
  /\ UNCHANGED <<now, registryVars, described, refresh, serverVars, keys, proofVars>>

(* firstUse: what has passed by the reading of this request is forgotten.   *)
Kept(clock) == {e \in spent : clock <= e.until}
AsSpent(j) == [proof |-> j, until |-> madeAt[j] + Window]

(* attributesAuthorized: every attribute and every fragment asked.          *)
(* A bug this code could have: the attributes only.                         *)
AuthorizedWhole(k, items) ==
  {i.id : i \in {j \in items : j.members = {}}} \subseteq TokenAttributes[k]
Authorized(k, items) == Ids(items) \subseteq TokenAttributes[k]

(* The proof is spent before the key it is bound to, the scope and, in the  *)
(* handler of source s, the request r are looked at.                        *)
PresentProof(h, bound, s, r) ==
  LET p == call[h]
      again == \E e \in Kept(p.clock) : e.proof = p.proof
      accepted == ~again /\ bound IN
  /\ p.at = "proof"
  /\ spent' = IF again THEN Kept(p.clock) ELSE Kept(p.clock) \cup {AsSpent(p.proof)}
  /\ used' = IF accepted THEN used \cup {p.proof} ELSE used
  /\ IF accepted /\ r.operation \in Operations[p.token] /\ Authorized(p.token, Items(r))
     THEN call' = [call EXCEPT ![h] =
            [at |-> "describe", token |-> p.token, proof |-> p.proof, source |-> s, request |-> r]]
     ELSE Refuse(h)
  /\ UNCHANGED <<now, registryVars, described, refresh, serverVars, keys, madeAt>>

(* Description, checked for the attributes asked, and Plan.                 *)
Described(h, asi) ==
  LET p == call[h] IN
  /\ p.at = "describe"
  /\ described.release # 0
  /\ asi = Capability[described.release][p.source]
  /\ Current(p.source)
  /\ Ids(Items(p.request)) \subseteq DOMAIN asi.attributes
  /\ call' = [call EXCEPT ![h] =
       [at |-> "asking", token |-> p.token, request |-> p.request, asi |-> asi,
        selection |-> Selection(asi, Askable(asi, Items(p.request)))]]
  /\ UNCHANGED <<now, registryVars, described, refresh, serverVars, keys, proofVars>>

NotDescribed(h) ==
  LET p == call[h] IN
  /\ p.at = "describe"
  /\ Current(p.source) =>
       ~(Ids(Items(p.request)) \subseteq
           DOMAIN Capability[described.release][p.source].attributes)
  /\ Refuse(h)
  /\ UNCHANGED <<now, registryVars, described, refresh, serverVars, keys, proofVars>>

(* Ask: the source does not answer, refuses, or answers errors: no result.  *)
SourceFails(h) ==
  /\ call[h].at = "asking"
  /\ call[h].selection # {}
  /\ Refuse(h)
  /\ UNCHANGED <<now, registryVars, described, refresh, serverVars, keys, proofVars>>

(* The claim of an item is the value another record would give.             *)
ClaimOf(asi, i, record) ==
  LET built == Build(asi.attributes[i.id], record, TRUE, {}, i.members)
  IN IF i \in Askable(asi, {i}) /\ built.is = "held" THEN built.value ELSE <<>>

ItemOf(p, i, answer, known) ==
  IF p.request.operation = "verify"
  THEN ItemResult(p.asi, answer, known, i, ClaimOf(p.asi, i, p.request.claim))
  ELSE BuildItem(p.asi, answer, known, i)

VerifyResult(results) ==
  IF \E n \in DOMAIN results : results[n] = "misfit" THEN Misfit
  ELSE [is |-> "verified", results |-> results]

(* Retrieve has no partial result: it ends at the first attribute, in the   *)
(* order of the request, that has another shape or no value.                *)
RetrieveResult(results) ==
  LET ending == {n \in DOMAIN results : results[n].is # "held"} IN
  IF ending = {} THEN [is |-> "retrieved", results |-> results]
  ELSE IF results[First(ending)].is = "misfit" THEN Misfit ELSE NotHeld

ResultOf(p, answer, known) ==
  LET results == [n \in DOMAIN p.request.asked |-> ItemOf(p, p.request.asked[n], answer, known)]
  IN IF p.request.operation = "verify" THEN VerifyResult(results) ELSE RetrieveResult(results)

(* The source knows the person as one of the records, or not at all. With   *)
(* nothing to ask there is no answer.                                       *)
NoAnswer == [type |-> NoType, fields |-> [f \in SourceField |-> {}]]

Answered(h, person) ==
  LET p == call[h]
      known == person # Nothing /\ p.selection # {}
      answer == IF known THEN AnswerOf(person, p.selection) ELSE NoAnswer IN
  /\ p.at = "asking"
  /\ call' = [call EXCEPT ![h] =
       [at |-> "done", request |-> p.request, asi |-> p.asi, person |-> person,
        result |-> ResultOf(p, answer, known)]]
  /\ UNCHANGED <<now, registryVars, described, refresh, serverVars, keys, proofVars>>

Send(h) ==
  /\ call[h].at = "done"
  /\ Refuse(h)
  /\ UNCHANGED <<now, registryVars, described, refresh, serverVars, keys, proofVars>>

ProviderNext ==
  \/ \E r \in Release : Activate(r)
  \/ \E s \in Source, t \in StaleTimes : Observe(s, t)
  \/ NewKey \/ TimePasses
  \/ ReadState \/ TakeLifecycle \/ LoadRelease \/ RefreshFails
  \/ \E h \in Call :
       \/ \E k \in 1 .. MaxKeys, j \in Proof : Receive(h, k, j)
       \/ UseKnown(h) \/ FetchKeys(h) \/ FetchFails(h)
       \/ \E bound \in BOOLEAN, s \in Source, r \in Requests : PresentProof(h, bound, s, r)
       \/ NotDescribed(h) \/ SourceFails(h) \/ Send(h)
       \/ \E r \in Release, s \in Source : Described(h, Capability[r][s])
       \/ \E p \in Person \cup {Nothing} : Answered(h, p)

ProviderSpec == ProviderInit /\ [][ProviderNext]_providerVars

---------------------------------------------------------------------------
(* Properties.                                                             *)

(* What is answered about an item that reads the source is what the         *)
(* description says about the whole record of the person: asking only the   *)
(* fields a request needs, several attributes in one question, changes no   *)
(* result. In particular a value the source holds is never Unknown, and a   *)
(* fragment gives what the attribute would. An attribute of constants only  *)
(* does not read the source: what is said of it, and whether the request    *)
(* fails because of it, depends on what is asked next to it, but what is    *)
(* said of the other items does not.                                        *)
WholeRecord(p) == [type |-> p.type, fields |-> p.fields]

Told(p) == IF p.person = Nothing THEN NoAnswer ELSE WholeRecord(p.person)
Truth(p) == ResultOf(p, Told(p), p.person # Nothing)

ReadsSource(asi, i) == i.members # {} \/ Pointers(asi, i) # {}

Truthful(p) ==
  LET asked == p.request.asked IN
  /\ (\A i \in Items(p.request) : ReadsSource(p.asi, i)) => p.result = Truth(p)
  /\ p.result.is \in {"verified", "retrieved"} =>
       \A n \in DOMAIN asked : ReadsSource(p.asi, asked[n]) =>
         p.result.results[n] = ItemOf(p, asked[n], Told(p), p.person # Nothing)

AnswersTruthfully == \A h \in Call : call[h].at = "done" => Truthful(call[h])

(* A source is asked only for fields that attributes granted in the token   *)
(* are made of.                                                             *)
AsksOnlyGranted ==
  \A h \in Call : call[h].at = "asking" =>
    LET p == call[h] IN
    \A s \in p.selection : \E id \in TokenAttributes[p.token] \cap DOMAIN p.asi.attributes :
      s \in Selection(p.asi, {Whole(id)})

(* A description goes stale no later than the registry last said of its own *)
(* release, whatever became active since and cannot be read.                *)
StaleInTime ==
  described.release # 0 =>
    \A s \in Source : described.stale[s] <= staleUntil[described.release][s]
=============================================================================
