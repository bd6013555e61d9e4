---------------------------- MODULE SubjectValues ----------------------------
(* The values that name the citizen in a consent token: BSNk makes them for  *)
(* the sources while the portal gives a consent (services/bsnk-mock,         *)
(* services/consent-portal-backend), and each source reads its own with keys *)
(* it got from BSNk beforehand (services/bron-sidecar).  ConsentChain is the *)
(* same grant seen from the register; here it is the step it calls           *)
(* "encrypt", and one more.                                                  *)
(*                                                                           *)
(* A source is its OIN, a key set version a date.  Structures, signatures    *)
(* and scheme keys are left out: a value says for whom it was made, in which *)
(* form, for which version, and what its recipient reads from it.  The real  *)
(* BSNk encrypts where the mock hashes; the hash is a tuple of its parts.    *)
EXTENDS Naturals, FiniteSets

CONSTANTS
    Citizen,
    Grant,              \* the consents that are given
    Source,             \* CONSENT_SOURCES without the versions
    Version,            \* the dates a certificate of a source is issued on
    MaxRelyingParties,  \* sources per transformation; 4, at BSNk and the portal
    MaxAge,             \* BSN_AUTHORISATION_LIST_MAX_AGE
    MaxTime,            \* bound on the clock
    MaxChanges,         \* bound on what operators change
    None

ASSUME SubjectAssumption ==
    /\ None \notin Grant /\ Version # {} /\ Version \subseteq Nat
    /\ MaxRelyingParties \in Nat \ {0} /\ MaxAge \in Nat /\ MaxTime \in Nat /\ MaxChanges \in Nat
    /\ \A A \in SUBSET Source : None # A

VARIABLES
    now,                \* the portal's clock
    authorised,         \* BSNk: the sources that may receive the BSN
    changedAt,          \* when BSNk was last started with another list
    version,            \* portal: the key set version of every source
    listed, fetched,    \* portal: its copy of the list and the time of it
    lock,               \* portal: the grant that holds the copy's mutex
    grant,              \* portal: where each grant is and what it holds
    kept,               \* register: the polymorphic pair of each citizen
    files,              \* the key files in each source's directory
    loaded,             \* the keys each source's sidecar read when it started
    changes

copy == <<listed, fetched, lock>>
bsnk == <<authorised, changedAt>>
holders == <<files, loaded>>
vars == <<now, bsnk, version, copy, grant, kept, holders, changes>>

Forms == {"identity", "pseudonym"}
Over == {"granted", "refused", "failed"}

-----------------------------------------------------------------------------
(* BSNk and what it makes.                                                   *)

Seed(c, g) == c
Activated(c, g) == [bsn |-> c, seed |-> Seed(c, g)]

\* A bug this code could have: parties can match their pseudonyms.
PseudonymOfKeySet(seed, s, v) == <<seed, v>>
PseudonymValue(seed, s, v) == <<seed, s, v>>

Encrypted(form, pair, s, v) ==
    [recipient |-> s, version |-> v,
     reads |-> IF form = "identity" THEN pair.bsn ELSE PseudonymValue(pair.seed, s, v)]

\* ProvideDVKeys, with the BSN key optional: the key that reads a BSN comes
\* along when the party may receive it.
Key(type, s, v) == [type |-> type, recipient |-> s, version |-> v]
Required(form, s, v) ==
    {Key(type, s, v) : type \in IF form = "identity" THEN {"EI Decryption"}
                                ELSE {"EP Decryption", "EP Closing"}}
DVKeys(s, v) ==
    Required("pseudonym", s, v)
        \cup (IF s \in authorised THEN Required("identity", s, v) ELSE {})

-----------------------------------------------------------------------------

NoValues == [s \in {} |-> None]
Fresh == [at |-> "new", owner |-> None, started |-> 0, list |-> {}, pair |-> None,
          made |-> [form \in Forms |-> NoValues]]
\* What a grant held is gone when it is over; when it looked at the list is kept
\* for the properties.
Ended(g, at) == [Fresh EXCEPT !.at = at, !.started = IF at = "failed" THEN 0 ELSE grant[g].started]
Failed(g) == grant' = [grant EXCEPT ![g] = Ended(g, "failed")]

First == CHOOSE v \in Version : \A w \in Version : v <= w

Init ==
    /\ now = 0 /\ authorised \in SUBSET Source /\ changedAt = 0
    /\ version = [s \in Source |-> First]
    /\ listed = None /\ fetched = 0 /\ lock = None
    /\ grant = [g \in Grant |-> Fresh] /\ kept = [c \in Citizen |-> None]
    /\ files = [s \in Source |-> DVKeys(s, version[s])] /\ loaded = files
    /\ changes = 0

-----------------------------------------------------------------------------
(* GiveConsent.  Any call it makes may fail, and then it fails.              *)

\* polymorphicFor: the pair the register keeps, or else one of an activation.
Begin(g) ==
    /\ grant[g].at = "new"
    /\ \E c \in Citizen :
         grant' = [grant EXCEPT ![g].owner = c, ![g].pair = kept[c],
                                ![g].at = IF kept[c] = None THEN "activate" ELSE "list"]
    /\ UNCHANGED <<now, bsnk, version, copy, kept, holders, changes>>

\* The register keeps the first pair; this grant goes on with its own.
Activate(g) ==
    /\ grant[g].at = "activate"
    /\ LET c == grant[g].owner
       IN  /\ grant' = [grant EXCEPT ![g].at = "list", ![g].pair = Activated(c, g)]
           /\ kept' = [kept EXCEPT ![c] = IF @ = None THEN Activated(c, g) ELSE @]
    /\ UNCHANGED <<now, bsnk, version, copy, holders, changes>>

\* authorisedForBSN, from the mutex on.  The clock is read before BSNk is
\* called, and the mutex is held during the call.
InAge == listed # None /\ now - fetched < MaxAge
UseCopy(g) ==
    /\ grant[g].at = "list" /\ lock = None /\ InAge
    /\ grant' = [grant EXCEPT ![g].at = "pseudonym", ![g].started = now, ![g].list = listed]
    /\ UNCHANGED <<now, bsnk, version, copy, kept, holders, changes>>
Fetch(g) ==
    /\ grant[g].at = "list" /\ lock = None /\ ~InAge
    /\ lock' = g
    /\ grant' = [grant EXCEPT ![g].at = "fetch", ![g].started = now]
    /\ UNCHANGED <<now, bsnk, version, listed, fetched, kept, holders, changes>>
Fetched(g) ==
    /\ grant[g].at = "fetch"
    /\ listed' = authorised /\ fetched' = grant[g].started /\ lock' = None
    /\ grant' = [grant EXCEPT ![g].at = "pseudonym", ![g].list = authorised]
    /\ UNCHANGED <<now, bsnk, version, kept, holders, changes>>

FetchFallsBack(g) ==
    /\ grant[g].at = "fetch" /\ lock' = None
    /\ IF listed = None THEN Failed(g)
       ELSE grant' = [grant EXCEPT ![g].at = "pseudonym", ![g].list = listed]
    /\ UNCHANGED <<now, bsnk, version, listed, fetched, kept, holders, changes>>
FetchFails(g) ==
    /\ grant[g].at = "fetch" /\ lock' = None /\ Failed(g)
    /\ UNCHANGED <<now, bsnk, version, listed, fetched, kept, holders, changes>>

\* The parties a value of the form is made for, and those of one request.
Parties(g, form) == IF form = "identity" THEN Source \cap grant[g].list ELSE Source
Least(m, n) == IF m < n THEN m ELSE n
Batches(g, form) ==
    LET left == Parties(g, form) \ DOMAIN grant[g].made[form]
    IN  {b \in SUBSET left : b # {} /\ Cardinality(b) = Least(MaxRelyingParties, Cardinality(left))}

\* Transform at BSNk: one party it cannot serve fails the whole request.
Served(form, batch) == form = "identity" => batch \subseteq authorised

\* Pseudonyms first, then identities when the list names a source.
After(g, form, done) ==
    IF done # Parties(g, form) THEN form
    ELSE IF form = "pseudonym" /\ Parties(g, "identity") # {} THEN "identity" ELSE "create"

Transform(g, form) ==
    /\ grant[g].at = form
    /\ \E batch \in Batches(g, form) :
         LET made == grant[g].made[form]
             done == DOMAIN made \cup batch
         IN  grant' = [grant EXCEPT ![g] =
                 IF Served(form, batch)
                 THEN [@ EXCEPT !.at = After(g, form, done),
                                !.made[form] = [s \in done |->
                                    IF s \in batch THEN Encrypted(form, grant[g].pair, s, version[s])
                                    ELSE made[s]]]
                 ELSE Ended(g, "refused")]
    /\ UNCHANGED <<now, bsnk, version, copy, kept, holders, changes>>

\* The record in the spool and the consent in the register: the token is out.
Create(g) ==
    /\ grant[g].at = "create"
    /\ grant' = [grant EXCEPT ![g].at = "granted", ![g].pair = None, ![g].list = {}]
    /\ UNCHANGED <<now, bsnk, version, copy, kept, holders, changes>>

CallFails(g) ==
    /\ grant[g].at \in {"activate", "pseudonym", "identity", "create"}
    /\ Failed(g)
    /\ UNCHANGED <<now, bsnk, version, copy, kept, holders, changes>>

GrantStep(g) ==
    \/ Begin(g) \/ Activate(g) \/ UseCopy(g) \/ Fetch(g) \/ Fetched(g) \/ FetchFails(g)
    \/ \E form \in Forms : Transform(g, form)
    \/ Create(g) \/ CallFails(g)

-----------------------------------------------------------------------------
(* Time and operators.                                                       *)

Tick == now < MaxTime /\ now' = now + 1 /\ UNCHANGED <<bsnk, version, copy, grant, kept, holders, changes>>

Changed == changes < MaxChanges /\ changes' = changes + 1

\* BSNk is started with another list (BSN_AUTHORISED_OINS).
Relist(A) ==
    /\ Changed /\ A # authorised
    /\ authorised' = A /\ changedAt' = now
    /\ UNCHANGED <<now, version, copy, grant, kept, holders>>

\* The portal is started again, with new versions or without: what it was
\* doing and its copy of the list are gone.
RestartPortal(w) ==
    /\ Changed
    /\ version' = w /\ listed' = None /\ fetched' = 0 /\ lock' = None
    /\ grant' = [g \in Grant |-> IF grant[g].at \in Over \cup {"new"} THEN grant[g]
                                  ELSE Ended(g, "failed")]
    /\ UNCHANGED <<now, bsnk, kept, holders>>

\* A source has a broker get its keys for a certificate; it throws away those
\* of an earlier one.
RequestKeys(s, v) ==
    /\ Changed
    /\ files' = [files EXCEPT ![s] = @ \cup DVKeys(s, v)]
    /\ UNCHANGED <<now, bsnk, version, copy, grant, kept, loaded>>
DropKeys(s, v) ==
    /\ Changed
    /\ files' = [files EXCEPT ![s] = {k \in @ : k.version # v}]
    /\ UNCHANGED <<now, bsnk, version, copy, grant, kept, loaded>>

\* LoadKeys: every key file there is, of whatever version.  Without one the
\* sidecar does not start.
LoadedOfLast(s) == {k \in files[s] : \A l \in files[s] : l.version <= k.version}
LoadKeys(s) == files[s]
RestartSidecar(s) ==
    /\ loaded' = [loaded EXCEPT ![s] = LoadKeys(s)]
    /\ UNCHANGED <<now, bsnk, version, copy, grant, kept, files, changes>>

Operate ==
    \/ \E A \in SUBSET Source : Relist(A)
    \/ \E w \in [Source -> Version] : RestartPortal(w)
    \/ \E s \in Source, v \in Version : RequestKeys(s, v) \/ DropKeys(s, v)
    \/ \E s \in Source : RestartSidecar(s)

Next == (\E g \in Grant : GrantStep(g)) \/ Tick \/ Operate
Spec == Init /\ [][Next]_vars

-----------------------------------------------------------------------------
(* Reading.                                                                  *)

\* What source s reads, of the value the token of g has for it: the component
\* needs the keys of the value's version, the sidecar its own name as recipient.
Reads(g, s, form) ==
    LET made == grant[g].made[form]
    IN  IF /\ s \in DOMAIN made /\ made[s].recipient = s
           /\ Required(form, made[s].recipient, made[s].version) \subseteq loaded[s]
        THEN made[s].reads ELSE None
Granted == {g \in Grant : grant[g].at = "granted"}
Held(g, s, form) == Required(form, s, grant[g].made[form][s].version) \subseteq files[s]

-----------------------------------------------------------------------------
(* Properties.                                                               *)

TypeOK ==
    /\ now \in 0..MaxTime /\ changedAt \in 0..now /\ fetched \in 0..now
    /\ authorised \subseteq Source /\ listed \in (SUBSET Source) \cup {None}
    /\ version \in [Source -> Version] /\ lock \in Grant \cup {None}
    /\ \A g \in Grant : (lock = g) = (grant[g].at = "fetch")
    /\ \A s \in Source : \A k \in files[s] \cup loaded[s] : k.recipient = s

\* The portal reads the list again when its copy is MaxAge old, and "a copy that
\* cannot be renewed is not used at all" (portal.go:38-41): a consent that
\* looked at the list more than MaxAge after BSNk last changed it is not
\* refused, and names the BSN to every source on the list and to no other,
\* whatever failed, restarted or waited in between.
FollowsTheList ==
    \A g \in Grant : changedAt + MaxAge < grant[g].started =>
        /\ grant[g].at # "refused"
        /\ g \in Granted => DOMAIN grant[g].made.identity = authorised

\* "A pseudonym is stable per party and key set, and differs otherwise"
\* (services/bsnk-mock/README.md:336-339), also when two first consents both
\* activated the citizen; an identity is the citizen's.
ValuesNameTheCitizen ==
    \A g, h \in Granted, s, t \in Source :
        /\ Reads(g, s, "identity") \in {grant[g].owner, None}
        /\ LET one == Reads(g, s, "pseudonym")
               other == Reads(h, t, "pseudonym")
           IN  one # None /\ other # None =>
                   (one = other <=> /\ s = t /\ grant[g].owner = grant[h].owner
                                    /\ grant[g].made.pseudonym[s].version = grant[h].made.pseudonym[t].version)

\* "A source keeps the keys of an earlier version for as long as consent tokens
\* made for it are valid, so the directory may hold more than one version"
\* (decryption.go:44-46): what a source can read it reads after new keys and
\* restarts as well, unless it threw the keys away.
StaysReadable ==
    [][\A g \in Granted, s \in Source, form \in Forms :
          Reads(g, s, form) # None /\ Held(g, s, form)' => Reads(g, s, form)' = Reads(g, s, form)]_vars

=============================================================================
