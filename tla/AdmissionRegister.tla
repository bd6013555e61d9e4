------------------------- MODULE AdmissionRegister -------------------------
(* The register of admitted parties (services/dvtp-onboarding-register) and   *)
(* the copy of it that the PDP pulls.  Operators keep private parties in the  *)
(* table; technical parties and integrations are deployment configuration,    *)
(* read when the process starts.                                              *)
(*                                                                            *)
(* A party is [active, sources]; its name is left out.  What a page showed    *)
(* does not limit what its forms change: a row is never removed, and a form   *)
(* that is refused, or that comes from an earlier process (its CSRF token),   *)
(* changes nothing.                                                           *)
EXTENDS FiniteSets

CONSTANTS
    Configurations, \* what may be deployed: [holders, system, seeds, integrations],
                    \* system and seeds sets of [peer, active, sources],
                    \* integrations a set of [integrator, provider, rules]
    Forms,          \* what operators enter: [peer, active, sources]
    SeedDemoData

\* The loader knows no other values; what of it fits is for NewService.
ASSUME RegisterAssumption ==
    /\ SeedDemoData \in BOOLEAN
    /\ \A p \in Forms : p.active \in BOOLEAN
    /\ \A c \in Configurations : \A p \in c.system \cup c.seeds : p.active \in BOOLEAN

VARIABLES
    configuration,  \* the configuration deployed last
    rows,           \* table participants: a function from peers to parties
    copy, pulled    \* the PDP's dvtp_participant entities, and whether there are any

registerVars == <<configuration, rows, copy, pulled>>

Party(p) == [active |-> p.active, sources |-> p.sources]

----------------------------------------------------------------------------
(* NewService: the configuration is validated as a whole.                    *)

Peers(ps) == {p.peer : p \in ps}
DistinctPeers(ps) == Cardinality(Peers(ps)) = Cardinality(ps)
Reserved == Peers(configuration.system)

\* normalizeParticipant, a peer being reserved aside.
Admissible(c, p) == p.sources # {} /\ p.sources \subseteq c.holders

\* addIntegrations.
IntegrationsFit(c) ==
    /\ \A i \in c.integrations : i.integrator # i.provider /\ i.rules # {}
    /\ \A i, j \in c.integrations : i.integrator = j.integrator /\ i.provider = j.provider => i = j

Fits(c) ==
    /\ c.holders # {}
    /\ DistinctPeers(c.system) /\ DistinctPeers(c.seeds)
    /\ Peers(c.system) \cap Peers(c.seeds) = {}
    /\ \A p \in c.system \cup c.seeds : Admissible(c, p)
    /\ IntegrationsFit(c)

\* A process whose configuration does not fit exits, and is not reached.
Serving == Fits(configuration)

----------------------------------------------------------------------------

Upserted(ps) ==
    [q \in DOMAIN rows \cup Peers(ps) |->
        IF q \in Peers(ps) THEN Party(CHOOSE p \in ps : p.peer = q) ELSE rows[q]]

\* SeedDemo: a party that is in the table stays as it is.
Seeded(ps) == Upserted({p \in ps : p.peer \notin DOMAIN rows})

RegisterInit ==
    /\ configuration \in Configurations /\ Serving
    /\ rows = IF SeedDemoData
              THEN [q \in Peers(configuration.seeds) |->
                       Party(CHOOSE p \in configuration.seeds : p.peer = q)]
              ELSE [q \in {} |-> [active |-> FALSE, sources |-> {}]]
    /\ copy = [q \in {} |-> [active |-> FALSE, sources |-> {}, actsFor |-> {}]]
    /\ pulled = FALSE

\* The register is deployed again, with the same database.
Deploy(c) ==
    /\ c # configuration
    /\ configuration' = c
    /\ rows' = IF Fits(c) /\ SeedDemoData THEN Seeded(c.seeds) ELSE rows
    /\ UNCHANGED <<copy, pulled>>

MayEnter(p) == Serving /\ p.peer \notin Reserved /\ Admissible(configuration, p)

\* Save: the form for a new party, which also replaces one that is there.
Save(p) ==
    /\ MayEnter(p)
    /\ rows' = Upserted({p})
    /\ UNCHANGED <<configuration, copy, pulled>>

\* UpdateDetails leaves active alone.
UpdateDetails(p) ==
    /\ MayEnter(p) /\ p.peer \in DOMAIN rows
    /\ rows' = [rows EXCEPT ![p.peer].sources = p.sources]
    /\ UNCHANGED <<configuration, copy, pulled>>

ToggleActive(q) ==
    /\ Serving /\ q \notin Reserved /\ q \in DOMAIN rows
    /\ rows' = [rows EXCEPT ![q].active = ~rows[q].active]
    /\ UNCHANGED <<configuration, copy, pulled>>

----------------------------------------------------------------------------
(* What the PDP gets.                                                        *)

\* s.mandates of an integrator.
ActsFor(q) ==
    {[peer |-> i.provider, rules |-> i.rules] : i \in {j \in configuration.integrations : j.integrator = q}}

\* ListForPolicy: the table without the configured peers, and those.  Every
\* entry carries acts_for, so that an integration that ended replaces what was
\* pulled before.
ListForPolicy ==
    [q \in DOMAIN rows \cup Reserved |->
        LET p == IF q \in Reserved THEN Party(CHOOSE s \in configuration.system : s.peer = q) ELSE rows[q]
        IN  [active |-> p.active, sources |-> p.sources, actsFor |-> ActsFor(q)]]

\* OpenFTV merges the attributes an entry has; an entry without mandates that
\* left acts_for out would keep the old ones.
MergedLeavingEmptyOut(feed) ==
    [q \in DOMAIN copy \cup DOMAIN feed |->
        IF q \notin DOMAIN feed THEN copy[q]
        ELSE IF feed[q].actsFor = {} /\ q \in DOMAIN copy
        THEN [feed[q] EXCEPT !.actsFor = copy[q].actsFor] ELSE feed[q]]

\* What is pulled is added or replaced; what is no longer listed stays.
Merged(feed) ==
    [q \in DOMAIN copy \cup DOMAIN feed |-> IF q \in DOMAIN feed THEN feed[q] ELSE copy[q]]

Pull ==
    /\ Serving
    /\ copy' = Merged(ListForPolicy) /\ pulled' = TRUE
    /\ UNCHANGED <<configuration, rows>>

Operate ==
    \/ \E p \in Forms : Save(p) \/ UpdateDetails(p)
    \/ \E q \in Peers(Forms) : ToggleActive(q)

RegisterNext == Operate \/ (\E c \in Configurations : Deploy(c)) \/ Pull

RegisterSpec == RegisterInit /\ [][RegisterNext]_registerVars

----------------------------------------------------------------------------
(* Properties.                                                               *)

SourcesOf(c) == SUBSET c.holders
Mandates == {[peer |-> i.provider, rules |-> i.rules] : i \in UNION {c.integrations : c \in Configurations}}

\* A party in the table, and in the copy, is one that some configuration admits.
RegisterTypeOK ==
    /\ configuration \in Configurations
    /\ rows \in [DOMAIN rows -> [active : BOOLEAN, sources : UNION {SourcesOf(c) : c \in Configurations}]]
    /\ copy \in [DOMAIN copy -> [active : BOOLEAN, sources : UNION {SourcesOf(c) : c \in Configurations},
                                 actsFor : SUBSET Mandates]]
    /\ pulled \in BOOLEAN

\* The party may act for the other, as the register says now.
RegisterMandates(q, r) ==
    /\ q \in DOMAIN ListForPolicy /\ ListForPolicy[q].active
    /\ \E m \in ListForPolicy[q].actsFor : m.peer = r

\* "A withdrawn integration replaces the pulled entity instead of leaving the
\* old mandate behind", and "retaining an explicit inactive record keeps
\* revocation fail-closed" (services/dvtp-onboarding-register/README.md:30-32,
\* 61-64): when a pull has nothing new for the PDP, a party in the table acts
\* for nobody the register does not let it act for, whatever configurations,
\* seeds and operators went before.
WithdrawnOncePulled ==
    Serving /\ pulled /\ Merged(ListForPolicy) = copy =>
        \A q \in DOMAIN rows \cap DOMAIN copy : \A m \in copy[q].actsFor :
            copy[q].active => RegisterMandates(q, m.peer)
============================================================================
