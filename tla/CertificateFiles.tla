--------------------------- MODULE CertificateFiles ---------------------------
(* The certificate files of one source: the command that provisions them in  *)
(* the secret directory and copies the public ones to a directory of their   *)
(* own, the reconciler that reads those for a release, and the issuance      *)
(* server ("pod") that reads the secret directory when it starts             *)
(* (services/eudi-adapter: development_ca_provider.go, onboarding.go,        *)
(* source_registry_backend.go, issuance_release.go, issuance_config.go).     *)
(*                                                                           *)
(* Every file is written atomically and read by itself; nothing holds the    *)
(* directory still while several are read.  A certificate is                 *)
(* [name, logo, key, run]: the organisation it names, its logo, the key it   *)
(* is for and the run of the command that issued it.  Expiry and the two CA  *)
(* certificates, which never change, are left out.                           *)
EXTENDS Naturals, Sequences, FiniteSets

CONSTANTS
    Registrations,  \* what the command can be run with: [name, logo]
    NoLogo,         \* the logo of a registration that brings none
    NoCert,         \* no certificate file
    MaxRuns         \* bound on the runs of the command

ASSUME RunsAssumption == MaxRuns \in Nat

VARIABLES
    keys,         \* the private key file of every role; 0 when there is none
    certs,        \* the certificate file of every role in the secret directory
    public,       \* the certificate file of every role in the public directory
    runs,         \* how often the command was started
    provisioner,  \* the command: its stage and its registration
    reconciler,   \* the reconciler: its stage and what it has read
    released,     \* the certificate set of the active release
    pod           \* the issuance server: its stage and what it has read

vars == <<keys, certs, public, runs, provisioner, reconciler, released, pod>>

Order == <<"issuer", "reader", "status">>
Roles == {"issuer", "reader", "status"}

Nothing == [role \in Roles |-> NoCert]
NoSet   == [set |-> Nothing, disturbed |-> FALSE]
Down    == [stage |-> "down", target |-> Nothing, keys |-> <<>>, certs |-> <<>>, disturbed |-> FALSE]
Resting == [stage |-> "idle", next |-> 1, read |-> Nothing, disturbed |-> FALSE]

Init ==
    /\ keys = [role \in Roles |-> 0] /\ certs = Nothing /\ public = Nothing /\ runs = 0
    /\ provisioner = [stage |-> "idle", next |-> 1]
    /\ reconciler = Resting /\ released = NoSet /\ pod = Down

-----------------------------------------------------------------------------
(* The command "provision-development-certificates".                          *)

\* validateExpectedDevelopmentLeaf: the subject is the registration's, and the
\* authorisation extension, which a status certificate has not, shows its
\* logo; a logo that is not asked for stays the certificate's own
Expected(cert, role, registration) ==
    /\ cert.name = registration.name
    /\ role = "status" \/ registration.logo \in {NoLogo, cert.logo}

\* a file of the directories is written: who is reading them is disturbed
Disturb ==
    /\ reconciler' = [reconciler EXCEPT !.disturbed = @ \/ reconciler.stage # "idle"]
    /\ pod' = [pod EXCEPT !.disturbed = @ \/ pod.stage \in {"compare", "read"}]

Start ==
    /\ provisioner.stage = "idle" /\ runs < MaxRuns
    /\ \E r \in Registrations :
        provisioner' = [stage |-> "leaf", next |-> 1, registration |-> r]
    /\ runs' = runs + 1
    /\ UNCHANGED <<keys, certs, public, reconciler, released, pod>>

Leaf == Order[provisioner.next]

\* after the last leaf the set is copied to the public directory
NextLeaf ==
    provisioner' = IF provisioner.next < Len(Order)
                   THEN [provisioner EXCEPT !.next = @ + 1, !.stage = "leaf"]
                   ELSE [provisioner EXCEPT !.next = 1, !.stage = "project"]

\* a bug this code could have: new content comes with a new key that is not kept
IssuedUnderNewKey(role, key) ==
    [name |-> provisioner.registration.name, key |-> runs, run |-> runs,
     logo |-> IF role = "status" THEN NoLogo ELSE provisioner.registration.logo]

Issued(role, key) ==
    [name |-> provisioner.registration.name, key |-> key, run |-> runs,
     logo |-> IF role = "status" THEN NoLogo ELSE provisioner.registration.logo]

Absent == keys[Leaf] = 0 /\ certs[Leaf] = NoCert
Sound  == certs[Leaf] # NoCert /\ certs[Leaf].key = keys[Leaf]

\* a key without its certificate, or one that does not fit it, is refused for good
RefusePartial ==
    /\ provisioner.stage = "leaf" /\ ~Absent /\ ~Sound
    /\ provisioner' = [stage |-> "idle", next |-> 1]
    /\ UNCHANGED <<keys, certs, public, runs, reconciler, released, pod>>

KeepLeaf ==
    /\ provisioner.stage = "leaf" /\ Sound /\ Expected(certs[Leaf], Leaf, provisioner.registration)
    /\ NextLeaf
    /\ UNCHANGED <<keys, certs, public, runs, reconciler, released, pod>>

\* stale content is replaced under the same private key
Reissue ==
    /\ provisioner.stage = "leaf" /\ Sound /\ ~Expected(certs[Leaf], Leaf, provisioner.registration)
    /\ certs' = [certs EXCEPT ![Leaf] = Issued(Leaf, keys[Leaf])]
    /\ NextLeaf /\ Disturb
    /\ UNCHANGED <<keys, public, runs, released>>

\* a new leaf: its key file is written first, then its certificate file
WriteKey ==
    /\ provisioner.stage = "leaf" /\ Absent
    /\ keys' = [keys EXCEPT ![Leaf] = runs]
    /\ provisioner' = [provisioner EXCEPT !.stage = "certificate"]
    /\ Disturb
    /\ UNCHANGED <<certs, public, runs, released>>

WriteCertificate ==
    /\ provisioner.stage = "certificate"
    /\ certs' = [certs EXCEPT ![Leaf] = Issued(Leaf, keys[Leaf])]
    /\ NextLeaf /\ Disturb
    /\ UNCHANGED <<keys, public, runs, released>>

\* the public certificates are copied one after the other
Project ==
    /\ provisioner.stage = "project"
    /\ public' = [public EXCEPT ![Leaf] = certs[Leaf]]
    /\ provisioner' = IF provisioner.next < Len(Order) THEN [provisioner EXCEPT !.next = @ + 1]
                      ELSE [stage |-> "idle", next |-> 1]
    /\ Disturb
    /\ UNCHANGED <<keys, certs, runs, released>>

\* the command is stopped anywhere
Crash ==
    /\ provisioner.stage # "idle"
    /\ provisioner' = [stage |-> "idle", next |-> 1]
    /\ UNCHANGED <<keys, certs, public, runs, reconciler, released, pod>>

-----------------------------------------------------------------------------
(* The reconciler: it loads and validates the public certificates, and the    *)
(* activation reads the same files once more for the candidate's set.         *)

Survey ==
    /\ reconciler.stage = "idle"
    /\ reconciler' = [Resting EXCEPT !.stage = "load"]
    /\ UNCHANGED <<keys, certs, public, runs, provisioner, released, pod>>

Reading == Order[reconciler.next]
Taken   == [reconciler EXCEPT !.read = [reconciler.read EXCEPT ![Reading] = public[Reading]],
                               !.next = reconciler.next + 1]

\* a bug this code could have: every certificate is held against its own name
LoadedOneByOne(set) == \A role \in Roles : Expected(set[role], role, [name |-> set[role].name,
                                                                      logo |-> NoLogo])

\* Load: the issuer certificate gives the identity the other two must have; a
\* logo is not part of what is expected
Loaded(set) == \A role \in Roles : Expected(set[role], role, [name |-> set["issuer"].name,
                                                              logo |-> NoLogo])

ReadPublic ==
    /\ reconciler.stage \in {"load", "activate"}
    /\ IF public[Reading] = NoCert THEN reconciler' = Resting
       ELSE IF reconciler.next < Len(Order) THEN reconciler' = Taken
       ELSE IF reconciler.stage = "activate" THEN reconciler' = [Taken EXCEPT !.stage = "promote"]
       ELSE reconciler' = IF Loaded(Taken.read)
                          THEN [Resting EXCEPT !.stage = "activate",
                                               !.disturbed = reconciler.disturbed]
                          ELSE Resting
    /\ UNCHANGED <<keys, certs, public, runs, provisioner, released, pod>>

\* a bug this code could have: a set that names the same organisation is no change
PromoteByName ==
    /\ reconciler.stage = "promote"
    /\ released' = IF /\ released.set # Nothing
                      /\ released.set["issuer"].name = reconciler.read["issuer"].name
                   THEN released
                   ELSE [set |-> reconciler.read, disturbed |-> reconciler.disturbed]
    /\ reconciler' = Resting
    /\ UNCHANGED <<keys, certs, public, runs, provisioner, pod>>

Promote ==
    /\ reconciler.stage = "promote"
    /\ released' = IF released.set = reconciler.read THEN released
                   ELSE [set |-> reconciler.read, disturbed |-> reconciler.disturbed]
    /\ reconciler' = Resting
    /\ UNCHANGED <<keys, certs, public, runs, provisioner, pod>>

-----------------------------------------------------------------------------
(* The pod: it compares the mounted certificates with the set of the active   *)
(* release, and then reads keys and certificates for its configuration.       *)

PodStart ==
    /\ pod.stage \in {"down", "up"} /\ released.set # Nothing
    /\ pod' = [Down EXCEPT !.stage = "compare", !.target = released.set]
    /\ UNCHANGED <<keys, certs, public, runs, provisioner, reconciler, released>>

\* publicCertificateSet over the mounted directory, in the order of the roles
Compare ==
    /\ pod.stage = "compare"
    /\ LET role == Order[Cardinality(DOMAIN pod.certs) + 1]
           compared == [r \in DOMAIN pod.certs \cup {role} |->
                          IF r = role THEN certs[role] ELSE pod.certs[r]]
       IN  IF certs[role] = NoCert THEN pod' = Down
           ELSE IF role # "status" THEN pod' = [pod EXCEPT !.certs = compared]
           ELSE IF compared = pod.target THEN pod' = [pod EXCEPT !.stage = "read", !.certs = <<>>]
           ELSE pod' = Down
    /\ UNCHANGED <<keys, certs, public, runs, provisioner, reconciler, released>>

With(f, role, value) == [r \in DOMAIN f \cup {role} |-> IF r = role THEN value ELSE f[r]]

\* loadIssuanceCertificateMaterial ranges over a Go map: the six files come in
\* any order, and a missing one stops the start
ReadMaterial ==
    /\ pod.stage = "read"
    /\ \E role \in Roles :
        \/ /\ role \notin DOMAIN pod.keys
           /\ pod' = IF keys[role] = 0 THEN Down
                     ELSE [pod EXCEPT !.keys = With(@, role, keys[role])]
        \/ /\ role \notin DOMAIN pod.certs
           /\ pod' = IF certs[role] = NoCert THEN Down
                     ELSE [pod EXCEPT !.certs = With(@, role, certs[role])]
    /\ UNCHANGED <<keys, certs, public, runs, provisioner, reconciler, released>>

Serve ==
    /\ pod.stage = "read" /\ DOMAIN pod.keys = Roles /\ DOMAIN pod.certs = Roles
    /\ pod' = [pod EXCEPT !.stage = "up"]
    /\ UNCHANGED <<keys, certs, public, runs, provisioner, reconciler, released>>

Next ==
    \/ Start \/ RefusePartial \/ KeepLeaf \/ Reissue \/ WriteKey \/ WriteCertificate \/ Project \/ Crash
    \/ Survey \/ ReadPublic \/ Promote
    \/ PodStart \/ Compare \/ ReadMaterial \/ Serve

Spec == Init /\ [][Next]_vars

\* the reconciler runs again every interval; nobody has to run the command or
\* to start a pod
FairSpec == Spec /\ WF_vars(Survey) /\ WF_vars(ReadPublic) /\ WF_vars(Promote)

-----------------------------------------------------------------------------

\* Every variable has the type its section gives it.
TypeOK ==
    /\ DOMAIN keys = Roles /\ \A role \in Roles : keys[role] \in 0..MaxRuns
    /\ \A files \in {certs, public, released.set, reconciler.read, pod.target} : DOMAIN files = Roles
    /\ provisioner.stage \in {"idle", "leaf", "certificate", "project"}
    /\ reconciler.stage \in {"idle", "load", "activate", "promote"}
    /\ pod.stage \in {"down", "compare", "read", "up"}
    /\ DOMAIN pod.keys \subseteq Roles /\ DOMAIN pod.certs \subseteq Roles

\* A pod that serves signs with keys that fit the certificates it shows,
\* wherever the command was while it read the six files and wherever an
\* earlier run of the command was stopped.
KeysFit == pod.stage = "up" => \A role \in Roles : pod.certs[role].key = pod.keys[role]

\* The certificates of a release name one organisation.  They are validated
\* and then read once more, so a command that writes during the cycle is the
\* exception.
OneOrganisation ==
    released.set # Nothing /\ ~released.disturbed =>
        \A role \in Roles : released.set[role].name = released.set["issuer"].name

\* Once the command has run for the last time and has copied what it issued,
\* the certificates it issued become those of the active release.
ReleaseCatchesUp ==
    (/\ runs = MaxRuns /\ provisioner.stage = "idle" /\ public = certs
     /\ \A role \in Roles : certs[role] # NoCert /\ certs[role].name = certs["issuer"].name)
        ~> released.set = certs
=============================================================================
