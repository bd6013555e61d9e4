------------------------ MODULE CertificateFilesProofs ------------------------
(* Theorems about CertificateFiles, for every set of registrations and any   *)
(* number of runs of the command: what is proved in the runs' small instance *)
(* only for two of them.                                                     *)
EXTENDS CertificateFiles, FiniteSetTheorems, TLAPS

-----------------------------------------------------------------------------
(* The shape of the records.  The command has a registration while it runs.  *)

CommandShape ==
    \/ provisioner = [stage |-> "idle", next |-> 1]
    \/ /\ provisioner = [stage |-> provisioner.stage, next |-> provisioner.next,
                         registration |-> provisioner.registration]
       /\ provisioner.stage \in {"leaf", "certificate", "project"}
       /\ provisioner.next \in 1..3 /\ runs # 0

IsReading(x) == x = [stage |-> x.stage, next |-> x.next, read |-> x.read, disturbed |-> x.disturbed]

ReconcilerShape ==
    /\ IsReading(reconciler)
    /\ reconciler.stage \in {"idle", "load", "activate", "promote"}
    /\ reconciler.next \in 1..4 /\ reconciler.disturbed \in BOOLEAN
    /\ reconciler.stage \in {"load", "activate"} => reconciler.next \in 1..3
    /\ DOMAIN reconciler.read = Roles

\* The pod compares the certificates in the order of the roles.
IsPod(x) == x = [stage |-> x.stage, target |-> x.target, keys |-> x.keys,
                 certs |-> x.certs, disturbed |-> x.disturbed]

PodShape ==
    /\ IsPod(pod)
    /\ pod.stage \in {"down", "compare", "read", "up"} /\ pod.disturbed \in BOOLEAN
    /\ DOMAIN pod.target = Roles
    /\ DOMAIN pod.keys \subseteq Roles /\ DOMAIN pod.certs \subseteq Roles
    /\ pod.stage = "compare" =>
          DOMAIN pod.keys = {} /\ DOMAIN pod.certs \in {{}, {"issuer"}, {"issuer", "reader"}}

FileShape ==
    /\ runs \in 0..MaxRuns
    /\ DOMAIN keys = Roles /\ \A role \in Roles : keys[role] \in 0..MaxRuns
    /\ DOMAIN certs = Roles /\ DOMAIN public = Roles /\ DOMAIN released.set = Roles

Shape == CommandShape /\ ReconcilerShape /\ PodShape /\ FileShape

LEMMA OrderOfRoles ==
    /\ Order[1] = "issuer" /\ Order[2] = "reader" /\ Order[3] = "status" /\ Len(Order) = 3
    /\ \A i \in 1..3 : Order[i] \in Roles
    /\ \A role \in Roles : \E i \in 1..3 : Order[i] = role
  BY DEF Order, Roles

LEMMA LeafIsRole == ASSUME Shape, provisioner.stage # "idle" PROVE Leaf \in Roles
  BY OrderOfRoles DEF Shape, CommandShape, Leaf

LEMMA RoleCompared ==
    ASSUME Shape, pod.stage = "compare"
    PROVE  LET role == Order[Cardinality(DOMAIN pod.certs) + 1]
           IN  /\ role \in Roles
               /\ role # "status" => DOMAIN pod.certs \cup {role} \in {{"issuer"}, {"issuer", "reader"}}
  <1>1. Cardinality({}) = 0 /\ Cardinality({"issuer"}) = 1
    BY FS_EmptySet, FS_Singleton
  <1>2. Cardinality({"issuer", "reader"}) = 2
    <2>1. IsFiniteSet({"issuer"}) /\ "reader" \notin {"issuer"}
      BY FS_Singleton
    <2>2. Cardinality({"issuer"} \cup {"reader"}) = 2
      BY <2>1, <1>1, FS_AddElement
    <2> QED BY <2>2
  <1>3. CASE DOMAIN pod.certs = {}
    BY <1>3, <1>1, OrderOfRoles
  <1>4. CASE DOMAIN pod.certs = {"issuer"}
    BY <1>4, <1>1, OrderOfRoles
  <1>5. CASE DOMAIN pod.certs = {"issuer", "reader"}
    BY <1>5, <1>2, OrderOfRoles
  <1> QED BY <1>3, <1>4, <1>5 DEF Shape, PodShape

\* Being disturbed leaves the rest of the two readers as it is.
LEMMA Disturbed ==
    ASSUME Shape, Disturb
    PROVE  /\ ReconcilerShape' /\ PodShape'
           /\ reconciler'.stage = reconciler.stage /\ reconciler'.next = reconciler.next
           /\ reconciler'.read = reconciler.read
           /\ reconciler.stage # "idle" => reconciler'.disturbed
           /\ pod'.stage = pod.stage /\ pod'.target = pod.target
           /\ pod'.keys = pod.keys /\ pod'.certs = pod.certs
           /\ pod.stage \in {"compare", "read"} => pod'.disturbed
           /\ pod.stage \notin {"compare", "read"} => pod'.disturbed = pod.disturbed
  BY DEF Shape, ReconcilerShape, PodShape, Disturb, IsReading, IsPod

LEMMA NextLeafShape ==
    ASSUME Shape, provisioner.stage # "idle", runs' = runs, NextLeaf
    PROVE  CommandShape' /\ provisioner'.stage \in {"leaf", "project"}
  <1>1. /\ provisioner = [stage |-> provisioner.stage, next |-> provisioner.next,
                          registration |-> provisioner.registration]
        /\ provisioner.next \in 1..3 /\ runs # 0
    BY DEF Shape, CommandShape
  <1>2. CASE provisioner.next < 3
    <2>1. provisioner' = [stage |-> "leaf", next |-> provisioner.next + 1,
                          registration |-> provisioner.registration]
      BY <1>1, <1>2, OrderOfRoles DEF NextLeaf
    <2> QED BY <2>1, <1>1, <1>2 DEF CommandShape
  <1>3. CASE ~(provisioner.next < 3)
    <2>1. provisioner' = [stage |-> "project", next |-> 1,
                          registration |-> provisioner.registration]
      BY <1>1, <1>3, OrderOfRoles DEF NextLeaf
    <2> QED BY <2>1, <1>1 DEF CommandShape
  <1> QED BY <1>2, <1>3

-----------------------------------------------------------------------------
(* Type correctness.                                                         *)

LEMMA ShapeInit == Init => Shape
  BY RunsAssumption DEF Init, IsReading, IsPod, Shape, CommandShape, ReconcilerShape, PodShape, FileShape, Resting,
     NoSet, Nothing, Down, Roles

\* The command: it changes its own record and files, and disturbs the readers.
LEMMA CommandShapeStep ==
    ASSUME Shape,
           Start \/ RefusePartial \/ KeepLeaf \/ Reissue \/ WriteKey \/ WriteCertificate
             \/ Project \/ Crash
    PROVE  Shape'
  <1> USE DEF Shape
  <1>1. CASE Start
    <2>1. PICK r \in Registrations :
            provisioner' = [stage |-> "leaf", next |-> 1, registration |-> r]
      BY <1>1 DEF Start
    <2>2. CommandShape'
      BY <1>1, <2>1, RunsAssumption DEF Start, CommandShape, FileShape
    <2>3. FileShape'
      BY <1>1, RunsAssumption DEF Start, FileShape
    <2> QED BY <1>1, <2>2, <2>3 DEF Start, ReconcilerShape, PodShape
  <1>2. CASE RefusePartial
    BY <1>2 DEF RefusePartial, CommandShape, ReconcilerShape, PodShape, FileShape
  <1>3. CASE Crash
    BY <1>3 DEF Crash, CommandShape, ReconcilerShape, PodShape, FileShape
  <1>4. CASE KeepLeaf
    <2>1. CommandShape'
      BY <1>4, NextLeafShape DEF KeepLeaf
    <2> QED BY <1>4, <2>1 DEF KeepLeaf, ReconcilerShape, PodShape, FileShape
  <1>5. CASE Reissue
    <2>1. CommandShape' /\ ReconcilerShape' /\ PodShape'
      BY <1>5, NextLeafShape, Disturbed DEF Reissue
    <2> QED BY <1>5, <2>1 DEF Reissue, FileShape
  <1>6. CASE WriteKey
    <2>1. ReconcilerShape' /\ PodShape'
      BY <1>6, Disturbed DEF WriteKey
    <2>2. CommandShape'
      BY <1>6 DEF WriteKey, CommandShape
    <2>3. FileShape'
      BY <1>6 DEF WriteKey, FileShape
    <2> QED BY <2>1, <2>2, <2>3
  <1>7. CASE WriteCertificate
    <2>1. CommandShape' /\ ReconcilerShape' /\ PodShape'
      BY <1>7, NextLeafShape, Disturbed DEF WriteCertificate
    <2> QED BY <1>7, <2>1 DEF WriteCertificate, FileShape
  <1>8. CASE Project
    <2>1. ReconcilerShape' /\ PodShape'
      BY <1>8, Disturbed DEF Project
    <2>2. CommandShape'
      BY <1>8, OrderOfRoles DEF Project, CommandShape
    <2>3. FileShape'
      BY <1>8 DEF Project, FileShape
    <2> QED BY <2>1, <2>2, <2>3
  <1> QED BY <1>1, <1>2, <1>3, <1>4, <1>5, <1>6, <1>7, <1>8

LEMMA StageChanged ==
    ASSUME NEW x, NEW y, IsReading(x), NEW a, y = [x EXCEPT !.stage = a]
    PROVE  /\ IsReading(y) /\ y.stage = a /\ y.next = x.next
           /\ y.read = x.read /\ y.disturbed = x.disturbed
  BY DEF IsReading

LEMMA TakenRead ==
    ASSUME Shape, reconciler.stage \in {"load", "activate"}
    PROVE  /\ Reading \in Roles
           /\ IsReading(Taken) /\ Taken.stage = reconciler.stage
           /\ Taken.next = reconciler.next + 1 /\ Taken.disturbed = reconciler.disturbed
           /\ DOMAIN Taken.read = Roles
           /\ \A role \in Roles :
                 Taken.read[role] = IF role = Reading THEN public[role] ELSE reconciler.read[role]
  <1>1. Reading \in Roles
    BY OrderOfRoles DEF Shape, ReconcilerShape, Reading
  <1> DEFINE taken == [reconciler.read EXCEPT ![Reading] = public[Reading]]
             following == reconciler.next + 1
  <1>2. Taken = [reconciler EXCEPT !.read = taken, !.next = following]
    BY DEF Taken
  <1>3. IsReading(reconciler) /\ DOMAIN reconciler.read = Roles
    BY DEF Shape, ReconcilerShape
  <1>4. /\ IsReading(Taken) /\ Taken.stage = reconciler.stage
        /\ Taken.next = following /\ Taken.read = taken /\ Taken.disturbed = reconciler.disturbed
    BY <1>2, <1>3 DEF IsReading
  <1> QED BY <1>1, <1>3, <1>4

LEMMA Rests ==
    /\ IsReading(Resting) /\ Resting.stage = "idle" /\ Resting.next = 1
    /\ Resting.read = Nothing /\ ~Resting.disturbed /\ Resting.disturbed \in BOOLEAN
    /\ DOMAIN Nothing = Roles
  BY DEF Resting, Nothing, IsReading

\* What the reconciler does with the certificate that it reads next.
LEMMA ReadsOn ==
    ASSUME Shape, ReadPublic
    PROVE  /\ reconciler.stage \in {"load", "activate"} /\ reconciler.next \in 1..3
           /\ \/ reconciler' = Resting
              \/ reconciler.next < 3 /\ reconciler' = Taken
              \/ /\ reconciler.next = 3 /\ reconciler.stage = "activate"
                 /\ reconciler' = [Taken EXCEPT !.stage = "promote"]
              \/ /\ reconciler.next = 3 /\ Loaded(Taken.read)
                 /\ reconciler' = [Resting EXCEPT !.stage = "activate",
                                                  !.disturbed = reconciler.disturbed]
  BY OrderOfRoles DEF Shape, ReconcilerShape, ReadPublic

LEMMA ReconcilerShapeStep ==
    ASSUME Shape, Survey \/ ReadPublic \/ Promote
    PROVE  Shape'
  <1> USE DEF Shape
  <1>1. CASE Survey
    <2>1. /\ IsReading(reconciler') /\ reconciler'.stage = "load" /\ reconciler'.next = 1
          /\ reconciler'.read = Nothing /\ reconciler'.disturbed \in BOOLEAN
      BY <1>1 DEF Survey, Resting, IsReading
    <2>2. ReconcilerShape'
      BY <2>1, Rests DEF ReconcilerShape
    <2> QED BY <1>1, <2>2 DEF Survey, CommandShape, PodShape, FileShape
  <1>2. CASE ReadPublic
    <2>1. /\ reconciler.stage \in {"load", "activate"} /\ reconciler.next \in 1..3
          /\ reconciler.disturbed \in BOOLEAN
      BY <1>2, ReadsOn DEF ReconcilerShape
    <2>2. ReconcilerShape'
      <3>1. CASE reconciler' = Resting
        BY <3>1, Rests DEF ReconcilerShape, IsReading
      <3>2. CASE reconciler.next < 3 /\ reconciler' = Taken
        BY <2>1, <3>2, TakenRead DEF ReconcilerShape
      <3>3. CASE reconciler.next = 3 /\ reconciler' = [Taken EXCEPT !.stage = "promote"]
        <4>1. /\ IsReading(reconciler') /\ reconciler'.stage = "promote"
              /\ reconciler'.next = Taken.next /\ reconciler'.read = Taken.read
              /\ reconciler'.disturbed = Taken.disturbed
          BY <2>1, <3>3, TakenRead, StageChanged
        <4> QED BY <2>1, <3>3, <4>1, TakenRead DEF ReconcilerShape
      <3>4. CASE reconciler' = [Resting EXCEPT !.stage = "activate",
                                               !.disturbed = reconciler.disturbed]
        <4>1. /\ IsReading(reconciler') /\ reconciler'.stage = "activate"
              /\ reconciler'.next = Resting.next /\ reconciler'.read = Resting.read
              /\ reconciler'.disturbed = reconciler.disturbed
          BY <3>4 DEF Resting, IsReading
        <4> QED BY <2>1, <4>1, Rests DEF ReconcilerShape
      <3> QED BY <1>2, ReadsOn, <3>1, <3>2, <3>3, <3>4
    <2> QED BY <1>2, <2>2 DEF ReadPublic, CommandShape, PodShape, FileShape
  <1>3. CASE Promote
    <2>1. FileShape'
      BY <1>3 DEF Promote, FileShape, ReconcilerShape
    <2>2. ReconcilerShape'
      BY <1>3, Rests DEF Promote, ReconcilerShape, IsReading
    <2> QED BY <1>3, <2>1, <2>2 DEF Promote, CommandShape, PodShape
  <1> QED BY <1>1, <1>2, <1>3

LEMMA PodDown == ASSUME pod' = Down PROVE PodShape'
  BY DEF PodShape, IsPod, Down, Nothing, Roles

\* A pod that has compared starts its reading with nothing.
LEMMA EmptyFields ==
    ASSUME Shape, pod.stage = "compare", pod' = [pod EXCEPT !.stage = "read", !.certs = <<>>]
    PROVE  /\ IsPod(pod') /\ pod'.stage = "read" /\ pod'.target = pod.target
           /\ DOMAIN pod'.keys = {} /\ DOMAIN pod'.certs = {} /\ pod'.disturbed = pod.disturbed
  <1> DEFINE none == <<>>
  <1>1. DOMAIN none = {}
    OBVIOUS
  <1>2. pod' = [pod EXCEPT !.stage = "read", !.certs = none] /\ IsPod(pod) /\ DOMAIN pod.keys = {}
    BY DEF Shape, PodShape
  <1> HIDE DEF none
  <1>3. /\ IsPod(pod') /\ pod'.stage = "read" /\ pod'.target = pod.target
        /\ pod'.keys = pod.keys /\ pod'.certs = none /\ pod'.disturbed = pod.disturbed
    BY <1>2 DEF IsPod
  <1> QED BY <1>1, <1>2, <1>3

\* The step that reads one file adds it to what the pod has read.
LEMMA PodReads ==
    ASSUME Shape, ReadMaterial
    PROVE  \/ pod' = Down
           \/ /\ pod.stage = "read" /\ IsPod(pod') /\ pod'.stage = "read"
              /\ pod'.target = pod.target /\ pod'.disturbed = pod.disturbed
              /\ \E role \in Roles :
                    \/ /\ pod'.certs = pod.certs /\ keys[role] # 0
                       /\ DOMAIN pod'.keys = DOMAIN pod.keys \cup {role}
                       /\ pod'.keys[role] = keys[role]
                       /\ \A r \in DOMAIN pod.keys : r # role => pod'.keys[r] = pod.keys[r]
                    \/ /\ pod'.keys = pod.keys /\ certs[role] # NoCert
                       /\ DOMAIN pod'.certs = DOMAIN pod.certs \cup {role}
                       /\ pod'.certs[role] = certs[role]
                       /\ \A r \in DOMAIN pod.certs : r # role => pod'.certs[r] = pod.certs[r]
  <1>1. PICK role \in Roles :
          \/ pod' = Down
          \/ keys[role] # 0 /\ pod' = [pod EXCEPT !.keys = With(pod.keys, role, keys[role])]
          \/ certs[role] # NoCert /\ pod' = [pod EXCEPT !.certs = With(pod.certs, role, certs[role])]
    BY DEF ReadMaterial
  <1>2. pod.stage = "read" /\ IsPod(pod)
    BY DEF ReadMaterial, Shape, PodShape
  <1>3. ASSUME NEW f, NEW v
        PROVE  /\ DOMAIN With(f, role, v) = DOMAIN f \cup {role} /\ With(f, role, v)[role] = v
               /\ \A r \in DOMAIN f : r # role => With(f, role, v)[r] = f[r]
    BY DEF With
  <1>4. CASE pod' = Down
    BY <1>4
  <1>5. CASE keys[role] # 0 /\ pod' = [pod EXCEPT !.keys = With(pod.keys, role, keys[role])]
    <2>1. /\ IsPod(pod') /\ pod'.stage = "read" /\ pod'.target = pod.target
          /\ pod'.disturbed = pod.disturbed /\ pod'.certs = pod.certs
          /\ pod'.keys = With(pod.keys, role, keys[role])
      BY <1>2, <1>5 DEF IsPod
    <2>2. /\ DOMAIN pod'.keys = DOMAIN pod.keys \cup {role} /\ pod'.keys[role] = keys[role]
          /\ \A r \in DOMAIN pod.keys : r # role => pod'.keys[r] = pod.keys[r]
      BY <2>1 DEF With
    <2>3. pod'.certs = pod.certs /\ keys[role] # 0
      BY <1>5, <2>1
    <2> HIDE <1>5
    <2> QED BY <1>1, <1>2, <2>1, <2>2, <2>3
  <1>6. CASE certs[role] # NoCert /\ pod' = [pod EXCEPT !.certs = With(pod.certs, role, certs[role])]
    <2>1. /\ IsPod(pod') /\ pod'.stage = "read" /\ pod'.target = pod.target
          /\ pod'.disturbed = pod.disturbed /\ pod'.keys = pod.keys
          /\ pod'.certs = With(pod.certs, role, certs[role])
      BY <1>2, <1>6 DEF IsPod
    <2>2. /\ DOMAIN pod'.certs = DOMAIN pod.certs \cup {role} /\ pod'.certs[role] = certs[role]
          /\ \A r \in DOMAIN pod.certs : r # role => pod'.certs[r] = pod.certs[r]
      BY <1>3, <2>1
    <2> QED BY <1>1, <1>2, <1>6, <2>1, <2>2
  <1> QED BY <1>1, <1>4, <1>5, <1>6

LEMMA PodShapeStep ==
    ASSUME Shape, PodStart \/ Compare \/ ReadMaterial \/ Serve
    PROVE  Shape'
  <1> USE DEF Shape
  <1>1. CASE PodStart
    <2>1. /\ IsPod(pod') /\ pod'.stage = "compare" /\ pod'.target = released.set
          /\ pod'.keys = Down.keys /\ pod'.certs = Down.certs /\ pod'.disturbed \in BOOLEAN
      BY <1>1 DEF PodStart, IsPod, Down
    <2>2. DOMAIN Down.keys = {} /\ DOMAIN Down.certs = {}
      BY DEF Down
    <2>3. PodShape'
      BY <2>1, <2>2 DEF PodShape, FileShape
    <2> QED BY <1>1, <2>3 DEF PodStart, CommandShape, ReconcilerShape, FileShape
  <1>2. CASE Compare
    <2>1. PodShape'
      <3> DEFINE role == Order[Cardinality(DOMAIN pod.certs) + 1]
                 compared == [r \in DOMAIN pod.certs \cup {role} |->
                                IF r = role THEN certs[role] ELSE pod.certs[r]]
      <3>1. pod.stage = "compare" /\ DOMAIN compared = DOMAIN pod.certs \cup {role}
        BY <1>2 DEF Compare
      <3>2. role # "status" => DOMAIN compared \in {{"issuer"}, {"issuer", "reader"}}
        BY <3>1, RoleCompared
      <3>3. \/ pod' = Down
            \/ role # "status" /\ pod' = [pod EXCEPT !.certs = compared]
            \/ pod' = [pod EXCEPT !.stage = "read", !.certs = <<>>]
        BY <1>2 DEF Compare
      <3>4. CASE pod' = Down
        BY <3>4, PodDown
      <3>5. CASE role # "status" /\ pod' = [pod EXCEPT !.certs = compared]
        <4> HIDE DEF role, compared
        <4>1. /\ IsPod(pod') /\ pod'.stage = "compare" /\ pod'.target = pod.target
              /\ pod'.keys = pod.keys /\ pod'.certs = compared
              /\ pod'.disturbed = pod.disturbed
          BY <3>1, <3>5 DEF PodShape, IsPod
        <4> QED BY <3>1, <3>2, <3>5, <4>1 DEF PodShape, Roles
      <3>6. CASE pod' = [pod EXCEPT !.stage = "read", !.certs = <<>>]
        BY <3>1, <3>6, EmptyFields DEF PodShape
      <3> QED BY <3>3, <3>4, <3>5, <3>6
    <2> QED BY <1>2, <2>1 DEF Compare, CommandShape, ReconcilerShape, FileShape
  <1>3. CASE ReadMaterial
    <2>1. PodShape'
      <3>1. CASE pod' = Down
        BY <3>1, PodDown
      <3>2. CASE pod' # Down
        <4>1. /\ IsPod(pod') /\ pod'.stage = "read" /\ pod'.target = pod.target
              /\ pod'.disturbed = pod.disturbed
          BY <1>3, <3>2, PodReads
        <4>2. DOMAIN pod'.keys \subseteq Roles /\ DOMAIN pod'.certs \subseteq Roles
          BY <1>3, <3>2, PodReads DEF PodShape
        <4> QED BY <4>1, <4>2 DEF PodShape
      <3> QED BY <3>1, <3>2
    <2> QED BY <1>3, <2>1 DEF ReadMaterial, CommandShape, ReconcilerShape, FileShape
  <1>4. CASE Serve
    <2>1. PodShape'
      BY <1>4 DEF Serve, PodShape, IsPod
    <2> QED BY <1>4, <2>1 DEF Serve, CommandShape, ReconcilerShape, FileShape
  <1> QED BY <1>1, <1>2, <1>3, <1>4

LEMMA ShapeStep == Shape /\ [Next]_vars => Shape'
  <1>1. Shape /\ UNCHANGED vars => Shape'
    BY DEF vars, Shape, CommandShape, ReconcilerShape, PodShape, FileShape, IsReading, IsPod
  <1> QED BY <1>1, CommandShapeStep, ReconcilerShapeStep, PodShapeStep DEF Next

\* The files and what the three programs hold of them keep their types.
THEOREM TypeCorrect == Spec => []TypeOK
  <1>1. Shape => TypeOK
    BY DEF Shape, CommandShape, ReconcilerShape, PodShape, FileShape, TypeOK
  <1> QED BY <1>1, ShapeInit, ShapeStep, PTL DEF Spec

-----------------------------------------------------------------------------
(* The keys and the certificates.  A key is never replaced, and every         *)
(* certificate is issued for the key that lies beside it; what a pod has read *)
(* in any order therefore fits, whatever was written meanwhile.               *)

FilesFit ==
    /\ \A role \in Roles : certs[role] # NoCert => keys[role] # 0 /\ certs[role].key = keys[role]
    /\ provisioner.stage = "certificate" => keys[Leaf] # 0

PodFits ==
    /\ pod.stage \in {"read", "up"} =>
          /\ \A role \in DOMAIN pod.keys : keys[role] # 0 /\ pod.keys[role] = keys[role]
          /\ \A role \in DOMAIN pod.certs : keys[role] # 0 /\ pod.certs[role].key = keys[role]
    /\ pod.stage = "up" => DOMAIN pod.keys = Roles /\ DOMAIN pod.certs = Roles

\* A key file that is there stays as it is.
LEMMA KeysStay ==
    ASSUME Shape, [Next]_vars, NEW role \in Roles, keys[role] # 0
    PROVE  keys'[role] = keys[role]
  <1>1. CASE WriteKey
    BY <1>1 DEF WriteKey, Absent, Shape, FileShape
  <1>2. CASE ~WriteKey
    BY <1>2 DEF Next, vars, Start, RefusePartial, KeepLeaf, Reissue, WriteCertificate, Project,
       Crash, Survey, ReadPublic, Promote, PodStart, Compare, ReadMaterial, Serve
  <1> QED BY <1>1, <1>2

LEMMA FilesFitStep ==
    ASSUME Shape, FilesFit, [Next]_vars
    PROVE  FilesFit'
  <1>1. CASE WriteKey
    <2>1. /\ provisioner.stage = "leaf" /\ keys[Leaf] = 0 /\ certs[Leaf] = NoCert
          /\ keys' = [keys EXCEPT ![Leaf] = runs] /\ certs' = certs
          /\ provisioner' = [provisioner EXCEPT !.stage = "certificate"]
      BY <1>1 DEF WriteKey, Absent
    <2>2. Leaf \in Roles /\ runs # 0 /\ DOMAIN keys = Roles
      BY <2>1, LeafIsRole DEF Shape, CommandShape, FileShape
    <2>3. Leaf' = Leaf
      BY <2>1 DEF Leaf, Shape, CommandShape
    <2> QED BY <2>1, <2>2, <2>3 DEF FilesFit
  <1>2. CASE Reissue \/ WriteCertificate
    <2>1. /\ provisioner.stage \in {"leaf", "certificate"} /\ keys' = keys
          /\ certs' = [certs EXCEPT ![Leaf] = Issued(Leaf, keys[Leaf])]
          /\ keys[Leaf] # 0
      BY <1>2, LeafIsRole DEF Reissue, WriteCertificate, Sound, FilesFit
    <2>2. Issued(Leaf, keys[Leaf]).key = keys[Leaf]
      BY DEF Issued
    <2>3. provisioner'.stage # "certificate"
      BY <1>2, <2>1, NextLeafShape DEF Reissue, WriteCertificate
    <2> QED BY <2>1, <2>2, <2>3 DEF FilesFit, Shape, FileShape
  <1>3. CASE Start
    BY <1>3 DEF Start, FilesFit
  <1>4. CASE RefusePartial \/ Crash
    BY <1>4 DEF RefusePartial, Crash, FilesFit
  <1>5. CASE KeepLeaf
    <2>1. provisioner'.stage # "certificate"
      BY <1>5, NextLeafShape DEF KeepLeaf
    <2> QED BY <1>5, <2>1 DEF KeepLeaf, FilesFit
  <1>6. CASE Project
    <2>1. provisioner'.stage # "certificate"
      BY <1>6 DEF Project, Shape, CommandShape
    <2> QED BY <1>6, <2>1 DEF Project, FilesFit
  <1>7. CASE UNCHANGED <<keys, certs, provisioner>>
    BY <1>7 DEF FilesFit, Leaf
  <1> QED BY <1>1, <1>2, <1>3, <1>4, <1>5, <1>6, <1>7
      DEF Next, vars, Survey, ReadPublic, Promote, PodStart, Compare, ReadMaterial, Serve

LEMMA PodFitsStep ==
    ASSUME Shape, FilesFit, PodFits, [Next]_vars
    PROVE  PodFits'
  <1>1. CASE pod'.stage = pod.stage /\ pod'.keys = pod.keys /\ pod'.certs = pod.certs
    BY <1>1, KeysStay DEF PodFits, Shape, PodShape
  <1>2. CASE PodStart \/ Compare
    <2>1. CASE pod'.stage \in {"down", "compare"}
      BY <2>1 DEF PodFits
    <2>2. CASE pod.stage = "compare" /\ pod' = [pod EXCEPT !.stage = "read", !.certs = <<>>]
      BY <2>2, EmptyFields DEF PodFits
    <2>3. PodStart => pod'.stage = "compare"
      BY DEF PodStart, Down
    <2>4. ASSUME Compare
          PROVE  \/ pod'.stage \in {"down", "compare"}
                 \/ pod.stage = "compare" /\ pod' = [pod EXCEPT !.stage = "read", !.certs = <<>>]
      <3>1. pod.stage = "compare" /\ IsPod(pod)
        BY <2>4 DEF Compare, Shape, PodShape
      <3>2. CASE pod' = Down
        BY <3>2 DEF Down
      <3>3. ASSUME NEW compared, pod' = [pod EXCEPT !.certs = compared]
            PROVE  pod'.stage = "compare"
        BY <3>1, <3>3 DEF IsPod
      <3> QED BY <2>4, <3>1, <3>2, <3>3 DEF Compare
    <2> QED BY <1>2, <2>1, <2>2, <2>3, <2>4
  <1>3. CASE ReadMaterial
    <2>1. keys' = keys /\ pod.stage = "read"
      BY <1>3 DEF ReadMaterial
    <2>2. CASE pod' = Down
      BY <2>2 DEF PodFits, Down
    <2>3. CASE pod' # Down
      <3>1. pod'.stage = "read"
        BY <1>3, <2>3, PodReads
      <3>2. \A role \in DOMAIN pod'.keys : keys[role] # 0 /\ pod'.keys[role] = keys[role]
        BY <1>3, <2>1, <2>3, PodReads DEF PodFits
      <3>3. \A role \in DOMAIN pod'.certs : keys[role] # 0 /\ pod'.certs[role].key = keys[role]
        BY <1>3, <2>1, <2>3, PodReads DEF PodFits, FilesFit
      <3> QED BY <2>1, <3>1, <3>2, <3>3 DEF PodFits
    <2> QED BY <2>2, <2>3
  <1>4. CASE Serve
    <2>1. /\ pod.stage = "read" /\ keys' = keys
          /\ DOMAIN pod.keys = Roles /\ DOMAIN pod.certs = Roles
          /\ pod'.keys = pod.keys /\ pod'.certs = pod.certs
      BY <1>4 DEF Serve, Shape, PodShape, IsPod
    <2> QED BY <2>1 DEF PodFits
  <1>5. ASSUME ~(PodStart \/ Compare \/ ReadMaterial \/ Serve)
        PROVE  pod'.stage = pod.stage /\ pod'.keys = pod.keys /\ pod'.certs = pod.certs
    BY <1>5, Disturbed DEF Next, vars, Start, RefusePartial, KeepLeaf, Reissue, WriteKey,
       WriteCertificate, Project, Crash, Survey, ReadPublic, Promote
  <1> QED BY <1>1, <1>2, <1>3, <1>4, <1>5

\* A pod that serves signs with the keys of the certificates it shows.
THEOREM EveryPodsKeysFit == Spec => []KeysFit
  <1> DEFINE Inv == Shape /\ FilesFit /\ PodFits
  <1>1. Init => Inv
    <2>1. Init => FilesFit /\ PodFits
      BY DEF Init, FilesFit, PodFits, Nothing, Down
    <2> QED BY <2>1, ShapeInit
  <1>2. Inv /\ [Next]_vars => Inv'
    BY ShapeStep, FilesFitStep, PodFitsStep
  <1>3. Inv => KeysFit
    BY DEF PodFits, KeysFit
  <1> QED BY <1>1, <1>2, <1>3, PTL DEF Spec
-----------------------------------------------------------------------------
(* One organisation.  As long as nobody writes during the cycle, what the     *)
(* reconciler reads the second time is what it has validated.                 *)

ReadSoFar == \A i \in 1..3 : i < reconciler.next => reconciler.read[Order[i]] = public[Order[i]]
OneName(set) == \A role \in Roles : set[role].name = set["issuer"].name

QuietCycle ==
    ~reconciler.disturbed =>
        /\ reconciler.stage \in {"load", "activate"} => ReadSoFar
        /\ reconciler.stage = "activate" => OneName(public)
        /\ reconciler.stage = "promote" => OneName(reconciler.read)

\* The last certificate read of a quiet cycle completes the public set.
LEMMA AllRead ==
    ASSUME Shape, QuietCycle, ~reconciler.disturbed, reconciler.stage \in {"load", "activate"},
           reconciler.next = 3
    PROVE  \A role \in Roles : Taken.read[role] = public[role]
  BY TakenRead, OrderOfRoles DEF QuietCycle, ReadSoFar, Reading

LEMMA QuietRead ==
    ASSUME Shape, QuietCycle, ReadPublic
    PROVE  QuietCycle'
  <1>1. public' = public
    BY DEF ReadPublic
  <1>2. CASE reconciler' = Resting
    BY <1>2, Rests DEF QuietCycle
  <1>3. CASE reconciler.next < 3 /\ reconciler' = Taken
    <2>1. /\ reconciler'.stage = reconciler.stage /\ reconciler'.next = reconciler.next + 1
          /\ reconciler'.disturbed <=> reconciler.disturbed
          /\ \A role \in Roles : reconciler'.read[role] =
                IF role = Order[reconciler.next] THEN public[role] ELSE reconciler.read[role]
      BY <1>3, TakenRead, ReadsOn DEF Reading
    <2>2. reconciler.stage \in {"load", "activate"} /\ reconciler.next \in 1..3
      BY ReadsOn
    <2>3. ASSUME ~reconciler.disturbed PROVE ReadSoFar'
      BY <1>1, <2>1, <2>2, <2>3, OrderOfRoles DEF QuietCycle, ReadSoFar
    <2> QED BY <1>1, <2>1, <2>2, <2>3 DEF QuietCycle, OneName
  <1>4. CASE /\ reconciler.next = 3 /\ reconciler.stage = "activate"
             /\ reconciler' = [Taken EXCEPT !.stage = "promote"]
    <2>1. /\ reconciler'.stage = "promote" /\ reconciler'.read = Taken.read
          /\ reconciler'.disturbed = reconciler.disturbed
      BY <1>4, TakenRead, StageChanged
    <2>2. ASSUME ~reconciler.disturbed PROVE OneName(Taken.read)
      BY <1>4, <2>2, AllRead DEF QuietCycle, OneName, Roles
    <2> QED BY <2>1, <2>2 DEF QuietCycle, OneName
  <1>5. CASE /\ reconciler.next = 3 /\ Loaded(Taken.read)
             /\ reconciler' = [Resting EXCEPT !.stage = "activate",
                                              !.disturbed = reconciler.disturbed]
    <2>1. /\ reconciler'.stage = "activate" /\ reconciler'.next = 1
          /\ reconciler'.disturbed = reconciler.disturbed
      BY <1>5 DEF Resting
    <2>2. reconciler.stage \in {"load", "activate"}
      BY ReadsOn
    <2>3. OneName(Taken.read)
      BY <1>5 DEF Loaded, Expected, OneName
    <2>4. ASSUME ~reconciler.disturbed PROVE OneName(public)
      BY <1>5, <2>2, <2>3, <2>4, AllRead DEF OneName, Roles
    <2> QED BY <1>1, <2>1, <2>4 DEF QuietCycle, ReadSoFar, OneName
  <1> QED BY ReadsOn, <1>2, <1>3, <1>4, <1>5

LEMMA QuietStep ==
    ASSUME Shape, QuietCycle, [Next]_vars
    PROVE  QuietCycle'
  <1>1. CASE ReadPublic
    BY <1>1, QuietRead
  <1>2. CASE Survey
    BY <1>2 DEF Survey, Resting, QuietCycle, ReadSoFar
  <1>3. CASE Promote
    BY <1>3, Rests DEF Promote, QuietCycle
  <1>4. CASE Disturb
    <2>1. CASE reconciler.stage = "idle"
      BY <1>4, <2>1, Disturbed DEF QuietCycle
    <2>2. CASE reconciler.stage # "idle"
      BY <1>4, <2>2, Disturbed DEF QuietCycle
    <2> QED BY <2>1, <2>2
  <1>5. CASE UNCHANGED <<reconciler, public>>
    BY <1>5 DEF QuietCycle, ReadSoFar, OneName
  <1> QED BY <1>1, <1>2, <1>3, <1>4, <1>5
      DEF Next, vars, Start, RefusePartial, KeepLeaf, Reissue, WriteKey, WriteCertificate,
          Project, Crash, PodStart, Compare, ReadMaterial, Serve

\* A release that came about undisturbed names one organisation.
THEOREM ReleaseNamesOne == Spec => []OneOrganisation
  <1> DEFINE Inv == Shape /\ QuietCycle /\ OneOrganisation
  <1>1. Init => Inv
    BY ShapeInit DEF Init, QuietCycle, OneOrganisation, Resting, NoSet
  <1>2. Inv /\ [Next]_vars => Inv'
    <2> SUFFICES ASSUME Inv, [Next]_vars PROVE OneOrganisation'
      BY ShapeStep, QuietStep
    <2>1. CASE Promote
      <3>1. CASE released' = released
        BY <3>1 DEF OneOrganisation
      <3>2. CASE released' = [set |-> reconciler.read, disturbed |-> reconciler.disturbed]
        <4>1. reconciler.stage = "promote"
          BY <2>1 DEF Promote
        <4> QED BY <3>2, <4>1 DEF QuietCycle, OneName, OneOrganisation
      <3> QED BY <2>1, <3>1, <3>2 DEF Promote
    <2>2. CASE released' = released
      BY <2>2 DEF OneOrganisation
    <2> QED BY <2>1, <2>2 DEF Next, vars, Start, RefusePartial, KeepLeaf, Reissue, WriteKey,
         WriteCertificate, Project, Crash, Survey, ReadPublic, PodStart, Compare, ReadMaterial, Serve
  <1>3. Inv => OneOrganisation
    OBVIOUS
  <1> QED BY <1>1, <1>2, <1>3, PTL DEF Spec
===============================================================================
