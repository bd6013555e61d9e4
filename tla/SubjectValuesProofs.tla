------------------------- MODULE SubjectValuesProofs -------------------------
(***************************************************************************)
(* Theorems about SubjectValues, for any citizens, consents, sources and   *)
(* key set versions, every age the list may have, and any number of        *)
(* changes by operators.                                                   *)
(***************************************************************************)
EXTENDS SubjectValues, WellFoundedInduction, TLAPS

-----------------------------------------------------------------------------
(* The inductive invariant.  What a value reads is fixed by the citizen    *)
(* because a grant carries a pair of its own citizen, kept or activated;   *)
(* and a consent follows the list because the copy it looked at is the     *)
(* list, or was fetched no later than the list last changed.               *)

Stages == {"new", "activate", "list", "fetch", "pseudonym", "identity", "create"} \cup Over
Working == {"pseudonym", "identity", "create"}

PairOf(c) == [bsn |-> c, seed |-> c]
Named(c, form, s, v) == IF form = "identity" THEN c ELSE <<c, s, v>>
Value == [recipient : Source, version : Version, reads : Citizen \cup (Citizen \X Source \X Version)]
Made == UNION {[S -> Value] : S \in SUBSET Source}

Cell ==
  [at : Stages, owner : Citizen \cup {None}, started : Nat, list : SUBSET Source,
   pair : {PairOf(c) : c \in Citizen} \cup {None}, made : [Forms -> Made]]

\* Every value in the tables of x names the owner of x.
Names(x) ==
  \A form \in Forms : \A s \in DOMAIN x.made[form] :
    /\ x.made[form][s].recipient = s
    /\ x.made[form][s].reads = Named(x.owner, form, s, x.made[form][s].version)

\* The BSN is made for the sources of the list, and before the token for all.
ForTheListed(x) ==
  /\ x.at = "new" => \A form \in Forms : DOMAIN x.made[form] = {}
  /\ x.at \in {"new", "activate", "list", "fetch", "pseudonym"} => DOMAIN x.made["identity"] = {}
  /\ x.at = "identity" => DOMAIN x.made["identity"] \subseteq x.list
  /\ x.at = "create" => DOMAIN x.made["identity"] = x.list

CellFits(x) ==
  /\ x.at \notin {"new", "refused", "failed"} => x.owner \in Citizen
  /\ x.at \in {"list", "fetch"} \cup Working => x.pair = PairOf(x.owner)
  /\ Names(x) /\ ForTheListed(x)

\* What x owes to the list it looked at, when BSNk's was older than that.
Follows(x) ==
  changedAt + MaxAge < x.started =>
    /\ x.at \in Working => x.list = authorised
    /\ x.at # "refused"
    /\ x.at = "granted" => DOMAIN x.made["identity"] = authorised

CellsFit ==
  /\ grant \in [Grant -> Cell]
  /\ \A g \in Grant : CellFits(grant[g]) /\ grant[g].started <= now /\ Follows(grant[g])

KeptFits ==
  /\ DOMAIN kept = Citizen
  /\ \A c \in Citizen : kept[c] # None => kept[c] = PairOf(c)

CopyFits == listed # None => listed = authorised \/ fetched <= changedAt

Tables == DOMAIN files = Source /\ DOMAIN loaded = Source

IInv == TypeOK /\ CellsFit /\ KeptFits /\ CopyFits /\ Tables

-----------------------------------------------------------------------------
(* Grants.                                                                 *)

LEMMA FreshFits ==
  /\ Fresh \in Cell /\ CellFits(Fresh) /\ Fresh.started = 0 /\ Fresh.at = "new"
  /\ DOMAIN Fresh.made["identity"] = {}
  <1>1. NoValues \in Made /\ DOMAIN NoValues = {}
    <2>1. NoValues \in [{} -> Value]
      BY DEF NoValues
    <2> QED
      BY <2>1 DEF Made, NoValues
  <1>2. [form \in Forms |-> NoValues] \in [Forms -> Made]
    BY <1>1
  <1>3. Fresh \in Cell
    BY <1>2 DEF Fresh, Cell, Stages
  <1>4. /\ Fresh.at = "new" /\ Fresh.started = 0
        /\ \A form \in Forms : Fresh.made[form] = NoValues
    BY DEF Fresh
  <1>5. DOMAIN Fresh.made["identity"] = {} /\ \A form \in Forms : DOMAIN Fresh.made[form] = {}
    BY <1>1, <1>4 DEF Forms
  <1>6. CellFits(Fresh)
    BY <1>1, <1>4, <1>5 DEF CellFits, Names, ForTheListed, Working
  <1> QED
    BY <1>3, <1>4, <1>5, <1>6

LEMMA EndedFits ==
  ASSUME IInv, NEW g \in Grant, NEW at \in {"refused", "failed"}
  PROVE  /\ Ended(g, at) \in Cell /\ CellFits(Ended(g, at)) /\ Ended(g, at).at = at
         /\ Ended(g, at).started = IF at = "failed" THEN 0 ELSE grant[g].started
  <1> DEFINE n == IF at = "failed" THEN 0 ELSE grant[g].started
             x == [Fresh EXCEPT !.at = at, !.started = n]
  <1>1. n \in Nat
    BY DEF IInv, CellsFit, Cell
  <1>2. Ended(g, at) = x
    BY DEF Ended
  <1> HIDE DEF n
  <1>3. x \in Cell /\ x.at = at /\ x.started = n /\ x.made = Fresh.made /\ x.owner = Fresh.owner
    BY <1>1, FreshFits DEF Cell, Stages, Over
  <1> HIDE DEF x
  <1>4. CellFits(x)
    BY <1>3, FreshFits DEF CellFits, Names, ForTheListed, Working
  <1> QED
    BY <1>2, <1>3, <1>4 DEF n

\* One grant becomes x; the copy of the list and its lock may change with it.
LEMMA GrantMoves ==
  ASSUME IInv, NEW g \in Grant, NEW x \in Cell,
         grant' = [grant EXCEPT ![g] = x],
         CellFits(x), x.started <= now, Follows(x),
         UNCHANGED <<now, bsnk, version, holders, changes>>,
         KeptFits', CopyFits', listed' \in (SUBSET Source) \cup {None}, fetched' \in 0..now,
         \/ lock' = lock /\ x.at # "fetch" /\ grant[g].at # "fetch"
         \/ lock = None /\ lock' = g /\ x.at = "fetch"
         \/ grant[g].at = "fetch" /\ lock' = None /\ x.at # "fetch"
  PROVE  IInv'
  <1>1. /\ grant' \in [Grant -> Cell] /\ grant'[g] = x
        /\ \A h \in Grant : h # g => grant'[h] = grant[h]
    BY DEF IInv, CellsFit
  <1>2. CellsFit'
    <2> SUFFICES ASSUME NEW h \in Grant
                 PROVE  CellFits(grant'[h]) /\ grant'[h].started <= now' /\ Follows(grant[h])'
      BY <1>1 DEF CellsFit
    <2>1. CASE h = g
      BY <1>1, <2>1 DEF Follows, bsnk
    <2>2. CASE h # g
      BY <1>1, <2>2 DEF IInv, CellsFit, Follows, bsnk
    <2> QED
      BY <2>1, <2>2
  <1>3. \A h \in Grant : (lock' = h) = (grant'[h].at = "fetch")
    <2>1. \A h \in Grant : (lock = h) <=> (grant[h].at = "fetch")
      BY DEF IInv, TypeOK
    <2>2. \A h \in Grant : h # None
      BY SubjectAssumption
    <2>3. \A h \in Grant : (lock' = h) <=> (grant'[h].at = "fetch")
      BY <1>1, <2>1, <2>2
    <2> QED
      BY <2>3
  <1>4. TypeOK'
    BY <1>3 DEF IInv, TypeOK, bsnk, holders
  <1>5. Tables'
    BY DEF IInv, Tables, holders
  <1> QED
    BY <1>2, <1>4, <1>5 DEF IInv

LEMMA FailedFits ==
  ASSUME IInv, NEW g \in Grant, Failed(g),
         UNCHANGED <<now, bsnk, version, listed, fetched, kept, holders, changes>>,
         \/ lock' = lock /\ grant[g].at # "fetch"
         \/ grant[g].at = "fetch" /\ lock' = None
  PROVE  IInv'
  <1> DEFINE x == Ended(g, "failed")
  <1>1. x \in Cell /\ CellFits(x) /\ x.at = "failed" /\ x.started = 0
    BY EndedFits
  <1>2. grant' = [grant EXCEPT ![g] = x]
    BY DEF Failed
  <1> HIDE DEF x
  <1>3. 0 <= now /\ Follows(x)
    BY <1>1, SubjectAssumption DEF IInv, TypeOK, Follows
  <1>4. KeptFits' /\ CopyFits' /\ listed' \in (SUBSET Source) \cup {None} /\ fetched' \in 0..now
    BY DEF IInv, KeptFits, CopyFits, TypeOK, bsnk
  <1> QED
    BY <1>1, <1>2, <1>3, <1>4, GrantMoves

\* A grant that only goes on: its tables stay, or it has none yet.
LEMMA CellStep ==
  ASSUME IInv, NEW g \in Grant
  PROVE  /\ grant[g] \in Cell /\ CellFits(grant[g]) /\ Follows(grant[g])
         /\ grant[g].started \in Nat /\ grant[g].started <= now /\ now \in Nat
  BY DEF IInv, CellsFit, Cell, TypeOK

LEMMA BeginFits ==
  ASSUME IInv, NEW g \in Grant, Begin(g)
  PROVE  IInv'
  <1>1. grant[g].at = "new" /\ UNCHANGED <<now, bsnk, version, copy, kept, holders, changes>>
    BY DEF Begin
  <1>2. PICK c \in Citizen :
          grant' = [grant EXCEPT ![g].owner = c, ![g].pair = kept[c],
                                 ![g].at = IF kept[c] = None THEN "activate" ELSE "list"]
    BY DEF Begin
  <1> DEFINE x == [grant[g] EXCEPT !.owner = c, !.pair = kept[c],
                                   !.at = IF kept[c] = None THEN "activate" ELSE "list"]
  <1>3. grant' = [grant EXCEPT ![g] = x]
    BY <1>2 DEF IInv, CellsFit
  <1>4. /\ x \in Cell /\ x.owner = c /\ x.pair = kept[c] /\ x.started = grant[g].started
        /\ x.at \in {"activate", "list"} /\ (x.at = "list" => kept[c] # None)
        /\ x.made = grant[g].made
    BY CellStep DEF IInv, KeptFits, Cell, Stages
  <1> HIDE DEF x
  <1>5. \A form \in Forms : DOMAIN x.made[form] = {}
    BY <1>1, <1>4, CellStep DEF CellFits, ForTheListed
  <1>6. CellFits(x)
    BY <1>4, <1>5 DEF CellFits, Names, ForTheListed, Working, Forms, IInv, KeptFits
  <1>7. x.started <= now /\ Follows(x)
    BY <1>4, CellStep DEF Follows, Working
  <1>8. KeptFits' /\ CopyFits' /\ listed' \in (SUBSET Source) \cup {None} /\ fetched' \in 0..now
    BY <1>1 DEF IInv, KeptFits, CopyFits, TypeOK, bsnk, copy
  <1> QED
    BY <1>1, <1>3, <1>4, <1>6, <1>7, <1>8, GrantMoves DEF copy

LEMMA ActivateFits ==
  ASSUME IInv, NEW g \in Grant, Activate(g)
  PROVE  IInv'
  <1> DEFINE c == grant[g].owner
             x == [grant[g] EXCEPT !.at = "list", !.pair = PairOf(c)]
  <1>1. /\ grant[g].at = "activate" /\ UNCHANGED <<now, bsnk, version, copy, holders, changes>>
        /\ kept' = [kept EXCEPT ![c] = IF @ = None THEN PairOf(c) ELSE @]
        /\ grant' = [grant EXCEPT ![g].at = "list", ![g].pair = PairOf(c)]
    BY DEF Activate, Activated, Seed, PairOf
  <1>2. c \in Citizen
    BY <1>1, CellStep DEF CellFits
  <1>3. grant' = [grant EXCEPT ![g] = x]
    BY <1>1 DEF IInv, CellsFit
  <1>4. /\ x \in Cell /\ x.owner = c /\ x.pair = PairOf(c) /\ x.started = grant[g].started
        /\ x.at = "list" /\ x.made = grant[g].made
    BY <1>2, CellStep DEF Cell, Stages
  <1>5. KeptFits'
    BY <1>1, <1>2 DEF IInv, KeptFits
  <1> HIDE DEF x
  <1>6. CellFits(x)
    BY <1>1, <1>2, <1>4, CellStep DEF CellFits, Names, ForTheListed, Working
  <1>7. x.started <= now /\ Follows(x)
    BY <1>4, CellStep DEF Follows, Working
  <1>8. CopyFits' /\ listed' \in (SUBSET Source) \cup {None} /\ fetched' \in 0..now
    BY <1>1 DEF IInv, CopyFits, TypeOK, bsnk, copy
  <1> QED
    BY <1>1, <1>3, <1>4, <1>5, <1>6, <1>7, <1>8, GrantMoves DEF copy

\* A copy within its age when BSNk's list is older than that is the list.
LEMMA UseCopyFits ==
  ASSUME IInv, NEW g \in Grant, UseCopy(g)
  PROVE  IInv'
  <1> DEFINE x == [grant[g] EXCEPT !.at = "pseudonym", !.started = now, !.list = listed]
  <1>1. /\ grant[g].at = "list" /\ listed # None /\ now - fetched < MaxAge
        /\ UNCHANGED <<now, bsnk, version, copy, kept, holders, changes>>
        /\ grant' = [grant EXCEPT ![g].at = "pseudonym", ![g].started = now, ![g].list = listed]
    BY DEF UseCopy, InAge
  <1>2. grant' = [grant EXCEPT ![g] = x]
    BY <1>1 DEF IInv, CellsFit
  <1>3. /\ x \in Cell /\ x.owner = grant[g].owner /\ x.pair = grant[g].pair /\ x.started = now
        /\ x.at = "pseudonym" /\ x.made = grant[g].made /\ x.list = listed
    <2>1. listed \in SUBSET Source
      BY <1>1 DEF IInv, TypeOK
    <2> QED
      BY <2>1, CellStep DEF Cell, Stages
  <1> HIDE DEF x
  <1>4. CellFits(x)
    BY <1>1, <1>3, CellStep DEF CellFits, Names, ForTheListed, Working
  <1>5. now \in Nat /\ changedAt \in Nat /\ fetched \in 0..now /\ MaxAge \in Nat
    BY SubjectAssumption DEF IInv, TypeOK
  <1>6. changedAt + MaxAge < now => ~(fetched <= changedAt)
    BY <1>1, <1>5
  <1>7. x.started <= now /\ Follows(x)
    BY <1>1, <1>3, <1>5, <1>6 DEF Follows, IInv, CopyFits, Working
  <1>8. KeptFits' /\ CopyFits' /\ listed' \in (SUBSET Source) \cup {None} /\ fetched' \in 0..now
    BY <1>1 DEF IInv, KeptFits, CopyFits, TypeOK, bsnk, copy
  <1> QED
    BY <1>1, <1>2, <1>3, <1>4, <1>7, <1>8, GrantMoves DEF copy

LEMMA FetchFits ==
  ASSUME IInv, NEW g \in Grant, Fetch(g)
  PROVE  IInv'
  <1> DEFINE x == [grant[g] EXCEPT !.at = "fetch", !.started = now]
  <1>1. /\ grant[g].at = "list" /\ lock = None /\ lock' = g
        /\ UNCHANGED <<now, bsnk, version, listed, fetched, kept, holders, changes>>
        /\ grant' = [grant EXCEPT ![g].at = "fetch", ![g].started = now]
    BY DEF Fetch
  <1>2. grant' = [grant EXCEPT ![g] = x]
    BY <1>1 DEF IInv, CellsFit
  <1>3. /\ x \in Cell /\ x.owner = grant[g].owner /\ x.pair = grant[g].pair /\ x.started = now
        /\ x.at = "fetch" /\ x.made = grant[g].made
    BY <1>1, CellStep DEF Cell, Stages
  <1> HIDE DEF x
  <1>4. CellFits(x)
    BY <1>1, <1>3, CellStep DEF CellFits, Names, ForTheListed, Working
  <1>5. x.started <= now /\ Follows(x)
    BY <1>3, CellStep DEF Follows, Working
  <1>6. KeptFits' /\ CopyFits' /\ listed' \in (SUBSET Source) \cup {None} /\ fetched' \in 0..now
    BY <1>1 DEF IInv, KeptFits, CopyFits, TypeOK, bsnk
  <1> QED
    BY <1>1, <1>2, <1>3, <1>4, <1>5, <1>6, GrantMoves

LEMMA FetchedFits ==
  ASSUME IInv, NEW g \in Grant, Fetched(g)
  PROVE  IInv'
  <1> DEFINE x == [grant[g] EXCEPT !.at = "pseudonym", !.list = authorised]
  <1>1. /\ grant[g].at = "fetch" /\ lock' = None /\ listed' = authorised /\ fetched' = grant[g].started
        /\ UNCHANGED <<now, bsnk, version, kept, holders, changes>>
        /\ grant' = [grant EXCEPT ![g].at = "pseudonym", ![g].list = authorised]
    BY DEF Fetched
  <1>2. grant' = [grant EXCEPT ![g] = x]
    BY <1>1 DEF IInv, CellsFit
  <1>3. /\ x \in Cell /\ x.owner = grant[g].owner /\ x.pair = grant[g].pair
        /\ x.started = grant[g].started
        /\ x.at = "pseudonym" /\ x.made = grant[g].made /\ x.list = authorised
    BY ZenonT(60), <1>1, CellStep DEF Cell, Stages, IInv, TypeOK
  <1> HIDE DEF x
  <1>4. CellFits(x)
    BY <1>1, <1>3, CellStep DEF CellFits, Names, ForTheListed, Working
  <1>5. x.started <= now /\ Follows(x)
    BY <1>3, CellStep DEF Follows, Working
  <1>6. /\ KeptFits' /\ CopyFits'
        /\ listed' \in (SUBSET Source) \cup {None} /\ fetched' \in 0..now
    BY <1>1, CellStep DEF IInv, KeptFits, CopyFits, TypeOK, bsnk
  <1> QED
    BY <1>1, <1>2, <1>3, <1>4, <1>5, <1>6, GrantMoves

LEMMA CreateFits ==
  ASSUME IInv, NEW g \in Grant, Create(g)
  PROVE  IInv'
  <1> DEFINE x == [grant[g] EXCEPT !.at = "granted", !.pair = None, !.list = {}]
  <1>1. /\ grant[g].at = "create" /\ UNCHANGED <<now, bsnk, version, copy, kept, holders, changes>>
        /\ grant' = [grant EXCEPT ![g].at = "granted", ![g].pair = None, ![g].list = {}]
    BY DEF Create
  <1>2. grant' = [grant EXCEPT ![g] = x]
    BY <1>1 DEF IInv, CellsFit
  <1>3. /\ x \in Cell /\ x.owner = grant[g].owner /\ x.started = grant[g].started
        /\ x.at = "granted" /\ x.made = grant[g].made
    BY <1>1, CellStep DEF Cell, Stages, Over
  <1> HIDE DEF x
  <1>4. CellFits(x)
    BY <1>1, <1>3, CellStep DEF CellFits, Names, ForTheListed, Working
  <1>5. x.started <= now /\ Follows(x)
    BY <1>1, <1>3, CellStep DEF Follows, Working, CellFits, ForTheListed
  <1>6. KeptFits' /\ CopyFits' /\ listed' \in (SUBSET Source) \cup {None} /\ fetched' \in 0..now
    BY <1>1 DEF IInv, KeptFits, CopyFits, TypeOK, bsnk, copy
  <1> QED
    BY <1>1, <1>2, <1>3, <1>4, <1>5, <1>6, GrantMoves DEF copy

\* What BSNk makes for a party is a value for it, and names the citizen.
LEMMA EncryptedNames ==
  ASSUME NEW c \in Citizen, NEW form \in Forms, NEW s \in Source, NEW v \in Version
  PROVE  LET e == Encrypted(form, PairOf(c), s, v)
         IN  /\ e \in Value /\ e.recipient = s
             /\ e.reads = Named(c, form, s, e.version)
  BY DEF Encrypted, PairOf, PseudonymValue, Named, Value

LEMMA TransformFits ==
  ASSUME IInv, NEW g \in Grant, NEW form \in Forms, Transform(g, form)
  PROVE  IInv'
  <1> DEFINE made == grant[g].made[form]
             c == grant[g].owner
  <1>1. /\ grant[g].at = form /\ form \in Working
        /\ UNCHANGED <<now, bsnk, version, copy, kept, holders, changes>>
    BY DEF Transform, Forms, Working
  <1>2. PICK batch \in Batches(g, form) :
          grant' = [grant EXCEPT ![g] =
            IF Served(form, batch)
            THEN [@ EXCEPT !.at = After(g, form, DOMAIN made \cup batch),
                           !.made[form] = [s \in DOMAIN made \cup batch |->
                              IF s \in batch THEN Encrypted(form, grant[g].pair, s, version[s])
                              ELSE made[s]]]
            ELSE Ended(g, "refused")]
    BY DEF Transform
  <1>3. batch \subseteq Parties(g, form) /\ Parties(g, form) \subseteq Source
    BY DEF Batches, Parties
  <1>4. KeptFits' /\ CopyFits' /\ listed' \in (SUBSET Source) \cup {None} /\ fetched' \in 0..now
    BY <1>1 DEF IInv, KeptFits, CopyFits, TypeOK, bsnk, copy
  <1>5. CASE ~Served(form, batch)
    <2> DEFINE x == Ended(g, "refused")
    <2>1. grant' = [grant EXCEPT ![g] = x]
      BY <1>2, <1>5
    <2>2. x \in Cell /\ CellFits(x) /\ x.at = "refused" /\ x.started = grant[g].started
      BY EndedFits
    <2> HIDE DEF x
    <2>3. form = "identity" /\ ~(batch \subseteq authorised)
      BY <1>5 DEF Served
    <2>4. ~(changedAt + MaxAge < grant[g].started)
      BY <1>1, <1>3, <2>3, CellStep DEF Follows, Parties
    <2>5. x.started <= now /\ Follows(x)
      BY <2>2, <2>4, CellStep DEF Follows
    <2> QED
      BY <1>1, <1>4, <2>1, <2>2, <2>5, GrantMoves DEF copy, Forms
  <1>6. CASE Served(form, batch)
    <2> DEFINE done == DOMAIN made \cup batch
               table == [s \in done |-> IF s \in batch THEN Encrypted(form, PairOf(c), s, version[s])
                                        ELSE made[s]]
               after == After(g, form, done)
               tables == [grant[g].made EXCEPT ![form] = table]
               x == [grant[g] EXCEPT !.at = after, !.made = tables]
    <2>1. /\ c \in Citizen /\ grant[g].pair = PairOf(c) /\ Names(grant[g])
          /\ ForTheListed(grant[g])
      BY <1>1, CellStep DEF CellFits, Working
    <2>2. grant' = [grant EXCEPT ![g] = x]
      BY <1>2, <1>6, <2>1
    <2>3. made \in Made /\ DOMAIN made \subseteq Source /\ \A s \in DOMAIN made : made[s] \in Value
      BY CellStep DEF Cell, Made
    <2>4. /\ table \in Made /\ DOMAIN table = done
          /\ \A s \in done : /\ table[s].recipient = s
                             /\ table[s].reads = Named(c, form, s, table[s].version)
      <3>1. \A s \in Source : version[s] \in Version
        BY DEF IInv, TypeOK
      <3>2. \A s \in batch : LET e == Encrypted(form, PairOf(c), s, version[s])
                             IN  /\ e \in Value /\ e.recipient = s
                                 /\ e.reads = Named(c, form, s, e.version)
        BY <1>3, <2>1, <3>1, EncryptedNames
      <3>3. \A s \in DOMAIN made : /\ made[s].recipient = s
                                   /\ made[s].reads = Named(c, form, s, made[s].version)
        BY <2>1 DEF Names
      <3>4. done \in SUBSET Source
        BY <1>3, <2>3
      <3>5. \A s \in done : /\ table[s] \in Value /\ table[s].recipient = s
                            /\ table[s].reads = Named(c, form, s, table[s].version)
        BY <2>3, <3>2, <3>3
      <3>6. table \in [done -> Value]
        BY <3>5
      <3> QED
        BY <3>4, <3>5, <3>6 DEF Made
    <2>5. /\ after \in Working
          /\ after = "pseudonym" => form = "pseudonym"
          /\ after = "create" /\ form = "identity" => done = Parties(g, "identity")
          /\ after = "create" /\ form = "pseudonym" => Parties(g, "identity") = {}
      BY DEF After, Forms, Working
    <2> HIDE DEF after, table
    <2>6. /\ tables \in [Forms -> Made] /\ tables[form] = table
          /\ \A f \in Forms : f # form => tables[f] = grant[g].made[f]
      BY <2>4, CellStep DEF Cell
    <2> HIDE DEF tables
    <2>7. /\ x \in Cell /\ x.at = after /\ x.made = tables /\ x.owner = c /\ x.pair = grant[g].pair
          /\ x.started = grant[g].started /\ x.list = grant[g].list
      BY <2>5, <2>6, CellStep DEF Cell, Stages, Working
    <2> HIDE DEF x
    <2>8. Names(x)
      BY <2>1, <2>4, <2>6, <2>7 DEF Names
    <2>9. ForTheListed(x)
      <3>1. grant[g].list \subseteq Source /\ Parties(g, "identity") = grant[g].list
        BY CellStep DEF Cell, Parties
      <3>2. CASE form = "pseudonym"
        <4>1. DOMAIN x.made["identity"] = {}
          BY <1>1, <2>1, <2>6, <2>7, <3>2 DEF ForTheListed, Forms
        <4> QED
          BY <2>5, <2>7, <3>1, <3>2, <4>1 DEF ForTheListed, Working
      <3>3. CASE form = "identity"
        <4>1. DOMAIN x.made["identity"] = done /\ done \subseteq grant[g].list
          BY <1>1, <1>3, <2>1, <2>4, <2>6, <2>7, <3>1, <3>3 DEF ForTheListed
        <4> QED
          BY <2>5, <2>7, <3>1, <3>3, <4>1 DEF ForTheListed, Working
      <3> QED
        BY <3>2, <3>3 DEF Forms
    <2>10. CellFits(x)
      BY <2>1, <2>5, <2>7, <2>8, <2>9 DEF CellFits, Working
    <2>11. x.started <= now /\ Follows(x)
      BY <1>1, <2>5, <2>7, CellStep DEF Follows, Working
    <2>12. x.at # "fetch" /\ grant[g].at # "fetch"
      BY <1>1, <2>5, <2>7 DEF Working
    <2> QED
      BY <1>1, <1>4, <2>2, <2>7, <2>10, <2>11, <2>12, GrantMoves DEF copy
  <1> QED
    BY <1>5, <1>6

LEMMA GrantFits ==
  ASSUME IInv, NEW g \in Grant, GrantStep(g)
  PROVE  IInv'
  <1>1. FetchFails(g) => IInv'
    BY FailedFits DEF FetchFails
  <1>2. CallFails(g) => IInv'
    BY FailedFits DEF CallFails, copy
  <1> QED
    BY <1>1, <1>2, BeginFits, ActivateFits, UseCopyFits, FetchFits, FetchedFits, TransformFits,
       CreateFits DEF GrantStep

-----------------------------------------------------------------------------
(* Time and operators.                                                     *)

LEMMA TickFits ==
  ASSUME IInv, Tick
  PROVE  IInv'
  <1>1. /\ now' = now + 1 /\ now < MaxTime
        /\ UNCHANGED <<bsnk, version, copy, grant, kept, holders, changes>>
    BY DEF Tick
  <1>2. now \in Nat /\ MaxTime \in Nat
    BY SubjectAssumption DEF IInv, TypeOK
  <1>3. TypeOK'
    BY <1>1, <1>2 DEF IInv, TypeOK, bsnk, copy, holders
  <1>4. CellsFit'
    <2>1. \A g \in Grant : grant[g].started \in Nat
      BY CellStep
    <2> QED
      BY <1>1, <1>2, <2>1 DEF IInv, CellsFit, Follows, bsnk
  <1>5. KeptFits' /\ CopyFits' /\ Tables'
    BY <1>1 DEF IInv, KeptFits, CopyFits, Tables, bsnk, copy, holders
  <1> QED
    BY <1>3, <1>4, <1>5 DEF IInv

\* After a change at BSNk no consent has looked at the list later.
LEMMA RelistFits ==
  ASSUME IInv, NEW A \in SUBSET Source, Relist(A)
  PROVE  IInv'
  <1>1. /\ authorised' = A /\ changedAt' = now
        /\ UNCHANGED <<now, version, copy, grant, kept, holders>>
    BY DEF Relist
  <1>2. now \in Nat /\ MaxAge \in Nat /\ fetched \in 0..now
    BY SubjectAssumption DEF IInv, TypeOK
  <1>3. TypeOK'
    BY <1>1, <1>2 DEF IInv, TypeOK, copy, holders
  <1>4. \A g \in Grant : Follows(grant[g])'
    <2>1. \A g \in Grant : grant[g].started \in Nat /\ grant[g].started <= now
      BY CellStep
    <2>2. \A g \in Grant : ~(now + MaxAge < grant[g].started)
      BY <1>2, <2>1
    <2> QED
      BY <1>1, <2>2 DEF Follows
  <1>5. CellsFit'
    BY <1>1, <1>4 DEF IInv, CellsFit
  <1>6. KeptFits' /\ CopyFits' /\ Tables'
    BY <1>1, <1>2 DEF IInv, KeptFits, CopyFits, Tables, copy, holders
  <1> QED
    BY <1>3, <1>5, <1>6 DEF IInv

LEMMA RestartPortalFits ==
  ASSUME IInv, NEW w \in [Source -> Version], RestartPortal(w)
  PROVE  IInv'
  <1>1. /\ version' = w /\ listed' = None /\ fetched' = 0 /\ lock' = None
        /\ grant' = [g \in Grant |-> IF grant[g].at \in Over \cup {"new"} THEN grant[g]
                                     ELSE Ended(g, "failed")]
        /\ UNCHANGED <<now, bsnk, kept, holders>>
    BY DEF RestartPortal
  <1>2. now \in Nat /\ MaxAge \in Nat /\ changedAt \in Nat
    BY SubjectAssumption DEF IInv, TypeOK
  <1>3. ASSUME NEW g \in Grant
        PROVE  /\ grant'[g] \in Cell /\ CellFits(grant'[g]) /\ grant'[g].started <= now
               /\ Follows(grant[g])' /\ grant'[g].at # "fetch"
    <2>1. CASE grant[g].at \in Over \cup {"new"}
      BY <1>1, <2>1, CellStep DEF Follows, bsnk, Over
    <2>2. CASE grant[g].at \notin Over \cup {"new"}
      <3>1. grant'[g] = Ended(g, "failed")
        BY <1>1, <2>2
      <3> QED
        BY <1>1, <1>2, <3>1, EndedFits DEF Follows, bsnk
    <2> QED
      BY <2>1, <2>2
  <1>4. CellsFit'
    BY <1>1, <1>3 DEF CellsFit
  <1>5. TypeOK'
    <2>1. \A g \in Grant : (lock' = g) = (grant'[g].at = "fetch")
      BY <1>1, <1>3, SubjectAssumption
    <2> QED
      BY <1>1, <1>2, <2>1 DEF IInv, TypeOK, bsnk, holders
  <1>6. KeptFits' /\ CopyFits' /\ Tables'
    BY <1>1 DEF IInv, KeptFits, CopyFits, Tables, holders
  <1> QED
    BY <1>4, <1>5, <1>6 DEF IInv

\* BSNk makes keys for the party that asks.
LEMMA KeysName ==
  ASSUME NEW s, NEW v
  PROVE  \A k \in DVKeys(s, v) : k.recipient = s
  <1>1. \A type : Key(type, s, v).recipient = s
    BY DEF Key
  <1>2. ASSUME NEW form, NEW k \in Required(form, s, v) PROVE k.recipient = s
    <2>1. \E type : k = Key(type, s, v)
      BY Zenon DEF Required
    <2> QED
      BY <1>1, <2>1
  <1>3. \A k \in Required("pseudonym", s, v) \cup Required("identity", s, v) : k.recipient = s
    BY <1>2
  <1>4. DVKeys(s, v) \subseteq Required("pseudonym", s, v) \cup Required("identity", s, v)
    BY DEF DVKeys
  <1> QED
    BY <1>3, <1>4

LEMMA KeysFit ==
  ASSUME IInv, NEW s \in Source, NEW v \in Version,
         RequestKeys(s, v) \/ DropKeys(s, v) \/ RestartSidecar(s)
  PROVE  IInv'
  <1>1. UNCHANGED <<now, bsnk, version, copy, grant, kept>>
    BY DEF RequestKeys, DropKeys, RestartSidecar
  <1>2. \A k \in DVKeys(s, v) : k.recipient = s
    BY KeysName
  <1>3. /\ DOMAIN files' = Source /\ DOMAIN loaded' = Source
        /\ \A t \in Source : \A k \in files'[t] \cup loaded'[t] : k.recipient = t
    <2>1. CASE RequestKeys(s, v)
      BY <1>2, <2>1 DEF RequestKeys, IInv, TypeOK, Tables
    <2>2. CASE DropKeys(s, v)
      BY <2>2 DEF DropKeys, IInv, TypeOK, Tables
    <2>3. CASE RestartSidecar(s)
      BY <2>3 DEF RestartSidecar, LoadKeys, IInv, TypeOK, Tables
    <2> QED
      BY <2>1, <2>2, <2>3
  <1>4. TypeOK' /\ Tables'
    BY <1>1, <1>3 DEF IInv, TypeOK, Tables, bsnk, copy
  <1>5. CellsFit'
    BY <1>1 DEF IInv, CellsFit, Follows, bsnk
  <1>6. KeptFits' /\ CopyFits'
    BY <1>1 DEF IInv, KeptFits, CopyFits, bsnk, copy
  <1> QED
    BY <1>4, <1>5, <1>6 DEF IInv

LEMMA InvInit == Init => IInv
  <1> SUFFICES ASSUME Init PROVE IInv
    OBVIOUS
  <1>1. First \in Version
    <2>1. PICK v \in Version : \A w \in Version : ~ (<<w, v>> \in OpToRel(<, Nat))
      BY SubjectAssumption, NatLessThanWellFounded, WFMin
    <2>2. \A w \in Version : v <= w
      <3> SUFFICES ASSUME NEW w \in Version PROVE v <= w
        OBVIOUS
      <3>1. v \in Nat /\ w \in Nat /\ ~ (w < v)
        BY <2>1, SubjectAssumption DEF OpToRel
      <3> QED
        BY <3>1
    <2> QED
      BY <2>2 DEF First
  <1>2. TypeOK
    <2>1. \A s \in Source : \A k \in files[s] \cup loaded[s] : k.recipient = s
      BY KeysName DEF Init
    <2>2. \A g \in Grant : (lock = g) = (grant[g].at = "fetch")
      BY FreshFits, SubjectAssumption DEF Init
    <2> QED
      BY <1>1, <2>1, <2>2, SubjectAssumption DEF Init, TypeOK
  <1>3. CellsFit
    <2>1. Follows(Fresh)
      BY FreshFits, SubjectAssumption DEF Init, Follows
    <2> QED
      BY <2>1, FreshFits DEF Init, CellsFit
  <1>4. KeptFits /\ CopyFits /\ Tables
    BY DEF Init, KeptFits, CopyFits, Tables
  <1> QED
    BY <1>2, <1>3, <1>4 DEF IInv

LEMMA InvStep == IInv /\ [Next]_vars => IInv'
  <1> SUFFICES ASSUME IInv, [Next]_vars PROVE IInv'
    OBVIOUS
  <1>1. ASSUME NEW g \in Grant, GrantStep(g) PROVE IInv'
    BY <1>1, GrantFits
  <1>2. ASSUME NEW s \in Source, RestartSidecar(s) PROVE IInv'
    BY <1>2, KeysFit, SubjectAssumption
  <1>3. CASE Operate
    BY <1>2, <1>3, RelistFits, RestartPortalFits, KeysFit DEF Operate
  <1>4. CASE UNCHANGED vars
    <2>1. UNCHANGED <<now, bsnk, version, copy, grant, kept, holders>>
      BY <1>4 DEF vars
    <2> QED
      BY <2>1 DEF IInv, TypeOK, CellsFit, Follows, KeptFits, CopyFits, Tables, bsnk, copy, holders
  <1> QED
    BY <1>1, <1>3, <1>4, TickFits DEF Next

-----------------------------------------------------------------------------
(* The theorems.                                                           *)

(* Every variable keeps its type: the mutex of the portal's copy is held   *)
(* exactly by the grant that is fetching the list (portal.go,              *)
(* authorisedForBSN), and no source has keys of another.                   *)
THEOREM TypeCorrect == Spec => []TypeOK
  <1>1. IInv => TypeOK
    BY DEF IInv
  <1> QED
    BY <1>1, InvInit, InvStep, PTL DEF Spec

(* A consent that looked at the list more than MaxAge after BSNk changed   *)
(* it is not refused, and names the BSN to the sources on it and to no     *)
(* other (portal.go, authorisedForBSN and GiveConsent), for every MaxAge   *)
(* and however fetches, changes and restarts fall together.                *)
THEOREM ListIsFollowed == Spec => []FollowsTheList
  <1>1. IInv => FollowsTheList
    BY DEF IInv, CellsFit, Follows, FollowsTheList, Granted
  <1> QED
    BY <1>1, InvInit, InvStep, PTL DEF Spec

\* What a source reads, it reads from a value that names the citizen.
LEMMA ReadsNamed ==
  ASSUME IInv, NEW g \in Grant, NEW s \in Source, NEW form \in Forms
  PROVE  \/ Reads(g, s, form) = None
         \/ Reads(g, s, form) = Named(grant[g].owner, form, s, grant[g].made[form][s].version)
  <1>1. Names(grant[g])
    BY CellStep DEF CellFits
  <1> QED
    BY <1>1 DEF Reads, Names

(* A pseudonym is the same for one citizen, source and version and differs *)
(* for any other, and an identity is the citizen's                         *)
(* (services/bsnk-mock), also when two first consents both activated the   *)
(* citizen and the register kept the pair of one of them.                  *)
THEOREM ValuesNameOne == Spec => []ValuesNameTheCitizen
  <1>1. IInv => ValuesNameTheCitizen
    <2> SUFFICES ASSUME IInv, NEW g \in Granted, NEW h \in Granted, NEW s \in Source, NEW t \in Source
                 PROVE  /\ Reads(g, s, "identity") \in {grant[g].owner, None}
                        /\ LET one == Reads(g, s, "pseudonym")
                               other == Reads(h, t, "pseudonym")
                           IN  one # None /\ other # None =>
                                 (one = other <=> /\ s = t /\ grant[g].owner = grant[h].owner
                                                  /\ grant[g].made.pseudonym[s].version
                                                       = grant[h].made.pseudonym[t].version)
      BY DEF ValuesNameTheCitizen
    <2>1. g \in Grant /\ h \in Grant /\ "identity" \in Forms /\ "pseudonym" \in Forms
      BY DEF Granted, Forms
    <2>2. Reads(g, s, "identity") \in {grant[g].owner, None}
      BY <2>1, ReadsNamed DEF Named
    <2> DEFINE v == grant[g].made.pseudonym[s].version
               w == grant[h].made.pseudonym[t].version
    <2>3. Reads(g, s, "pseudonym") # None =>
            Reads(g, s, "pseudonym") = <<grant[g].owner, s, v>>
      BY <2>1, ReadsNamed DEF Named
    <2>4. Reads(h, t, "pseudonym") # None =>
            Reads(h, t, "pseudonym") = <<grant[h].owner, t, w>>
      BY <2>1, ReadsNamed DEF Named
    <2> HIDE DEF v, w
    <2>5. <<grant[g].owner, s, v>> = <<grant[h].owner, t, w>>
            <=> (s = t /\ grant[g].owner = grant[h].owner /\ v = w)
      OBVIOUS
    <2> QED
      BY <2>2, <2>3, <2>4, <2>5 DEF v, w
  <1> QED
    BY <1>1, InvInit, InvStep, PTL DEF Spec

\* A consent that was given is given for good.
LEMMA GrantedStays ==
  ASSUME IInv, [Next]_vars, NEW g \in Granted
  PROVE  grant'[g] = grant[g]
  <1>1. g \in Grant /\ grant[g].at = "granted" /\ grant \in [Grant -> Cell]
    BY DEF Granted, IInv, CellsFit
  <1>2. ASSUME NEW h \in Grant, GrantStep(h) PROVE grant'[g] = grant[g]
    <2>1. ASSUME h # g, NEW x, grant' = [grant EXCEPT ![h] = x] PROVE grant'[g] = grant[g]
      BY <1>1, <2>1
    <2>2. CASE grant[h].at # "granted"
      <3>1. h # g
        BY <1>1, <2>2
      <3>2. ASSUME NEW form \in Forms, Transform(h, form) PROVE grant'[g] = grant[g]
        BY <2>1, <3>1, <3>2 DEF Transform
      <3>3. CASE FetchFails(h) \/ CallFails(h)
        BY <2>1, <3>1, <3>3 DEF FetchFails, CallFails, Failed
      <3>4. CASE Begin(h) \/ Activate(h) \/ UseCopy(h) \/ Fetch(h) \/ Fetched(h) \/ Create(h)
        BY <1>1, <3>1, <3>4 DEF Begin, Activate, UseCopy, Fetch, Fetched, Create
      <3> QED
        BY <1>2, <3>2, <3>3, <3>4 DEF GrantStep
    <2>3. grant[h].at # "granted"
      BY <1>2 DEF GrantStep, Begin, Activate, UseCopy, Fetch, Fetched, FetchFails, Transform, Forms,
                  Create, CallFails
    <2> QED
      BY <2>2, <2>3
  <1>3. ASSUME NEW w \in [Source -> Version], RestartPortal(w) PROVE grant'[g] = grant[g]
    BY <1>1, <1>3 DEF RestartPortal, Over
  <1>4. \/ Tick \/ UNCHANGED vars \/ \E A \in SUBSET Source : Relist(A)
        \/ \E s \in Source, v \in Version : RequestKeys(s, v) \/ DropKeys(s, v)
        \/ \E s \in Source : RestartSidecar(s)
        => grant' = grant
    BY DEF Tick, vars, Relist, RequestKeys, DropKeys, RestartSidecar
  <1> QED
    BY <1>2, <1>3, <1>4 DEF Next, Operate

(* What a source can read of a given consent it goes on reading, the same  *)
(* and after new keys and restarts of its sidecar, as long as the keys for *)
(* it are in its directory (decryption.go, LoadKeys).                      *)
THEOREM ReadableStays == Spec => StaysReadable
  <1>1. IInv /\ [Next]_vars =>
          [\A g \in Granted, s \in Source, form \in Forms :
             Reads(g, s, form) # None /\ Held(g, s, form)' => Reads(g, s, form)' = Reads(g, s, form)]_vars
    <2> SUFFICES ASSUME IInv, [Next]_vars, NEW g \in Granted, NEW s \in Source, NEW form \in Forms,
                        Reads(g, s, form) # None, Held(g, s, form)'
                 PROVE  Reads(g, s, form)' = Reads(g, s, form)
      OBVIOUS
    <2>1. grant'[g] = grant[g]
      BY GrantedStays
    <2>2. loaded'[s] = loaded[s] \/ loaded'[s] = files'[s]
      <3>1. ASSUME NEW t \in Source, RestartSidecar(t)
            PROVE  loaded'[s] = loaded[s] \/ loaded'[s] = files'[s]
        BY <3>1 DEF RestartSidecar, LoadKeys, IInv, Tables
      <3>2. ASSUME NEW h \in Grant, GrantStep(h) PROVE loaded' = loaded
        BY <3>2 DEF GrantStep, Begin, Activate, UseCopy, Fetch, Fetched, FetchFails, Transform,
                    Create, CallFails, holders
      <3>3. \/ Tick \/ UNCHANGED vars \/ \E A \in SUBSET Source : Relist(A)
            \/ \E t \in Source, v \in Version : RequestKeys(t, v) \/ DropKeys(t, v)
            \/ \E w \in [Source -> Version] : RestartPortal(w)
            => loaded' = loaded
        BY DEF Tick, vars, Relist, RequestKeys, DropKeys, RestartPortal, holders
      <3> QED
        BY <3>1, <3>2, <3>3 DEF Next, Operate
    <2> DEFINE made == grant[g].made[form]
    <2>3. /\ s \in DOMAIN made /\ made[s].recipient = s
          /\ Required(form, s, made[s].version) \subseteq loaded[s]
      BY DEF Reads
    <2>4. Required(form, s, made[s].version) \subseteq files'[s]
      BY <2>1 DEF Held, Required
    <2>5. Required(form, s, made[s].version) \subseteq loaded'[s]
      BY <2>2, <2>3, <2>4
    <2> QED
      BY <2>1, <2>3, <2>5 DEF Reads, Required
  <1> QED
    BY <1>1, InvInit, InvStep, PTL DEF Spec, StaysReadable

=============================================================================
