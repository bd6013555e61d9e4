-------------------------- MODULE AsiAuthorization --------------------------
(***************************************************************************)
(* The core of the authorization server of the authentic source interface  *)
(* (services/asi-authorization-server/internal/authorization): from an     *)
(* authorization request, over the user's login or refusal, to an access   *)
(* token; and the clients that may do so.                                  *)
(*                                                                         *)
(* Each store (transactions, codes, replay caches, registered clients) has *)
(* a mutex of its own, and a request takes several of them in turn with    *)
(* calls to the verifier or the register in between: every step below is   *)
(* what happens under one lock.  All of it is in memory.                   *)
(*                                                                         *)
(* Identifiers are fresh random values: a transaction is named by its      *)
(* authorization request, a code by the place of its answer in the order   *)
(* they were sent.  A browser that does not hold a transaction's binding   *)
(* gets the error page and changes nothing, so the browsers below hold it. *)
(* Requests that are refused for their parameters change nothing either.   *)
(***************************************************************************)
EXTENDS Naturals, Sequences, FiniteSets

CONSTANTS
  Auth,         \* authorization requests that are valid in themselves
  Client,
  Configured,   \* clients from the configuration file: never deactivated
  ClientOf,     \* the client of an authorization request
  Handler,      \* browser requests that the server handles at a time
  Session,      \* sessions of the NL Wallet's verifier
  Request,      \* token requests
  Message,      \* client assertions, each with the DPoP proof of its request
  SignedBy,     \* the client of an assertion
  End,          \* the last moment an assertion and its proof are accepted
  TransactionLifetime, AuthorizationCodeLifetime,
  MaxClock,     \* bound: the last moment
  MaxChanges    \* bound: changes to the register of wallet-relying parties
CONSTANTS Digid, Denied, None

ASSUME AuthorizationAssumption ==
  /\ Configured \subseteq Client
  /\ ClientOf \in [Auth -> Client] /\ SignedBy \in [Message -> Client]
  /\ End \in [Message -> Nat]
  /\ {TransactionLifetime, AuthorizationCodeLifetime, MaxClock, MaxChanges} \subseteq Nat
  /\ {Digid, Denied, None} \cap Session = {} /\ Digid # Denied
  /\ None \notin Auth \cup Client \cup Message

VARIABLES
  clock,
  trans,     \* transactionStore: each request's transaction and its session
  handler,   \* handlers of the login pages: where each is, for which
             \* transaction, and the session or login it has in hand
  session,   \* the verifier: each session, and the transaction it is for
  answers,   \* authorization responses sent to clients
  codes,     \* codeStore: the answer of each code and when the code expires
  request,   \* handlers of the token endpoint
  seen,      \* replayCache, of assertions and of DPoP proofs
  tokens,    \* access tokens handed out
  client,    \* registeredClients
  entitled,  \* the register: clients with the QEAA_Provider entitlement
  recheck,   \* RecheckEntitlements: clients to check, and the one to deactivate
  changes

vars == <<clock, trans, handler, session, answers, codes, request, seen,
          tokens, client, entitled, recheck, changes>>

login == <<trans, handler, session>>
redeeming == <<request, seen, tokens>>
registry == <<client, entitled, recheck, changes>>

Idle == [at |-> "idle", tx |-> None, by |-> None]
Goes(h, at, tx, by) == handler' = [handler EXCEPT ![h] = [at |-> at, tx |-> tx, by |-> by]]
Ends(h) == handler' = [handler EXCEPT ![h] = Idle]

-----------------------------------------------------------------------------
Init ==
  /\ clock = 0
  /\ trans = [a \in Auth |-> [at |-> "new", expires |-> 0, session |-> None]]
  /\ handler = [h \in Handler |-> Idle]
  /\ session = [s \in Session |-> [at |-> "unused", tx |-> None]]
  /\ answers = <<>> /\ codes = {}
  /\ request = [r \in Request |-> [at |-> "new", now |-> 0, msg |-> None, code |-> 0]]
  /\ seen = [check \in {"assertion", "proof"} |-> {}]
  /\ tokens = {}
  /\ client = [c \in Client |-> "none"]
  /\ entitled \in SUBSET (Client \ Configured)
  /\ recheck = [left |-> {}, lapsed |-> None]
  /\ changes = 0

Tick == clock < MaxClock /\ clock' = clock + 1
        /\ UNCHANGED <<login, answers, codes, redeeming, registry>>

(* Service.client: from the configuration, or registered and active. *)
Usable(c) == c \in Configured \/ client[c] = "active"

(* Authorize keeps the request; every put drops the transactions that have *)
(* expired.                                                                *)
Expired(a) == clock > trans[a].expires
Authorize(a) ==
  /\ trans[a].at = "new" /\ Usable(ClientOf[a])
  /\ trans' = [x \in Auth |->
       IF x = a THEN [at |-> "pending", expires |-> clock + TransactionLifetime, session |-> None]
       ELSE IF trans[x].at = "pending" /\ Expired(x) THEN [trans[x] EXCEPT !.at = "gone"]
       ELSE trans[x]]
  /\ UNCHANGED <<clock, handler, session, answers, codes, redeeming, registry>>

Peek(a) == trans[a].at = "pending" /\ ~Expired(a)

(* takeTransaction: whoever takes the transaction answers it, once, if it  *)
(* has time left.  A login makes a code, and every put drops the codes     *)
(* that have expired.  The mutant relies on the look it took at the        *)
(* transaction before it asked the verifier.                               *)
MakesCode(by) == by # Denied
FinishAsPeeked(a, by) ==
  /\ trans[a].at # "new"
  /\ trans' = [trans EXCEPT ![a].at = "gone"]
  /\ answers' = Append(answers, [of |-> a, by |-> by])
  /\ codes' = IF MakesCode(by)
              THEN codes \cup {[key |-> Len(answers) + 1, expires |-> clock + AuthorizationCodeLifetime]}
              ELSE codes
Finish(a, by) ==
  /\ trans[a].at = "pending"
  /\ trans' = [trans EXCEPT ![a].at = "gone"]
  /\ answers' = IF Expired(a) THEN answers ELSE Append(answers, [of |-> a, by |-> by])
  /\ codes' = IF Expired(a) \/ ~MakesCode(by) THEN codes
              ELSE {c \in codes : clock <= c.expires}
                     \cup {[key |-> Len(answers) + 1, expires |-> clock + AuthorizationCodeLifetime]}

Deny(a) ==
  /\ Finish(a, Denied)
  /\ UNCHANGED <<clock, handler, session, redeeming, registry>>

-----------------------------------------------------------------------------
(* StartSession: a live transaction, then the verifier's answer, which may *)
(* be long in coming, then attach.  Attach replaces an earlier session and *)
(* does not look at the time.                                              *)
StartSession(h, a) ==
  /\ handler[h].at = "idle" /\ Peek(a)
  /\ Goes(h, "starting", a, None)
  /\ UNCHANGED <<clock, trans, session, answers, codes, redeeming, registry>>

Attach(h, s) ==
  /\ handler[h].at = "starting" /\ session[s].at = "unused"
  /\ session' = [session EXCEPT ![s] = [at |-> "waiting", tx |-> handler[h].tx]]
  /\ trans' = IF trans[handler[h].tx].at = "pending"
              THEN [trans EXCEPT ![handler[h].tx].session = s] ELSE trans
  /\ Ends(h)
  /\ UNCHANGED <<clock, answers, codes, redeeming, registry>>

(* The user's wallet discloses: on another device, or on this one, after   *)
(* which it returns the browser with a nonce; or it does not.              *)
Disclose(s) ==
  /\ session[s].at = "waiting"
  /\ \E end \in {"elsewhere", "here", "failed"} :
       session' = [session EXCEPT ![s].at = end]
  /\ UNCHANGED <<clock, trans, handler, answers, codes, redeeming, registry>>

Disclosed(s) == session[s].at \in {"elsewhere", "here"}

(* digidLogin: what the user typed identifies the user. *)
DigidLogin(h, a) ==
  /\ handler[h].at = "idle" /\ Peek(a)
  /\ Goes(h, "identified", a, Digid)
  /\ UNCHANGED <<clock, trans, session, answers, codes, redeeming, registry>>

(* walletPage: SessionProgress asks after the session kept now. *)
OpenWalletPage(h, a) ==
  /\ handler[h].at = "idle" /\ Peek(a) /\ trans[a].session # None
  /\ Goes(h, "page", a, trans[a].session)
  /\ UNCHANGED <<clock, trans, session, answers, codes, redeeming, registry>>

(* It is done, so LogIn follows, with the session kept by then: a second   *)
(* click on the wallet may have replaced it.  That a session is done does  *)
(* not change, so the verifier's answer and this peek are one step.        *)
LogIn(h) ==
  /\ handler[h].at = "page" /\ Disclosed(handler[h].by)
  /\ Peek(handler[h].tx) /\ trans[handler[h].tx].session # None
  /\ Goes(h, "asking", handler[h].tx, trans[handler[h].tx].session)
  /\ UNCHANGED <<clock, trans, session, answers, codes, redeeming, registry>>

(* walletReturn: the wallet of some session sends the browser back; only   *)
(* the session kept for this transaction goes on.                          *)
KeptSession(a, s) == trans[a].session = s
WalletReturn(h, a, s) ==
  /\ handler[h].at = "idle" /\ Peek(a) /\ session[s].at = "here" /\ KeptSession(a, s)
  /\ Goes(h, "return", a, s)
  /\ UNCHANGED <<clock, trans, session, answers, codes, redeeming, registry>>

(* Identify and IdentifyReturn: the verifier gives what was disclosed, and *)
(* after a return on this device only for the nonce that came with it.     *)
Identify(h) ==
  /\ \E way \in {<<"asking", "elsewhere">>, <<"return", "here">>} :
       handler[h].at = way[1] /\ session[handler[h].by].at = way[2]
  /\ Goes(h, "identified", handler[h].tx, handler[h].by)
  /\ UNCHANGED <<clock, trans, session, answers, codes, redeeming, registry>>

(* The verifier cannot be reached, refuses or has nothing (yet), or the    *)
(* transaction is no longer there: a page, and nothing changes.            *)
TurnBack(h) ==
  /\ handler[h].at \in {"starting", "page", "asking", "return"}
  /\ Ends(h)
  /\ UNCHANGED <<clock, trans, session, answers, codes, redeeming, registry>>

(* completeIdentification. *)
Complete(h) ==
  /\ handler[h].at = "identified"
  /\ Finish(handler[h].tx, handler[h].by)
  /\ Ends(h)
  /\ UNCHANGED <<clock, session, redeeming, registry>>

CompleteFails(h) ==
  /\ handler[h].at = "identified" /\ trans[handler[h].tx].at # "pending"
  /\ Ends(h)
  /\ UNCHANGED <<clock, trans, session, answers, codes, redeeming, registry>>

-----------------------------------------------------------------------------
(* A token request: the time is read once, at the start, and the client    *)
(* looked up; the assertion is within its time.                            *)
Moves(r, at) == request' = [request EXCEPT ![r].at = at]
Arrive(r, m, k) ==
  /\ request[r].at = "new" /\ k \in DOMAIN answers /\ answers[k].by # Denied
  /\ Usable(SignedBy[m]) /\ clock <= End[m]
  /\ request' = [request EXCEPT ![r] =
       [at |-> "assertion", now |-> clock, msg |-> m, code |-> k]]
  /\ UNCHANGED <<clock, login, answers, codes, seen, tokens, registry>>

(* replayCache.firstUse, for the assertion and then for the proof: what    *)
(* has expired is dropped, going by the time this request began, and what  *)
(* is still there is refused.  The mutant drops it at its last moment.     *)
DroppedAtEnd(ids, now) == {m \in ids : now < End[m]}
Remembered(ids, now) == {m \in ids : now <= End[m]}
FirstUse(r, check, next) ==
  LET known == Remembered(seen[check], request[r].now)
  IN  /\ request[r].at = check
      /\ seen' = [seen EXCEPT ![check] = known \cup {request[r].msg}]
      /\ Moves(r, IF request[r].msg \in known THEN "refused" ELSE next)
      /\ UNCHANGED <<clock, login, answers, codes, tokens, registry>>

(* codeStore.take removes the code, also when the rest then fails: a code  *)
(* past its time, of another client, or a redirect_uri, code_verifier or   *)
(* resource that does not fit.                                             *)
CodeTaken(k) == {c \in codes : c.key # k}
OwnCode(r) == SignedBy[request[r].msg] = ClientOf[answers[request[r].code].of]
Timely(r) == \E c \in codes : c.key = request[r].code /\ request[r].now <= c.expires

Redeem(r) ==
  /\ request[r].at = "code" /\ Timely(r) /\ OwnCode(r)
  /\ codes' = CodeTaken(request[r].code)
  /\ tokens' = tokens \cup {[jti |-> r, code |-> request[r].code,
                             to |-> SignedBy[request[r].msg], iat |-> request[r].now]}
  /\ Moves(r, "answered")
  /\ UNCHANGED <<clock, login, answers, seen, registry>>

Waste(r) ==
  /\ request[r].at = "code"
  /\ codes' = CodeTaken(request[r].code)
  /\ Moves(r, "answered")
  /\ UNCHANGED <<clock, login, answers, seen, tokens, registry>>

-----------------------------------------------------------------------------
(* approve looks the client's entry up in the register.  The mutant trusts *)
(* what an earlier registration found.                                     *)
ApprovedBefore(c) == client[c] = "active" \/ c \in entitled
Approved(c) == c \in entitled

(* Register: the entry in the register is approved, then the client is     *)
(* stored.  A client identifier is new at every registration.              *)
Approve(c) ==
  /\ c \notin Configured /\ client[c] = "none" /\ Approved(c)
  /\ client' = [client EXCEPT ![c] = "approved"]
  /\ UNCHANGED <<clock, login, answers, codes, redeeming, entitled, recheck, changes>>

Add(c) ==
  /\ client[c] = "approved"
  /\ client' = [client EXCEPT ![c] = "active"]
  /\ UNCHANGED <<clock, login, answers, codes, redeeming, entitled, recheck, changes>>

(* The national register gives and withdraws the entitlement. *)
RegisterChanges(c) ==
  /\ c \notin Configured /\ changes < MaxChanges
  /\ changes' = changes + 1
  /\ entitled' = (entitled \ {c}) \cup ({c} \ entitled)
  /\ UNCHANGED <<clock, login, answers, codes, redeeming, client, recheck>>

(* RecheckEntitlements: a copy of the active clients, then one after the   *)
(* other a lookup in the register and what follows from it.                *)
Active == {c \in Client : client[c] = "active"}
StartRecheck ==
  /\ recheck.left = {}
  /\ recheck' = [left |-> Active, lapsed |-> None]
  /\ UNCHANGED <<clock, login, answers, codes, redeeming, client, entitled, changes>>

LookUp(c) ==
  /\ c \in recheck.left /\ recheck.lapsed = None
  /\ recheck' = IF Approved(c) THEN [recheck EXCEPT !.left = recheck.left \ {c}]
                ELSE [recheck EXCEPT !.lapsed = c]
  /\ UNCHANGED <<clock, login, answers, codes, redeeming, client, entitled, changes>>

(* The register cannot be consulted: the client stays active until the     *)
(* next time.                                                              *)
Unavailable(c) ==
  /\ c \in recheck.left /\ recheck.lapsed = None
  /\ recheck' = [recheck EXCEPT !.left = recheck.left \ {c}]
  /\ UNCHANGED <<clock, login, answers, codes, redeeming, client, entitled, changes>>

Deactivate ==
  /\ recheck.lapsed # None
  /\ client' = [client EXCEPT ![recheck.lapsed] = "inactive"]
  /\ recheck' = [left |-> recheck.left \ {recheck.lapsed}, lapsed |-> None]
  /\ UNCHANGED <<clock, login, answers, codes, redeeming, entitled, changes>>

-----------------------------------------------------------------------------
Browser ==
  \/ \E a \in Auth : Authorize(a) \/ Deny(a)
  \/ \E h \in Handler, a \in Auth :
       \/ StartSession(h, a) \/ DigidLogin(h, a) \/ OpenWalletPage(h, a)
       \/ \E s \in Session : WalletReturn(h, a, s)
  \/ \E h \in Handler :
       \/ LogIn(h) \/ Identify(h) \/ TurnBack(h) \/ Complete(h) \/ CompleteFails(h)
       \/ \E s \in Session : Attach(h, s)
  \/ \E s \in Session : Disclose(s)

TokenEndpoint ==
  \E r \in Request :
    \/ \E m \in Message, k \in DOMAIN answers : Arrive(r, m, k)
    \/ FirstUse(r, "assertion", "proof") \/ FirstUse(r, "proof", "code")
    \/ Redeem(r) \/ Waste(r)

Registration ==
  \/ \E c \in Client : Approve(c) \/ Add(c) \/ LookUp(c) \/ Unavailable(c)
  \/ StartRecheck \/ Deactivate

Next == Tick \/ Browser \/ TokenEndpoint \/ Registration
        \/ \E c \in Client : RegisterChanges(c)

Spec == Init /\ [][Next]_vars

(* A ticker starts the recheck and one goroutine goes through it to the    *)
(* end; a registration that was approved is stored; and a register that is *)
(* asked again and again answers at some time.                             *)
FairSpec ==
  /\ Spec
  /\ WF_vars(StartRecheck) /\ WF_vars(Deactivate)
  /\ \A c \in Client : WF_vars(Add(c)) /\ SF_vars(LookUp(c))
                       /\ WF_vars(LookUp(c) \/ Unavailable(c))

-----------------------------------------------------------------------------
(* Types.  A code stands for a login. *)
TypeOK ==
  /\ clock \in Nat
  /\ trans \in [Auth -> [at : {"new", "pending", "gone"}, expires : Nat,
                         session : Session \cup {None}]]
  /\ handler \in [Handler ->
       [at : {"idle", "starting", "page", "asking", "return", "identified"},
        tx : Auth \cup {None}, by : Session \cup {Digid, None}]]
  /\ session \in [Session -> [at : {"unused", "waiting", "elsewhere", "here", "failed"},
                              tx : Auth \cup {None}]]
  /\ answers \in Seq([of : Auth, by : Session \cup {Digid, Denied}])
  /\ codes \subseteq [key : DOMAIN answers, expires : Nat]
  /\ \A c \in codes : answers[c.key].by # Denied
  /\ request \in [Request ->
       [at : {"new", "assertion", "proof", "code", "refused", "answered"},
        now : Nat, msg : Message \cup {None}, code : Nat]]
  /\ seen \in [{"assertion", "proof"} -> SUBSET Message]
  /\ tokens \subseteq [jti : Request, code : Nat, to : Client, iat : Nat]
  /\ client \in [Client -> {"none", "approved", "active", "inactive"}]
  /\ entitled \subseteq Client
  /\ recheck \in [left : SUBSET Client, lapsed : Client \cup {None}]
  /\ changes \in Nat

Shown == {[of |-> session[s].tx, by |-> s] : s \in {x \in Session : Disclosed(x)}}
Granted == {[jti |-> t.jti, code |-> t.code, to |-> t.to] : t \in tokens}

(* The server keeps the promise: a request is answered once, refused or    *)
(* with a login made for it; the answer yields one token at most, for the  *)
(* client that asked ("a code is redeemed at most once, also when the      *)
(* attempt fails", service.go:330-331; "a session cannot be carried over   *)
(* to another transaction", identification.go:60-61).                      *)
Promise == INSTANCE AuthorizationPromise WITH shown <- Shown, tokens <- Granted
KeepsPromise == Promise!Spec

(* "The transaction stays, so the user can try again" (identification.go:  *)
(* 53-54): whatever a means or another handler does, a transaction leaves  *)
(* the store with its answer or after its time.                            *)
StaysUntilAnswered ==
  [][\A a \in Auth :
       trans[a].at = "pending" /\ trans'[a].at # "pending" /\ clock <= trans[a].expires =>
         \E k \in DOMAIN answers' \ DOMAIN answers : answers'[k].of = a]_vars

(* The two lifetimes add up: a token is dated within them of the request   *)
(* it goes back to, however long its handlers waited on the verifier or    *)
(* between reading the time and taking the code.                           *)
InTime ==
  \A t \in tokens :
    t.iat <= trans[answers[t.code].of].expires + AuthorizationCodeLifetime

(* "A client assertion or a DPoP proof is accepted only once" (replay.go:  *)
(* 8-9), as far as that goes: two requests with one assertion get past it  *)
(* only when its time is over.                                             *)
SecondUseOnlyLate ==
  \A r, q \in Request :
    /\ r # q /\ request[r].msg = request[q].msg
    /\ {request[r].at, request[q].at} \subseteq {"proof", "code", "answered"}
    => clock > End[request[r].msg]

(* "A client that is no longer approved is deactivated" (registration.go:  *)
(* 224-225): one whose entitlement is withdrawn for good can in the end no *)
(* longer use the server, also if it was withdrawn while it registered.    *)
WithdrawnLosesAccess ==
  \A c \in Client \ Configured : <>[](c \notin entitled) => <>[]~Usable(c)
=============================================================================
