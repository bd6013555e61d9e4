------------------------------ MODULE QtspWeb ------------------------------
(***************************************************************************)
(* The web side of the reference QTSP (qtsp-reference/internal/web): logins*)
(* with the NL Wallet or with test data, requests laid down through the    *)
(* request API, sessions that wait for the user to come back from the      *)
(* authorization server, and the result that may become an attestation.    *)
(* A section under the mutex is one step, and so is each answer of another *)
(* server: a handler that waits for one keeps what it read before.         *)
(***************************************************************************)
EXTENDS QtspClient, QtspIssuance

CONSTANTS
  Browser,          \* browsers; each keeps a login cookie and a session cookie
  Handler,          \* requests of browsers handled at a time
  Wallet,           \* disclosure sessions of the wallet verifier
  MaxLogins, MaxSessions, MaxRequests, MaxTime,    \* bounds
  LoginLifetime, SessionLifetime, RequestLifetime,
  Gone,             \* no record under this id
  Asked             \* the sets of attributes that are asked for

Login == 1 .. MaxLogins
Session == 1 .. MaxSessions
Request == 1 .. MaxRequests
NoOne == "no one"
NoWallet == "no wallet"

VARIABLES
  logins,     \* Handler.logins: id -> the login, or Gone
  lastLogin,  \* the last login id given out
  cookie,     \* browser -> the ids its two cookies hold (0: none)
  wallet,     \* disclosure session -> where it is, and who disclosed
  sessions,   \* Handler.sessions: id -> what waits for the user's return, or Gone
  lastSession,
  requests,   \* Handler.requests: id -> the request of the request API, or Gone
  lastRequest,
  begun,      \* history: session id -> what was begun with it
  handler     \* where each handler is, with its local variables

webVars == <<logins, lastLogin, cookie, wallet, sessions, lastSession, requests,
             lastRequest, begun, handler>>
vars == <<now, clientVars, storeVars, webVars>>

Outcomes == {"pending", "done", "denied", "failed"}
LoginRecord == [identity : Person \cup {NoOne}, wallet : Wallet \cup {NoWallet},
                request : 0 .. MaxRequests, expires : Nat]
SessionRecord == [attrs : SUBSET Attribute, request : 0 .. MaxRequests,
                  identity : Person, client : 0 .. MaxClients, expires : Nat]
RequestRecord == [attrs : SUBSET Attribute, started : BOOLEAN, client : 0 .. MaxClients,
                  outcome : Outcomes, by : 0 .. MaxSessions, expires : Nat]
BegunRecord == [browser : Browser, request : 0 .. MaxRequests, identity : Person, at : Nat]
Idle == [at |-> "idle"]

ASSUME WebAssumption ==
  /\ {MaxLogins, MaxSessions, MaxRequests, MaxTime} \subseteq Nat
  /\ {LoginLifetime, SessionLifetime, RequestLifetime} \subseteq Nat
  /\ NoOne \notin Person /\ NoWallet \notin Wallet
  /\ Gone \notin LoginRecord \cup SessionRecord \cup RequestRecord \cup BegunRecord
  /\ Asked \subseteq SUBSET Attribute

(* Every record has the fields the code gives it; in particular a session   *)
(* belongs to a citizen, never to a login that still waits for a wallet.    *)
TypeOK ==
  /\ now \in 0 .. MaxTime
  /\ ClientTypeOK
  /\ StoreTypeOK
  /\ logins \in [Login -> LoginRecord \cup {Gone}]
  /\ lastLogin \in 0 .. MaxLogins
  /\ cookie \in [Browser -> [login : 0 .. MaxLogins, session : 0 .. MaxSessions]]
  /\ wallet \in [Wallet -> [at : {"new", "waiting", "failed", "done"}, who : Person \cup {NoOne}]]
  /\ sessions \in [Session -> SessionRecord \cup {Gone}]
  /\ lastSession \in 0 .. MaxSessions
  /\ requests \in [Request -> RequestRecord \cup {Gone}]
  /\ lastRequest \in 0 .. MaxRequests
  /\ begun \in [Session -> BegunRecord \cup {Gone}]
  /\ \A h \in Handler : handler[h].at \in
       {"idle", "opening", "progress", "identify", "preparing", "asking", "away"}

Init ==
  /\ now = 0
  /\ ClientInit
  /\ StoreInit
  /\ logins = [l \in Login |-> Gone]
  /\ lastLogin = 0
  /\ cookie = [b \in Browser |-> [login |-> 0, session |-> 0]]
  /\ wallet = [w \in Wallet |-> [at |-> "new", who |-> NoOne]]
  /\ sessions = [s \in Session |-> Gone]
  /\ lastSession = 0
  /\ requests = [r \in Request |-> Gone]
  /\ lastRequest = 0
  /\ begun = [s \in Session |-> Gone]
  /\ handler = [h \in Handler |-> Idle]

---------------------------------------------------------------------------
(* Logins.                                                                 *)

(* loginOf: the valid login behind a cookie; the expired ones are removed.  *)
Current(table) == [i \in DOMAIN table |->
  IF table[i] # Gone /\ table[i].expires < now THEN Gone ELSE table[i]]
HasLogin(l) == l # 0 /\ Current(logins)[l] # Gone
LoggedIn(l) == HasLogin(l) /\ logins[l].identity # NoOne

(* newLogin: the login of the old cookie goes, a new one gets a new id.     *)
NewLogin(b, old, record) ==
  /\ lastLogin < MaxLogins
  /\ lastLogin' = lastLogin + 1
  /\ logins' = [l \in Login |-> IF l = lastLogin + 1 THEN record
                                ELSE IF l = old THEN Gone ELSE logins[l]]
  /\ cookie' = [cookie EXCEPT ![b].login = lastLogin + 1]

DropLogin(l) == logins' = [i \in Login |-> IF i = l THEN Gone ELSE logins[i]]

(* mockLogin: complete test data of anyone; incomplete data changes nothing.*)
MockLogin(b, p) ==
  /\ NewLogin(b, cookie[b].login,
              [identity |-> p, wallet |-> NoWallet, request |-> 0,
               expires |-> now + LoginLifetime])
  /\ UNCHANGED <<now, clientVars, storeVars, wallet, sessions, lastSession, requests,
                 lastRequest, begun, handler>>

Logout(b) ==
  /\ DropLogin(cookie[b].login)
  /\ cookie' = [cookie EXCEPT ![b].login = 0]
  /\ UNCHANGED <<now, clientVars, storeVars, lastLogin, wallet, sessions, lastSession,
                 requests, lastRequest, begun, handler>>

(* walletStart: first the verifier opens a session, then the login is made. *)
WalletStart(h, b, r) ==
  /\ handler[h].at = "idle"
  /\ handler' = [handler EXCEPT ![h] =
       [at |-> "opening", browser |-> b, login |-> cookie[b].login, request |-> r]]
  /\ UNCHANGED <<now, clientVars, storeVars, logins, lastLogin, cookie, wallet, sessions,
                 lastSession, requests, lastRequest, begun>>

WalletOpened(h, w) ==
  /\ handler[h].at = "opening"
  /\ wallet[w].at = "new"
  /\ wallet' = [wallet EXCEPT ![w].at = "waiting"]
  /\ NewLogin(handler[h].browser, handler[h].login,
              [identity |-> NoOne, wallet |-> w, request |-> handler[h].request,
               expires |-> now + LoginLifetime])
  /\ handler' = [handler EXCEPT ![h] = Idle]
  /\ UNCHANGED <<now, clientVars, storeVars, sessions, lastSession, requests, lastRequest,
                 begun>>

(* The citizen discloses in the wallet, or refuses, or lets the time pass.  *)
Disclose(w, p) ==
  /\ wallet[w].at = "waiting"
  /\ wallet' = [wallet EXCEPT ![w] = [at |-> "done", who |-> p]]
  /\ UNCHANGED <<now, clientVars, storeVars, logins, lastLogin, cookie, sessions,
                 lastSession, requests, lastRequest, begun, handler>>

Refuse(w) ==
  /\ wallet[w].at = "waiting"
  /\ wallet' = [wallet EXCEPT ![w].at = "failed"]
  /\ UNCHANGED <<now, clientVars, storeVars, logins, lastLogin, cookie, sessions,
                 lastSession, requests, lastRequest, begun, handler>>

(* walletPage: look at the login, ask how far the session is, ask who it is.*)
WalletLook(h, b) ==
  LET l == cookie[b].login IN
  /\ handler[h].at = "idle"
  /\ HasLogin(l)
  /\ logins[l].identity = NoOne
  /\ logins' = Current(logins)
  /\ handler' = [handler EXCEPT ![h] = [at |-> "progress", browser |-> b, login |-> l,
                                        wallet |-> logins[l].wallet]]
  /\ UNCHANGED <<now, clientVars, storeVars, lastLogin, cookie, wallet, sessions,
                 lastSession, requests, lastRequest, begun>>

WalletProgress(h) ==
  LET w == handler[h].wallet IN
  /\ handler[h].at = "progress"
  /\ \/ /\ wallet[w].at = "done"
        /\ handler' = [handler EXCEPT ![h].at = "identify"]
        /\ UNCHANGED logins
     \/ /\ wallet[w].at = "failed"
        /\ DropLogin(handler[h].login)
        /\ handler' = [handler EXCEPT ![h] = Idle]
     \/ /\ wallet[w].at = "waiting"
        /\ handler' = [handler EXCEPT ![h] = Idle]
        /\ UNCHANGED logins
  /\ UNCHANGED <<now, clientVars, storeVars, lastLogin, cookie, wallet, sessions,
                 lastSession, requests, lastRequest, begun>>

(* The identity goes to the login the page looked at, if that still waits   *)
(* for this session.                                                        *)
Attached(l, w, p) ==
  IF l # 0 /\ logins[l] # Gone /\ logins[l].wallet = w
  THEN [logins EXCEPT ![l].identity = p, ![l].wallet = NoWallet]
  ELSE logins

(* A bug this code could have: the identity goes to the login the cookie    *)
(* names by then.                                                           *)
WalletIdentifyCookie(h) ==
  LET l == cookie[handler[h].browser].login IN
  /\ handler[h].at = "identify"
  /\ l # 0 /\ logins[l] # Gone
  /\ logins' = [logins EXCEPT ![l].identity = wallet[handler[h].wallet].who,
                             ![l].wallet = NoWallet]
  /\ handler' = [handler EXCEPT ![h] = Idle]
  /\ UNCHANGED <<now, clientVars, storeVars, lastLogin, cookie, wallet, sessions,
                 lastSession, requests, lastRequest, begun>>

WalletIdentify(h) ==
  LET l == handler[h].login
      w == handler[h].wallet IN
  /\ handler[h].at = "identify"
  /\ logins' = Attached(l, w, wallet[w].who)
  /\ handler' = [handler EXCEPT ![h] = Idle]
  /\ UNCHANGED <<now, clientVars, storeVars, lastLogin, cookie, wallet, sessions,
                 lastSession, requests, lastRequest, begun>>

(* What the wallet disclosed does not identify anyone.                      *)
WalletUnusable(h) ==
  /\ handler[h].at = "identify"
  /\ DropLogin(handler[h].login)
  /\ handler' = [handler EXCEPT ![h] = Idle]
  /\ UNCHANGED <<now, clientVars, storeVars, lastLogin, cookie, wallet, sessions,
                 lastSession, requests, lastRequest, begun>>

(* The verifier cannot be reached, in any of its calls.                     *)
VerifierFails(h) ==
  /\ handler[h].at \in {"opening", "progress", "identify"}
  /\ handler' = [handler EXCEPT ![h] = Idle]
  /\ UNCHANGED <<now, clientVars, storeVars, logins, lastLogin, cookie, wallet, sessions,
                 lastSession, requests, lastRequest, begun>>

---------------------------------------------------------------------------
(* Requests.                                                               *)

(* start: the citizen of the login is read first; then the request is       *)
(* prepared, which takes the discovery and the authorization server.        *)
Start(h, b, attrs) ==
  LET l == cookie[b].login IN
  /\ handler[h].at = "idle"
  /\ LoggedIn(l)
  /\ logins' = Current(logins)
  /\ handler' = [handler EXCEPT ![h] = [at |-> "preparing", browser |-> b, attrs |-> attrs,
                                        identity |-> logins[l].identity]]
  /\ UNCHANGED <<now, clientVars, storeVars, lastLogin, cookie, wallet, sessions,
                 lastSession, requests, lastRequest, begun>>

(* createRequest: the same preparation without a login or a browser.        *)
CreateRequest(h, attrs) ==
  /\ handler[h].at = "idle"
  /\ handler' = [handler EXCEPT ![h] = [at |-> "asking", attrs |-> attrs]]
  /\ UNCHANGED <<now, clientVars, storeVars, logins, lastLogin, cookie, wallet, sessions,
                 lastSession, requests, lastRequest, begun>>

(* begin: a session with its state, and the cookie of this browser.         *)
Begin(b, attrs, request, identity, client) ==
  /\ lastSession < MaxSessions
  /\ lastSession' = lastSession + 1
  /\ sessions' = [sessions EXCEPT ![lastSession + 1] =
       [attrs |-> attrs, request |-> request, identity |-> identity, client |-> client,
        expires |-> now + SessionLifetime]]
  /\ begun' = [begun EXCEPT ![lastSession + 1] =
       [browser |-> b, request |-> request, identity |-> identity, at |-> now]]
  /\ cookie' = [cookie EXCEPT ![b].session = lastSession + 1]

Begun(h) ==
  LET p == handler[h] IN
  /\ p.at = "preparing"
  /\ Plans(p.attrs) # {}
  /\ UseKept \/ (reg = 0 /\ RegisterAnew)
  /\ Begin(p.browser, p.attrs, 0, p.identity, reg')
  /\ handler' = [handler EXCEPT ![h] = Idle]
  /\ UNCHANGED <<now, storeVars, logins, lastLogin, wallet, requests, lastRequest>>

Created(h) ==
  LET p == handler[h] IN
  /\ p.at = "asking"
  /\ Plans(p.attrs) # {}
  /\ UseKept \/ (reg = 0 /\ RegisterAnew)
  /\ lastRequest < MaxRequests
  /\ lastRequest' = lastRequest + 1
  /\ requests' = [Current(requests) EXCEPT ![lastRequest + 1] =
       [attrs |-> p.attrs, started |-> FALSE, client |-> reg', outcome |-> "pending",
        by |-> 0, expires |-> now + RequestLifetime]]
  /\ handler' = [handler EXCEPT ![h] = Idle]
  /\ UNCHANGED <<now, storeVars, logins, lastLogin, cookie, wallet, sessions, lastSession,
                 begun>>

(* prepare refuses: no plan, or a server that cannot be reached.            *)
Refused(h) ==
  /\ handler[h].at \in {"preparing", "asking"}
  /\ handler' = [handler EXCEPT ![h] = Idle]
  /\ UNCHANGED <<now, clientVars, storeVars, logins, lastLogin, cookie, wallet, sessions,
                 lastSession, requests, lastRequest, begun>>

(* startRequest: a start URL works once, and only with a login.             *)
StartRequest(b, r) ==
  LET l == cookie[b].login
      q == Current(requests)[r] IN
  /\ LoggedIn(l)
  /\ q # Gone
  /\ ~q.started
  /\ logins' = Current(logins)
  /\ requests' = [Current(requests) EXCEPT ![r].started = TRUE]
  /\ Begin(b, q.attrs, r, logins[l].identity, q.client)
  /\ UNCHANGED <<now, clientVars, storeVars, lastLogin, wallet, lastRequest, handler>>

(* getRequest: what has expired goes.                                       *)
GetRequest ==
  /\ requests' = Current(requests)
  /\ UNCHANGED <<now, clientVars, storeVars, logins, lastLogin, cookie, wallet, sessions,
                 lastSession, lastRequest, begun, handler>>

---------------------------------------------------------------------------
(* The return from the authorization server.                               *)

(* take: whatever session the cookie names is removed, and what expired.    *)
Taken(b) == [s \in Session |->
  IF s = cookie[b].session THEN Gone ELSE Current(sessions)[s]]

(* finish: the outcome goes to the request the session ran, if it is there. *)
Finished(r, outcome, s) ==
  IF r # 0 /\ requests[r] # Gone
  THEN [requests EXCEPT ![r].outcome = outcome, ![r].by = s,
                        ![r].expires = now + RequestLifetime]
  ELSE requests

(* The browser comes back with the state of a session it began (again, from *)
(* another tab, or late): only the one its cookie names is gone on with.    *)
ReturnUnmatched(b, s) ==
  /\ begun[s] # Gone
  /\ begun[s].browser = b
  /\ s # cookie[b].session \/ Current(sessions)[s] = Gone
  /\ cookie[b].session # 0
  /\ sessions' = Taken(b)
  /\ UNCHANGED <<now, clientVars, storeVars, logins, lastLogin, cookie, wallet,
                 lastSession, requests, lastRequest, begun, handler>>

(* The user refused, or the authorization server did (access_denied ...).   *)
ReturnDenied(b) ==
  LET s == cookie[b].session IN
  /\ s # 0
  /\ Current(sessions)[s] # Gone
  /\ sessions' = Taken(b)
  /\ requests' = Finished(sessions[s].request, "denied", s)
  /\ UNCHANGED <<now, clientVars, storeVars, logins, lastLogin, cookie, wallet,
                 lastSession, lastRequest, begun, handler>>

ReturnWithCode(h, b) ==
  LET s == cookie[b].session IN
  /\ handler[h].at = "idle"
  /\ s # 0
  /\ Current(sessions)[s] # Gone
  /\ sessions' = Taken(b)
  /\ handler' = [handler EXCEPT ![h] = [at |-> "away", session |-> s, kept |-> sessions[s]]]
  /\ UNCHANGED <<now, clientVars, storeVars, logins, lastLogin, cookie, wallet,
                 lastSession, requests, lastRequest, begun>>

(* Token and Call, then the outcome. A 200 counts with a valid seal only,   *)
(* and becomes an attestation only when all that was asked has matched.     *)
AnswerFails(h) ==
  /\ handler[h].at = "away"
  /\ TokenRefused
  /\ requests' = Finished(handler[h].kept.request, "failed", handler[h].session)
  /\ handler' = [handler EXCEPT ![h] = Idle]
  /\ UNCHANGED <<now, storeVars, logins, lastLogin, cookie, wallet, sessions,
                 lastSession, lastRequest, begun>>

(* A bug this code could have: the citizen who is logged in by now gets it. *)
OfferedToLoggedIn(kept, s, seal, results) ==
  IF seal /\ Issuable(kept.attrs, results) /\ LoggedIn(cookie[begun[s].browser].login)
  THEN Add(logins[cookie[begun[s].browser].login].identity, s)
  ELSE UNCHANGED storeVars

Offered(kept, s, seal, results) ==
  IF seal /\ Issuable(kept.attrs, results)
  THEN Add(kept.identity, s)
  ELSE UNCHANGED storeVars

Answered(h, seal, results) ==
  LET kept == handler[h].kept IN
  /\ handler[h].at = "away"
  /\ kept.client \in known
  /\ requests' = Finished(kept.request, "done", handler[h].session)
  /\ Offered(kept, handler[h].session, seal, results)
  /\ handler' = [handler EXCEPT ![h] = Idle]
  /\ UNCHANGED <<now, clientVars, logins, lastLogin, cookie, wallet, sessions,
                 lastSession, lastRequest, begun>>

(* The issuance server calls back with what a wallet disclosed.             *)
Attestation(p) ==
  /\ Take(p)
  /\ UNCHANGED <<now, clientVars, webVars>>

Timer(id) ==
  /\ Fire(id) \/ Remove(id)
  /\ UNCHANGED <<now, clientVars, webVars>>

Tick ==
  /\ now < MaxTime
  /\ now' = now + 1
  /\ UNCHANGED <<clientVars, storeVars, webVars>>

RestartOfServer ==
  /\ ServerRestarts
  /\ UNCHANGED <<now, storeVars, webVars>>

(* What the ASIP may answer to a request for these attributes.              *)
Answers(attrs) == {{}} \cup {{<<a, o>> : a \in attrs} : o \in {"Match", "NoMatch"}}

Next ==
  \/ \E b \in Browser, p \in Person : MockLogin(b, p)
  \/ \E b \in Browser : Logout(b) \/ ReturnDenied(b)
  \/ \E h \in Handler, b \in Browser, r \in {0} \cup Request : WalletStart(h, b, r)
  \/ \E h \in Handler, w \in Wallet : WalletOpened(h, w)
  \/ \E w \in Wallet, p \in Person : Disclose(w, p)
  \/ \E w \in Wallet : Refuse(w)
  \/ \E h \in Handler, b \in Browser : WalletLook(h, b) \/ ReturnWithCode(h, b)
  \/ \E h \in Handler : \/ WalletProgress(h) \/ WalletIdentify(h)
                        \/ WalletUnusable(h) \/ VerifierFails(h)
                        \/ Begun(h) \/ Created(h) \/ Refused(h) \/ AnswerFails(h)
  \/ \E h \in Handler, b \in Browser, attrs \in Asked : Start(h, b, attrs)
  \/ \E h \in Handler, attrs \in Asked : CreateRequest(h, attrs)
  \/ \E b \in Browser, r \in Request : StartRequest(b, r)
  \/ GetRequest
  \/ \E b \in Browser, s \in Session : ReturnUnmatched(b, s)
  \/ \E h \in Handler, seal \in BOOLEAN :
       handler[h].at = "away" /\
       \E results \in Answers(handler[h].kept.attrs) : Answered(h, seal, results)
  \/ \E p \in Person : Attestation(p)
  \/ \E id \in 1 .. MaxResults : Timer(id)
  \/ Tick
  \/ RestartOfServer

Spec == Init /\ [][Next]_vars

---------------------------------------------------------------------------
(* Properties.                                                             *)

(* An attestation goes to the citizen who was logged in when the request    *)
(* began (login.go, issuance.go), and a request gives at most one, whoever  *)
(* logs in, out or over in the browser while the citizen is away.           *)
IssuedToRequester ==
  \A i \in issued : /\ begun[i.result.from].identity = i.to
                    /\ i.at < i.result.expires
                    /\ \A j \in issued : j.result.from = i.result.from => j = i

(* A result that waits is gone before its time only when it was issued, or  *)
(* when a later result of the same citizen replaced it: in particular no    *)
(* timer that was too late to be stopped takes the later one with it.       *)
WaitsItsTime ==
  [][\A c \in pending \ pending' :
       \/ Expired(c)
       \/ \E i \in issued' : i.result = c
       \/ \E d \in pending' \ pending : d.identity = c.identity]_vars

(* A login by wallet takes the identity its own disclosure session gave,    *)
(* however the pages, a second login and the wallet interleave.             *)
OwnDisclosure ==
  [][\A l \in Login :
       (/\ logins[l] # Gone /\ logins'[l] # Gone
        /\ logins[l].identity # logins'[l].identity)
         => /\ logins[l].wallet \in Wallet
            /\ wallet[logins[l].wallet] = [at |-> "done", who |-> logins'[l].identity]]_vars

=============================================================================
