---------------------------- MODULE QtspWebProofs ----------------------------
(***************************************************************************)
(* Theorems about QtspWeb, for any number of citizens, browsers, handlers  *)
(* and disclosure sessions, every lifetime, and whatever attributes are    *)
(* asked for.                                                              *)
(***************************************************************************)
EXTENDS QtspWeb, TLAPS

-----------------------------------------------------------------------------
(* The inductive invariant.  A login takes the identity of its own         *)
(* disclosure session because a handler that is about to identify still    *)
(* holds the session it looked up, and a session that is done stays so     *)
(* (LoginsOK, HandlersOK).  A result is its citizen's because the session, *)
(* the handler that took it and the result agree on what was begun         *)
(* (OfSession), and there is one result of it because a session is in one  *)
(* of these places at a time (UsedOnce).  A timer that was too late takes  *)
(* only its own result with it because ids are not used again (Timers).    *)

LoginsOK ==
  /\ logins \in [Login -> LoginRecord \cup {Gone}] /\ lastLogin \in 0 .. MaxLogins
  /\ \A l \in Login : logins[l] # Gone =>
       l <= lastLogin /\ (logins[l].identity = NoOne => logins[l].wallet \in Wallet)

CookieOK == cookie \in [Browser -> [login : 0 .. MaxLogins, session : 0 .. MaxSessions]]

WalletOK ==
  /\ wallet \in [Wallet -> [at : {"new", "waiting", "failed", "done"}, who : Person \cup {NoOne}]]
  /\ \A w \in Wallet : wallet[w].at = "done" => wallet[w].who \in Person

Opening == [at : {"opening"}, browser : Browser, login : 0 .. MaxLogins, request : 0 .. MaxRequests]
Looking == [at : {"progress", "identify"}, browser : Browser, login : Login, wallet : Wallet]
Preparing == [at : {"preparing"}, browser : Browser, attrs : SUBSET Attribute, identity : Person]
Away == [at : {"away"}, session : Session, kept : SessionRecord]

HandlerType(x) ==
  /\ x.at \in {"idle", "opening", "progress", "identify", "preparing", "asking", "away"}
  /\ x.at = "opening" => x \in Opening
  /\ x.at \in {"progress", "identify"} => x \in Looking
  /\ x.at = "preparing" => x \in Preparing
  /\ x.at = "asking" => x.attrs \subseteq Attribute
  /\ x.at = "away" => x \in Away

Identifies(x) == x.at = "identify" => wallet[x.wallet].at = "done"
WillIdentify(x) == x.at = "identify" => wallet'[x.wallet].at = "done"

HandlersOK ==
  /\ DOMAIN handler = Handler
  /\ \A h \in Handler : HandlerType(handler[h]) /\ Identifies(handler[h])

LoginSide == LoginsOK /\ CookieOK /\ WalletOK /\ HandlersOK

SessionsOK ==
  /\ sessions \in [Session -> SessionRecord \cup {Gone}] /\ lastSession \in 0 .. MaxSessions
  /\ begun \in [Session -> BegunRecord \cup {Gone}]
  /\ \A s \in Session : begun[s] # Gone => s <= lastSession
  /\ \A s \in Session : sessions[s] # Gone =>
       /\ begun[s] # Gone
       /\ sessions[s].identity = begun[s].identity /\ sessions[s].request = begun[s].request

RequestsOK ==
  /\ requests \in [Request -> RequestRecord \cup {Gone}] /\ lastRequest \in 0 .. MaxRequests
  /\ begun \in [Session -> BegunRecord \cup {Gone}]
  /\ \A r \in Request : requests[r] # Gone => r <= lastRequest
  /\ \A s \in Session : begun[s] # Gone /\ begun[s].request # 0 =>
       /\ begun[s].request <= lastRequest
       /\ requests[begun[s].request] # Gone => requests[begun[s].request].started

\* A request is started by one session at most, and its outcome is that of a
\* session begun for it.
OneSessionEach ==
  /\ \A s, t \in Session :
       begun[s] # Gone /\ begun[t] # Gone /\ begun[s].request = begun[t].request /\ begun[s].request # 0
         => s = t
  /\ \A r \in Request : requests[r] # Gone /\ requests[r].outcome # "pending" =>
       requests[r].by \in Session /\ begun[requests[r].by] # Gone /\ begun[requests[r].by].request = r

Back == {h \in Handler : handler[h].at = "away"}

OfSession ==
  /\ \A h \in Back :
       /\ begun[handler[h].session] # Gone
       /\ handler[h].kept.identity = begun[handler[h].session].identity
       /\ handler[h].kept.request = begun[handler[h].session].request
  /\ \A c \in pending :
       c.from \in Session /\ begun[c.from] # Gone /\ begun[c.from].identity = c.identity
  /\ \A i \in issued :
       /\ i.result.from \in Session /\ begun[i.result.from] # Gone
       /\ begun[i.result.from].identity = i.to /\ i.at < i.result.expires

UsedOnce ==
  /\ \A h \in Back :
       /\ sessions[handler[h].session] = Gone
       /\ \A k \in Back : handler[k].session = handler[h].session => k = h
       /\ \A c \in pending : c.from # handler[h].session
       /\ \A i \in issued : i.result.from # handler[h].session
  /\ \A c \in pending :
       /\ sessions[c.from] = Gone
       /\ \A d \in pending : d.from = c.from => d = c
       /\ \A i \in issued : i.result.from # c.from
  /\ \A i \in issued :
       /\ sessions[i.result.from] = Gone
       /\ \A j \in issued : j.result.from = i.result.from => j = i

Timers ==
  /\ StoreTypeOK /\ now \in 0 .. MaxTime
  /\ \A c \in pending : c.id <= nextId /\ \A d \in pending : d.id = c.id => d = c
  /\ armed \cup started \subseteq 1 .. nextId
  /\ \A id \in started : \A c \in pending : c.id = id => Expired(c)

Requested == RequestsOK /\ OneSessionEach
Places == SessionsOK /\ OfSession /\ UsedOnce

IInv == LoginSide /\ Requested /\ Places /\ Timers /\ ClientTypeOK

LEMMA TypeParts == IInv => TypeOK
  BY DEF IInv, LoginSide, LoginsOK, CookieOK, WalletOK, HandlersOK, HandlerType,
         Requested, RequestsOK, Places, SessionsOK, Timers, TypeOK

LEMMA InvInit == Init => IInv
  <1> SUFFICES ASSUME Init PROVE IInv
    OBVIOUS
  <1> USE WebAssumption, IssuanceAssumption, ClientAssumption DEF Init, StoreInit, ClientInit
  <1>1. LoginsOK /\ CookieOK
    BY DEF LoginsOK, CookieOK, Login
  <1>2. WalletOK
    BY DEF WalletOK
  <1>3. \A h \in Handler : handler[h].at = "idle"
    BY DEF Idle
  <1>4. HandlersOK
    BY <1>3 DEF HandlersOK, HandlerType, Identifies
  <1>5. Back = {}
    BY <1>3 DEF Back
  <1>6. SessionsOK /\ RequestsOK /\ OneSessionEach
    BY DEF SessionsOK, RequestsOK, OneSessionEach, Session, Request
  <1>7. OfSession /\ UsedOnce
    BY <1>5 DEF OfSession, UsedOnce
  <1>8. Timers
    BY DEF Timers, StoreTypeOK
  <1>9. ClientTypeOK
    BY DEF ClientTypeOK
  <1> QED
    BY <1>1, <1>2, <1>4, <1>6, <1>7, <1>8, <1>9 DEF IInv, LoginSide, Requested, Places

-----------------------------------------------------------------------------
(* Logins and handlers.                                                    *)

\* What a step may do to a login that stays.
OwnIdentity(l) ==
  (logins[l] # Gone /\ logins'[l] # Gone /\ logins[l].identity # logins'[l].identity)
    => /\ logins[l].wallet \in Wallet
       /\ wallet[logins[l].wallet] = [at |-> "done", who |-> logins'[l].identity]

Logged == LoginsOK' /\ \A l \in Login : OwnIdentity(l)

LEMMA LoginsShrink ==
  ASSUME LoginsOK, UNCHANGED lastLogin, DOMAIN logins' = Login,
         logins' = [l \in Login |-> logins'[l]],
         \A l \in Login : logins'[l] \in {logins[l], Gone}
  PROVE  Logged
  <1>1. logins' \in [Login -> LoginRecord \cup {Gone}]
    BY DEF LoginsOK
  <1> QED
    BY <1>1 DEF LoginsOK, Logged, OwnIdentity

LEMMA LoginsDropped ==
  ASSUME LoginsOK, UNCHANGED lastLogin, NEW k, DropLogin(k) \/ logins' = Current(logins) \/ UNCHANGED logins
  PROVE  Logged
  <1>1. DOMAIN logins = Login /\ logins = [l \in Login |-> logins[l]]
    BY DEF LoginsOK
  <1>2. /\ DOMAIN logins' = Login /\ logins' = [l \in Login |-> logins'[l]]
        /\ \A l \in Login : logins'[l] \in {logins[l], Gone}
    <2>1. CASE DropLogin(k)
      BY <2>1, Zenon DEF DropLogin
    <2>2. CASE logins' = Current(logins)
      BY <1>1, <2>2, Zenon DEF Current
    <2>3. CASE UNCHANGED logins
      BY <1>1, <2>3
    <2> QED
      BY <2>1, <2>2, <2>3
  <1> QED
    BY <1>2, LoginsShrink

LEMMA LoginsGrow ==
  ASSUME LoginsOK, CookieOK, NEW b \in Browser, NEW old, NEW rec \in LoginRecord,
         rec.identity = NoOne => rec.wallet \in Wallet, NewLogin(b, old, rec)
  PROVE  Logged /\ CookieOK'
  <1> DEFINE new == lastLogin + 1
  <1>1. lastLogin \in Nat /\ new \in Login /\ lastLogin' = new /\ new \in 0 .. MaxLogins
    BY WebAssumption DEF LoginsOK, NewLogin, Login
  <1>2. logins[new] = Gone
    BY <1>1 DEF LoginsOK
  <1>3. logins' \in [Login -> LoginRecord \cup {Gone}]
    BY DEF LoginsOK, NewLogin
  <1>4. /\ logins'[new] = rec
        /\ \A l \in Login : l # new => logins'[l] \in {logins[l], Gone}
    BY <1>1 DEF NewLogin
  <1>5. LoginsOK'
    <2>1. ASSUME NEW l \in Login, logins'[l] # Gone
          PROVE  l <= new /\ (logins'[l].identity = NoOne => logins'[l].wallet \in Wallet)
      <3>1. CASE l = new
        <4>1. l <= new
          BY <1>1, <3>1
        <4> QED
          BY <1>4, <3>1, <4>1
      <3>2. CASE l # new
        <4>1. logins'[l] = logins[l]
          BY <1>4, <2>1, <3>2
        <4>2. l <= lastLogin /\ (logins[l].identity = NoOne => logins[l].wallet \in Wallet)
          BY <2>1, <4>1 DEF LoginsOK
        <4> QED
          BY <1>1, <4>1, <4>2 DEF Login
      <3> QED
        BY <3>1, <3>2
    <2> QED
      BY <1>1, <1>3, <2>1 DEF LoginsOK
  <1>6. \A l \in Login : OwnIdentity(l)
    BY <1>2, <1>4 DEF OwnIdentity
  <1>7. cookie' = [cookie EXCEPT ![b].login = new]
    BY DEF NewLogin
  <1> HIDE DEF new
  <1>8. CookieOK'
    BY <1>1, <1>7 DEF CookieOK
  <1> QED
    BY <1>5, <1>6, <1>8 DEF Logged

\* A disclosure session that is done stays as it is.
DoneStays == \A w \in Wallet : wallet[w].at = "done" => wallet'[w] = wallet[w]

\* No handler comes to hold a session that it did not hold.
NoneReturns == \A h \in Handler : handler'[h].at = "away" => handler'[h] = handler[h]

LEMMA HandlersKept ==
  ASSUME HandlersOK, DoneStays, UNCHANGED handler
  PROVE  HandlersOK' /\ NoneReturns
  <1>1. ASSUME NEW h \in Handler PROVE Identifies(handler[h])'
    <2>1. HandlerType(handler[h]) /\ Identifies(handler[h])
      BY DEF HandlersOK
    <2>2. CASE handler[h].at = "identify"
      <3>1. handler[h].wallet \in Wallet
        BY <2>1, <2>2 DEF HandlerType, Looking
      <3> QED
        BY <2>1, <3>1 DEF Identifies, DoneStays
    <2> QED
      BY <2>2 DEF Identifies
  <1> QED
    BY <1>1 DEF HandlersOK, HandlerType, NoneReturns

LEMMA HandlerBecomes ==
  ASSUME HandlersOK, DoneStays, NEW h \in Handler, NEW x,
         HandlerType(x), WillIdentify(x), handler' = [handler EXCEPT ![h] = x]
  PROVE  /\ HandlersOK' /\ handler'[h] = x
         /\ \A k \in Handler : k # h => handler'[k] = handler[k]
         /\ x.at # "away" => NoneReturns
  <1>1. /\ DOMAIN handler' = Handler /\ handler'[h] = x
        /\ \A k \in Handler : k # h => handler'[k] = handler[k]
    BY DEF HandlersOK
  <1>2. ASSUME NEW k \in Handler, k # h PROVE HandlerType(handler'[k]) /\ Identifies(handler[k])'
    <2>1. HandlerType(handler[k]) /\ Identifies(handler[k]) /\ handler'[k] = handler[k]
      BY <1>1, <1>2 DEF HandlersOK
    <2>2. CASE handler[k].at = "identify"
      <3>1. handler[k].wallet \in Wallet
        BY <2>1, <2>2 DEF HandlerType, Looking
      <3> QED
        BY <2>1, <3>1 DEF Identifies, DoneStays
    <2> QED
      BY <2>1, <2>2 DEF Identifies
  <1>3. \A k \in Handler : HandlerType(handler'[k]) /\ Identifies(handler[k])'
    BY <1>1, <1>2 DEF Identifies, WillIdentify
  <1>4. HandlersOK'
    BY <1>1, <1>3 DEF HandlersOK, HandlerType
  <1> QED
    BY <1>1, <1>4 DEF NoneReturns

LEMMA IdleFits == HandlerType(Idle) /\ Idle.at = "idle" /\ WillIdentify(Idle)
  BY DEF HandlerType, Idle, WillIdentify

LEMMA BecomesIdle ==
  ASSUME HandlersOK, DoneStays, NEW h \in Handler, handler' = [handler EXCEPT ![h] = Idle]
  PROVE  HandlersOK' /\ NoneReturns /\ handler'[h] = Idle
         /\ \A k \in Handler : k # h => handler'[k] = handler[k]
  BY HandlerBecomes, IdleFits

-----------------------------------------------------------------------------
(* The steps of logins.                                                    *)

LoginFrame ==
  UNCHANGED <<now, clientVars, storeVars, sessions, lastSession, requests, lastRequest, begun>>

LoginStep ==
  \/ \E b \in Browser, p \in Person : MockLogin(b, p)
  \/ \E b \in Browser : Logout(b)
  \/ \E h \in Handler, b \in Browser, r \in {0} \cup Request : WalletStart(h, b, r)
  \/ \E h \in Handler, w \in Wallet : WalletOpened(h, w)
  \/ \E w \in Wallet, p \in Person : Disclose(w, p)
  \/ \E w \in Wallet : Refuse(w)
  \/ \E h \in Handler, b \in Browser : WalletLook(h, b)
  \/ \E h \in Handler : \/ WalletProgress(h) \/ WalletIdentify(h)
                        \/ WalletUnusable(h) \/ VerifierFails(h)
  \/ \E h \in Handler, b \in Browser, attrs \in Asked : Start(h, b, attrs)

LoginKeeps == LoginSide' /\ LoginFrame /\ NoneReturns /\ \A l \in Login : OwnIdentity(l)

LEMMA WalletStays == WalletOK /\ UNCHANGED wallet => WalletOK' /\ DoneStays
  BY DEF WalletOK, DoneStays

\* The login a cookie names, when it is current.
LEMMA CurrentLogin ==
  ASSUME LoginsOK, CookieOK, NEW b \in Browser, HasLogin(cookie[b].login)
  PROVE  /\ cookie[b].login \in Login /\ logins[cookie[b].login] # Gone
         /\ logins[cookie[b].login] \in LoginRecord
  <1>1. cookie[b].login \in 0 .. MaxLogins /\ cookie[b].login # 0
    BY DEF CookieOK, HasLogin
  <1>2. cookie[b].login \in Login
    BY <1>1, WebAssumption DEF Login
  <1>3. logins[cookie[b].login] # Gone
    BY <1>2 DEF LoginsOK, HasLogin, Current
  <1> QED
    BY <1>2, <1>3 DEF LoginsOK

LEMMA StepsOfLogin == LoginSide /\ now \in 0 .. MaxTime /\ LoginStep => LoginKeeps
  <1> SUFFICES ASSUME LoginSide, now \in 0 .. MaxTime, LoginStep PROVE LoginKeeps
    OBVIOUS
  <1> USE DEF LoginSide
  <1>1. ASSUME NEW b \in Browser, NEW p \in Person, MockLogin(b, p)
        PROVE  LoginKeeps
    <2> DEFINE rec == [identity |-> p, wallet |-> NoWallet, request |-> 0,
                       expires |-> now + LoginLifetime]
    <2>1. rec \in LoginRecord /\ rec.identity # NoOne
      BY WebAssumption DEF LoginRecord
    <2>2. /\ NewLogin(b, cookie[b].login, rec) /\ LoginFrame
          /\ UNCHANGED wallet /\ UNCHANGED handler
      BY <1>1 DEF MockLogin, LoginFrame
    <2> HIDE DEF rec
    <2>3. Logged /\ CookieOK'
      BY <2>1, <2>2, LoginsGrow
    <2> QED
      BY <2>2, <2>3, WalletStays, HandlersKept DEF Logged, LoginKeeps
  <1>2. ASSUME NEW b \in Browser, Logout(b)
        PROVE  LoginKeeps
    <2>1. /\ DropLogin(cookie[b].login) /\ LoginFrame
          /\ UNCHANGED lastLogin /\ UNCHANGED wallet /\ UNCHANGED handler
      BY <1>2 DEF Logout, LoginFrame
    <2>2. CookieOK'
      BY <1>2, WebAssumption DEF Logout, CookieOK
    <2>3. Logged
      BY <2>1, LoginsDropped
    <2> QED
      BY <2>1, <2>2, <2>3, WalletStays, HandlersKept DEF Logged, LoginKeeps
  <1>3. ASSUME NEW h \in Handler, NEW b \in Browser, NEW r \in {0} \cup Request, WalletStart(h, b, r)
        PROVE  LoginKeeps
    <2> DEFINE x == [at |-> "opening", browser |-> b, login |-> cookie[b].login, request |-> r]
    <2>1. x.at = "opening" /\ x \in Opening
      BY WebAssumption DEF Opening, CookieOK, Request
    <2>2. HandlerType(x) /\ WillIdentify(x) /\ x.at # "away"
      BY <2>1 DEF HandlerType, WillIdentify
    <2>3. /\ handler' = [handler EXCEPT ![h] = x] /\ LoginFrame
          /\ UNCHANGED <<logins, lastLogin>> /\ UNCHANGED wallet /\ UNCHANGED cookie
      BY <1>3 DEF WalletStart, LoginFrame
    <2> HIDE DEF x
    <2>4. Logged /\ CookieOK' /\ WalletOK' /\ DoneStays
      BY <2>3, LoginsDropped, WalletStays DEF CookieOK
    <2>5. HandlersOK' /\ NoneReturns
      BY <2>2, <2>3, <2>4, HandlerBecomes
    <2> QED
      BY <2>3, <2>4, <2>5 DEF Logged, LoginKeeps
  <1>4. ASSUME NEW h \in Handler, NEW w \in Wallet, WalletOpened(h, w)
        PROVE  LoginKeeps
    <2> DEFINE rec == [identity |-> NoOne, wallet |-> w, request |-> handler[h].request,
                       expires |-> now + LoginLifetime]
               b == handler[h].browser
    <2>1. handler[h] \in Opening /\ wallet[w].at = "new"
      BY <1>4 DEF WalletOpened, HandlersOK, HandlerType
    <2>2. rec \in LoginRecord /\ rec.wallet \in Wallet /\ b \in Browser
      BY <2>1, WebAssumption DEF LoginRecord, Opening
    <2>3. /\ NewLogin(b, handler[h].login, rec) /\ LoginFrame
          /\ wallet' = [wallet EXCEPT ![w].at = "waiting"]
          /\ handler' = [handler EXCEPT ![h] = Idle]
      BY <1>4 DEF WalletOpened, LoginFrame
    <2> HIDE DEF rec, b
    <2>4. Logged /\ CookieOK'
      BY <2>2, <2>3, LoginsGrow
    <2>5. WalletOK' /\ DoneStays
      BY <2>1, <2>3 DEF WalletOK, DoneStays
    <2> QED
      BY <2>3, <2>4, <2>5, BecomesIdle DEF Logged, LoginKeeps
  <1>5. ASSUME NEW w \in Wallet, Refuse(w) \/ \E p \in Person : Disclose(w, p)
        PROVE  LoginKeeps
    <2>1. /\ UNCHANGED <<logins, lastLogin>> /\ UNCHANGED cookie /\ UNCHANGED handler /\ LoginFrame
          /\ wallet[w].at = "waiting"
          /\ \/ \E p \in Person : wallet' = [wallet EXCEPT ![w] = [at |-> "done", who |-> p]]
             \/ wallet' = [wallet EXCEPT ![w].at = "failed"]
      BY <1>5 DEF Disclose, Refuse, LoginFrame
    <2>2. WalletOK' /\ DoneStays
      BY <2>1 DEF WalletOK, DoneStays
    <2>3. Logged /\ CookieOK'
      BY <2>1, LoginsDropped DEF CookieOK
    <2> QED
      BY <2>1, <2>2, <2>3, HandlersKept DEF Logged, LoginKeeps
  <1>6. ASSUME NEW h \in Handler, NEW b \in Browser, WalletLook(h, b)
        PROVE  LoginKeeps
    <2> DEFINE l == cookie[b].login
               x == [at |-> "progress", browser |-> b, login |-> l, wallet |-> logins[l].wallet]
    <2>1. HasLogin(l) /\ logins[l].identity = NoOne
      BY <1>6 DEF WalletLook
    <2>2. l \in Login /\ logins[l] # Gone
      BY <2>1, CurrentLogin
    <2>3. logins[l].wallet \in Wallet
      BY <2>1, <2>2 DEF LoginsOK
    <2>4. x \in Looking /\ x.at = "progress"
      BY <2>2, <2>3 DEF Looking
    <2>5. HandlerType(x) /\ WillIdentify(x) /\ x.at # "away"
      BY <2>4 DEF HandlerType, WillIdentify
    <2>6. /\ handler' = [handler EXCEPT ![h] = x] /\ LoginFrame /\ logins' = Current(logins)
          /\ UNCHANGED lastLogin /\ UNCHANGED wallet /\ UNCHANGED cookie
      BY <1>6 DEF WalletLook, LoginFrame
    <2> HIDE DEF x, l
    <2>7. Logged /\ CookieOK' /\ WalletOK' /\ DoneStays
      BY <2>6, LoginsDropped, WalletStays DEF CookieOK
    <2>8. HandlersOK' /\ NoneReturns
      BY <2>5, <2>6, <2>7, HandlerBecomes
    <2> QED
      BY <2>6, <2>7, <2>8 DEF Logged, LoginKeeps
  <1>7. ASSUME NEW h \in Handler, WalletProgress(h)
        PROVE  LoginKeeps
    <2> DEFINE w == handler[h].wallet
               x == [handler[h] EXCEPT !.at = "identify"]
    <2>1. /\ LoginFrame /\ UNCHANGED lastLogin /\ UNCHANGED wallet /\ UNCHANGED cookie
          /\ UNCHANGED logins \/ DropLogin(handler[h].login)
      BY <1>7 DEF WalletProgress, LoginFrame
    <2>2. Logged /\ CookieOK' /\ WalletOK' /\ DoneStays
      BY <2>1, LoginsDropped, WalletStays DEF CookieOK
    <2>3. HandlersOK' /\ NoneReturns
      <3>1. CASE handler' = [handler EXCEPT ![h] = Idle]
        BY <2>2, <3>1, BecomesIdle
      <3>2. CASE wallet[w].at = "done" /\ handler' = [handler EXCEPT ![h].at = "identify"]
        <4>1. handler[h] \in Looking
          BY <1>7 DEF WalletProgress, HandlersOK, HandlerType
        <4>2. x \in Looking /\ x.at = "identify" /\ x.wallet = w
          BY <4>1 DEF Looking
        <4>3. handler' = [handler EXCEPT ![h] = x]
          BY <3>2
        <4> HIDE DEF x
        <4>4. HandlerType(x) /\ x.at # "away"
          BY <4>2 DEF HandlerType
        <4>5. WillIdentify(x)
          BY <2>1, <3>2, <4>2 DEF WillIdentify
        <4> QED
          BY <2>2, <4>3, <4>4, <4>5, HandlerBecomes
      <3> QED
        BY <1>7, <3>1, <3>2 DEF WalletProgress
    <2> QED
      BY <2>1, <2>2, <2>3 DEF Logged, LoginKeeps
  <1>8. ASSUME NEW h \in Handler, WalletIdentify(h)
        PROVE  LoginKeeps
    <2> DEFINE l == handler[h].login
               w == handler[h].wallet
               p == wallet[w].who
    <2>1. handler[h] \in Looking /\ wallet[w].at = "done"
      BY <1>8 DEF WalletIdentify, HandlersOK, HandlerType, Identifies
    <2>2. l \in Login /\ w \in Wallet /\ p \in Person /\ p # NoOne
          /\ wallet[w] = [at |-> "done", who |-> p]
      BY <2>1, WebAssumption DEF Looking, WalletOK
    <2>3. /\ logins' = Attached(l, w, p) /\ LoginFrame
          /\ handler' = [handler EXCEPT ![h] = Idle]
          /\ UNCHANGED lastLogin /\ UNCHANGED wallet /\ UNCHANGED cookie
      BY <1>8 DEF WalletIdentify, LoginFrame
    <2> HIDE DEF l, w, p
    <2>4. Logged
      <3>1. CASE logins[l] # Gone /\ logins[l].wallet = w
        <4> DEFINE x == [logins[l] EXCEPT !.identity = p, !.wallet = NoWallet]
        <4>1. logins' = [logins EXCEPT ![l] = x]
          <5>1. l # 0
            BY <2>2, WebAssumption DEF Login
          <5>2. logins' = [logins EXCEPT ![l].identity = p, ![l].wallet = NoWallet]
            BY <2>3, <3>1, <5>1, Zenon DEF Attached
          <5> QED
            BY <2>2, <5>2 DEF LoginsOK
        <4>2. logins[l] \in LoginRecord
          BY <2>2, <3>1 DEF LoginsOK
        <4>3. x \in LoginRecord /\ x.identity = p
          BY <2>2, <4>2 DEF LoginRecord
        <4> HIDE DEF x
        <4>4. /\ logins' \in [Login -> LoginRecord \cup {Gone}] /\ logins'[l] = x
              /\ \A k \in Login : k # l => logins'[k] = logins[k]
          BY <2>2, <4>1, <4>3 DEF LoginsOK
        <4>5. LoginsOK'
          BY <2>2, <2>3, <3>1, <4>3, <4>4 DEF LoginsOK
        <4>6. \A k \in Login : OwnIdentity(k)
          BY <2>2, <3>1, <4>3, <4>4 DEF OwnIdentity
        <4> QED
          BY <4>5, <4>6 DEF Logged
      <3>2. CASE ~ (logins[l] # Gone /\ logins[l].wallet = w)
        <4>1. logins' = logins
          BY <2>3, <3>2 DEF Attached
        <4> QED
          BY <2>3, <4>1, LoginsDropped
      <3> QED
        BY <3>1, <3>2
    <2>5. CookieOK' /\ WalletOK' /\ DoneStays
      BY <2>3, WalletStays DEF CookieOK
    <2> QED
      BY <2>3, <2>4, <2>5, BecomesIdle DEF Logged, LoginKeeps
  <1>9. ASSUME NEW h \in Handler, WalletUnusable(h) \/ VerifierFails(h)
        PROVE  LoginKeeps
    <2>1. /\ DropLogin(handler[h].login) \/ UNCHANGED logins
          /\ LoginFrame /\ handler' = [handler EXCEPT ![h] = Idle]
          /\ UNCHANGED lastLogin /\ UNCHANGED wallet /\ UNCHANGED cookie
      BY <1>9 DEF WalletUnusable, VerifierFails, LoginFrame
    <2>2. Logged /\ CookieOK' /\ WalletOK' /\ DoneStays
      BY <2>1, LoginsDropped, WalletStays DEF CookieOK
    <2> QED
      BY <2>1, <2>2, BecomesIdle DEF Logged, LoginKeeps
  <1>10. ASSUME NEW h \in Handler, NEW b \in Browser, NEW attrs \in Asked, Start(h, b, attrs)
         PROVE  LoginKeeps
    <2> DEFINE l == cookie[b].login
               x == [at |-> "preparing", browser |-> b, attrs |-> attrs,
                     identity |-> logins[l].identity]
    <2>1. HasLogin(l) /\ logins[l].identity # NoOne
      BY <1>10 DEF Start, LoggedIn
    <2>2. logins[l] \in LoginRecord
      BY <2>1, CurrentLogin
    <2>3. x \in Preparing /\ x.at = "preparing"
      BY <2>1, <2>2, WebAssumption DEF Preparing, LoginRecord
    <2>4. HandlerType(x) /\ WillIdentify(x) /\ x.at # "away"
      BY <2>3 DEF HandlerType, WillIdentify
    <2>5. /\ handler' = [handler EXCEPT ![h] = x] /\ LoginFrame /\ logins' = Current(logins)
          /\ UNCHANGED lastLogin /\ UNCHANGED wallet /\ UNCHANGED cookie
      BY <1>10 DEF Start, LoginFrame
    <2> HIDE DEF x, l
    <2>6. Logged /\ CookieOK' /\ WalletOK' /\ DoneStays
      BY <2>5, LoginsDropped, WalletStays DEF CookieOK
    <2>7. HandlersOK' /\ NoneReturns
      BY <2>4, <2>5, <2>6, HandlerBecomes
    <2> QED
      BY <2>5, <2>6, <2>7 DEF Logged, LoginKeeps
  <1> QED
    BY <1>1, <1>2, <1>3, <1>4, <1>5, <1>6, <1>7, <1>8, <1>9, <1>10 DEF LoginStep

-----------------------------------------------------------------------------
(* Requests of the request API.                                            *)

\* A table of records, some of which may have gone.
Shrinks(new, old, S) == DOMAIN new = S /\ new = [x \in S |-> new[x]] /\ \A x \in S : new[x] \in {old[x], Gone}

LEMMA CurrentShrinks ==
  ASSUME NEW S, NEW R, NEW table \in [S -> R \cup {Gone}]
  PROVE  /\ Shrinks(table, table, S) /\ Shrinks(Current(table), table, S)
         /\ Current(table) \in [S -> R \cup {Gone}]
  <1>1. table = [x \in S |-> table[x]] /\ DOMAIN table = S
    OBVIOUS
  <1>2. Shrinks(table, table, S) /\ Shrinks(Current(table), table, S)
    BY <1>1, Zenon DEF Shrinks, Current
  <1>3. \A x \in S : Current(table)[x] \in R \cup {Gone}
    BY <1>2 DEF Shrinks
  <1> QED
    BY <1>2, <1>3 DEF Shrinks

\* What was begun for a request names it.
LEMMA BegunOf ==
  ASSUME Requested, NEW s \in Session, begun[s] # Gone
  PROVE  /\ begun[s] \in BegunRecord
         /\ begun[s].request # 0 => begun[s].request \in Request
  <1>1. begun[s] \in BegunRecord
    BY DEF Requested, RequestsOK
  <1>2. begun[s].request \in 0 .. MaxRequests
    BY <1>1 DEF BegunRecord
  <1> QED
    BY <1>1, <1>2, WebAssumption DEF Request

LEMMA RequestedShrinks ==
  ASSUME Requested, Shrinks(requests', requests, Request), UNCHANGED <<lastRequest, begun>>
  PROVE  Requested'
  <1>1. requests' \in [Request -> RequestRecord \cup {Gone}]
    BY DEF Requested, RequestsOK, Shrinks
  <1>2. \A r \in Request : requests'[r] # Gone => requests'[r] = requests[r]
    BY Zenon DEF Shrinks
  <1>3. \A s \in Session : begun[s] # Gone /\ begun[s].request # 0 => begun[s].request \in Request
    BY BegunOf
  <1>4. RequestsOK'
    <2>1. ASSUME NEW s \in Session, begun[s] # Gone, begun[s].request # 0
          PROVE  /\ begun[s].request <= lastRequest
                 /\ requests'[begun[s].request] # Gone => requests'[begun[s].request].started
      BY <1>2, <1>3, <2>1 DEF Requested, RequestsOK
    <2> QED
      BY <1>1, <1>2, <2>1 DEF Requested, RequestsOK
  <1>5. OneSessionEach'
    BY <1>2 DEF Requested, OneSessionEach
  <1> QED
    BY <1>4, <1>5 DEF Requested

\* A new request has no session and no outcome.
LEMMA RequestedGrows ==
  ASSUME Requested, NEW rec \in RequestRecord, rec.outcome = "pending",
         lastRequest < MaxRequests, lastRequest' = lastRequest + 1, UNCHANGED begun,
         requests' = [Current(requests) EXCEPT ![lastRequest + 1] = rec]
  PROVE  Requested'
  <1> DEFINE new == lastRequest + 1
             now1 == Current(requests)
  <1>1. lastRequest \in Nat /\ new \in Request /\ new \in 0 .. MaxRequests /\ lastRequest' = new
    BY WebAssumption DEF Requested, RequestsOK, Request
  <1>2. now1 \in [Request -> RequestRecord \cup {Gone}] /\ \A r \in Request : now1[r] \in {requests[r], Gone}
    BY CurrentShrinks DEF Requested, RequestsOK, Shrinks
  <1>3. requests' = [now1 EXCEPT ![new] = rec]
    OBVIOUS
  <1> HIDE DEF now1, new
  <1>4. /\ requests' \in [Request -> RequestRecord \cup {Gone}] /\ requests'[new] = rec
        /\ \A r \in Request : r # new => requests'[r] = now1[r]
    BY <1>1, <1>2, <1>3
  <1>5. \A r \in Request : r # new /\ requests'[r] # Gone => requests'[r] = requests[r]
    BY <1>2, <1>4
  <1>6. \A r \in Request : requests'[r] # Gone => r <= new
    <2>1. ASSUME NEW r \in Request, r # new, requests'[r] # Gone PROVE r <= new
      <3>1. r <= lastRequest
        BY <1>5, <2>1 DEF Requested, RequestsOK
      <3> QED
        BY <1>1, <3>1 DEF Request, new
    <2> QED
      BY <1>1, <2>1
  <1>7. ASSUME NEW s \in Session, begun[s] # Gone, begun[s].request # 0
        PROVE  /\ begun[s].request <= new
               /\ requests'[begun[s].request] # Gone => requests'[begun[s].request].started
    <2>1. begun[s].request \in Request /\ begun[s].request <= lastRequest
      BY <1>7, BegunOf DEF Requested, RequestsOK
    <2>2. begun[s].request # new /\ begun[s].request <= new
      BY <1>1, <2>1 DEF Request, new
    <2> QED
      BY <1>5, <1>7, <2>1, <2>2 DEF Requested, RequestsOK
  <1>8. RequestsOK'
    BY <1>1, <1>4, <1>6, <1>7 DEF Requested, RequestsOK
  <1>9. OneSessionEach'
    BY <1>4, <1>5 DEF Requested, OneSessionEach
  <1> QED
    BY <1>8, <1>9 DEF Requested

\* The outcome of a session goes to the request it was begun for.
LEMMA RequestedFinishes ==
  ASSUME Requested, NEW s \in Session, begun[s] # Gone, NEW outcome \in Outcomes, now \in 0 .. MaxTime,
         requests' = Finished(begun[s].request, outcome, s), UNCHANGED <<lastRequest, begun>>
  PROVE  Requested'
  <1> DEFINE r == begun[s].request
             e == now + RequestLifetime
  <1>1. CASE r # 0 /\ requests[r] # Gone
    <2>1. r \in Request
      BY <1>1, BegunOf
    <2>2. requests[r] \in RequestRecord
      BY <1>1, <2>1 DEF Requested, RequestsOK
    <2>3. PICK x \in RequestRecord :
            /\ x = [requests[r] EXCEPT !.outcome = outcome, !.by = s, !.expires = e]
            /\ x.by = s /\ x.started = requests[r].started
      <3> DEFINE q == requests[r]
      <3>1. q \in RequestRecord /\ s \in 0 .. MaxSessions /\ e \in Nat
        BY <2>2, WebAssumption DEF Session
      <3> HIDE DEF e, q
      <3>2. PICK x \in RequestRecord :
              /\ x = [q EXCEPT !.outcome = outcome, !.by = s, !.expires = e]
              /\ x.by = s /\ x.started = q.started
        <4> DEFINE y == [q EXCEPT !.outcome = outcome, !.by = s, !.expires = e]
        <4>1. y \in RequestRecord
          BY <3>1, Zenon DEF RequestRecord
        <4>2. y.by = s /\ y.started = q.started
          BY <3>1, Zenon DEF RequestRecord
        <4> QED
          BY <4>1, <4>2, Zenon
      <3> QED
        BY <3>2 DEF q
    <2>4. requests' = [requests EXCEPT ![r] = x]
      <3>1. requests' = [requests EXCEPT ![r].outcome = outcome, ![r].by = s,
                                         ![r].expires = e]
        BY <1>1, Zenon DEF Finished
      <3> QED
        BY <2>1, <2>3, <3>1 DEF Requested, RequestsOK
    <2> HIDE DEF e
    <2>5. /\ requests' \in [Request -> RequestRecord \cup {Gone}] /\ requests'[r] = x
          /\ \A q \in Request : q # r => requests'[q] = requests[q]
      BY <2>1, <2>3, <2>4 DEF Requested, RequestsOK
    <2>6. \A t \in Session : begun[t] # Gone /\ begun[t].request # 0 => begun[t].request \in Request
      BY BegunOf
    <2>7. RequestsOK'
      BY <1>1, <2>1, <2>3, <2>5, <2>6 DEF Requested, RequestsOK
    <2>8. OneSessionEach'
      <3>1. ASSUME NEW q \in Request, requests'[q] # Gone, requests'[q].outcome # "pending"
            PROVE  /\ requests'[q].by \in Session /\ begun[requests'[q].by] # Gone
                   /\ begun[requests'[q].by].request = q
        <4>1. CASE q = r
          BY <2>3, <2>5, <4>1
        <4>2. CASE q # r
          BY <2>5, <3>1, <4>2 DEF Requested, OneSessionEach
        <4> QED
          BY <4>1, <4>2
      <3> QED
        BY <3>1 DEF Requested, OneSessionEach
    <2> QED
      BY <2>7, <2>8 DEF Requested
  <1>2. CASE ~ (r # 0 /\ requests[r] # Gone)
    <2>1. requests' = requests
      BY <1>2, Zenon DEF Finished
    <2>2. Shrinks(requests, requests, Request)
      BY CurrentShrinks DEF Requested, RequestsOK
    <2> QED
      BY <2>1, <2>2, RequestedShrinks
  <1> QED
    BY <1>1, <1>2

-----------------------------------------------------------------------------
(* A new session.                                                          *)

\* What begin leaves under a new number.
NewSession(s, b, attrs, r, identity, client) ==
  /\ s \in Session /\ lastSession' = s /\ lastSession < s
  /\ sessions[s] = Gone /\ begun[s] = Gone
  /\ sessions' \in [Session -> SessionRecord \cup {Gone}]
  /\ begun' \in [Session -> BegunRecord \cup {Gone}]
  /\ \A t \in Session : t # s => sessions'[t] = sessions[t] /\ begun'[t] = begun[t]
  /\ sessions'[s] # Gone /\ sessions'[s].request = r /\ sessions'[s].identity = identity
  /\ begun'[s] # Gone /\ begun'[s].request = r /\ begun'[s].identity = identity
  /\ cookie' = [cookie EXCEPT ![b].session = s]

LEMMA BeginsOne ==
  ASSUME SessionsOK, now \in 0 .. MaxTime, NEW b \in Browser, NEW attrs \in SUBSET Attribute,
         NEW r \in 0 .. MaxRequests, NEW identity \in Person, NEW client \in 0 .. MaxClients,
         Begin(b, attrs, r, identity, client)
  PROVE  NewSession(lastSession + 1, b, attrs, r, identity, client)
  <1> DEFINE s == lastSession + 1
             x == [attrs |-> attrs, request |-> r, identity |-> identity, client |-> client,
                   expires |-> now + SessionLifetime]
             y == [browser |-> b, request |-> r, identity |-> identity, at |-> now]
  <1>1. s \in Session /\ lastSession \in Nat /\ lastSession < s /\ lastSession' = s
    BY WebAssumption DEF SessionsOK, Begin, Session
  <1>2. x \in SessionRecord /\ x.request = r /\ x.identity = identity
    BY WebAssumption DEF SessionRecord
  <1>3. y \in BegunRecord /\ y.request = r /\ y.identity = identity
    BY WebAssumption DEF BegunRecord
  <1>4. x # Gone /\ y # Gone
    BY <1>2, <1>3, WebAssumption
  <1>5. /\ sessions' = [sessions EXCEPT ![s] = x] /\ begun' = [begun EXCEPT ![s] = y]
        /\ cookie' = [cookie EXCEPT ![b].session = s]
    BY DEF Begin
  <1>6. begun[s] = Gone /\ sessions[s] = Gone
    <2>1. ~ (s <= lastSession)
      BY <1>1
    <2> QED
      BY <1>1, <2>1 DEF SessionsOK
  <1> HIDE DEF x, y, s
  <1>7. /\ sessions' \in [Session -> SessionRecord \cup {Gone}] /\ sessions'[s] = x
        /\ \A t \in Session : t # s => sessions'[t] = sessions[t]
    BY <1>1, <1>2, <1>5 DEF SessionsOK
  <1>8. /\ begun' \in [Session -> BegunRecord \cup {Gone}] /\ begun'[s] = y
        /\ \A t \in Session : t # s => begun'[t] = begun[t]
    BY <1>1, <1>3, <1>5 DEF SessionsOK
  <1> QED
    BY <1>1, <1>2, <1>3, <1>4, <1>5, <1>6, <1>7, <1>8 DEF NewSession, s

LEMMA CookieBegins ==
  ASSUME CookieOK, NEW b \in Browser, NEW s \in Session, cookie' = [cookie EXCEPT ![b].session = s]
  PROVE  CookieOK'
  <1>1. s \in 0 .. MaxSessions
    BY WebAssumption DEF Session
  <1> QED
    BY <1>1 DEF CookieOK

\* A session that was not asked for through the request API.
LEMMA RequestedBegins ==
  ASSUME Requested, NEW s, NEW b, NEW attrs, NEW identity, NEW client,
         NewSession(s, b, attrs, 0, identity, client), UNCHANGED <<requests, lastRequest>>
  PROVE  Requested'
  <1>1. /\ s \in Session /\ begun[s] = Gone /\ begun'[s].request = 0
        /\ begun' \in [Session -> BegunRecord \cup {Gone}]
        /\ \A t \in Session : t # s => begun'[t] = begun[t]
    BY DEF NewSession
  <1>2. RequestsOK'
    BY <1>1 DEF Requested, RequestsOK
  <1>3. OneSessionEach'
    <2>1. ASSUME NEW q \in Session, NEW t \in Session, begun'[q] # Gone, begun'[t] # Gone,
                 begun'[q].request = begun'[t].request, begun'[q].request # 0
          PROVE  q = t
      BY <1>1, <2>1 DEF Requested, OneSessionEach
    <2>2. ASSUME NEW r \in Request, requests'[r] # Gone, requests'[r].outcome # "pending"
          PROVE  /\ requests'[r].by \in Session /\ begun'[requests'[r].by] # Gone
                 /\ begun'[requests'[r].by].request = r
      <3>1. /\ requests[r].by \in Session /\ begun[requests[r].by] # Gone
            /\ begun[requests[r].by].request = r
        BY <2>2 DEF Requested, OneSessionEach
      <3> QED
        BY <1>1, <3>1
    <2> QED
      BY <2>1, <2>2 DEF OneSessionEach
  <1> QED
    BY <1>2, <1>3 DEF Requested

\* The first start of a request: none of the sessions there are was begun for it.
LEMMA RequestedStarts ==
  ASSUME Requested, NEW s, NEW b, NEW attrs, NEW r \in Request, NEW identity, NEW client,
         NewSession(s, b, attrs, r, identity, client), UNCHANGED lastRequest,
         Current(requests)[r] # Gone, ~Current(requests)[r].started,
         requests' = [Current(requests) EXCEPT ![r].started = TRUE]
  PROVE  Requested'
  <1> DEFINE q == Current(requests)[r]
             x == [q EXCEPT !.started = TRUE]
             now1 == Current(requests)
  <1>1. now1 \in [Request -> RequestRecord \cup {Gone}] /\ \A k \in Request : now1[k] \in {requests[k], Gone}
    BY CurrentShrinks DEF Requested, RequestsOK, Shrinks
  <1>2. q \in RequestRecord /\ q = requests[r] /\ requests[r] # Gone
    BY <1>1
  <1> HIDE DEF q
  <1>3. x \in RequestRecord /\ x.started /\ x.outcome = q.outcome /\ x.by = q.by
    <2>1. x \in RequestRecord
      BY <1>2, Zenon DEF RequestRecord
    <2>2. x.started /\ x.outcome = q.outcome /\ x.by = q.by
      BY <1>2, Zenon DEF RequestRecord
    <2> QED
      BY <2>1, <2>2
  <1>4. requests' = [now1 EXCEPT ![r] = x]
    BY Zenon DEF q
  <1> HIDE DEF x, now1
  <1>5. /\ requests' \in [Request -> RequestRecord \cup {Gone}] /\ requests'[r] = x
        /\ \A k \in Request : k # r /\ requests'[k] # Gone => requests'[k] = requests[k]
    BY <1>1, <1>3, <1>4
  <1>6. /\ s \in Session /\ begun[s] = Gone /\ begun'[s].request = r /\ begun'[s] # Gone
        /\ begun' \in [Session -> BegunRecord \cup {Gone}]
        /\ \A t \in Session : t # s => begun'[t] = begun[t]
    BY DEF NewSession
  <1>7. \A t \in Session : begun[t] # Gone => begun[t].request # r
    <2>1. SUFFICES ASSUME NEW t \in Session, begun[t] # Gone, begun[t].request = r PROVE FALSE
      OBVIOUS
    <2>2. r # 0
      BY WebAssumption DEF Request
    <2>3. requests[r].started
      BY <1>2, <2>1, <2>2 DEF Requested, RequestsOK
    <2>4. ~ requests[r].started
      BY <1>2 DEF q
    <2> QED
      BY <2>3, <2>4
  <1>8. RequestsOK'
    <2>1. ASSUME NEW t \in Session, begun'[t] # Gone, begun'[t].request # 0
          PROVE  /\ begun'[t].request <= lastRequest
                 /\ requests'[begun'[t].request] # Gone => requests'[begun'[t].request].started
      <3>1. CASE t = s
        BY <1>2, <1>3, <1>5, <1>6, <3>1 DEF Requested, RequestsOK
      <3>2. CASE t # s
        <4>1. begun[t].request \in Request /\ begun'[t] = begun[t]
          BY <1>6, <2>1, <3>2, BegunOf
        <4>2. begun[t].request # r
          BY <1>7, <2>1, <4>1
        <4> QED
          BY <1>5, <2>1, <4>1, <4>2 DEF Requested, RequestsOK
      <3> QED
        BY <3>1, <3>2
    <2> QED
      BY <1>2, <1>5, <1>6, <2>1 DEF Requested, RequestsOK
  <1>9. OneSessionEach'
    <2>1. ASSUME NEW k \in Session, NEW t \in Session, begun'[k] # Gone, begun'[t] # Gone,
                 begun'[k].request = begun'[t].request, begun'[k].request # 0
          PROVE  k = t
      BY <1>6, <1>7, <2>1 DEF Requested, OneSessionEach
    <2>2. ASSUME NEW k \in Request, requests'[k] # Gone, requests'[k].outcome # "pending"
          PROVE  /\ requests'[k].by \in Session /\ begun'[requests'[k].by] # Gone
                 /\ begun'[requests'[k].by].request = k
      <3>1. /\ requests'[k].outcome = requests[k].outcome /\ requests'[k].by = requests[k].by
            /\ requests[k] # Gone
        BY <1>2, <1>3, <1>5, <2>2
      <3>2. /\ requests[k].by \in Session /\ begun[requests[k].by] # Gone
            /\ begun[requests[k].by].request = k
        BY <2>2, <3>1 DEF Requested, OneSessionEach
      <3> QED
        BY <1>6, <3>1, <3>2
    <2> QED
      BY <2>1, <2>2 DEF OneSessionEach
  <1> QED
    BY <1>8, <1>9 DEF Requested

-----------------------------------------------------------------------------
(* The places of a session: kept, with a handler, waiting, issued.         *)

\* The handlers that are back from the authorization server hold a session.
LEMMA BackHolds ==
  ASSUME HandlersOK, NEW h \in Back
  PROVE  h \in Handler /\ handler[h] \in Away /\ handler[h].session \in Session
  BY DEF Back, HandlersOK, HandlerType, Away

LEMMA NoneReturnsBack ==
  ASSUME NoneReturns
  PROVE  \A h \in Back' : h \in Back /\ handler'[h] = handler[h]
  BY DEF NoneReturns, Back

LEMMA PlacesShrink ==
  ASSUME Places, HandlersOK, NoneReturns, Shrinks(sessions', sessions, Session),
         UNCHANGED <<lastSession, begun, issued>>, pending' \subseteq pending
  PROVE  Places'
  <1>1. sessions' \in [Session -> SessionRecord \cup {Gone}]
    BY DEF Places, SessionsOK, Shrinks
  <1>2. \A s \in Session : /\ sessions'[s] # Gone => sessions'[s] = sessions[s]
                           /\ sessions[s] = Gone => sessions'[s] = Gone
    BY Zenon DEF Shrinks
  <1>3. SessionsOK'
    BY <1>1, <1>2 DEF Places, SessionsOK
  <1>4. \A h \in Back' : h \in Back /\ handler'[h] = handler[h] /\ handler[h].session \in Session
    BY NoneReturnsBack, BackHolds
  <1>5. OfSession'
    BY <1>4 DEF Places, OfSession
  <1>6. UsedOnce'
    <2>1. \A h \in Back' :
            /\ sessions'[handler'[h].session] = Gone
            /\ \A k \in Back' : handler'[k].session = handler'[h].session => k = h
            /\ \A c \in pending' : c.from # handler'[h].session
            /\ \A i \in issued : i.result.from # handler'[h].session
      BY <1>2, <1>4 DEF Places, UsedOnce
    <2>2. \A c \in pending : c.from \in Session
      BY DEF Places, OfSession
    <2>3. \A i \in issued : i.result.from \in Session
      BY DEF Places, OfSession
    <2> QED
      BY <1>2, <2>1, <2>2, <2>3 DEF Places, UsedOnce
  <1> QED
    BY <1>3, <1>5, <1>6 DEF Places

LEMMA PlacesBegin ==
  ASSUME Places, HandlersOK, NoneReturns, NEW s, NEW b, NEW attrs, NEW r, NEW identity, NEW client,
         NewSession(s, b, attrs, r, identity, client), UNCHANGED <<pending, issued>>
  PROVE  Places'
  <1>1. /\ s \in Session /\ lastSession' = s /\ lastSession < s /\ sessions[s] = Gone /\ begun[s] = Gone
        /\ sessions' \in [Session -> SessionRecord \cup {Gone}]
        /\ begun' \in [Session -> BegunRecord \cup {Gone}]
        /\ \A t \in Session : t # s => sessions'[t] = sessions[t] /\ begun'[t] = begun[t]
        /\ sessions'[s].request = begun'[s].request /\ sessions'[s].identity = begun'[s].identity
        /\ begun'[s] # Gone
    BY DEF NewSession
  <1>2. s \in Nat /\ lastSession \in Nat /\ lastSession' \in 0 .. MaxSessions
    BY <1>1, WebAssumption DEF Session, Places, SessionsOK
  <1>3. SessionsOK'
    <2>1. \A t \in Session : begun'[t] # Gone => t <= s
      <3> SUFFICES ASSUME NEW t \in Session, t # s, begun'[t] # Gone PROVE t <= s
        BY <1>2
      <3>1. t <= lastSession
        BY <1>1 DEF Places, SessionsOK
      <3> QED
        BY <1>1, <1>2, <3>1 DEF Session
    <2> QED
      BY <1>1, <1>2, <2>1 DEF Places, SessionsOK
  <1>4. \A h \in Back' : h \in Back /\ handler'[h] = handler[h] /\ handler[h].session \in Session
    BY NoneReturnsBack, BackHolds
  <1>5. /\ \A h \in Back : handler[h].session # s
        /\ \A c \in pending : c.from \in Session /\ c.from # s
        /\ \A i \in issued : i.result.from \in Session /\ i.result.from # s
    BY <1>1 DEF Places, OfSession
  <1>6. OfSession'
    BY <1>1, <1>4, <1>5 DEF Places, OfSession
  <1>7. UsedOnce'
    <2>1. \A h \in Back' :
            /\ sessions'[handler'[h].session] = Gone
            /\ \A k \in Back' : handler'[k].session = handler'[h].session => k = h
            /\ \A c \in pending : c.from # handler'[h].session
            /\ \A i \in issued : i.result.from # handler'[h].session
      BY <1>1, <1>4, <1>5 DEF Places, UsedOnce
    <2> QED
      BY <1>1, <1>5, <2>1 DEF Places, UsedOnce
  <1> QED
    BY <1>3, <1>6, <1>7 DEF Places

\* A handler takes the session out of the table.
LEMMA PlacesTaken ==
  ASSUME Places, HandlersOK, NEW h \in Handler, NEW s \in Session, sessions[s] # Gone,
         sessions'[s] = Gone, Shrinks(sessions', sessions, Session), handler[h].at = "idle",
         handler'[h].at = "away", handler'[h].session = s, handler'[h].kept = sessions[s],
         \A k \in Handler : k # h => handler'[k] = handler[k],
         UNCHANGED <<lastSession, begun, pending, issued>>
  PROVE  Places'
  <1>1. sessions' \in [Session -> SessionRecord \cup {Gone}]
    BY DEF Places, SessionsOK, Shrinks
  <1>2. \A t \in Session : /\ sessions'[t] # Gone => sessions'[t] = sessions[t]
                           /\ sessions[t] = Gone => sessions'[t] = Gone
    BY Zenon DEF Shrinks
  <1>3. SessionsOK'
    BY <1>1, <1>2 DEF Places, SessionsOK
  <1>4. /\ begun[s] # Gone /\ sessions[s].identity = begun[s].identity
        /\ sessions[s].request = begun[s].request
    BY DEF Places, SessionsOK
  <1>5. \A k \in Back' : k # h => k \in Back /\ handler'[k] = handler[k] /\ handler[k].session \in Session
    BY BackHolds DEF Back
  <1>6. /\ \A k \in Back : handler[k].session # s
        /\ \A c \in pending : c.from \in Session /\ c.from # s
        /\ \A i \in issued : i.result.from \in Session /\ i.result.from # s
    BY DEF Places, OfSession, UsedOnce
  <1>7. OfSession'
    BY <1>4, <1>5 DEF Places, OfSession
  <1>8. UsedOnce'
    <2>1. \A k \in Back' :
            /\ sessions'[handler'[k].session] = Gone
            /\ \A j \in Back' : handler'[j].session = handler'[k].session => j = k
            /\ \A c \in pending : c.from # handler'[k].session
            /\ \A i \in issued : i.result.from # handler'[k].session
      BY <1>2, <1>5, <1>6 DEF Places, UsedOnce
    <2> QED
      BY <1>2, <1>6, <2>1 DEF Places, UsedOnce
  <1> QED
    BY <1>3, <1>7, <1>8 DEF Places

\* The handler leaves the session to a result.
LEMMA PlacesOffered ==
  ASSUME Places, HandlersOK, NEW h \in Back, NEW new, new.from = handler[h].session,
         new.identity = handler[h].kept.identity, NoneReturns, h \notin Back',
         UNCHANGED <<sessions, lastSession, begun, issued>>, pending' \subseteq pending \cup {new}
  PROVE  Places'
  <1>1. h \in Handler /\ handler[h].session \in Session
    BY BackHolds
  <1>2. SessionsOK'
    BY DEF Places, SessionsOK
  <1>3. \A k \in Back' : k \in Back /\ k # h /\ handler'[k] = handler[k] /\ handler[k].session \in Session
    BY NoneReturnsBack, BackHolds
  <1>4. OfSession'
    BY <1>1, <1>3 DEF Places, OfSession
  <1>5. UsedOnce'
    <2>1. \A k \in Back' :
            /\ sessions[handler'[k].session] = Gone
            /\ \A j \in Back' : handler'[j].session = handler'[k].session => j = k
            /\ \A c \in pending' : c.from # handler'[k].session
            /\ \A i \in issued : i.result.from # handler'[k].session
      BY <1>1, <1>3 DEF Places, UsedOnce
    <2>2. ASSUME NEW c \in pending'
          PROVE  /\ sessions[c.from] = Gone
                 /\ \A d \in pending' : d.from = c.from => d = c
                 /\ \A i \in issued : i.result.from # c.from
      BY <1>1 DEF Places, UsedOnce
    <2> QED
      BY <2>1, <2>2 DEF Places, UsedOnce
  <1> QED
    BY <1>2, <1>4, <1>5 DEF Places

\* A result that waited is issued.
LEMMA PlacesIssued ==
  ASSUME Places, Timers, NEW p \in Person, Take(p), UNCHANGED <<sessions, lastSession, begun, handler>>
  PROVE  Places'
  <1>1. Back' = Back
    BY DEF Back
  <1>2. SessionsOK'
    BY DEF Places, SessionsOK
  <1>3. /\ \A c \in pending' : c \in pending
        /\ \A i \in issued' : i \in issued \/
             /\ i.result \in pending \ pending' /\ i.result.identity = i.to
             /\ i.at = now /\ ~Expired(i.result)
        /\ \A i, j \in issued' \ issued : i.result = j.result => i = j
    BY DEF Take
  <1>4. OfSession'
    <2>1. ASSUME NEW i \in issued'
          PROVE  /\ i.result.from \in Session /\ begun[i.result.from] # Gone
                 /\ begun[i.result.from].identity = i.to /\ i.at < i.result.expires
      <3>1. CASE i \in issued
        BY <3>1 DEF Places, OfSession
      <3>2. CASE i \notin issued
        <4>1. i.result \in pending /\ i.result.identity = i.to /\ i.at = now /\ ~Expired(i.result)
          BY <1>3, <3>2
        <4>2. i.result.expires \in Nat /\ now \in Nat
          BY <4>1 DEF Timers, StoreTypeOK, Result
        <4> QED
          BY <4>1, <4>2 DEF Places, OfSession, Expired
      <3> QED
        BY <3>1, <3>2
    <2> QED
      BY <1>1, <1>3, <2>1 DEF Places, OfSession
  <1>5. UsedOnce'
    <2>1. ASSUME NEW i \in issued'
          PROVE  /\ sessions[i.result.from] = Gone
                 /\ \A j \in issued' : j.result.from = i.result.from => j = i
                 /\ \A c \in pending' : i.result.from # c.from
                 /\ \A h \in Back : i.result.from # handler[h].session
      BY <1>3 DEF Places, UsedOnce
    <2> QED
      BY <1>1, <1>3, <2>1 DEF Places, UsedOnce
  <1> QED
    BY <1>2, <1>4, <1>5 DEF Places

-----------------------------------------------------------------------------
(* Results and timers.                                                     *)

\* How a result that waits may go.
Waits ==
  \A c \in pending \ pending' :
    \/ Expired(c)
    \/ \E i \in issued' : i.result = c
    \/ \E d \in pending' \ pending : d.identity = c.identity

Timed == Timers' /\ Waits

LEMMA TimersWait == Timers /\ UNCHANGED storeVars /\ now' \in {now, now + 1} /\ now' <= MaxTime => Timed
  <1> SUFFICES ASSUME Timers, UNCHANGED storeVars, now' \in {now, now + 1}, now' <= MaxTime PROVE Timed
    OBVIOUS
  <1>1. now \in Nat /\ now' \in 0 .. MaxTime /\ now <= now'
    BY WebAssumption DEF Timers
  <1>2. /\ pending' = pending /\ nextId' = nextId /\ armed' = armed /\ started' = started /\ issued' = issued
    BY DEF storeVars
  <1>3. \A c \in pending : c.expires \in Nat
    BY DEF Timers, StoreTypeOK, Result
  <1>4. \A id \in started : \A c \in pending : c.id = id => c.expires <= now'
    BY <1>1, <1>3 DEF Timers, Expired
  <1> QED
    BY <1>1, <1>2, <1>4 DEF Timers, StoreTypeOK, Timed, Waits, Expired

LEMMA TimersAdd ==
  ASSUME Timers, NEW p \in Person, NEW s \in Session, Add(p, s), UNCHANGED now
  PROVE  /\ Timed
         /\ \E new : new.from = s /\ new.identity = p /\ pending' \subseteq pending \cup {new}
  <1> DEFINE replaced == {c \in pending : Expired(c) \/ c.identity = p}
             new == [id |-> nextId + 1, identity |-> p, from |-> s, expires |-> now + Lifetime]
  <1>1. /\ nextId < MaxResults /\ nextId' = nextId + 1
        /\ pending' = (pending \ replaced) \cup {new}
        /\ armed' = (armed \ Ids(replaced)) \cup {new.id}
        /\ started' = started /\ issued' = issued
    BY DEF Add
  <1>2. nextId \in Nat /\ nextId' \in 0 .. MaxResults /\ nextId + 1 \in 1 .. MaxResults
    BY <1>1, IssuanceAssumption DEF Timers, StoreTypeOK
  <1>3. new \in Result
    BY <1>2, IssuanceAssumption, WebAssumption DEF Result, Timers, Session
  <1>4. new.id = nextId + 1 /\ new.from = s /\ new.identity = p
    OBVIOUS
  <1> HIDE DEF new
  <1>5. \A c \in pending : c.id \in Nat /\ c.id <= nextId
    BY DEF Timers, StoreTypeOK, Result
  <1>6. \A c \in pending : c.id # new.id /\ c.id <= nextId'
    BY <1>1, <1>2, <1>4, <1>5
  <1>7. StoreTypeOK'
    BY <1>1, <1>2, <1>3, <1>4 DEF Timers, StoreTypeOK
  <1>8. armed' \cup started' \subseteq 1 .. nextId'
    <2>1. \A id \in 1 .. nextId : id \in 1 .. nextId'
      BY <1>1, <1>2
    <2>2. new.id \in 1 .. nextId'
      BY <1>1, <1>2, <1>4
    <2> QED
      BY <1>1, <2>1, <2>2 DEF Timers
  <1>9. \A id \in started' : \A c \in pending' : c.id = id => Expired(c)
    <2>1. new.id \notin started
      BY <1>2, <1>4 DEF Timers
    <2> QED
      BY <1>1, <2>1 DEF Timers
  <1>10. \A c \in pending' : c.id <= nextId' /\ \A d \in pending' : d.id = c.id => d = c
    <2>1. new.id <= nextId'
      BY <1>1, <1>2, <1>4
    <2> QED
      BY <1>1, <1>6, <2>1 DEF Timers
  <1>11. Timers'
    BY <1>7, <1>8, <1>9, <1>10 DEF Timers, Expired
  <1>12. Waits
    BY <1>1, <1>4, <1>6 DEF Waits
  <1> QED
    BY <1>1, <1>4, <1>11, <1>12 DEF Timed

LEMMA TimersTake ==
  ASSUME Timers, NEW p \in Person, Take(p), UNCHANGED now
  PROVE  Timed
  <1>1. /\ pending' \subseteq pending /\ armed' \subseteq armed /\ nextId' = nextId /\ started' = started
    BY DEF Take
  <1>2. issued' \subseteq [result : Result, to : Person, at : Nat]
    <2>1. now \in Nat
      BY DEF Timers
    <2> QED
      BY <2>1 DEF Take, Timers, StoreTypeOK
  <1>3. Timers'
    BY <1>1, <1>2 DEF Timers, StoreTypeOK, Expired
  <1>4. Waits
    <2>1. SUFFICES ASSUME NEW c \in pending, c \notin pending', ~Expired(c)
                   PROVE  \E i \in issued' : i.result = c
      BY DEF Waits
    <2> DEFINE i == [result |-> c, to |-> p, at |-> now]
    <2>2. i \in issued' /\ i.result = c
      BY <2>1 DEF Take
    <2> QED
      BY <2>2
  <1> QED
    BY <1>3, <1>4 DEF Timed

LEMMA TimersFire ==
  ASSUME Timers, NEW id, Fire(id) \/ Remove(id), UNCHANGED now
  PROVE  Timed /\ UNCHANGED issued /\ pending' \subseteq pending
  <1>1. CASE Fire(id)
    <2>1. /\ pending' = pending /\ nextId' = nextId /\ issued' = issued
          /\ armed' = armed \ {id} /\ started' = started \cup {id} /\ id \in armed
      BY <1>1 DEF Fire
    <2>2. \A c \in pending : c.id = id => Expired(c)
      BY <1>1 DEF Fire, Timers
    <2>3. Timers'
      BY <2>1, <2>2 DEF Timers, StoreTypeOK, Expired
    <2> QED
      BY <2>1, <2>3 DEF Timed, Waits
  <1>2. CASE Remove(id)
    <2>1. /\ pending' = {c \in pending : c.id # id} /\ nextId' = nextId /\ issued' = issued
          /\ armed' = armed /\ started' = started \ {id} /\ id \in started
      BY <1>2 DEF Remove
    <2>2. \A c \in pending : c.id = id => Expired(c)
      BY <2>1 DEF Timers
    <2>3. Timers'
      BY <2>1 DEF Timers, StoreTypeOK, Expired
    <2>4. Waits
      BY <2>1, <2>2 DEF Waits
    <2> QED
      BY <2>1, <2>3, <2>4 DEF Timed
  <1> QED
    BY <1>1, <1>2

-----------------------------------------------------------------------------
(* The steps.                                                              *)

\* What every step shows.
Keeps == IInv' /\ Waits /\ \A l \in Login : OwnIdentity(l)

LEMMA LoginsStay ==
  ASSUME LoginSide, UNCHANGED logins \/ logins' = Current(logins), UNCHANGED <<lastLogin, wallet>>,
         CookieOK', HandlersOK'
  PROVE  LoginSide' /\ \A l \in Login : OwnIdentity(l)
  BY LoginsDropped, WalletStays DEF LoginSide, Logged

LEMMA DoneKept == UNCHANGED wallet => DoneStays
  BY DEF DoneStays

LEMMA NothingMoves == IInv => /\ Shrinks(sessions, sessions, Session) /\ Shrinks(requests, requests, Request)
  BY CurrentShrinks DEF IInv, Requested, Places, RequestsOK, SessionsOK

LEMMA StoreStays == Timers /\ UNCHANGED <<now, storeVars>> => Timed
  BY TimersWait DEF Timers

LEMMA ClientStays == ClientTypeOK /\ UNCHANGED clientVars => ClientTypeOK'
  BY DEF ClientTypeOK, clientVars

LEMMA ClientPlans ==
  ASSUME ClientTypeOK, UseKept \/ (reg = 0 /\ RegisterAnew)
  PROVE  ClientTypeOK' /\ reg' \in 0 .. MaxClients
  <1>1. CASE UseKept
    BY <1>1, ClientStays DEF UseKept, ClientTypeOK
  <1>2. CASE RegisterAnew
    BY <1>2, ClientAssumption DEF RegisterAnew, ClientTypeOK
  <1> QED
    BY <1>1, <1>2

LEMMA LoginStepKeeps == IInv /\ LoginStep => Keeps
  <1> SUFFICES ASSUME IInv, LoginStep PROVE Keeps
    OBVIOUS
  <1>1. now \in 0 .. MaxTime /\ HandlersOK
    BY DEF IInv, Timers, LoginSide
  <1>2. LoginSide' /\ LoginFrame /\ NoneReturns /\ \A l \in Login : OwnIdentity(l)
    BY <1>1, StepsOfLogin DEF IInv, LoginKeeps
  <1>3. /\ UNCHANGED sessions /\ UNCHANGED <<lastSession, begun, issued>> /\ pending' \subseteq pending
        /\ UNCHANGED requests /\ UNCHANGED <<lastRequest, begun>> /\ UNCHANGED clientVars
        /\ UNCHANGED <<now, storeVars>>
    BY <1>2 DEF LoginFrame, storeVars
  <1>4. Requested'
    BY <1>3, NothingMoves, RequestedShrinks DEF IInv
  <1>5. Places'
    BY <1>1, <1>2, <1>3, NothingMoves, PlacesShrink DEF IInv
  <1> QED
    BY <1>2, <1>3, <1>4, <1>5, StoreStays, ClientStays DEF IInv, Keeps, Timed

RequestStep ==
  \/ \E h \in Handler, attrs \in Asked : CreateRequest(h, attrs)
  \/ \E h \in Handler : Begun(h) \/ Created(h) \/ Refused(h)
  \/ \E b \in Browser, r \in Request : StartRequest(b, r)
  \/ GetRequest

LEMMA RequestStepKeeps == IInv /\ RequestStep => Keeps
  <1> SUFFICES ASSUME IInv, RequestStep PROVE Keeps
    OBVIOUS
  <1>1. /\ now \in 0 .. MaxTime /\ HandlersOK /\ CookieOK /\ LoginsOK /\ LoginSide /\ Requested
        /\ Places /\ Timers /\ ClientTypeOK /\ SessionsOK
    BY DEF IInv, Timers, LoginSide, Places
  <1>2. ASSUME NEW h \in Handler, Refused(h) \/ \E attrs \in Asked : CreateRequest(h, attrs)
        PROVE  Keeps
    <2>1. /\ UNCHANGED logins /\ UNCHANGED <<lastLogin, wallet>> /\ UNCHANGED wallet /\ UNCHANGED cookie
          /\ UNCHANGED sessions /\ UNCHANGED <<lastSession, begun, issued>> /\ pending' \subseteq pending
          /\ UNCHANGED requests /\ UNCHANGED <<lastRequest, begun>> /\ UNCHANGED clientVars
          /\ UNCHANGED <<now, storeVars>>
      BY <1>2 DEF Refused, CreateRequest, storeVars
    <2>2. HandlersOK' /\ NoneReturns
      <3>1. CASE Refused(h)
        BY <1>1, <2>1, <3>1, DoneKept, BecomesIdle DEF Refused
      <3>2. ASSUME NEW attrs \in Asked, CreateRequest(h, attrs)
            PROVE  HandlersOK' /\ NoneReturns
        <4> DEFINE x == [at |-> "asking", attrs |-> attrs]
        <4>1. HandlerType(x) /\ WillIdentify(x) /\ x.at # "away"
          BY WebAssumption DEF HandlerType, WillIdentify
        <4>2. handler' = [handler EXCEPT ![h] = x]
          BY <3>2 DEF CreateRequest
        <4> HIDE DEF x
        <4> QED
          BY <1>1, <2>1, <4>1, <4>2, DoneKept, HandlerBecomes
      <3> QED
        BY <1>2, <3>1, <3>2
    <2>3. Requested'
      BY <1>1, <2>1, NothingMoves, RequestedShrinks
    <2>4. Places'
      BY <1>1, <2>1, <2>2, NothingMoves, PlacesShrink
    <2>5. LoginSide' /\ \A l \in Login : OwnIdentity(l)
      BY <1>1, <2>1, <2>2, LoginsStay DEF CookieOK
    <2> QED
      BY <1>1, <2>1, <2>3, <2>4, <2>5, StoreStays, ClientStays DEF IInv, Keeps, Timed
  <1>3. ASSUME NEW h \in Handler, Begun(h)
        PROVE  Keeps
    <2> DEFINE p == handler[h]
    <2>1. p \in Preparing
      BY <1>1, <1>3 DEF Begun, HandlersOK, HandlerType
    <2>2. p.browser \in Browser /\ p.attrs \in SUBSET Attribute /\ p.identity \in Person /\ 0 \in 0 .. MaxRequests
      BY <2>1, WebAssumption DEF Preparing
    <2>3. /\ Begin(p.browser, p.attrs, 0, p.identity, reg') /\ handler' = [handler EXCEPT ![h] = Idle]
          /\ UseKept \/ (reg = 0 /\ RegisterAnew)
          /\ UNCHANGED <<now, storeVars>> /\ UNCHANGED <<requests, lastRequest>> /\ UNCHANGED <<pending, issued>>
          /\ UNCHANGED logins /\ UNCHANGED <<lastLogin, wallet>> /\ UNCHANGED wallet
      BY <1>3 DEF Begun, storeVars
    <2> HIDE DEF p
    <2>4. ClientTypeOK' /\ reg' \in 0 .. MaxClients
      BY <1>1, <2>3, ClientPlans
    <2>5. NewSession(lastSession + 1, p.browser, p.attrs, 0, p.identity, reg')
      BY <1>1, <2>2, <2>3, <2>4, BeginsOne
    <2>6. HandlersOK' /\ NoneReturns
      BY <1>1, <2>3, DoneKept, BecomesIdle
    <2>7. CookieOK'
      BY <1>1, <2>2, <2>5, CookieBegins DEF NewSession
    <2>8. Requested'
      BY <1>1, <2>3, <2>5, RequestedBegins
    <2>9. Places'
      BY <1>1, <2>3, <2>5, <2>6, PlacesBegin
    <2>10. LoginSide' /\ \A l \in Login : OwnIdentity(l)
      BY <1>1, <2>3, <2>6, <2>7, LoginsStay
    <2> QED
      BY <1>1, <2>3, <2>4, <2>8, <2>9, <2>10, StoreStays DEF IInv, Keeps, Timed
  <1>4. ASSUME NEW h \in Handler, Created(h)
        PROVE  Keeps
    <2> DEFINE rec == [attrs |-> handler[h].attrs, started |-> FALSE, client |-> reg', outcome |-> "pending",
                       by |-> 0, expires |-> now + RequestLifetime]
    <2>1. /\ handler' = [handler EXCEPT ![h] = Idle] /\ handler[h].at = "asking"
          /\ UseKept \/ (reg = 0 /\ RegisterAnew)
          /\ lastRequest < MaxRequests /\ lastRequest' = lastRequest + 1
          /\ requests' = [Current(requests) EXCEPT ![lastRequest + 1] = rec]
          /\ UNCHANGED begun /\ UNCHANGED <<now, storeVars>> /\ UNCHANGED sessions
          /\ UNCHANGED <<lastSession, begun, issued>> /\ pending' \subseteq pending
          /\ UNCHANGED logins /\ UNCHANGED <<lastLogin, wallet>> /\ UNCHANGED wallet /\ UNCHANGED cookie
      BY <1>4 DEF Created, storeVars
    <2>2. ClientTypeOK' /\ reg' \in 0 .. MaxClients
      BY <1>1, <2>1, ClientPlans
    <2>3. handler[h].attrs \in SUBSET Attribute /\ now + RequestLifetime \in Nat /\ 0 \in 0 .. MaxSessions
          /\ "pending" \in Outcomes
      BY <1>1, <2>1, WebAssumption DEF HandlersOK, HandlerType, Outcomes
    <2>4. rec \in RequestRecord /\ rec.outcome = "pending"
      BY <2>2, <2>3 DEF RequestRecord
    <2> HIDE DEF rec
    <2>5. Requested'
      BY <1>1, <2>1, <2>4, RequestedGrows
    <2>6. HandlersOK' /\ NoneReturns
      BY <1>1, <2>1, DoneKept, BecomesIdle
    <2>7. Places'
      BY <1>1, <2>1, <2>6, NothingMoves, PlacesShrink
    <2>8. LoginSide' /\ \A l \in Login : OwnIdentity(l)
      BY <1>1, <2>1, <2>6, LoginsStay DEF CookieOK
    <2> QED
      BY <1>1, <2>1, <2>2, <2>5, <2>7, <2>8, StoreStays DEF IInv, Keeps, Timed
  <1>5. ASSUME NEW b \in Browser, NEW r \in Request, StartRequest(b, r)
        PROVE  Keeps
    <2> DEFINE l == cookie[b].login
               q == Current(requests)[r]
    <2>1. /\ LoggedIn(l) /\ q # Gone /\ ~q.started
          /\ logins' = Current(logins) /\ requests' = [Current(requests) EXCEPT ![r].started = TRUE]
          /\ Begin(b, q.attrs, r, logins[l].identity, q.client)
          /\ UNCHANGED <<now, storeVars>> /\ UNCHANGED lastRequest /\ UNCHANGED <<pending, issued>>
          /\ UNCHANGED <<lastLogin, wallet>> /\ UNCHANGED wallet /\ UNCHANGED handler /\ UNCHANGED clientVars
      BY <1>5 DEF StartRequest, storeVars
    <2>2. logins[l].identity \in Person
      <3>1. logins[l] \in LoginRecord /\ logins[l].identity # NoOne
        BY <1>1, <2>1, CurrentLogin DEF LoggedIn
      <3> QED
        BY <3>1 DEF LoginRecord
    <2>3. q \in RequestRecord
      BY <1>1, <2>1, CurrentShrinks DEF Requested, RequestsOK
    <2>4. q.attrs \in SUBSET Attribute /\ q.client \in 0 .. MaxClients /\ r \in 0 .. MaxRequests
      BY <2>3, WebAssumption DEF RequestRecord, Request
    <2>5. NewSession(lastSession + 1, b, q.attrs, r, logins[l].identity, q.client)
      BY <1>1, <2>1, <2>2, <2>4, BeginsOne
    <2>6. HandlersOK' /\ NoneReturns
      BY <1>1, <2>1, DoneKept, HandlersKept
    <2>7. CookieOK'
      BY <1>1, <2>5, CookieBegins DEF NewSession
    <2>8. Requested'
      BY <1>1, <2>1, <2>5, RequestedStarts
    <2>9. Places'
      BY <1>1, <2>1, <2>5, <2>6, PlacesBegin
    <2>10. LoginSide' /\ \A k \in Login : OwnIdentity(k)
      BY <1>1, <2>1, <2>6, <2>7, LoginsStay
    <2> QED
      BY <1>1, <2>1, <2>8, <2>9, <2>10, StoreStays, ClientStays DEF IInv, Keeps, Timed
  <1>6. CASE GetRequest
    <2>1. /\ requests' = Current(requests) /\ UNCHANGED <<lastRequest, begun>> /\ UNCHANGED sessions
          /\ UNCHANGED <<lastSession, begun, issued>> /\ pending' \subseteq pending
          /\ UNCHANGED <<now, storeVars>> /\ UNCHANGED clientVars /\ UNCHANGED handler /\ UNCHANGED cookie
          /\ UNCHANGED logins /\ UNCHANGED <<lastLogin, wallet>> /\ UNCHANGED wallet
      BY <1>6 DEF GetRequest, storeVars
    <2>2. Shrinks(requests', requests, Request)
      BY <1>1, <2>1, CurrentShrinks DEF Requested, RequestsOK
    <2>3. Requested'
      BY <1>1, <2>1, <2>2, RequestedShrinks
    <2>4. HandlersOK' /\ NoneReturns
      BY <1>1, <2>1, DoneKept, HandlersKept
    <2>5. Places'
      BY <1>1, <2>1, <2>4, NothingMoves, PlacesShrink
    <2>6. LoginSide' /\ \A l \in Login : OwnIdentity(l)
      BY <1>1, <2>1, <2>4, LoginsStay DEF CookieOK
    <2> QED
      BY <1>1, <2>1, <2>3, <2>5, <2>6, StoreStays, ClientStays DEF IInv, Keeps, Timed
  <1> QED
    BY <1>2, <1>3, <1>4, <1>5, <1>6 DEF RequestStep

\* What the cookie names, when it is current, and what taking it leaves.
LEMMA TakenShrinks ==
  ASSUME SessionsOK, CookieOK, NEW b \in Browser, sessions' = Taken(b)
  PROVE  /\ Shrinks(sessions', sessions, Session)
         /\ cookie[b].session # 0 => cookie[b].session \in Session /\ sessions'[cookie[b].session] = Gone
  <1>1. Shrinks(Current(sessions), sessions, Session)
    BY CurrentShrinks DEF SessionsOK
  <1>2. DOMAIN sessions' = Session /\ sessions' = [s \in Session |-> sessions'[s]]
    BY Zenon DEF Taken
  <1>3. \A s \in Session : sessions'[s] = IF s = cookie[b].session THEN Gone ELSE Current(sessions)[s]
    BY Zenon DEF Taken
  <1>4. Shrinks(sessions', sessions, Session)
    BY <1>1, <1>2, <1>3, Zenon DEF Shrinks
  <1>5. cookie[b].session \in 0 .. MaxSessions
    BY DEF CookieOK
  <1>6. cookie[b].session # 0 => cookie[b].session \in Session
    BY <1>5, WebAssumption DEF Session
  <1> QED
    BY <1>3, <1>4, <1>6

LEMMA CurrentSession ==
  ASSUME SessionsOK, NEW s \in Session, Current(sessions)[s] # Gone
  PROVE  /\ sessions[s] # Gone /\ sessions[s] \in SessionRecord
         /\ begun[s] # Gone /\ sessions[s].request = begun[s].request
  <1>1. Current(sessions)[s] \in {sessions[s], Gone}
    BY CurrentShrinks DEF SessionsOK, Shrinks
  <1> QED
    BY <1>1 DEF SessionsOK

ReturnStep ==
  \/ \E b \in Browser, s \in Session : ReturnUnmatched(b, s)
  \/ \E b \in Browser : ReturnDenied(b)
  \/ \E h \in Handler, b \in Browser : ReturnWithCode(h, b)
  \/ \E h \in Handler : AnswerFails(h)
  \/ \E h \in Handler, seal \in BOOLEAN :
       handler[h].at = "away" /\
       \E results \in Answers(handler[h].kept.attrs) : Answered(h, seal, results)

LEMMA ReturnStepKeeps == IInv /\ ReturnStep => Keeps
  <1> SUFFICES ASSUME IInv, ReturnStep PROVE Keeps
    OBVIOUS
  <1>1. /\ now \in 0 .. MaxTime /\ HandlersOK /\ CookieOK /\ LoginsOK /\ LoginSide /\ Requested
        /\ Places /\ Timers /\ ClientTypeOK /\ SessionsOK /\ OfSession
    BY DEF IInv, Timers, LoginSide, Places
  <1>2. ASSUME NEW b \in Browser, ReturnDenied(b) \/ \E s \in Session : ReturnUnmatched(b, s)
        PROVE  Keeps
    <2> DEFINE s == cookie[b].session
    <2>1. /\ sessions' = Taken(b) /\ s # 0
          /\ UNCHANGED logins /\ UNCHANGED <<lastLogin, wallet>> /\ UNCHANGED wallet /\ UNCHANGED cookie
          /\ UNCHANGED <<lastSession, begun, issued>> /\ pending' \subseteq pending
          /\ UNCHANGED <<lastRequest, begun>> /\ UNCHANGED clientVars /\ UNCHANGED handler
          /\ UNCHANGED <<now, storeVars>>
      BY <1>2 DEF ReturnDenied, ReturnUnmatched, storeVars
    <2>2. Shrinks(sessions', sessions, Session) /\ s \in Session
      BY <1>1, <2>1, TakenShrinks
    <2>3. HandlersOK' /\ NoneReturns
      BY <1>1, <2>1, DoneKept, HandlersKept
    <2>4. Places'
      BY <1>1, <2>1, <2>2, <2>3, PlacesShrink
    <2>5. Requested'
      <3>1. CASE ReturnDenied(b)
        <4>1. Current(sessions)[s] # Gone /\ requests' = Finished(sessions[s].request, "denied", s)
          BY <3>1 DEF ReturnDenied
        <4>2. begun[s] # Gone /\ requests' = Finished(begun[s].request, "denied", s)
          BY <1>1, <2>2, <4>1, CurrentSession
        <4>3. "denied" \in Outcomes
          BY DEF Outcomes
        <4> HIDE DEF s
        <4> QED
          BY <1>1, <2>1, <2>2, <4>2, <4>3, RequestedFinishes
      <3>2. ASSUME NEW t \in Session, ReturnUnmatched(b, t)
            PROVE  Requested'
        <4>1. UNCHANGED requests
          BY <3>2 DEF ReturnUnmatched
        <4> QED
          BY <1>1, <2>1, <4>1, NothingMoves, RequestedShrinks
      <3> QED
        BY <1>2, <3>1, <3>2
    <2>6. LoginSide' /\ \A l \in Login : OwnIdentity(l)
      BY <1>1, <2>1, <2>3, LoginsStay DEF CookieOK
    <2> QED
      BY <1>1, <2>1, <2>4, <2>5, <2>6, StoreStays, ClientStays DEF IInv, Keeps, Timed
  <1>3. ASSUME NEW h \in Handler, NEW b \in Browser, ReturnWithCode(h, b)
        PROVE  Keeps
    <2> DEFINE s == cookie[b].session
               x == [at |-> "away", session |-> s, kept |-> sessions[s]]
    <2>1. /\ sessions' = Taken(b) /\ s # 0 /\ Current(sessions)[s] # Gone /\ handler[h].at = "idle"
          /\ handler' = [handler EXCEPT ![h] = x]
          /\ UNCHANGED logins /\ UNCHANGED <<lastLogin, wallet>> /\ UNCHANGED wallet /\ UNCHANGED cookie
          /\ UNCHANGED <<lastSession, begun, pending, issued>>
          /\ UNCHANGED requests /\ UNCHANGED <<lastRequest, begun>> /\ UNCHANGED clientVars
          /\ UNCHANGED <<now, storeVars>>
      BY <1>3 DEF ReturnWithCode, storeVars
    <2>2. Shrinks(sessions', sessions, Session) /\ s \in Session /\ sessions'[s] = Gone
      BY <1>1, <2>1, TakenShrinks
    <2>3. sessions[s] # Gone /\ sessions[s] \in SessionRecord
      BY <1>1, <2>1, <2>2, CurrentSession
    <2>4. x \in Away /\ x.at = "away" /\ x.session = s /\ x.kept = sessions[s]
      BY <2>2, <2>3 DEF Away
    <2>5. HandlerType(x) /\ WillIdentify(x)
      BY <2>4 DEF HandlerType, WillIdentify
    <2> HIDE DEF x, s
    <2>6. HandlersOK' /\ handler'[h] = x /\ \A k \in Handler : k # h => handler'[k] = handler[k]
      BY <1>1, <2>1, <2>5, DoneKept, HandlerBecomes
    <2>7. Places'
      BY <1>1, <2>1, <2>2, <2>3, <2>4, <2>6, PlacesTaken
    <2>8. Requested'
      BY <1>1, <2>1, NothingMoves, RequestedShrinks
    <2>9. LoginSide' /\ \A l \in Login : OwnIdentity(l)
      BY <1>1, <2>1, <2>6, LoginsStay DEF CookieOK
    <2> QED
      BY <1>1, <2>1, <2>7, <2>8, <2>9, StoreStays, ClientStays DEF IInv, Keeps, Timed
  <1>4. ASSUME NEW h \in Handler,
               AnswerFails(h) \/ \E seal \in BOOLEAN :
                 handler[h].at = "away" /\
                 \E results \in Answers(handler[h].kept.attrs) : Answered(h, seal, results)
        PROVE  Keeps
    <2> DEFINE kept == handler[h].kept
               s == handler[h].session
    <2>1. /\ handler[h].at = "away" /\ handler' = [handler EXCEPT ![h] = Idle]
          /\ \E outcome \in {"failed", "done"} : requests' = Finished(kept.request, outcome, s)
          /\ UNCHANGED storeVars \/ Add(kept.identity, s)
          /\ UNCHANGED logins /\ UNCHANGED <<lastLogin, wallet>> /\ UNCHANGED wallet /\ UNCHANGED cookie
          /\ UNCHANGED sessions /\ UNCHANGED <<lastSession, begun>> /\ UNCHANGED <<lastRequest, begun>>
          /\ UNCHANGED clientVars /\ UNCHANGED now
      BY <1>4 DEF AnswerFails, Answered, Offered, TokenRefused
    <2>2. h \in Back /\ kept \in SessionRecord /\ s \in Session
      BY <1>1, <2>1, BackHolds DEF Back, Away
    <2>3. begun[s] # Gone /\ kept.request = begun[s].request /\ kept.identity = begun[s].identity
      BY <1>1, <2>2 DEF OfSession
    <2>4. kept.identity \in Person
      BY <2>2 DEF SessionRecord
    <2>5. HandlersOK' /\ NoneReturns /\ handler'[h] = Idle
      BY <1>1, <2>1, DoneKept, BecomesIdle
    <2>6. h \notin Back'
      BY <2>5, IdleFits DEF Back
    <2>7. Requested'
      <3>1. PICK outcome \in {"failed", "done"} : requests' = Finished(begun[s].request, outcome, s)
        BY <2>1, <2>3
      <3>2. outcome \in Outcomes
        BY <3>1 DEF Outcomes
      <3> HIDE DEF s, kept
      <3> QED
        BY <1>1, <2>1, <2>2, <2>3, <3>1, <3>2, RequestedFinishes
    <2>8. LoginSide' /\ \A l \in Login : OwnIdentity(l)
      BY <1>1, <2>1, <2>5, LoginsStay DEF CookieOK
    <2>9. Timed /\ Places'
      <3>1. CASE UNCHANGED storeVars
        <4>1. Timed
          BY <1>1, <2>1, <3>1, StoreStays
        <4>2. pending' \subseteq pending /\ UNCHANGED <<lastSession, begun, issued>>
          BY <2>1, <3>1 DEF storeVars
        <4> QED
          BY <1>1, <2>1, <2>5, <4>1, <4>2, NothingMoves, PlacesShrink
      <3>2. CASE Add(kept.identity, s)
        <4>1. Timed
          BY <1>1, <2>1, <2>2, <2>4, <3>2, TimersAdd
        <4>2. PICK new : new.from = s /\ new.identity = kept.identity /\ pending' \subseteq pending \cup {new}
          BY <1>1, <2>1, <2>2, <2>4, <3>2, TimersAdd
        <4>3. UNCHANGED <<sessions, lastSession, begun, issued>>
          BY <2>1, <3>2 DEF Add
        <4> QED
          BY <1>1, <2>2, <2>5, <2>6, <4>1, <4>2, <4>3, PlacesOffered
      <3> QED
        BY <2>1, <3>1, <3>2
    <2> QED
      BY <1>1, <2>1, <2>7, <2>8, <2>9, ClientStays DEF IInv, Keeps, Timed
  <1> QED
    BY <1>2, <1>3, <1>4 DEF ReturnStep

StoreStep ==
  \/ \E p \in Person : Attestation(p)
  \/ \E id \in 1 .. MaxResults : Timer(id)
  \/ Tick
  \/ RestartOfServer

LEMMA StoreStepKeeps == IInv /\ (StoreStep \/ UNCHANGED vars) => Keeps
  <1> SUFFICES ASSUME IInv, StoreStep \/ UNCHANGED vars PROVE Keeps
    OBVIOUS
  <1>1. /\ now \in 0 .. MaxTime /\ HandlersOK /\ CookieOK /\ LoginSide /\ Requested
        /\ Places /\ Timers /\ ClientTypeOK
    BY DEF IInv, Timers, LoginSide, Places
  <1>2. /\ UNCHANGED logins /\ UNCHANGED <<lastLogin, wallet>> /\ UNCHANGED wallet /\ UNCHANGED cookie
        /\ UNCHANGED sessions /\ UNCHANGED requests /\ UNCHANGED <<lastRequest, begun>>
        /\ UNCHANGED <<sessions, lastSession, begun, handler>> /\ UNCHANGED handler
    BY DEF StoreStep, Attestation, Timer, Tick, RestartOfServer, webVars, vars
  <1>3. HandlersOK' /\ NoneReturns
    BY <1>1, <1>2, DoneKept, HandlersKept
  <1>4. Requested'
    BY <1>1, <1>2, NothingMoves, RequestedShrinks
  <1>5. LoginSide' /\ \A l \in Login : OwnIdentity(l)
    BY <1>1, <1>2, <1>3, LoginsStay DEF CookieOK
  <1>6. ClientTypeOK'
    <2>1. CASE UNCHANGED clientVars
      BY <1>1, <2>1, ClientStays
    <2>2. CASE RestartOfServer
      BY <1>1, <2>2, ClientAssumption DEF RestartOfServer, ServerRestarts, ClientTypeOK
    <2> QED
      BY <2>1, <2>2 DEF StoreStep, Attestation, Timer, Tick, vars
  <1>7. Timed /\ Places'
    <2>1. ASSUME NEW p \in Person, Attestation(p) PROVE Timed /\ Places'
      BY <1>1, <1>2, <2>1, TimersTake, PlacesIssued DEF Attestation
    <2>2. ASSUME UNCHANGED issued, pending' \subseteq pending PROVE Places'
      <3>1. UNCHANGED <<lastSession, begun, issued>>
        BY <1>2, <2>2
      <3> QED
        BY <1>1, <1>2, <1>3, <2>2, <3>1, NothingMoves, PlacesShrink
    <2>3. ASSUME NEW id \in 1 .. MaxResults, Timer(id) PROVE Timed /\ Places'
      BY <1>1, <2>2, <2>3, TimersFire DEF Timer
    <2>4. CASE Tick \/ RestartOfServer \/ UNCHANGED vars
      <3>1. UNCHANGED storeVars /\ now' \in {now, now + 1} /\ now' <= MaxTime
        BY <1>1, <2>4, WebAssumption DEF Tick, RestartOfServer, vars
      <3>2. UNCHANGED issued /\ pending' \subseteq pending
        BY <3>1 DEF storeVars
      <3> QED
        BY <1>1, <2>2, <3>1, <3>2, TimersWait
    <2> QED
      BY <2>1, <2>3, <2>4 DEF StoreStep
  <1> QED
    BY <1>4, <1>5, <1>6, <1>7 DEF IInv, Keeps, Timed

LEMMA StepKeeps == IInv /\ [Next]_vars => Keeps
  <1> SUFFICES ASSUME IInv, [Next]_vars PROVE Keeps
    OBVIOUS
  <1>1. Next => LoginStep \/ RequestStep \/ ReturnStep \/ StoreStep
    BY Zenon DEF Next, LoginStep, RequestStep, ReturnStep, StoreStep
  <1> QED
    BY <1>1, LoginStepKeeps, RequestStepKeeps, ReturnStepKeeps, StoreStepKeeps

LEMMA Invariant == Spec => []IInv
  <1>1. IInv /\ [Next]_vars => IInv'
    BY StepKeeps DEF Keeps
  <1> QED
    BY <1>1, InvInit, PTL DEF Spec

-----------------------------------------------------------------------------
(* The theorems.                                                           *)

(* Every variable keeps its type: in particular a session belongs to a     *)
(* citizen, never to a login that still waits for a wallet (startRequest,  *)
(* start), and a handler that comes back holds a whole session (take).     *)
THEOREM TypeCorrect == Spec => []TypeOK
  BY Invariant, TypeParts, PTL

(* An attestation goes to the citizen who was logged in when the request   *)
(* began, before the result's time, and one request gives one at most      *)
(* (take, issuance.go), whoever logs in, out or over while the citizen is  *)
(* at the authorization server, and in however many tabs.                  *)
THEOREM AttestedToRequester == Spec => []IssuedToRequester
  <1>1. IInv => IssuedToRequester
    BY DEF IInv, Places, OfSession, UsedOnce, IssuedToRequester
  <1> QED
    BY <1>1, Invariant, PTL

(* A result is gone before its time only when it was issued or when a      *)
(* later result of the same citizen replaced it (Store.Add and Take): a    *)
(* timer that fired too late to be stopped removes no other result.        *)
THEOREM ResultsWait == Spec => WaitsItsTime
  <1> DEFINE Wait == \A c \in pending \ pending' :
                       \/ Expired(c)
                       \/ \E i \in issued' : i.result = c
                       \/ \E d \in pending' \ pending : d.identity = c.identity
  <1>1. IInv /\ [Next]_vars => [Wait]_vars
    BY StepKeeps DEF Keeps, Waits
  <1>2. WaitsItsTime <=> [][Wait]_vars
    BY DEF WaitsItsTime
  <1> HIDE DEF Wait
  <1> QED
    BY <1>1, <1>2, Invariant, PTL DEF Spec

(* A login takes the identity that its own disclosure session gave         *)
(* (walletPage), however pages, a second login and the wallet interleave.  *)
THEOREM LoginOfOwnDisclosure == Spec => OwnDisclosure
  <1> DEFINE Own == \A l \in Login :
       (/\ logins[l] # Gone /\ logins'[l] # Gone
        /\ logins[l].identity # logins'[l].identity)
         => /\ logins[l].wallet \in Wallet
            /\ wallet[logins[l].wallet] = [at |-> "done", who |-> logins'[l].identity]
  <1>1. IInv /\ [Next]_vars => [Own]_vars
    BY StepKeeps DEF Keeps, OwnIdentity
  <1>2. OwnDisclosure <=> [][Own]_vars
    BY DEF OwnDisclosure
  <1> HIDE DEF Own
  <1> QED
    BY <1>1, <1>2, Invariant, PTL DEF Spec

(* A start URL of the request API begins one session at most, however      *)
(* many browsers open it, and the outcome that GET answers with is that of *)
(* a session begun for this request (startRequest, finish).                *)
THEOREM RequestsStartOnce == Spec => []OneSessionEach
  <1>1. IInv => OneSessionEach
    BY DEF IInv, Requested
  <1> QED
    BY <1>1, Invariant, PTL
=============================================================================
