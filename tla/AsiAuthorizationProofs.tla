----------------------- MODULE AsiAuthorizationProofs -----------------------
(***************************************************************************)
(* Theorems about the two servers of the ASI: the authorization server     *)
(* (AsiAuthorization), for every set of authorization requests, clients,   *)
(* handlers, sessions and assertions, and the ASIP (AsiProvider), for every*)
(* catalogue, source description, set of requests, calls and proofs; every *)
(* lifetime, and without the bounds of the runs.                           *)
(***************************************************************************)
EXTENDS AsiAuthorization, AsiProvider, WellFoundedInduction, TLAPS

-----------------------------------------------------------------------------
Transaction == [at : {"new", "pending", "gone"}, expires : Nat, session : Session \cup {None}]
WalletSession == [at : {"unused", "waiting", "elsewhere", "here", "failed"}, tx : Auth \cup {None}]

LEMMA Updates ==
  /\ \A t \in Transaction :
       LET u == [t EXCEPT !.at = "gone"]
       IN  u \in Transaction /\ u.at = "gone" /\ u.session = t.session /\ u.expires = t.expires
  /\ \A t \in Transaction, s \in Session :
       LET u == [t EXCEPT !.session = s]
       IN  u \in Transaction /\ u.at = t.at /\ u.session = s /\ u.expires = t.expires
  BY DEF Transaction

LEMMA SessionEnds ==
  ASSUME NEW x \in WalletSession, NEW end \in {"elsewhere", "here", "failed"}
  PROVE  /\ [x EXCEPT !.at = end] \in WalletSession
         /\ [x EXCEPT !.at = end].at = end /\ [x EXCEPT !.at = end].tx = x.tx
  BY DEF WalletSession

LEMMA Records ==
  ASSUME TypeOK PROVE trans \in [Auth -> Transaction] /\ session \in [Session -> WalletSession]
  BY DEF TypeOK, Transaction, WalletSession

(* Type correctness.  TypeOK is not inductive: what a handler ends with is *)
(* an answer only because of what it had in hand at each point before.     *)

InHand(h) ==
  /\ handler[h].at # "idle" => handler[h].tx \in Auth /\ trans[handler[h].tx].at # "new"
  /\ handler[h].at \in {"page", "asking", "return"} =>
       handler[h].by \in Session /\ session[handler[h].by].at # "unused"
                                 /\ session[handler[h].by].tx = handler[h].tx
  /\ handler[h].at = "identified" =>
       \/ handler[h].by = Digid
       \/ handler[h].by \in Session /\ Disclosed(handler[h].by)
                                    /\ session[handler[h].by].tx = handler[h].tx

(* A kept session was opened for the transaction that keeps it. *)
SessionsKept ==
  /\ \A a \in Auth : trans[a].session # None =>
       session[trans[a].session].at # "unused" /\ session[trans[a].session].tx = a
  /\ \A s \in Session : session[s].at # "unused" => session[s].tx \in Auth

(* What a token request goes on with once it has arrived. *)
Arrived ==
  \A r \in Request : request[r].at # "new" =>
    /\ request[r].msg \in Message /\ request[r].now <= clock
    /\ request[r].code \in DOMAIN answers /\ answers[request[r].code].by # Denied

TypeInv == TypeOK /\ (\A h \in Handler : InHand(h)) /\ SessionsKept /\ Arrived

LEMMA TypeInit == Init => TypeInv
  <1> SUFFICES ASSUME Init PROVE TypeInv
    OBVIOUS
  <1>1. TypeOK
    BY AuthorizationAssumption DEF Init, TypeOK, Idle
  <1>2. \A h \in Handler : InHand(h)
    BY DEF Init, InHand, Idle
  <1>3. SessionsKept
    BY DEF Init, SessionsKept
  <1>4. Arrived
    BY DEF Init, Arrived
  <1> QED
    BY <1>1, <1>2, <1>3, <1>4 DEF TypeInv

\* What an answer does to the answers before it and to the codes.
LEMMA Finished ==
  ASSUME TypeOK, NEW a \in Auth, NEW by \in Session \cup {Digid, Denied}, Finish(a, by)
  PROVE  /\ answers' \in Seq([of : Auth, by : Session \cup {Digid, Denied}])
         /\ \A k \in DOMAIN answers : k \in DOMAIN answers' /\ answers'[k] = answers[k]
         /\ \A k \in DOMAIN answers' \ DOMAIN answers :
              ~Expired(a) /\ k = Len(answers) + 1 /\ answers'[k] = [of |-> a, by |-> by]
         /\ \A c \in codes' \ codes :
              /\ ~Expired(a) /\ by # Denied /\ c.key = Len(answers) + 1
              /\ c.expires = clock + AuthorizationCodeLifetime
              /\ c.key \in DOMAIN answers' /\ answers'[c.key].by = by
         /\ codes' \subseteq [key : DOMAIN answers', expires : Nat]
         /\ trans' = [trans EXCEPT ![a].at = "gone"]
  <1> DEFINE e == [of |-> a, by |-> by]
  <1>1. /\ Append(answers, e) \in Seq([of : Auth, by : Session \cup {Digid, Denied}])
        /\ DOMAIN Append(answers, e) = 1..Len(answers) + 1 /\ DOMAIN answers = 1..Len(answers)
        /\ \A k \in DOMAIN answers : Append(answers, e)[k] = answers[k]
        /\ Append(answers, e)[Len(answers) + 1] = e
        /\ Len(answers) \in Nat
    BY DEF TypeOK
  <1>2. CASE Expired(a)
    BY <1>2 DEF Finish, TypeOK
  <1>3. CASE ~Expired(a)
    <2> DEFINE n == [key |-> Len(answers) + 1, expires |-> clock + AuthorizationCodeLifetime]
    <2>1. answers' = Append(answers, e) /\ trans' = [trans EXCEPT ![a].at = "gone"]
      BY <1>3 DEF Finish
    <2>2. codes' \subseteq codes \cup {n}
      BY <1>3 DEF Finish
    <2>3. ASSUME NEW c \in codes' \ codes PROVE by # Denied
      BY <1>3, <2>3 DEF Finish, MakesCode
    <2>4. n \in [key : DOMAIN Append(answers, e), expires : Nat]
      BY <1>1, AuthorizationAssumption DEF TypeOK
    <2>5. codes \subseteq [key : DOMAIN Append(answers, e), expires : Nat]
      <3>1. codes \subseteq [key : DOMAIN answers, expires : Nat]
        BY DEF TypeOK
      <3>2. DOMAIN answers \subseteq DOMAIN Append(answers, e)
        BY <1>1
      <3> QED
        BY <3>1, <3>2
    <2>6. \A k \in DOMAIN Append(answers, e) \ DOMAIN answers : k = Len(answers) + 1
      BY <1>1
    <2>7. e.of = a /\ e.by = by /\ n.key = Len(answers) + 1 /\ n.expires = clock + AuthorizationCodeLifetime
      OBVIOUS
    <2>8. Len(answers) + 1 \in DOMAIN Append(answers, e)
      BY <1>1
    <2>9. \A k \in DOMAIN answers : k \in DOMAIN Append(answers, e)
      BY <1>1
    <2>10. codes' \subseteq [key : DOMAIN answers', expires : Nat]
      BY <2>1, <2>2, <2>4, <2>5
    <2> HIDE DEF n
    <2> QED
      BY <1>1, <1>3, <2>1, <2>2, <2>3, <2>6, <2>7, <2>8, <2>9, <2>10
  <1> QED
    BY <1>2, <1>3

\* A step that answers keeps what the handlers and token requests have.
LEMMA FinishKeeps ==
  ASSUME TypeInv, NEW a \in Auth, NEW by \in Session \cup {Digid, Denied}, Finish(a, by),
         UNCHANGED <<clock, session, request>>,
         \A h \in Handler : handler'[h] = handler[h] \/ handler'[h] = Idle
  PROVE  /\ trans' \in [Auth -> Transaction]
         /\ codes' \subseteq [key : DOMAIN answers', expires : Nat]
         /\ \A c \in codes' : answers'[c.key].by # Denied
         /\ (\A h \in Handler : InHand(h)') /\ SessionsKept' /\ Arrived'
  <1>1. TypeOK
    BY DEF TypeInv
  <1> DEFINE gone == [trans[a] EXCEPT !.at = "gone"]
  <1>2. trans' = [trans EXCEPT ![a] = gone]
    BY <1>1, Finished
  <1>3. /\ trans \in [Auth -> Transaction]
        /\ gone \in Transaction /\ gone.at = "gone" /\ gone.session = trans[a].session
    BY <1>1, Records, Updates
  <1> HIDE DEF gone
  <1>4. \A x \in Auth : /\ trans'[x].session = trans[x].session
                        /\ trans[x].at # "new" => trans'[x].at # "new"
    BY <1>2, <1>3
  <1>5. trans' \in [Auth -> Transaction]
    BY <1>2, <1>3
  <1>6. \A h \in Handler : InHand(h)'
    BY <1>4 DEF TypeInv, InHand, Idle, Disclosed
  <1>7. SessionsKept'
    BY <1>4 DEF TypeInv, SessionsKept
  <1>8. Arrived'
    BY <1>1, Finished DEF TypeInv, Arrived
  <1>9. \A c \in codes' : answers'[c.key].by # Denied
    <2>1. \A c \in codes : c.key \in DOMAIN answers /\ answers[c.key].by # Denied
      BY <1>1 DEF TypeOK
    <2>2. \A k \in DOMAIN answers : answers'[k] = answers[k]
      BY <1>1, Finished
    <2>3. \A c \in codes' \ codes : answers'[c.key].by # Denied
      BY <1>1, Finished
    <2> QED
      BY <2>1, <2>2, <2>3
  <1> QED
    BY <1>1, <1>6, <1>7, <1>8, <1>9, <1>5, Finished

\* The handlers of the login pages leave the stores of the other endpoints.
LEMMA TypeBrowser == TypeInv /\ Browser => TypeInv'
  <1> SUFFICES ASSUME TypeInv, Browser PROVE TypeInv'
    OBVIOUS
  <1> USE DEF TypeInv
  <1>1. ASSUME NEW a \in Auth, Authorize(a) PROVE TypeInv'
    <2>1. trans' \in [Auth -> Transaction]
      <3>1. [at |-> "pending", expires |-> clock + TransactionLifetime, session |-> None] \in Transaction
        BY AuthorizationAssumption DEF TypeOK, Transaction
      <3>2. \A x \in Auth : trans[x] \in Transaction /\ [trans[x] EXCEPT !.at = "gone"] \in Transaction
        BY Records, Updates
      <3> QED
        BY <1>1, <3>1, <3>2 DEF Authorize
    <2>2. TypeOK'
      BY <1>1, <2>1 DEF TypeOK, Authorize, redeeming, registry, Transaction
    <2>3. \A x \in Auth : /\ trans[x].at # "new" => trans'[x].at # "new"
                          /\ trans'[x].session \in {trans[x].session, None}
      BY <1>1 DEF TypeOK, Authorize
    <2>4. \A h \in Handler : InHand(h)'
      BY <1>1, <2>3 DEF InHand, Disclosed, Authorize
    <2>5. SessionsKept'
      BY <1>1, <2>3 DEF SessionsKept, Authorize
    <2>6. Arrived'
      BY <1>1 DEF Arrived, Authorize, redeeming
    <2> QED
      BY <2>2, <2>4, <2>5, <2>6
  <1>2. ASSUME NEW a \in Auth, Deny(a) PROVE TypeInv'
    <2>1. Finish(a, Denied) /\ UNCHANGED <<clock, handler, session, redeeming, registry>>
      BY <1>2 DEF Deny
    <2>2. /\ trans' \in [Auth -> Transaction]
          /\ codes' \subseteq [key : DOMAIN answers', expires : Nat]
          /\ \A c \in codes' : answers'[c.key].by # Denied
          /\ (\A h \in Handler : InHand(h)') /\ SessionsKept' /\ Arrived'
      BY <2>1, FinishKeeps DEF redeeming
    <2>3. answers' \in Seq([of : Auth, by : Session \cup {Digid, Denied}])
      BY <2>1, Finished
    <2>4. TypeOK'
      BY <2>1, <2>2, <2>3 DEF TypeOK, Transaction, redeeming, registry
    <2> QED
      BY <2>2, <2>4
  <1>3. ASSUME NEW h \in Handler, Complete(h) PROVE TypeInv'
    <2>1. handler[h].tx \in Auth /\ handler[h].by \in Session \cup {Digid}
      BY <1>3 DEF Complete, InHand
    <2>2. /\ Finish(handler[h].tx, handler[h].by)
          /\ UNCHANGED <<clock, session, redeeming, registry>>
          /\ handler' = [handler EXCEPT ![h] = Idle]
      BY <1>3 DEF Complete, Ends
    <2>3. \A g \in Handler : handler'[g] = handler[g] \/ handler'[g] = Idle
      BY <2>2 DEF TypeOK
    <2>4. /\ trans' \in [Auth -> Transaction]
          /\ codes' \subseteq [key : DOMAIN answers', expires : Nat]
          /\ \A c \in codes' : answers'[c.key].by # Denied
          /\ (\A g \in Handler : InHand(g)') /\ SessionsKept' /\ Arrived'
      BY <2>1, <2>2, <2>3, FinishKeeps DEF redeeming
    <2>5. answers' \in Seq([of : Auth, by : Session \cup {Digid, Denied}])
      BY <2>1, <2>2, Finished
    <2>6. TypeOK'
      BY <2>2, <2>4, <2>5 DEF TypeOK, Transaction, Idle, redeeming, registry
    <2> QED
      BY <2>4, <2>6
  <1>4. ASSUME NEW h \in Handler, NEW s \in Session, Attach(h, s) PROVE TypeInv'
    <2> DEFINE a == handler[h].tx
    <2>1. a \in Auth
      BY <1>4 DEF Attach, InHand
    <2>2. /\ session' = [session EXCEPT ![s] = [at |-> "waiting", tx |-> a]]
          /\ session[s].at = "unused"
          /\ trans' = IF trans[a].at = "pending" THEN [trans EXCEPT ![a].session = s] ELSE trans
          /\ handler' = [handler EXCEPT ![h] = Idle]
          /\ UNCHANGED <<clock, answers, codes, redeeming, registry>>
      BY <1>4 DEF Attach, Ends
    <2> DEFINE kept == [trans[a] EXCEPT !.session = s]
    <2>3. /\ trans \in [Auth -> Transaction] /\ kept \in Transaction
          /\ kept.at = trans[a].at /\ kept.session = s
      BY <2>1, Records, Updates
    <2>4. trans' = trans \/ trans' = [trans EXCEPT ![a] = kept]
      BY <2>2
    <2> HIDE DEF kept
    <2>5. \A x \in Auth : /\ trans'[x].at = trans[x].at
                          /\ trans'[x].session # trans[x].session => x = a /\ trans'[x].session = s
      BY <2>1, <2>3, <2>4
    <2>6. trans' \in [Auth -> Transaction]
      BY <2>1, <2>3, <2>4
    <2>7. session' \in [Session -> WalletSession]
      BY <2>1, <2>2 DEF TypeOK, WalletSession
    <2>8. handler' \in [Handler ->
             [at : {"idle", "starting", "page", "asking", "return", "identified"},
              tx : Auth \cup {None}, by : Session \cup {Digid, None}]]
      BY <2>2 DEF TypeOK, Idle
    <2>9. TypeOK'
      BY <2>2, <2>6, <2>7, <2>8 DEF TypeOK, Transaction, WalletSession, redeeming, registry
    <2>10. \A t \in Session : t # s => session'[t] = session[t]
      BY <2>2 DEF TypeOK
    <2>11. session'[s].at = "waiting" /\ session'[s].tx = a
      BY <2>2 DEF TypeOK
    <2>12. \A g \in Handler : InHand(g)'
      <3>1. \A g \in Handler : handler'[g] = handler[g] \/ handler'[g].at = "idle"
        BY <2>2 DEF TypeOK, Idle
      <3>2. \A t \in Session : session[t].at # "unused" =>
              /\ session'[t].at # "unused" /\ session'[t].tx = session[t].tx
              /\ Disclosed(t) => Disclosed(t)'
        BY <2>2, <2>10 DEF Disclosed
      <3>3. \A t \in Session : Disclosed(t) => session[t].at # "unused"
        BY DEF Disclosed
      <3> QED
        BY <2>5, <3>1, <3>2, <3>3 DEF InHand
    <2>13. \A x \in Auth : trans[x].session \in Session \cup {None} /\ trans[x].session # s
      BY <2>2, AuthorizationAssumption DEF TypeOK, SessionsKept
    <2>14. SessionsKept'
      <3>1. ASSUME NEW x \in Auth, trans'[x].session # None
            PROVE  /\ session'[trans'[x].session].at # "unused"
                   /\ session'[trans'[x].session].tx = x
        <4>1. CASE trans'[x].session = trans[x].session
          BY <2>10, <2>13, <3>1, <4>1 DEF SessionsKept
        <4>2. CASE trans'[x].session # trans[x].session
          BY <2>5, <2>11, <4>2
        <4> QED
          BY <4>1, <4>2
      <3>2. \A t \in Session : session'[t].at # "unused" => session'[t].tx \in Auth
        BY <2>1, <2>10, <2>11 DEF SessionsKept
      <3> QED
        BY <3>1, <3>2 DEF SessionsKept
    <2>15. Arrived'
      BY <2>2 DEF Arrived, redeeming
    <2> QED
      BY <2>9, <2>12, <2>14, <2>15
  <1>5. ASSUME NEW s \in Session, Disclose(s) PROVE TypeInv'
    <2>1. PICK end \in {"elsewhere", "here", "failed"} : session' = [session EXCEPT ![s].at = end]
      BY <1>5 DEF Disclose
    <2>2. session[s].at = "waiting"
          /\ UNCHANGED <<clock, trans, handler, answers, codes, redeeming, registry>>
      BY <1>5 DEF Disclose
    <2> DEFINE ended == [session[s] EXCEPT !.at = end]
    <2>3. /\ session \in [Session -> WalletSession] /\ ended \in WalletSession
          /\ ended.at = end /\ ended.tx = session[s].tx
      <3>1. session \in [Session -> WalletSession] /\ session[s] \in WalletSession
        BY Records
      <3> QED
        BY <3>1, SessionEnds
    <2>4. session' = [session EXCEPT ![s] = ended]
      BY <2>1
    <2> HIDE DEF ended
    <2>5. TypeOK'
      BY <2>2, <2>3, <2>4 DEF TypeOK, WalletSession, redeeming, registry
    <2>6. \A t \in Session : /\ session'[t].tx = session[t].tx
                             /\ t # s => session'[t].at = session[t].at
      BY <2>3, <2>4
    <2>7. session'[s].at = end
      BY <2>3, <2>4
    <2>8. \A h \in Handler : InHand(h)'
      BY <2>2, <2>6, <2>7 DEF InHand, Disclosed
    <2>9. \A t \in Session : session[t].at # "unused" <=> session'[t].at # "unused"
      BY <2>2, <2>6, <2>7
    <2>10. \A a \in Auth : trans[a].session \in Session \cup {None}
      BY DEF TypeOK
    <2>11. SessionsKept'
      BY <2>2, <2>6, <2>9, <2>10 DEF SessionsKept
    <2>12. Arrived'
      BY <2>2 DEF Arrived, redeeming
    <2> QED
      BY <2>5, <2>8, <2>11, <2>12
  <1>6. ASSUME NEW h \in Handler, NEW x \in [at : {"idle", "starting", "page", "asking", "return", "identified"},
                                            tx : Auth \cup {None}, by : Session \cup {Digid, None}],
               handler' = [handler EXCEPT ![h] = x], InHand(h)',
               UNCHANGED <<clock, trans, session, answers, codes, redeeming, registry>>
        PROVE  TypeInv'
    <2>1. TypeOK'
      BY <1>6 DEF TypeOK, redeeming, registry
    <2>2. \A g \in Handler : InHand(g)'
      BY <1>6 DEF TypeOK, InHand, Disclosed
    <2>3. SessionsKept' /\ Arrived'
      BY <1>6 DEF SessionsKept, Arrived, redeeming
    <2> QED
      BY <2>1, <2>2, <2>3
  <1> DEFINE Record(at, tx, by) == [at |-> at, tx |-> tx, by |-> by]
  <1>7. ASSUME NEW h \in Handler, NEW a \in Auth, StartSession(h, a) PROVE TypeInv'
    <2>1. handler' = [handler EXCEPT ![h] = Record("starting", a, None)]
          /\ trans[a].at = "pending"
          /\ UNCHANGED <<clock, trans, session, answers, codes, redeeming, registry>>
      BY <1>7 DEF StartSession, Goes, Peek
    <2>2. InHand(h)'
      BY <2>1 DEF TypeOK, InHand, Disclosed
    <2> QED
      BY <1>6, <2>1, <2>2
  <1>8. ASSUME NEW h \in Handler, NEW a \in Auth, DigidLogin(h, a) PROVE TypeInv'
    <2>1. handler' = [handler EXCEPT ![h] = Record("identified", a, Digid)]
          /\ trans[a].at = "pending"
          /\ UNCHANGED <<clock, trans, session, answers, codes, redeeming, registry>>
      BY <1>8 DEF DigidLogin, Goes, Peek
    <2>2. InHand(h)'
      BY <2>1 DEF TypeOK, InHand, Disclosed
    <2> QED
      BY <1>6, <2>1, <2>2
  <1>9. ASSUME NEW h \in Handler, NEW a \in Auth, OpenWalletPage(h, a) PROVE TypeInv'
    <2>1. handler' = [handler EXCEPT ![h] = Record("page", a, trans[a].session)]
          /\ trans[a].at = "pending" /\ trans[a].session \in Session
          /\ UNCHANGED <<clock, trans, session, answers, codes, redeeming, registry>>
      BY <1>9 DEF TypeOK, OpenWalletPage, Goes, Peek
    <2>2. session[trans[a].session].at # "unused" /\ session[trans[a].session].tx = a
      BY <2>1, AuthorizationAssumption DEF SessionsKept
    <2>3. handler'[h].tx = a /\ handler'[h].by = trans[a].session /\ handler'[h].at \in {"page", "return"}
      BY <2>1 DEF TypeOK
    <2>4. InHand(h)'
      BY <2>1, <2>2, <2>3 DEF InHand
    <2> QED
      BY <1>6, <2>1, <2>4
  <1>10. ASSUME NEW h \in Handler, NEW a \in Auth, NEW s \in Session, WalletReturn(h, a, s) PROVE TypeInv'
    <2>1. handler' = [handler EXCEPT ![h] = Record("return", a, s)]
          /\ trans[a].at = "pending" /\ trans[a].session = s
          /\ UNCHANGED <<clock, trans, session, answers, codes, redeeming, registry>>
      BY <1>10 DEF WalletReturn, Goes, Peek, KeptSession
    <2>2. session[trans[a].session].at # "unused" /\ session[trans[a].session].tx = a
      BY <2>1, AuthorizationAssumption DEF SessionsKept
    <2>3. handler'[h].tx = a /\ handler'[h].by = trans[a].session /\ handler'[h].at \in {"page", "return"}
      BY <2>1 DEF TypeOK
    <2>4. InHand(h)'
      BY <2>1, <2>2, <2>3 DEF InHand
    <2> QED
      BY <1>6, <2>1, <2>4
  <1>11. ASSUME NEW h \in Handler, LogIn(h) PROVE TypeInv'
    <2> DEFINE a == handler[h].tx
    <2>1. handler' = [handler EXCEPT ![h] = Record("asking", a, trans[a].session)]
          /\ handler[h].at = "page" /\ trans[a].at = "pending" /\ trans[a].session # None
          /\ UNCHANGED <<clock, trans, session, answers, codes, redeeming, registry>>
      BY <1>11 DEF LogIn, Goes, Peek
    <2>2. a \in Auth /\ trans[a].session \in Session
      BY <2>1 DEF TypeOK, InHand
    <2>3. session[trans[a].session].at # "unused" /\ session[trans[a].session].tx = a
      BY <2>2, AuthorizationAssumption DEF SessionsKept
    <2>4. handler'[h].tx = a /\ handler'[h].by = trans[a].session /\ handler'[h].at = "asking"
      BY <2>1 DEF TypeOK
    <2>5. InHand(h)'
      BY <2>1, <2>2, <2>3, <2>4 DEF InHand
    <2> QED
      BY <1>6, <2>1, <2>2, <2>5
  <1>12. ASSUME NEW h \in Handler, Identify(h) PROVE TypeInv'
    <2>1. handler' = [handler EXCEPT ![h] = Record("identified", handler[h].tx, handler[h].by)]
          /\ handler[h].at \in {"asking", "return"} /\ Disclosed(handler[h].by)
          /\ UNCHANGED <<clock, trans, session, answers, codes, redeeming, registry>>
      BY <1>12 DEF Identify, Goes, Disclosed
    <2>2. handler[h].tx \in Auth /\ handler[h].by \in Session
      BY <2>1 DEF InHand
    <2>3. InHand(h)'
      BY <2>1, <2>2 DEF TypeOK, InHand, Disclosed
    <2> QED
      BY <1>6, <2>1, <2>2, <2>3
  <1>13. ASSUME NEW h \in Handler, TurnBack(h) \/ CompleteFails(h) PROVE TypeInv'
    <2>1. handler' = [handler EXCEPT ![h] = Idle]
          /\ UNCHANGED <<clock, trans, session, answers, codes, redeeming, registry>>
      BY <1>13 DEF TurnBack, CompleteFails, Ends
    <2>2. InHand(h)'
      BY <2>1 DEF TypeOK, InHand, Idle, Disclosed
    <2> QED
      BY <1>6, <2>1, <2>2 DEF Idle
  <1> QED
    BY <1>1, <1>2, <1>3, <1>4, <1>5, <1>7, <1>8, <1>9, <1>10, <1>11, <1>12, <1>13 DEF Browser

-----------------------------------------------------------------------------
TokenRequest == [at : {"new", "assertion", "proof", "code", "refused", "answered"},
                 now : Nat, msg : Message \cup {None}, code : Nat]
Lookups == [left : SUBSET Client, lapsed : Client \cup {None}]

LEMMA RequestMoves ==
  ASSUME NEW q \in TokenRequest, NEW at \in {"proof", "code", "refused", "answered"}
  PROVE  /\ [q EXCEPT !.at = at] \in TokenRequest /\ [q EXCEPT !.at = at].at = at
         /\ [q EXCEPT !.at = at].now = q.now
         /\ [q EXCEPT !.at = at].msg = q.msg /\ [q EXCEPT !.at = at].code = q.code
  BY DEF TokenRequest

LEMMA Looked ==
  ASSUME NEW l \in Lookups
  PROVE  /\ \A left \in SUBSET Client : [l EXCEPT !.left = left] \in Lookups
         /\ \A c \in Client : [l EXCEPT !.lapsed = c] \in Lookups
  BY DEF Lookups

\* A request that moves on stays in type and keeps what it arrived with.
LEMMA Moved ==
  ASSUME TypeInv, NEW r \in Request, NEW at \in {"proof", "code", "refused", "answered"}, Moves(r, at)
  PROVE  /\ request' \in [Request -> TokenRequest]
         /\ request'[r].at = at
         /\ \A q \in Request : /\ request'[q].now = request[q].now
                               /\ request'[q].msg = request[q].msg
                               /\ request'[q].code = request[q].code
                               /\ q # r => request'[q].at = request[q].at
  <1> DEFINE moved == [request[r] EXCEPT !.at = at]
  <1>1. request \in [Request -> TokenRequest] /\ request[r] \in TokenRequest
    BY DEF TypeInv, TypeOK, TokenRequest
  <1>2. /\ moved \in TokenRequest /\ moved.at = at /\ moved.now = request[r].now
        /\ moved.msg = request[r].msg /\ moved.code = request[r].code
    BY <1>1, RequestMoves
  <1>3. request' = [request EXCEPT ![r] = moved]
    BY DEF Moves
  <1> HIDE DEF moved
  <1> QED
    BY <1>1, <1>2, <1>3

LEMMA ArrivedKept ==
  ASSUME TypeInv, NEW r \in Request, NEW at \in {"proof", "code", "refused", "answered"}, Moves(r, at),
         request[r].at # "new", UNCHANGED <<clock, answers>>
  PROVE  Arrived'
  <1>1. \A q \in Request : /\ request'[q].now = request[q].now
                           /\ request'[q].msg = request[q].msg
                           /\ request'[q].code = request[q].code
                           /\ q # r => request'[q].at = request[q].at
    BY Moved
  <1>2. ASSUME NEW q \in Request, request'[q].at # "new" PROVE request[q].at # "new"
    BY <1>1, <1>2
  <1>3. Arrived /\ clock' = clock /\ answers' = answers
    BY DEF TypeInv
  <1> QED
    BY <1>1, <1>2, <1>3 DEF Arrived

LEMMA LoginKept ==
  ASSUME TypeInv, UNCHANGED login PROVE (\A h \in Handler : InHand(h)') /\ SessionsKept'
  BY DEF TypeInv, login, InHand, Disclosed, SessionsKept

LEMMA TypeTokens == TypeInv /\ TokenEndpoint => TypeInv'
  <1> SUFFICES ASSUME TypeInv, TokenEndpoint PROVE TypeInv'
    OBVIOUS
  <1> USE DEF TypeInv
  <1>1. ASSUME NEW r \in Request, NEW m \in Message, NEW k \in DOMAIN answers, Arrive(r, m, k)
        PROVE  TypeInv'
    <2> DEFINE q == [at |-> "assertion", now |-> clock, msg |-> m, code |-> k]
    <2>1. /\ request' = [request EXCEPT ![r] = q] /\ answers[k].by # Denied
          /\ UNCHANGED <<clock, login, answers, codes, seen, tokens, registry>>
      BY <1>1 DEF Arrive
    <2>2. k \in Nat
      BY DEF TypeOK
    <2>3. q \in TokenRequest
      BY <2>2 DEF TypeOK, TokenRequest
    <2>4. request' \in [Request -> TokenRequest]
      BY <2>1, <2>3 DEF TypeOK, TokenRequest
    <2>5. TypeOK'
      BY <2>1, <2>4 DEF TypeOK, TokenRequest, login, registry
    <2>6. Arrived'
      BY <2>1 DEF TypeOK, Arrived
    <2> QED
      BY <2>1, <2>5, <2>6, LoginKept
  <1>2. ASSUME NEW r \in Request, NEW check \in {"assertion", "proof"},
               NEW next \in {"proof", "code"}, FirstUse(r, check, next)
        PROVE  TypeInv'
    <2> DEFINE known == Remembered(seen[check], request[r].now)
    <2>1. /\ request[r].at = check
          /\ seen' = [seen EXCEPT ![check] = known \cup {request[r].msg}]
          /\ Moves(r, IF request[r].msg \in known THEN "refused" ELSE next)
          /\ UNCHANGED <<clock, login, answers, codes, tokens, registry>>
      BY <1>2 DEF FirstUse
    <2>2. PICK at \in {"proof", "code", "refused", "answered"} : Moves(r, at)
      BY <2>1
    <2>3. request[r].msg \in Message
      BY <2>1 DEF Arrived
    <2>4. known \subseteq Message
      BY DEF TypeOK, Remembered
    <2> HIDE DEF known
    <2>5. seen' \in [{"assertion", "proof"} -> SUBSET Message]
      BY <2>1, <2>3, <2>4 DEF TypeOK
    <2>6. request' \in [Request -> TokenRequest]
      BY <2>2, Moved
    <2>7. TypeOK'
      BY <2>1, <2>5, <2>6 DEF TypeOK, TokenRequest, login, registry
    <2>8. Arrived'
      BY <2>1, <2>2, ArrivedKept
    <2> QED
      BY <2>1, <2>7, <2>8, LoginKept
  <1>3. ASSUME NEW r \in Request, Redeem(r) \/ Waste(r) PROVE TypeInv'
    <2>1. /\ request[r].at = "code" /\ codes' = CodeTaken(request[r].code) /\ Moves(r, "answered")
          /\ UNCHANGED <<clock, login, answers, seen, registry>>
      BY <1>3 DEF Redeem, Waste
    <2>2. /\ request[r].msg \in Message /\ SignedBy[request[r].msg] \in Client
          /\ request[r].code \in Nat /\ request[r].now \in Nat
      BY <2>1, AuthorizationAssumption DEF Arrived, TypeOK
    <2>3. tokens' \subseteq [jti : Request, code : Nat, to : Client, iat : Nat]
      BY <1>3, <2>2 DEF TypeOK, Redeem, Waste
    <2>4. codes' \subseteq codes
      BY <2>1 DEF CodeTaken
    <2>5. request' \in [Request -> TokenRequest]
      BY <2>1, Moved
    <2>6. TypeOK'
      BY <2>1, <2>3, <2>4, <2>5 DEF TypeOK, TokenRequest, login, registry
    <2>7. Arrived'
      BY <2>1, ArrivedKept
    <2> QED
      BY <2>1, <2>6, <2>7, LoginKept
  <1> QED
    BY <1>1, <1>2, <1>3 DEF TokenEndpoint

LEMMA TypeRest ==
  TypeInv /\ (Tick \/ Registration \/ (\E c \in Client : RegisterChanges(c))) => TypeInv'
  <1> SUFFICES ASSUME TypeInv, Tick \/ Registration \/ (\E c \in Client : RegisterChanges(c))
               PROVE  TypeInv'
    OBVIOUS
  <1> USE DEF TypeInv
  <1>1. CASE Tick
    <2>1. clock' = clock + 1 /\ UNCHANGED <<login, answers, codes, redeeming, registry>>
      BY <1>1 DEF Tick
    <2>2. TypeOK'
      BY <2>1 DEF TypeOK, login, redeeming, registry
    <2>3. clock \in Nat /\ \A r \in Request : request[r].now \in Nat
      BY DEF TypeOK
    <2>4. \A r \in Request : request[r].now <= clock => request[r].now <= clock + 1
      BY <2>3
    <2>5. Arrived'
      BY <2>1, <2>4 DEF Arrived, redeeming
    <2> QED
      BY <2>1, <2>2, <2>5, LoginKept
  <1>2. ASSUME UNCHANGED <<clock, login, answers, codes, redeeming>>,
               client' \in [Client -> {"none", "approved", "active", "inactive"}],
               entitled' \subseteq Client, recheck' \in Lookups, changes' \in Nat
        PROVE  TypeInv'
    <2>1. TypeOK'
      BY <1>2 DEF TypeOK, Lookups, login, redeeming
    <2>2. Arrived'
      BY <1>2 DEF Arrived, redeeming
    <2> QED
      BY <1>2, <2>1, <2>2, LoginKept
  <1>3. /\ client \in [Client -> {"none", "approved", "active", "inactive"}]
        /\ entitled \subseteq Client /\ recheck \in Lookups /\ changes \in Nat
        /\ recheck.left \subseteq Client /\ recheck.lapsed \in Client \cup {None}
    BY DEF TypeOK, Lookups
  <1>4. ASSUME NEW c \in Client, Approve(c) \/ Add(c) \/ RegisterChanges(c) PROVE TypeInv'
    BY <1>2, <1>3, <1>4 DEF Approve, Add, RegisterChanges
  <1>5. ASSUME NEW c \in Client, LookUp(c) \/ Unavailable(c) PROVE TypeInv'
    <2>1. recheck' \in Lookups
      BY <1>3, <1>5, Looked DEF LookUp, Unavailable
    <2> QED
      BY <1>2, <1>3, <1>5, <2>1 DEF LookUp, Unavailable
  <1>6. CASE StartRecheck
    <2>1. recheck' \in Lookups
      BY <1>6 DEF StartRecheck, Active, Lookups
    <2> QED
      BY <1>2, <1>3, <1>6, <2>1 DEF StartRecheck
  <1>7. CASE Deactivate
    <2>1. recheck' \in Lookups
      BY <1>3, <1>7 DEF Deactivate, Lookups
    <2> QED
      BY <1>2, <1>3, <1>7, <2>1 DEF Deactivate
  <1> QED
    BY <1>1, <1>4, <1>5, <1>6, <1>7 DEF Registration

LEMMA TypeNext == TypeInv /\ [Next]_vars => TypeInv'
  <1> SUFFICES ASSUME TypeInv, [Next]_vars PROVE TypeInv'
    OBVIOUS
  <1>1. CASE UNCHANGED vars
    BY <1>1 DEF vars, TypeInv, TypeOK, InHand, Disclosed, SessionsKept, Arrived
  <1>2. CASE Next
    BY <1>2, TypeBrowser, TypeTokens, TypeRest DEF Next
  <1> QED
    BY <1>1, <1>2

(* Every reachable state of the authorization server is well typed, for    *)
(* every set of requests, clients, handlers and sessions; among other      *)
(* things no code ever stands for a refusal (Service.Deny makes none).     *)
THEOREM TypeCorrect == Spec => []TypeOK
  <1>1. TypeInv => TypeOK
    BY DEF TypeInv
  <1> QED
    BY <1>1, TypeInit, TypeNext, PTL DEF Spec

-----------------------------------------------------------------------------
(* The steps by what they do to the answers, the codes and the tokens.     *)
Answers(a, by) ==
  /\ Finish(a, by)
  /\ UNCHANGED <<clock, session, redeeming>>
  /\ by \in Session => Disclosed(by) /\ session[by].tx = a

Quiet ==
  /\ UNCHANGED <<clock, answers, codes, redeeming>>
  /\ \A a \in Auth : trans'[a].at = trans[a].at /\ trans'[a].expires = trans[a].expires
  /\ \A s \in Session : /\ Disclosed(s)' <=> Disclosed(s)
                        /\ Disclosed(s) => session'[s].tx = session[s].tx

LEMMA Steps ==
  ASSUME TypeInv, [Next]_vars
  PROVE  \/ \E a \in Auth, by \in Session \cup {Digid, Denied} : Answers(a, by)
         \/ \E a \in Auth : Authorize(a)
         \/ \E s \in Session : Disclose(s)
         \/ TokenEndpoint \/ Tick \/ Quiet
  <1>1. ASSUME NEW a \in Auth, Deny(a) PROVE Answers(a, Denied)
    BY <1>1, AuthorizationAssumption DEF Deny, Answers
  <1>2. ASSUME NEW h \in Handler, Complete(h)
        PROVE  \E a \in Auth, by \in Session \cup {Digid, Denied} : Answers(a, by)
    <2>1. /\ handler[h].tx \in Auth
          /\ \/ handler[h].by = Digid
             \/ handler[h].by \in Session /\ Disclosed(handler[h].by)
                                          /\ session[handler[h].by].tx = handler[h].tx
      BY <1>2 DEF TypeInv, InHand, Complete
    <2>2. Answers(handler[h].tx, handler[h].by)
      BY <1>2, <2>1, AuthorizationAssumption DEF Complete, Answers
    <2> QED
      BY <2>1, <2>2
  <1>3. ASSUME NEW h \in Handler, NEW s \in Session, Attach(h, s) PROVE Quiet
    <2> DEFINE a == handler[h].tx
               kept == [trans[a] EXCEPT !.session = s]
    <2>1. /\ session' = [session EXCEPT ![s] = [at |-> "waiting", tx |-> a]]
          /\ session[s].at = "unused"
          /\ UNCHANGED <<clock, answers, codes, redeeming, registry>>
      BY <1>3 DEF Attach
    <2>2. trans' = trans \/ trans' = [trans EXCEPT ![a] = kept]
      BY <1>3 DEF Attach
    <2>3. /\ trans \in [Auth -> Transaction] /\ a \in Auth
          /\ kept.at = trans[a].at /\ kept.expires = trans[a].expires
      BY <1>3, Records, Updates DEF TypeInv, InHand, Attach
    <2> HIDE DEF kept
    <2>4. \A x \in Auth : trans'[x].at = trans[x].at /\ trans'[x].expires = trans[x].expires
      BY <2>2, <2>3
    <2>5. session \in [Session -> WalletSession]
      BY Records DEF TypeInv
    <2>6. \A x \in Session : /\ Disclosed(x)' <=> Disclosed(x)
                             /\ Disclosed(x) => session'[x].tx = session[x].tx
      BY <2>1, <2>5 DEF Disclosed
    <2>7. UNCHANGED redeeming
      BY <1>3 DEF Attach
    <2> QED
      BY <2>1, <2>4, <2>6, <2>7 DEF Quiet, Disclosed
  <1>4. ASSUME UNCHANGED <<clock, trans, session, answers, codes, redeeming>> PROVE Quiet
    BY <1>4 DEF Quiet, Disclosed
  <1>5. ASSUME NEW h \in Handler, NEW a \in Auth,
               \/ StartSession(h, a) \/ DigidLogin(h, a) \/ OpenWalletPage(h, a)
               \/ \E s \in Session : WalletReturn(h, a, s)
        PROVE  Quiet
    BY <1>4, <1>5 DEF StartSession, DigidLogin, OpenWalletPage, WalletReturn
  <1>6. ASSUME NEW h \in Handler, LogIn(h) \/ Identify(h) \/ TurnBack(h) \/ CompleteFails(h)
        PROVE  Quiet
    BY <1>4, <1>6 DEF LogIn, Identify, TurnBack, CompleteFails
  <1>7. ASSUME Registration \/ (\E c \in Client : RegisterChanges(c)) PROVE Quiet
    BY <1>4, <1>7 DEF Registration, RegisterChanges, Approve, Add, LookUp, Unavailable,
                      StartRecheck, Deactivate, login
  <1>8. CASE UNCHANGED vars
    BY <1>4, <1>8 DEF vars, redeeming
  <1>9. CASE Browser
    BY <1>1, <1>2, <1>3, <1>5, <1>6, <1>9 DEF Browser
  <1> QED
    BY <1>7, <1>8, <1>9 DEF Next

(* The safety of the server needs more than types.  That a request is      *)
(* answered once rests on its transaction having left the store; that an   *)
(* answer yields one token, on its code having left the other store.       *)
AnswersOnce ==
  /\ \A k \in DOMAIN answers : trans[answers[k].of].at = "gone"
  /\ \A j, k \in DOMAIN answers : answers[j].of = answers[k].of => j = k

CodesInTime ==
  \A c \in codes : c.expires <= trans[answers[c.key].of].expires + AuthorizationCodeLifetime

TokensOnce ==
  \A t \in tokens :
    /\ t.code \in DOMAIN answers /\ answers[t.code].by # Denied
    /\ t.to = ClientOf[answers[t.code].of]
    /\ \A c \in codes : c.key # t.code

(* What passed the check of assertions is remembered until it is too old.  *)
PassedOn(r) == request[r].at \in {"proof", "code", "answered"}
AssertionsSeen ==
  \A r \in Request : PassedOn(r) =>
    request[r].msg \in seen["assertion"] \/ clock > End[request[r].msg]

SafetyInv ==
  TypeInv /\ AnswersOnce /\ CodesInTime /\ TokensOnce /\ InTime /\ AssertionsSeen /\ SecondUseOnlyLate

LEMMA SafetyInit == Init => SafetyInv
  BY TypeInit DEF Init, SafetyInv, AnswersOnce, CodesInTime, TokensOnce, InTime, AssertionsSeen,
                  PassedOn, SecondUseOnlyLate

LEMMA AnswerTypes ==
  ASSUME TypeOK, NEW k \in DOMAIN answers PROVE answers[k].of \in Auth /\ answers[k].by \in Session \cup {Digid, Denied}
  <1> DEFINE A == [of : Auth, by : Session \cup {Digid, Denied}]
  <1>1. answers \in Seq(A)
    BY DEF TypeOK
  <1> HIDE DEF A
  <1>2. answers[k] \in A
    BY <1>1
  <1> QED
    BY <1>2 DEF A

\* What no step takes back: an answer sent, a transaction that has left the
\* store, and the last moment of one that was ever kept.
LEMMA Lasting ==
  ASSUME TypeInv, [Next]_vars
  PROVE  /\ \A k \in DOMAIN answers : k \in DOMAIN answers' /\ answers'[k] = answers[k]
         /\ \A a \in Auth : trans[a].at = "gone" => trans'[a].at = "gone"
         /\ \A a \in Auth : trans[a].at # "new" => trans'[a].expires = trans[a].expires
  <1>1. TypeOK
    BY DEF TypeInv
  <1>2. ASSUME NEW a \in Auth, NEW by \in Session \cup {Digid, Denied}, Answers(a, by)
        PROVE  /\ \A k \in DOMAIN answers : k \in DOMAIN answers' /\ answers'[k] = answers[k]
               /\ trans' = [trans EXCEPT ![a].at = "gone"]
    BY <1>1, <1>2, Finished DEF Answers
  <1>3. ASSUME NEW a \in Auth, NEW by \in Session \cup {Digid, Denied}, Answers(a, by), NEW x \in Auth
        PROVE  (trans[x].at = "gone" => trans'[x].at = "gone") /\ trans'[x].expires = trans[x].expires
    <2> DEFINE gone == [trans[a] EXCEPT !.at = "gone"]
    <2>1. trans \in [Auth -> Transaction] /\ gone.at = "gone" /\ gone.expires = trans[a].expires
      BY <1>1, Records, Updates
    <2>2. trans' = [trans EXCEPT ![a] = gone]
      BY <1>2, <1>3
    <2> HIDE DEF gone
    <2> QED
      BY <2>1, <2>2
  <1>4. ASSUME NEW a \in Auth, Authorize(a), NEW x \in Auth
        PROVE  /\ answers' = answers
               /\ trans[x].at = "gone" => trans'[x].at = "gone"
               /\ trans[x].at # "new" => trans'[x].expires = trans[x].expires
    BY <1>1, <1>4 DEF TypeOK, Authorize
  <1>5. ASSUME (\E s \in Session : Disclose(s)) \/ TokenEndpoint \/ Tick PROVE UNCHANGED <<answers, trans>>
    BY <1>5 DEF Disclose, TokenEndpoint, Arrive, FirstUse, Redeem, Waste, Tick, login
  <1> QED
    BY <1>2, <1>3, <1>4, <1>5, Steps DEF Quiet

\* Codes and tokens: only an answer makes a code, and only a redemption a
\* token, with the code taken out of the store.
LEMMA Stores ==
  ASSUME TypeInv, [Next]_vars
  PROVE  \/ \E a \in Auth, by \in Session \cup {Digid, Denied} : Answers(a, by)
         \/ answers' = answers /\ codes' \subseteq codes
            /\ (tokens' = tokens \/ \E r \in Request : Redeem(r))
  BY Steps DEF Quiet, Authorize, Disclose, TokenEndpoint, Arrive, FirstUse, Redeem, Waste, Tick,
               CodeTaken, redeeming

LEMMA AnswersOnceNext ==
  ASSUME SafetyInv, [Next]_vars PROVE AnswersOnce'
  <1>1. TypeInv /\ TypeOK /\ AnswersOnce
    BY DEF SafetyInv, TypeInv
  <1>2. \A k \in DOMAIN answers : answers[k].of \in Auth
    BY <1>1, AnswerTypes
  <1>3. CASE answers' = answers
    BY <1>1, <1>2, <1>3, Lasting DEF AnswersOnce
  <1>4. ASSUME NEW a \in Auth, NEW by \in Session \cup {Digid, Denied}, Answers(a, by)
        PROVE  AnswersOnce'
    <2>1. /\ trans' = [trans EXCEPT ![a].at = "gone"] /\ trans[a].at = "pending"
          /\ \A k \in DOMAIN answers' \ DOMAIN answers :
               k = Len(answers) + 1 /\ answers'[k] = [of |-> a, by |-> by]
      BY <1>1, <1>4, Finished DEF Answers, Finish
    <2>2. trans'[a].at = "gone"
      BY <1>1, <2>1 DEF TypeOK
    <2>3. \A k \in DOMAIN answers : answers'[k] = answers[k] /\ answers[k].of # a
      BY <1>1, <2>1, Lasting DEF AnswersOnce
    <2>4. \A k \in DOMAIN answers' : k \in DOMAIN answers \/ answers'[k].of = a
      BY <2>1
    <2>5. \A k \in DOMAIN answers' : trans'[answers'[k].of].at = "gone"
      BY <1>1, <1>2, <2>2, <2>3, <2>4, Lasting DEF AnswersOnce
    <2>6. ASSUME NEW j \in DOMAIN answers', NEW k \in DOMAIN answers', answers'[j].of = answers'[k].of
          PROVE  j = k
      BY <1>1, <2>1, <2>3, <2>4, <2>6 DEF AnswersOnce
    <2> QED
      BY <2>5, <2>6 DEF AnswersOnce
  <1> QED
    BY <1>1, <1>3, <1>4, Stores

\* The answer of a code or a token still has the request it had.
LEMMA Dated ==
  ASSUME SafetyInv, [Next]_vars, NEW k \in DOMAIN answers
  PROVE  /\ k \in DOMAIN answers' /\ answers'[k] = answers[k] /\ answers[k].of \in Auth
         /\ trans'[answers[k].of].expires = trans[answers[k].of].expires
         /\ trans[answers[k].of].expires \in Nat
  <1>1. TypeInv /\ TypeOK /\ AnswersOnce
    BY DEF SafetyInv, TypeInv
  <1>2. answers[k].of \in Auth /\ trans[answers[k].of].at = "gone"
    BY <1>1, AnswerTypes DEF AnswersOnce
  <1>3. trans[answers[k].of].expires \in Nat
    BY <1>1, <1>2 DEF TypeOK
  <1> QED
    BY <1>1, <1>2, <1>3, Lasting

LEMMA CodesInTimeNext ==
  ASSUME SafetyInv, [Next]_vars PROVE CodesInTime'
  <1>1. TypeInv /\ TypeOK /\ CodesInTime
    BY DEF SafetyInv, TypeInv
  <1>2. ASSUME NEW c \in codes
        PROVE  c.expires <= trans'[answers'[c.key].of].expires + AuthorizationCodeLifetime
    <2>1. c.key \in DOMAIN answers
      BY <1>1 DEF TypeOK
    <2> QED
      BY <1>1, <2>1, Dated DEF CodesInTime
  <1>3. ASSUME NEW a \in Auth, NEW by \in Session \cup {Digid, Denied}, Answers(a, by),
               NEW c \in codes' \ codes
        PROVE  c.expires <= trans'[answers'[c.key].of].expires + AuthorizationCodeLifetime
    <2>1. /\ ~Expired(a) /\ c.key = Len(answers) + 1
          /\ c.expires = clock + AuthorizationCodeLifetime /\ c.key \in DOMAIN answers'
          /\ trans[a].at # "new"
      BY <1>1, <1>3, Finished DEF Answers, Finish
    <2>2. c.key \notin DOMAIN answers
      BY <1>1, <2>1 DEF TypeOK
    <2>3. answers'[c.key].of = a
      BY <1>1, <1>3, <2>1, <2>2, Finished DEF Answers
    <2>4. trans'[a].expires = trans[a].expires
      BY <1>1, <2>1, Lasting
    <2>5. clock \in Nat /\ trans[a].expires \in Nat
      BY <1>1 DEF TypeOK
    <2> QED
      BY <2>1, <2>3, <2>4, <2>5, AuthorizationAssumption DEF Expired
  <1> QED
    BY <1>1, <1>2, <1>3, Stores DEF CodesInTime

LEMMA TokensNext ==
  ASSUME SafetyInv, [Next]_vars PROVE TokensOnce' /\ InTime'
  <1>1. TypeInv /\ TypeOK /\ CodesInTime /\ TokensOnce /\ InTime
    BY DEF SafetyInv, TypeInv
  <1>2. ASSUME NEW t \in tokens
        PROVE  /\ t.code \in DOMAIN answers' /\ answers'[t.code].by # Denied
               /\ t.to = ClientOf[answers'[t.code].of]
               /\ t.iat <= trans'[answers'[t.code].of].expires + AuthorizationCodeLifetime
    <2>1. t.code \in DOMAIN answers
      BY <1>1 DEF TokensOnce
    <2> QED
      BY <1>1, <2>1, Dated DEF TokensOnce, InTime
  <1>3. ASSUME NEW a \in Auth, NEW by \in Session \cup {Digid, Denied}, Answers(a, by)
        PROVE  TokensOnce' /\ InTime'
    <2>1. tokens' = tokens
      BY <1>3 DEF Answers, redeeming
    <2>2. \A c \in codes' : c \in codes \/ c.key \notin DOMAIN answers
      <3>1. \A c \in codes' \ codes : c.key = Len(answers) + 1
        BY <1>1, <1>3, Finished DEF Answers
      <3>2. Len(answers) + 1 \notin DOMAIN answers
        BY <1>1 DEF TypeOK
      <3> QED
        BY <3>1, <3>2
    <2>3. \A t \in tokens, c \in codes' : c.key # t.code
      BY <1>1, <2>2 DEF TokensOnce
    <2> QED
      BY <1>2, <2>1, <2>3 DEF TokensOnce, InTime
  <1>4. CASE answers' = answers /\ codes' \subseteq codes /\ tokens' = tokens
    BY <1>1, <1>2, <1>4 DEF TokensOnce, InTime
  <1>5. ASSUME NEW r \in Request, Redeem(r) PROVE TokensOnce' /\ InTime'
    <2> DEFINE k == request[r].code
               n == [jti |-> r, code |-> k, to |-> SignedBy[request[r].msg], iat |-> request[r].now]
    <2>1. /\ request[r].at = "code" /\ Timely(r) /\ OwnCode(r) /\ codes' = CodeTaken(k)
          /\ tokens' = tokens \cup {n} /\ answers' = answers /\ trans' = trans
      BY <1>5 DEF Redeem, login
    <2>2. k \in DOMAIN answers /\ answers[k].by # Denied /\ request[r].now \in Nat
      BY <1>1, <2>1 DEF TypeInv, Arrived, TypeOK
    <2>3. \A c \in codes' : c \in codes /\ c.key # k
      BY <2>1 DEF CodeTaken
    <2>4. PICK c \in codes : c.key = k /\ request[r].now <= c.expires
      BY <2>1 DEF Timely
    <2>5. c.expires \in Nat /\ trans[answers[k].of].expires \in Nat
      BY <1>1, <2>2, Dated DEF TypeOK
    <2>6. n.iat <= trans[answers[k].of].expires + AuthorizationCodeLifetime
      BY <1>1, <2>2, <2>4, <2>5, AuthorizationAssumption DEF CodesInTime
    <2>7. n.to = ClientOf[answers[k].of] /\ n.code = k
      BY <2>1 DEF OwnCode
    <2> HIDE DEF n
    <2>8. TokensOnce'
      BY <1>1, <2>1, <2>2, <2>3, <2>7 DEF TokensOnce
    <2>9. InTime'
      BY <1>1, <2>1, <2>6, <2>7 DEF InTime
    <2> QED
      BY <2>8, <2>9
  <1> QED
    BY <1>1, <1>3, <1>4, <1>5, Stores

LEMMA AssertionsNext ==
  ASSUME SafetyInv, [Next]_vars PROVE AssertionsSeen' /\ SecondUseOnlyLate'
  <1>1. TypeInv /\ TypeOK /\ Arrived /\ AssertionsSeen /\ SecondUseOnlyLate
    BY DEF SafetyInv, TypeInv
  <1>2. ASSUME UNCHANGED <<clock, request, seen>> PROVE AssertionsSeen' /\ SecondUseOnlyLate'
    BY <1>1, <1>2 DEF AssertionsSeen, PassedOn, SecondUseOnlyLate
  <1>3. CASE Tick
    <2>1. clock' = clock + 1 /\ UNCHANGED <<request, seen>>
      BY <1>3 DEF Tick, redeeming
    <2>2. clock \in Nat /\ \A r \in Request : request[r].msg \in Message => End[request[r].msg] \in Nat
      BY <1>1, AuthorizationAssumption DEF TypeOK
    <2>3. \A r \in Request : PassedOn(r) => request[r].msg \in Message
      BY <1>1 DEF PassedOn, Arrived
    <2>4. \A r \in Request : PassedOn(r) /\ clock > End[request[r].msg] => clock + 1 > End[request[r].msg]
      BY <2>2, <2>3
    <2>5. AssertionsSeen'
      BY <1>1, <2>1, <2>4 DEF AssertionsSeen, PassedOn
    <2>6. SecondUseOnlyLate'
      BY <1>1, <2>1, <2>4 DEF SecondUseOnlyLate, PassedOn
    <2> QED
      BY <2>5, <2>6
  <1>4. ASSUME NEW r \in Request, NEW m \in Message, NEW k \in DOMAIN answers, Arrive(r, m, k)
        PROVE  AssertionsSeen' /\ SecondUseOnlyLate'
    <2>1. /\ request' = [request EXCEPT ![r] = [at |-> "assertion", now |-> clock, msg |-> m, code |-> k]]
          /\ UNCHANGED <<clock, seen>>
      BY <1>4 DEF Arrive
    <2>2. request'[r].at = "assertion" /\ \A q \in Request \ {r} : request'[q] = request[q]
      BY <1>1, <2>1 DEF TypeOK
    <2> QED
      BY <1>1, <2>1, <2>2 DEF AssertionsSeen, PassedOn, SecondUseOnlyLate
  <1>5. ASSUME NEW r \in Request, Redeem(r) \/ Waste(r) PROVE AssertionsSeen' /\ SecondUseOnlyLate'
    <2>1. request[r].at = "code" /\ Moves(r, "answered") /\ UNCHANGED <<clock, seen>>
      BY <1>5 DEF Redeem, Waste
    <2>2. \A q \in Request : request'[q].msg = request[q].msg /\ (PassedOn(q)' => PassedOn(q))
      BY <1>1, <2>1, Moved DEF PassedOn
    <2>3. AssertionsSeen'
      BY <1>1, <2>1, <2>2 DEF AssertionsSeen, PassedOn
    <2>4. SecondUseOnlyLate'
      BY <1>1, <2>1, <2>2 DEF SecondUseOnlyLate, PassedOn
    <2> QED
      BY <2>3, <2>4
  <1>6. ASSUME NEW r \in Request, FirstUse(r, "proof", "code") PROVE AssertionsSeen' /\ SecondUseOnlyLate'
    <2>1. /\ request[r].at = "proof" /\ clock' = clock /\ seen'["assertion"] = seen["assertion"]
      BY <1>1, <1>6 DEF FirstUse, TypeOK
    <2>2. \/ Moves(r, "refused")
          \/ Moves(r, "code")
      BY <1>6 DEF FirstUse
    <2>3. \A q \in Request : request'[q].msg = request[q].msg /\ (PassedOn(q)' => PassedOn(q))
      BY <1>1, <2>1, <2>2, Moved DEF PassedOn
    <2>4. AssertionsSeen'
      BY <1>1, <2>1, <2>3 DEF AssertionsSeen, PassedOn
    <2>5. SecondUseOnlyLate'
      BY <1>1, <2>1, <2>3 DEF SecondUseOnlyLate, PassedOn
    <2> QED
      BY <2>4, <2>5
  <1>7. ASSUME NEW r \in Request, FirstUse(r, "assertion", "proof") PROVE AssertionsSeen' /\ SecondUseOnlyLate'
    <2> DEFINE m == request[r].msg
               known == Remembered(seen["assertion"], request[r].now)
    <2>1. /\ request[r].at = "assertion" /\ clock' = clock
          /\ seen' = [seen EXCEPT !["assertion"] = known \cup {m}]
          /\ Moves(r, IF m \in known THEN "refused" ELSE "proof")
      BY <1>7 DEF FirstUse
    <2>2. seen'["assertion"] = known \cup {m}
      BY <1>1, <2>1 DEF TypeOK
    <2>3. clock \in Nat /\ request[r].now \in Nat /\ request[r].now <= clock /\ End \in [Message -> Nat]
      BY <1>1, <2>1, AuthorizationAssumption DEF TypeOK, Arrived
    <2>4. \A x \in seen["assertion"] : x \in Message
      BY <1>1 DEF TypeOK
    <2>5. \A x \in seen["assertion"] : x \in known \/ clock > End[x]
      BY <2>3, <2>4 DEF Remembered
    <2>6. PICK at \in {"refused", "proof"} : Moves(r, at) /\ (at = "proof" => m \notin known)
      BY <2>1
    <2> HIDE DEF known
    <2>7. /\ \A q \in Request : request'[q].msg = request[q].msg
          /\ \A q \in Request \ {r} : PassedOn(q)' => PassedOn(q)
          /\ PassedOn(r)' => m \notin known
      BY <1>1, <2>6, Moved DEF PassedOn
    <2>8. AssertionsSeen'
      BY <1>1, <2>1, <2>2, <2>5, <2>7 DEF AssertionsSeen, PassedOn
    <2>9. ASSUME NEW q \in Request \ {r}, PassedOn(q), request[q].msg = m, m \notin known
          PROVE  clock > End[m]
      BY <1>1, <2>5, <2>9 DEF AssertionsSeen
    <2>10. SecondUseOnlyLate'
      BY <1>1, <2>1, <2>7, <2>9 DEF SecondUseOnlyLate, PassedOn
    <2> QED
      BY <2>8, <2>10
  <1>8. CASE TokenEndpoint
    BY <1>4, <1>5, <1>6, <1>7, <1>8 DEF TokenEndpoint
  <1> QED
    BY <1>1, <1>2, <1>3, <1>8, Steps DEF Answers, Quiet, Authorize, Disclose, redeeming

LEMMA SafetyNext == SafetyInv /\ [Next]_vars => SafetyInv'
  <1> SUFFICES ASSUME SafetyInv, [Next]_vars PROVE SafetyInv'
    OBVIOUS
  <1>1. TypeInv'
    BY TypeNext DEF SafetyInv
  <1> QED
    BY <1>1, AnswersOnceNext, CodesInTimeNext, TokensNext, AssertionsNext DEF SafetyInv

(* A token is dated within the two lifetimes of the request it goes back   *)
(* to, whatever the handlers wait for (Service.Token, "code is not valid").*)
THEOREM TokensInTime == Spec => []InTime
  <1>1. SafetyInv => InTime
    BY DEF SafetyInv
  <1> QED
    BY <1>1, SafetyInit, SafetyNext, PTL DEF Spec

(* "A client assertion or a DPoP proof is accepted only once" (replay.go), *)
(* up to its last moment, for any number of requests and assertions.       *)
THEOREM AssertionsUsedOnce == Spec => []SecondUseOnlyLate
  <1>1. SafetyInv => SecondUseOnlyLate
    BY DEF SafetyInv
  <1> QED
    BY <1>1, SafetyInit, SafetyNext, PTL DEF Spec

-----------------------------------------------------------------------------
LEMMA StaysStep ==
  ASSUME TypeInv, [Next]_vars, NEW a \in Auth,
         trans[a].at = "pending", trans'[a].at # "pending", clock <= trans[a].expires
  PROVE  \E k \in DOMAIN answers' \ DOMAIN answers : answers'[k].of = a
  <1>1. TypeOK
    BY DEF TypeInv
  <1>2. ASSUME NEW b \in Auth, NEW by \in Session \cup {Digid, Denied}, Answers(b, by)
        PROVE  \E k \in DOMAIN answers' \ DOMAIN answers : answers'[k].of = a
    <2>1. trans' = [trans EXCEPT ![b].at = "gone"]
      BY <1>1, <1>2, Finished DEF Answers
    <2>2. a = b
      BY <1>1, <2>1 DEF TypeOK
    <2>3. ~Expired(a)
      BY <1>1 DEF TypeOK, Expired
    <2>4. answers' = Append(answers, [of |-> a, by |-> by])
      BY <1>2, <2>2, <2>3 DEF Answers, Finish
    <2>5. /\ Len(answers) + 1 \in DOMAIN answers' \ DOMAIN answers
          /\ answers'[Len(answers) + 1] = [of |-> a, by |-> by]
      BY <1>1, <2>4 DEF TypeOK
    <2> QED
      BY <2>5
  <1>3. ASSUME NEW b \in Auth, Authorize(b) PROVE FALSE
    <2>1. clock \in Nat /\ trans[a].expires \in Nat
      BY <1>1 DEF TypeOK
    <2>2. ~Expired(a) /\ a # b
      BY <1>3, <2>1 DEF Expired, Authorize
    <2> QED
      BY <1>3, <2>2 DEF Authorize
  <1>4. ASSUME (\E s \in Session : Disclose(s)) \/ TokenEndpoint \/ Tick PROVE trans' = trans
    BY <1>4 DEF Disclose, TokenEndpoint, Arrive, FirstUse, Redeem, Waste, Tick, login
  <1> QED
    BY <1>2, <1>3, <1>4, Steps DEF Quiet

(* "The transaction stays, so the user can try again" (identification.go): *)
(* it leaves the store with its answer or after its time, whatever any     *)
(* number of handlers and sessions do.                                     *)
THEOREM TransactionStays == Spec => StaysUntilAnswered
  <1>1. TypeInv /\ [Next]_vars =>
          [\A a \in Auth :
             trans[a].at = "pending" /\ trans'[a].at # "pending" /\ clock <= trans[a].expires =>
               \E k \in DOMAIN answers' \ DOMAIN answers : answers'[k].of = a]_vars
    BY StaysStep
  <1> QED
    BY <1>1, TypeInit, TypeNext, PTL DEF Spec, StaysUntilAnswered

-----------------------------------------------------------------------------
(* The server implements the promise.                                      *)
LEMMA PromiseInit == Init => Promise!Init
  BY DEF Init, Promise!Init, Shown, Granted, Disclosed

LEMMA SessionsShown ==
  ASSUME \A s \in Session : /\ Disclosed(s)' <=> Disclosed(s)
                            /\ Disclosed(s) => session'[s].tx = session[s].tx
  PROVE  Shown' = Shown
  BY DEF Shown, Disclosed

LEMMA PromiseAnswer ==
  ASSUME SafetyInv, NEW a \in Auth, NEW by \in Session \cup {Digid, Denied}, Answers(a, by)
  PROVE  Promise!Answer(a, by) \/ UNCHANGED <<Shown, answers, Granted>>
  <1>1. TypeInv /\ TypeOK /\ AnswersOnce
    BY DEF SafetyInv, TypeInv
  <1>2. Shown' = Shown /\ Granted' = Granted
    BY DEF Answers, redeeming, Shown, Granted, Disclosed
  <1>3. CASE Expired(a)
    BY <1>2, <1>3 DEF Answers, Finish
  <1>4. CASE ~Expired(a)
    <2>1. answers' = Append(answers, [of |-> a, by |-> by]) /\ trans[a].at = "pending"
      BY <1>4 DEF Answers, Finish
    <2>2. \A k \in DOMAIN answers : answers[k].of # a
      BY <1>1, <2>1 DEF AnswersOnce
    <2>3. by \in Session => [of |-> a, by |-> by] \in Shown
      BY DEF Answers, Shown
    <2> QED
      BY <1>2, <2>1, <2>2, <2>3 DEF Promise!Answer
  <1> QED
    BY <1>3, <1>4

LEMMA PromiseShow ==
  ASSUME TypeInv, NEW s \in Session, Disclose(s)
  PROVE  (\E a \in Auth : Promise!Show(a, s)) \/ UNCHANGED <<Shown, answers, Granted>>
  <1>1. PICK end \in {"elsewhere", "here", "failed"} : session' = [session EXCEPT ![s].at = end]
    BY DEF Disclose
  <1>2. session[s].at = "waiting" /\ UNCHANGED <<answers, tokens>>
    BY DEF Disclose, redeeming
  <1> DEFINE ended == [session[s] EXCEPT !.at = end]
  <1>3. /\ session \in [Session -> WalletSession]
        /\ ended.at = end /\ ended.tx = session[s].tx
    BY Records, SessionEnds DEF TypeInv
  <1>4. session' = [session EXCEPT ![s] = ended]
    BY <1>1
  <1> HIDE DEF ended
  <1>5. /\ session'[s].at = end
        /\ \A x \in Session : session'[x].tx = session[x].tx
        /\ \A x \in Session \ {s} : session'[x].at = session[x].at
    BY <1>3, <1>4
  <1>6. Granted' = Granted /\ ~Disclosed(s)
    BY <1>2 DEF Granted, Disclosed
  <1>7. CASE end = "failed"
    <2>1. \A x \in Session : /\ Disclosed(x)' <=> Disclosed(x)
                             /\ Disclosed(x) => session'[x].tx = session[x].tx
      BY <1>2, <1>5, <1>7 DEF Disclosed
    <2> QED
      BY <1>2, <1>6, <2>1, SessionsShown
  <1>8. CASE end # "failed"
    <2>1. session[s].tx \in Auth
      BY <1>2 DEF TypeInv, SessionsKept
    <2>2. \A x \in Session : Disclosed(x)' <=> Disclosed(x) \/ x = s
      BY <1>5, <1>8 DEF Disclosed
    <2>3. Shown' = Shown \cup {[of |-> session[s].tx, by |-> s]}
      BY <1>5, <2>2 DEF Shown, Disclosed
    <2>4. \A d \in Shown : d.by # s
      BY <1>6 DEF Shown
    <2> QED
      BY <1>2, <1>6, <2>1, <2>3, <2>4 DEF Promise!Show
  <1> QED
    BY <1>7, <1>8

LEMMA PromiseGrant ==
  ASSUME SafetyInv, NEW r \in Request, Redeem(r)
  PROVE  \E k \in DOMAIN answers, c \in Client : Promise!Grant(k, c)
  <1> DEFINE k == request[r].code
             c == SignedBy[request[r].msg]
             n == [jti |-> r, code |-> k, to |-> c, iat |-> request[r].now]
  <1>1. /\ request[r].at = "code" /\ Timely(r) /\ OwnCode(r)
        /\ tokens' = tokens \cup {n} /\ answers' = answers /\ session' = session
    BY DEF Redeem, login
  <1>2. k \in DOMAIN answers /\ answers[k].by # Denied /\ c \in Client
    BY <1>1, AuthorizationAssumption DEF SafetyInv, TypeInv, Arrived
  <1>3. c = ClientOf[answers[k].of]
    BY <1>1 DEF OwnCode
  <1>4. \A t \in tokens : t.code # k
    BY <1>1 DEF SafetyInv, TokensOnce, Timely
  <1>5. \A t \in Granted : t.code # k
    BY <1>4 DEF Granted
  <1>6. n.jti = r /\ n.code = k /\ n.to = c
    OBVIOUS
  <1> HIDE DEF n
  <1>7. Granted' = Granted \cup {[jti |-> r, code |-> k, to |-> c]}
    BY <1>1, <1>6 DEF Granted
  <1>8. Shown' = Shown
    BY <1>1 DEF Shown, Disclosed
  <1> HIDE DEF k, c
  <1> QED
    BY <1>1, <1>2, <1>3, <1>5, <1>7, <1>8 DEF Promise!Grant

LEMMA PromiseNext == SafetyInv /\ [Next]_vars => [Promise!Next]_(Promise!vars)
  <1> SUFFICES ASSUME SafetyInv, [Next]_vars, ~UNCHANGED <<Shown, answers, Granted>>
               PROVE  Promise!Next
    BY DEF Promise!vars
  <1>1. TypeInv
    BY DEF SafetyInv
  <1>2. ASSUME NEW a \in Auth, NEW by \in Session \cup {Digid, Denied}, Answers(a, by) PROVE Promise!Next
    BY <1>2, PromiseAnswer DEF Promise!Next
  <1>3. ASSUME NEW s \in Session, Disclose(s) PROVE Promise!Next
    BY <1>1, <1>3, PromiseShow DEF Promise!Next
  <1>4. ASSUME NEW r \in Request, Redeem(r) PROVE Promise!Next
    BY <1>4, PromiseGrant DEF Promise!Next
  <1>5. ASSUME UNCHANGED <<session, answers, tokens>> PROVE FALSE
    BY <1>5 DEF Shown, Granted, Disclosed
  <1>6. ASSUME NEW a \in Auth, Authorize(a) PROVE FALSE
    BY <1>5, <1>6 DEF Authorize, redeeming
  <1>7. CASE TokenEndpoint
    BY <1>4, <1>5, <1>7 DEF TokenEndpoint, Arrive, FirstUse, Waste, login
  <1>8. CASE Tick
    BY <1>5, <1>8 DEF Tick, login, redeeming
  <1>9. CASE Quiet
    <2>1. Shown' = Shown
      BY <1>9, SessionsShown DEF Quiet
    <2> QED
      BY <1>9, <2>1 DEF Quiet, redeeming, Granted
  <1> QED
    BY <1>1, <1>2, <1>3, <1>6, <1>7, <1>8, <1>9, Steps

(* The server implements AuthorizationPromise: a request is answered once, *)
(* a wallet's login counts for the transaction its session was opened for  *)
(* and for no other, and an answer yields at most one token, for the       *)
(* client that asked; for every number of handlers, sessions and requests. *)
THEOREM PromiseKept == Spec => KeepsPromise
  BY PromiseInit, SafetyInit, SafetyNext, PromiseNext, PTL DEF Spec, KeepsPromise, Promise!Spec

-----------------------------------------------------------------------------
(***************************************************************************)
(* The ASIP (AsiProvider), for any number of calls, sources, proofs, keys  *)
(* and releases, from its assumptions.                                     *)
(***************************************************************************)

(* What a call holds at each point. *)
Keyed(p) == p.token \in 1 .. MaxKeys /\ p.proof \in Proof /\ madeAt[p.proof] <= now
InWindow(p) == Keyed(p) /\ p.clock \in 0 .. now /\ p.clock <= madeAt[p.proof] + Window
Admitted(p) ==
  p.token \in 1 .. MaxKeys /\ p.request \in Requests /\ Authorized(p.token, Items(p.request))
Published(asi) == \E r \in Release, s \in Source : asi = Capability[r][s]
Planned(p) ==
  /\ Admitted(p) /\ Published(p.asi) /\ Ids(Items(p.request)) \subseteq DOMAIN p.asi.attributes
  /\ p.selection = Selection(p.asi, Askable(p.asi, Items(p.request)))

CallFits(h) ==
  /\ call[h].at = "keys" => Keyed(call[h])
  /\ call[h].at = "proof" => InWindow(call[h])
  /\ call[h].at = "describe" => Admitted(call[h]) /\ call[h].source \in Source
  /\ call[h].at = "asking" => Planned(call[h])
  /\ call[h].at = "done" => Truthful(call[h])
CallsFit == \A h \in Call : CallFits(h)

(* What Refresh has read is no later than what the registry says by now. *)
ReadInTime ==
  /\ StaleInTime
  /\ refresh.at = "state" =>
       \A s \in Source : refresh.stale[s] <= staleUntil[refresh.release][s]

(* A proof that was used is remembered until its last moment has passed. *)
UsedIsKept ==
  /\ \A j \in Proof : madeAt[j] = Never \/ madeAt[j] <= now
  /\ \A j \in used : madeAt[j] <= now /\ (now <= madeAt[j] + Window => AsSpent(j) \in spent)

ProviderInv == ProviderTypeOK /\ ReadInTime /\ UsedIsKept /\ CallsFit

(* No proof lets a second request through, but for one that read the clock *)
(* before the proof's last moment and reaches the cache after it, when     *)
(* another request has purged the proof (accesstoken, replay.go).          *)
SecondProofOnlyLate ==
  [][\A h \in Call :
       call[h].at = "proof" /\ call'[h].at = "describe" /\ call[h].proof \in used
         => now > madeAt[call[h].proof] + Window]_providerVars

LEMMA FirstStaleTime == FirstStale \in StaleTimes
  <1>1. PICK t \in StaleTimes : \A u \in StaleTimes : ~ (<<u, t>> \in OpToRel(<, Nat))
    BY ProviderAssumption, NatLessThanWellFounded, WFMin, Zenon
  <1>2. \A u \in StaleTimes : t <= u
    <2> SUFFICES ASSUME NEW u \in StaleTimes PROVE t <= u
      OBVIOUS
    <2>1. t \in Nat /\ u \in Nat /\ ~ (u < t)
      BY <1>1, ProviderAssumption DEF OpToRel
    <2> QED
      BY <2>1
  <1> QED
    BY <1>2 DEF FirstStale

LEMMA ProviderStarts == ProviderInit => ProviderInv
  <1> SUFFICES ASSUME ProviderInit PROVE ProviderInv
    OBVIOUS
  <1>1. ProviderTypeOK
    BY ProviderAssumption, FirstStaleTime DEF ProviderInit, ProviderTypeOK, Free, Never
  <1>2. ReadInTime
    BY DEF ProviderInit, ReadInTime, StaleInTime, Free
  <1>3. UsedIsKept
    BY DEF ProviderInit, UsedIsKept
  <1>4. CallsFit
    BY DEF ProviderInit, CallsFit, CallFits, Free
  <1> QED
    BY <1>1, <1>2, <1>3, <1>4 DEF ProviderInv

-----------------------------------------------------------------------------
(* The question and the answer.                                            *)

LEMMA DescriptionFacts ==
  ASSUME NEW asi, Published(asi), NEW id \in DOMAIN asi.attributes
  PROVE  /\ DOMAIN asi.attributes[id].fields \subseteq Nat
         /\ \A m \in DOMAIN asi.attributes[id].fields :
              /\ asi.attributes[id].fields[m].from \subseteq SourceField
              /\ asi.attributes[id].fields[m].kind # "const"
                   => asi.attributes[id].fields[m].from # {}
  <1>1. PICK r \in Release, s \in Source : asi = Capability[r][s]
    BY DEF Published
  <1>2. id \in DOMAIN Capability[r][s].attributes
    BY <1>1
  <1>3. WellDescribed(asi.attributes[id])
    BY <1>1, <1>2, DescriptionsAssumption
  <1> QED
    BY <1>3 DEF WellDescribed

\* An item that can be asked names members that the description has, and asks a
\* field unless it is an attribute of constants only.
LEMMA AskableAsks ==
  ASSUME NEW asi, Published(asi), NEW items, Ids(items) \subseteq DOMAIN asi.attributes,
         NEW i \in Askable(asi, items)
  PROVE  /\ i \in items /\ i.id \in DOMAIN asi.attributes
         /\ DOMAIN asi.attributes[i.id].fields \subseteq Nat
         /\ Requested(asi.attributes[i.id], i.members) \subseteq DOMAIN asi.attributes[i.id].fields
         /\ ReadsSource(asi, i) => Pointers(asi, i) # {}
         /\ \A m \in i.members : asi.attributes[i.id].fields[m].kind # "const"
  <1> DEFINE fields == asi.attributes[i.id].fields
  <1>1. i \in items /\ i.id \in DOMAIN asi.attributes
    BY DEF Askable, Ids
  <1>2. \A m \in i.members : m \in DOMAIN fields /\ fields[m].kind # "const"
    BY DEF Askable, IsConst
  <1>3. Requested(asi.attributes[i.id], i.members) \subseteq DOMAIN fields
    BY <1>2 DEF Requested
  <1>4. ASSUME NEW m \in i.members PROVE Pointers(asi, i) # {}
    <2>1. m \in Requested(asi.attributes[i.id], i.members)
      BY <1>4 DEF Requested
    <2>2. fields[m].from # {}
      BY <1>1, <1>2, <1>4, DescriptionFacts
    <2>3. PICK p : p \in fields[m].from
      BY <2>2
    <2>4. <<asi.attributes[i.id].on, p>> \in Pointers(asi, i)
      BY <2>1, <2>3 DEF Pointers
    <2> QED
      BY <2>4
  <1> QED
    BY <1>1, <1>2, <1>3, <1>4, DescriptionFacts DEF ReadsSource

\* What is asked of the source for some items is asked for the attributes.
LEMMA PartOfTheWhole ==
  ASSUME NEW asi, Published(asi), NEW items, Ids(items) \subseteq DOMAIN asi.attributes,
         NEW s \in Selection(asi, Askable(asi, items))
  PROVE  \E id \in Ids(items) : s \in Selection(asi, {Whole(id)})
  <1>1. PICK i \in Askable(asi, items) : s \in Pointers(asi, i)
    BY DEF Selection
  <1>2. Requested(asi.attributes[i.id], i.members) \subseteq DOMAIN asi.attributes[i.id].fields
    BY AskableAsks
  <1>3. Pointers(asi, i) \subseteq Pointers(asi, Whole(i.id))
    BY <1>2 DEF Pointers, Requested, Whole
  <1>4. i.id \in Ids(items)
    BY DEF Ids, Askable
  <1> QED
    BY <1>1, <1>3, <1>4 DEF Selection

\* The fields that were asked for an item are answered as they are, when the
\* item's type is that of the person.
LEMMA AskedIsAnswered ==
  ASSUME NEW asi, Published(asi), NEW items, Ids(items) \subseteq DOMAIN asi.attributes,
         NEW i \in Askable(asi, items), NEW person,
         asi.attributes[i.id].on \in {NoType, person.type},
         NEW m \in Requested(asi.attributes[i.id], i.members),
         NEW p \in asi.attributes[i.id].fields[m].from
  PROVE  AnswerOf(person, Selection(asi, Askable(asi, items))).fields[p] = person.fields[p]
  <1> DEFINE on == asi.attributes[i.id].on
  <1>1. i.id \in DOMAIN asi.attributes /\ m \in DOMAIN asi.attributes[i.id].fields
    BY AskableAsks
  <1>2. p \in SourceField
    BY <1>1, DescriptionFacts
  <1>3. <<on, p>> \in Selection(asi, Askable(asi, items))
    BY DEF Selection, Pointers
  <1>4. <<on, p>>[1] = on /\ <<on, p>>[2] = p
    OBVIOUS
  <1> QED
    BY <1>2, <1>3, <1>4 DEF AnswerOf

\* A type that an item depends on is asked.
LEMMA TypeIsAnswered ==
  ASSUME NEW asi, Published(asi), NEW items, Ids(items) \subseteq DOMAIN asi.attributes,
         NEW i \in Askable(asi, items), ReadsSource(asi, i), NEW person, asi.attributes[i.id].on # NoType
  PROVE  AnswerOf(person, Selection(asi, Askable(asi, items))).type = person.type
  <1> DEFINE on == asi.attributes[i.id].on
  <1>1. PICK s \in Pointers(asi, i) : TRUE
    BY AskableAsks
  <1>2. s[1] = on
    BY DEF Pointers
  <1>3. s \in Selection(asi, Askable(asi, items))
    BY DEF Selection
  <1> QED
    BY <1>2, <1>3 DEF AnswerOf, AsksType

LEMMA FirstOfNumbers ==
  ASSUME NEW numbers \in SUBSET Nat, numbers # {}
  PROVE  First(numbers) \in numbers
  <1>1. PICK n \in numbers : \A m \in numbers : ~ (<<m, n>> \in OpToRel(<, Nat))
    BY NatLessThanWellFounded, WFMin
  <1>2. \A m \in numbers : n <= m
    <2> SUFFICES ASSUME NEW m \in numbers PROVE n <= m
      OBVIOUS
    <2>1. n \in Nat /\ m \in Nat /\ ~ (m < n)
      BY <1>1 DEF OpToRel
    <2> QED
      BY <2>1
  <1> QED
    BY <1>2 DEF First

\* Two answers that agree on the members of an item build the same value.
Agree(attribute, a, b, members) ==
  /\ Requested(attribute, members) \subseteq Nat
  /\ attribute.on # NoType => a.type = b.type
  /\ attribute.on \in {NoType, a.type} =>
       \A m \in Requested(attribute, members) : \A p \in attribute.fields[m].from :
         a.fields[p] = b.fields[p]

LEMMA SameBuild ==
  ASSUME NEW attribute, NEW a, NEW b, NEW known, NEW required, NEW members,
         Agree(attribute, a, b, members)
  PROVE  Build(attribute, a, known, required, members) = Build(attribute, b, known, required, members)
  <1> DEFINE asked == Requested(attribute, members)
  <1>0. Agree(attribute, a, b, members) => (attribute.on # NoType => a.type = b.type)
    BY DEF Agree
  <1>1. CASE attribute.on # NoType /\ (a.type = NoType \/ a.type # attribute.on)
    BY <1>0, <1>1 DEF Build
  <1>2. CASE attribute.on \in {NoType, a.type}
    <2>1. \A m \in asked : \A p \in attribute.fields[m].from : a.fields[p] = b.fields[p]
      BY <1>2 DEF Agree
    <2>2. \A m \in asked : /\ Held(attribute.fields[m], a) = Held(attribute.fields[m], b)
                           /\ Misfits(attribute.fields[m], a) = Misfits(attribute.fields[m], b)
      BY <2>1 DEF Held, Misfits
    <2>3. \A m \in asked : MemberValue(attribute.fields[m], a) = MemberValue(attribute.fields[m], b)
      <3> SUFFICES ASSUME NEW m \in asked
                   PROVE  MemberValue(attribute.fields[m], a) = MemberValue(attribute.fields[m], b)
        OBVIOUS
      <3>1. {q \in attribute.fields[m].from : NonEmpty(a.fields[q]) # {}}
              = {q \in attribute.fields[m].from : NonEmpty(b.fields[q]) # {}}
        BY <2>1
      <3> QED
        BY <2>1, <3>1 DEF MemberValue
    <2> DEFINE ending == Ending(attribute, a, required, members)
               held == {n \in asked : Held(attribute.fields[n], a)}
    <2>4. ending = Ending(attribute, b, required, members)
      BY <2>2 DEF Ending
    <2>5. held = {n \in asked : Held(attribute.fields[n], b)}
      BY <2>2
    <2>6. [m \in held |-> MemberValue(attribute.fields[m], a)]
            = [m \in held |-> MemberValue(attribute.fields[m], b)]
      BY <2>3
    <2>7. ending # {} =>
            Misfits(attribute.fields[First(ending)], a) = Misfits(attribute.fields[First(ending)], b)
      <3>1. ending \subseteq asked
        BY DEF Ending
      <3>2. ending # {} => First(ending) \in asked
        BY <3>1, FirstOfNumbers DEF Agree
      <3> QED
        BY <2>2, <3>2
    <2> QED
      BY <1>0, <1>2, <2>4, <2>5, <2>6, <2>7 DEF Build
  <1> QED
    BY <1>1, <1>2

\* Each item is built from what was asked as from the whole record.
LEMMA AskedIsEnough ==
  ASSUME NEW asi, Published(asi), NEW items, Ids(items) \subseteq DOMAIN asi.attributes,
         NEW i \in Askable(asi, items), ReadsSource(asi, i), NEW person, NEW known
  PROVE  BuildItem(asi, AnswerOf(person, Selection(asi, Askable(asi, items))), known, i)
           = BuildItem(asi, WholeRecord(person), known, i)
  <1> DEFINE a == AnswerOf(person, Selection(asi, Askable(asi, items)))
             b == WholeRecord(person)
             attribute == asi.attributes[i.id]
             required == Catalogue[i.id].required
             members == i.members
  <1>1. b.type = person.type /\ b.fields = person.fields
    BY DEF WholeRecord
  <1>2. attribute.on # NoType => a.type = b.type
    BY <1>1, TypeIsAnswered
  <1>3. ASSUME attribute.on \in {NoType, a.type}, NEW m \in Requested(attribute, members),
               NEW p \in attribute.fields[m].from
        PROVE  a.fields[p] = b.fields[p]
    <2>1. attribute.on \in {NoType, person.type}
      BY <1>1, <1>2, <1>3
    <2> QED
      BY <1>1, <1>3, <2>1, AskedIsAnswered
  <1>4. Requested(attribute, members) \subseteq Nat
    BY AskableAsks
  <1>5. attribute.on \in {NoType, a.type} =>
          \A m \in Requested(attribute, members) : \A p \in attribute.fields[m].from :
            a.fields[p] = b.fields[p]
    BY <1>3
  <1> HIDE DEF a, b, attribute, required, members
  <1>6. Agree(attribute, a, b, members)
    BY <1>2, <1>4, <1>5 DEF Agree
  <1>7. Build(attribute, a, known, required, members) = Build(attribute, b, known, required, members)
    BY <1>6, SameBuild
  <1> QED
    BY <1>7 DEF BuildItem, attribute, required, members, a, b

\* What is said of an item that reads the source is what the whole record says,
\* also when there was nothing to ask.
LEMMA AskedTellsTheTruth ==
  ASSUME NEW p, Planned(p), NEW person, NEW i \in Items(p.request), ReadsSource(p.asi, i)
  PROVE  /\ p.selection # {} => \A known : ItemOf(p, i, AnswerOf(person, p.selection), known)
                                             = ItemOf(p, i, WholeRecord(person), known)
         /\ p.selection = {} => \A a, b : \A k, l \in BOOLEAN : ItemOf(p, i, a, k) = ItemOf(p, i, b, l)
  <1> DEFINE items == Items(p.request)
             sel == Selection(p.asi, Askable(p.asi, items))
  <1>1. /\ Published(p.asi) /\ Ids(items) \subseteq DOMAIN p.asi.attributes /\ p.request \in Requests
        /\ p.selection = sel
    BY DEF Planned, Admitted
  <1>2. i \in Askable(p.asi, items) <=> i \in Askable(p.asi, {i})
    BY DEF Askable
  <1>3. CASE i \notin Askable(p.asi, items)
    <2>1. p.request.operation = "verify"
      BY <1>1, <1>3, RequestsAssumption DEF Askable
    <2> QED
      BY <1>2, <1>3, <2>1 DEF ItemOf, ItemResult
  <1>4. CASE i \in Askable(p.asi, items)
    <2>1. p.selection # {}
      <3>1. Pointers(p.asi, i) # {}
        BY <1>1, <1>4, AskableAsks
      <3> QED
        BY <1>1, <1>4, <3>1 DEF Selection
    <2>2. ASSUME NEW known
          PROVE  BuildItem(p.asi, AnswerOf(person, sel), known, i)
                   = BuildItem(p.asi, WholeRecord(person), known, i)
      BY <1>1, <1>4, AskedIsEnough
    <2>3. ASSUME NEW known
          PROVE  ItemOf(p, i, AnswerOf(person, sel), known) = ItemOf(p, i, WholeRecord(person), known)
      BY <2>2 DEF ItemOf, ItemResult
    <2> QED
      BY <1>1, <2>1, <2>3
  <1> QED
    BY <1>3, <1>4

\* Answers that say the same of each item that reads the source make a result
\* that is truthful.
LEMMA SaidOfEach ==
  ASSUME NEW p, NEW answer, NEW known, p.result = ResultOf(p, answer, known),
         \A i \in Items(p.request) : ReadsSource(p.asi, i) =>
            ItemOf(p, i, answer, known) = ItemOf(p, i, Told(p), p.person # Nothing)
  PROVE  Truthful(p)
  <1> DEFINE asked == p.request.asked
             said == [n \in DOMAIN asked |-> ItemOf(p, asked[n], answer, known)]
             true == [n \in DOMAIN asked |-> ItemOf(p, asked[n], Told(p), p.person # Nothing)]
  <1>1. ASSUME \A i \in Items(p.request) : ReadsSource(p.asi, i) PROVE p.result = Truth(p)
    <2>1. \A n \in DOMAIN asked : asked[n] \in Items(p.request)
      BY DEF Items
    <2>2. said = true
      BY <1>1, <2>1
    <2> QED
      BY <2>2 DEF ResultOf, Truth
  <1>2. ASSUME p.result.is \in {"verified", "retrieved"}, NEW n \in DOMAIN asked,
               ReadsSource(p.asi, asked[n])
        PROVE  p.result.results[n] = ItemOf(p, asked[n], Told(p), p.person # Nothing)
    <2>1. p.result = VerifyResult(said) \/ p.result = RetrieveResult(said)
      BY DEF ResultOf
    <2> HIDE DEF said
    <2>2. p.result \in {Misfit, NotHeld, [is |-> "verified", results |-> said],
                         [is |-> "retrieved", results |-> said]}
      BY <2>1 DEF VerifyResult, RetrieveResult
    <2>3. p.result # Misfit /\ p.result # NotHeld
      <3>1. Misfit.is = "misfit" /\ NotHeld.is = "not held"
        BY DEF Misfit, NotHeld
      <3>2. Misfit.is \notin {"verified", "retrieved"} /\ NotHeld.is \notin {"verified", "retrieved"}
        BY <3>1
      <3> QED
        BY <1>2, <3>2, Zenon
    <2>4. p.result.results = said
      BY <2>2, <2>3
    <2>5. asked[n] \in Items(p.request)
      BY DEF Items
    <2> QED
      BY <1>2, <2>4, <2>5 DEF said
  <1> QED
    BY <1>1, <1>2 DEF Truthful

-----------------------------------------------------------------------------
(* The steps.                                                              *)

\* A call that does not move keeps what it holds.
LEMMA OthersFit ==
  ASSUME ProviderInv, now' \in Nat, now' >= now,
         \A j \in Proof : madeAt[j] # Never => madeAt'[j] = madeAt[j],
         NEW h \in Call, call'[h] = call[h]
  PROVE  CallFits(h)'
  <1>1. CallFits(h) /\ now \in 0 .. MaxTime
    BY DEF ProviderInv, CallsFit, ProviderTypeOK
  <1>2. madeAt \in [Proof -> 0 .. Never] /\ Never \in Nat /\ MaxTime \in Nat /\ Never = MaxTime + 1
    BY ProviderAssumption DEF ProviderInv, ProviderTypeOK, Never
  <1>3. \A j \in Proof : madeAt[j] <= now => madeAt'[j] = madeAt[j]
    BY <1>1, <1>2
  <1>4. Keyed(call[h]) => Keyed(call[h])'
    BY <1>1, <1>2, <1>3 DEF Keyed
  <1>5. InWindow(call[h]) => InWindow(call[h])'
    <2>1. InWindow(call[h]) => call[h].proof \in Proof /\ madeAt[call[h].proof] <= now
      BY DEF InWindow, Keyed
    <2> QED
      BY <1>1, <1>3, <1>4, <2>1 DEF InWindow
  <1>6. Admitted(call[h]) => Admitted(call[h])'
    BY DEF Admitted, Authorized
  <1>7. Planned(call[h]) => Planned(call[h])'
    BY <1>6 DEF Planned
  <1>8. Truthful(call[h])' = Truthful(call[h])
    BY DEF Truthful, Truth, Told
  <1> QED
    BY <1>1, <1>4, <1>5, <1>6, <1>7, <1>8 DEF CallFits

LEMMA CallsUnmoved ==
  ASSUME ProviderInv, UNCHANGED <<call, proofVars>>, now' \in 0 .. MaxTime, now' >= now
  PROVE  CallsFit' /\ UsedIsKept'
  <1>1. now' \in Nat /\ now \in Nat
    BY ProviderAssumption DEF ProviderInv, ProviderTypeOK
  <1>2. CallsFit'
    BY <1>1, OthersFit DEF CallsFit, proofVars
  <1>3. UsedIsKept'
    <2>1. madeAt \in [Proof -> 0 .. Never] /\ used \subseteq Proof /\ Never \in Nat /\ Window \in Nat
      BY ProviderAssumption DEF ProviderInv, ProviderTypeOK, Never
    <2>2. ASSUME NEW j \in Proof PROVE madeAt[j] = Never \/ madeAt[j] <= now'
      <3>1. madeAt[j] = Never \/ madeAt[j] <= now
        BY DEF ProviderInv, UsedIsKept
      <3> QED
        BY <1>1, <2>1, <3>1
    <2>3. ASSUME NEW j \in used
          PROVE  madeAt[j] <= now' /\ (now' <= madeAt[j] + Window => AsSpent(j) \in spent)
      <3>1. madeAt[j] <= now /\ (now <= madeAt[j] + Window => AsSpent(j) \in spent)
        BY DEF ProviderInv, UsedIsKept
      <3>2. madeAt[j] \in Nat
        BY <2>1
      <3> QED
        BY <1>1, <2>1, <3>1, <3>2
    <2> QED
      BY <2>2, <2>3 DEF UsedIsKept, proofVars, AsSpent
  <1> QED
    BY <1>2, <1>3

\* One call moves on; the rest of the ASIP stays as it is.
LEMMA CallMoves ==
  ASSUME ProviderInv, NEW h \in Call, NEW c, call' = [call EXCEPT ![h] = c],
         c.at \in {"idle", "keys", "proof", "describe", "asking", "done"},
         UNCHANGED now, \A j \in Proof : madeAt[j] # Never => madeAt'[j] = madeAt[j],
         CallFits(h)'
  PROVE  /\ DOMAIN call' = Call /\ CallsFit'
         /\ \A g \in Call : call'[g].at \in {"idle", "keys", "proof", "describe", "asking", "done"}
  <1>1. DOMAIN call = Call /\ now \in Nat
    BY ProviderAssumption DEF ProviderInv, ProviderTypeOK
  <1>2. \A g \in Call : g # h => call'[g] = call[g]
    BY <1>1
  <1>3. DOMAIN call' = Call /\ call'[h] = c
    BY <1>1
  <1>4. \A g \in Call : g # h => CallFits(g)'
    BY <1>1, <1>2, OthersFit
  <1>5. CallsFit'
    BY <1>4 DEF CallsFit
  <1>6. \A g \in Call : call'[g].at \in {"idle", "keys", "proof", "describe", "asking", "done"}
    BY <1>2, <1>3 DEF ProviderInv, ProviderTypeOK
  <1> QED
    BY <1>3, <1>5, <1>6

-----------------------------------------------------------------------------
\* The registry, the authorization server, the clock and Refresh.
Surroundings ==
  \/ \E r \in Release : Activate(r)
  \/ \E s \in Source, t \in StaleTimes : Observe(s, t)
  \/ NewKey \/ TimePasses \/ ReadState \/ TakeLifecycle \/ LoadRelease \/ RefreshFails

LEMMA SurroundingsTyped == ProviderInv /\ Surroundings => ProviderTypeOK'
  <1> SUFFICES ASSUME ProviderInv, Surroundings PROVE ProviderTypeOK'
    OBVIOUS
  <1> USE DEF registryVars, serverVars, proofVars
  <1>1. ProviderTypeOK
    BY DEF ProviderInv
  <1>2. ASSUME NEW r \in Release, Activate(r) PROVE ProviderTypeOK'
    BY <1>1, <1>2 DEF Activate, ProviderTypeOK
  <1>3. ASSUME NEW s \in Source, NEW t \in StaleTimes, Observe(s, t) PROVE ProviderTypeOK'
    <2>1. staleUntil' \in [Release -> [Source -> StaleTimes]]
      BY <1>1, <1>3 DEF Observe, ProviderTypeOK
    <2> QED
      BY <1>1, <1>3, <2>1 DEF Observe, ProviderTypeOK
  <1>4. CASE NewKey
    <2>1. signing' \in 1 .. MaxKeys /\ expiry' \in [1 .. MaxKeys -> 0 .. MaxTime + TokenLife]
      BY <1>1, <1>4, ProviderAssumption DEF NewKey, ProviderTypeOK
    <2> QED
      BY <1>1, <1>4, <2>1 DEF NewKey, ProviderTypeOK
  <1>5. CASE TimePasses
    <2>1. now' \in 0 .. MaxTime
      BY <1>1, <1>5, ProviderAssumption DEF TimePasses, ProviderTypeOK
    <2> QED
      BY <1>1, <1>5, <2>1 DEF TimePasses, ProviderTypeOK
  <1>6. CASE ReadState
    <2>1. refresh' \in [at : {"state"}, release : Release, stale : [Source -> StaleTimes]]
      BY <1>1, <1>6 DEF ReadState, ProviderTypeOK
    <2> QED
      BY <1>1, <1>6, <2>1 DEF ReadState, ProviderTypeOK
  <1>7. refresh.at = "state" => refresh.release \in Release /\ refresh.stale \in [Source -> StaleTimes]
    BY <1>1 DEF ProviderTypeOK, Free
  <1>8. CASE TakeLifecycle
    <2>1. described' \in [release : {0} \cup Release, stale : [Source -> StaleTimes]]
      BY <1>1, <1>7, <1>8 DEF TakeLifecycle, ProviderTypeOK
    <2> QED
      BY <1>1, <1>8, <2>1 DEF TakeLifecycle, ProviderTypeOK
  <1>9. CASE LoadRelease
    <2>1. described' \in [release : {0} \cup Release, stale : [Source -> StaleTimes]]
      BY <1>1, <1>7, <1>9 DEF LoadRelease, ProviderTypeOK
    <2> QED
      BY <1>1, <1>9, <2>1 DEF LoadRelease, ProviderTypeOK
  <1>10. CASE RefreshFails
    BY <1>1, <1>10 DEF RefreshFails, ProviderTypeOK
  <1> QED
    BY <1>2, <1>3, <1>4, <1>5, <1>6, <1>8, <1>9, <1>10 DEF Surroundings

LEMMA SurroundingsInTime == ProviderInv /\ Surroundings => ReadInTime'
  <1> SUFFICES ASSUME ProviderInv, Surroundings PROVE ReadInTime'
    OBVIOUS
  <1> USE DEF registryVars
  <1>1. /\ staleUntil \in [Release -> [Source -> Nat]]
        /\ described \in [release : {0} \cup Release, stale : [Source -> Nat]]
        /\ refresh.at = "state" => refresh.release \in Release /\ refresh.stale \in [Source -> Nat]
        /\ active \in {0} \cup Release
    <2>1. StaleTimes \subseteq Nat /\ ProviderTypeOK
      BY ProviderAssumption DEF ProviderInv
    <2>2. [Source -> StaleTimes] \subseteq [Source -> Nat]
      BY <2>1
    <2>3. staleUntil \in [Release -> [Source -> Nat]] /\ active \in {0} \cup Release
      BY <2>1, <2>2 DEF ProviderTypeOK
    <2>4. described \in [release : {0} \cup Release, stale : [Source -> Nat]]
      <3>1. described \in [release : {0} \cup Release, stale : [Source -> StaleTimes]]
        BY <2>1 DEF ProviderTypeOK
      <3> QED
        BY <2>2, <3>1
    <2>5. refresh.at = "state" => refresh.release \in Release /\ refresh.stale \in [Source -> Nat]
      <3>1. refresh.at = "state" =>
              refresh.release \in Release /\ refresh.stale \in [Source -> StaleTimes]
        BY <2>1 DEF ProviderTypeOK, Free
      <3> QED
        BY <2>2, <3>1
    <2> QED
      BY <2>3, <2>4, <2>5
  <1>2. ReadInTime /\ StaleInTime
    BY DEF ProviderInv, ReadInTime
  <1>3. ASSUME NEW s \in Source, NEW t \in StaleTimes, Observe(s, t) PROVE ReadInTime'
    <2>1. t \in Nat /\ active \in Release
      BY <1>1, <1>3, ProviderAssumption DEF Observe
    <2>2. \A r \in Release, u \in Source : staleUntil[r][u] <= staleUntil'[r][u]
      BY <1>1, <1>3, <2>1 DEF Observe
    <2>3. \A r \in Release, u \in Source : staleUntil[r][u] \in Nat /\ staleUntil'[r][u] \in Nat
      BY <1>1, <1>3, <2>1 DEF Observe
    <2>4. UNCHANGED <<described, refresh>>
      BY <1>3 DEF Observe
    <2>5. \A u \in Source : described.stale[u] \in Nat /\ (refresh.at = "state" => refresh.stale[u] \in Nat)
      BY <1>1
    <2>6. StaleInTime'
      <3> SUFFICES ASSUME described.release # 0, NEW u \in Source
                   PROVE  described.stale[u] <= staleUntil'[described.release][u]
        BY <2>4 DEF StaleInTime
      <3>1. described.release \in Release /\ described.stale[u] <= staleUntil[described.release][u]
        BY <1>1, <1>2 DEF StaleInTime
      <3> QED
        BY <2>2, <2>3, <2>5, <3>1
    <2>7. refresh.at = "state" => \A u \in Source : refresh.stale[u] <= staleUntil'[refresh.release][u]
      <3> SUFFICES ASSUME refresh.at = "state", NEW u \in Source
                   PROVE  refresh.stale[u] <= staleUntil'[refresh.release][u]
        OBVIOUS
      <3>1. refresh.release \in Release /\ refresh.stale[u] <= staleUntil[refresh.release][u]
        BY <1>1, <1>2 DEF ReadInTime
      <3> QED
        BY <2>2, <2>3, <2>5, <3>1
    <2> QED
      BY <2>4, <2>6, <2>7 DEF ReadInTime
  <1>4. CASE ReadState
    <2>1. active \in Release
      BY <1>1, <1>4 DEF ReadState
    <2>2. \A u \in Source : staleUntil[active][u] <= staleUntil[active][u]
      BY <1>1, <2>1
    <2>3. refresh'.release = active /\ refresh'.stale = staleUntil[active]
      BY <1>4 DEF ReadState
    <2>4. UNCHANGED <<described, staleUntil>>
      BY <1>4 DEF ReadState
    <2> QED
      BY <1>2, <2>2, <2>3, <2>4 DEF ReadInTime, StaleInTime
  <1>5. CASE TakeLifecycle
    <2>1. described'.release = described.release /\ described'.stale = refresh.stale
      BY <1>1, <1>5 DEF TakeLifecycle
    <2>2. \A u \in Source : refresh.stale[u] <= staleUntil[described.release][u]
      BY <1>2, <1>5 DEF TakeLifecycle, SameRelease, ReadInTime
    <2>3. refresh' = Free /\ staleUntil' = staleUntil
      BY <1>5 DEF TakeLifecycle
    <2> QED
      BY <2>1, <2>2, <2>3 DEF ReadInTime, StaleInTime, Free
  <1>6. CASE LoadRelease
    <2>1. refresh' = Free /\ staleUntil' = staleUntil
      BY <1>6 DEF LoadRelease
    <2>2. CASE described' = described
      BY <1>2, <2>1, <2>2 DEF ReadInTime, StaleInTime, Free
    <2>3. CASE refresh.release = active /\ described' = [release |-> active, stale |-> staleUntil[active]]
      <3>1. active \in Release
        BY <1>1, <1>6, <2>3 DEF LoadRelease
      <3>2. described'.release = active /\ described'.stale = staleUntil[active]
        BY <2>3
      <3>3. \A u \in Source : staleUntil[active][u] <= staleUntil[active][u]
        BY <1>1, <3>1
      <3> QED
        BY <2>1, <3>2, <3>3 DEF ReadInTime, StaleInTime, Free
    <2> QED
      BY <1>6, <2>2, <2>3 DEF LoadRelease
  <1>7. CASE UNCHANGED <<described, staleUntil>> /\ (refresh' = refresh \/ refresh' = Free)
    BY <1>2, <1>7 DEF ReadInTime, StaleInTime, Free
  <1>8. ASSUME NEW r \in Release, Activate(r) PROVE ReadInTime'
    BY <1>7, <1>8 DEF Activate
  <1>9. CASE NewKey \/ TimePasses \/ RefreshFails
    BY <1>7, <1>9 DEF NewKey, TimePasses, RefreshFails
  <1> QED
    BY <1>3, <1>4, <1>5, <1>6, <1>8, <1>9 DEF Surroundings

LEMMA SurroundingsKeep == ProviderInv /\ Surroundings => ProviderInv'
  <1> SUFFICES ASSUME ProviderInv, Surroundings PROVE ProviderInv'
    OBVIOUS
  <1>1. UNCHANGED <<call, proofVars>>
    BY DEF Surroundings, Activate, Observe, NewKey, TimePasses, ReadState, TakeLifecycle,
           LoadRelease, RefreshFails
  <1>2. now' = now \/ now' = now + 1
    BY DEF Surroundings, Activate, Observe, NewKey, TimePasses, ReadState, TakeLifecycle,
           LoadRelease, RefreshFails
  <1>3. now' \in 0 .. MaxTime
    BY SurroundingsTyped DEF ProviderTypeOK
  <1>4. now \in Nat
    BY DEF ProviderInv, ProviderTypeOK
  <1>5. now' >= now
    BY <1>2, <1>4
  <1>6. CallsFit' /\ UsedIsKept'
    BY <1>1, <1>3, <1>5, CallsUnmoved
  <1> QED
    BY <1>6, SurroundingsTyped, SurroundingsInTime DEF ProviderInv

-----------------------------------------------------------------------------
\* A step of one call that leaves the cache, the clock and what surrounds the
\* ASIP alone keeps the invariant when what the call holds fits.
LEMMA CallStep ==
  ASSUME ProviderInv, NEW h \in Call, NEW c, call' = [call EXCEPT ![h] = c],
         c.at \in {"idle", "keys", "proof", "describe", "asking", "done"}, CallFits(h)',
         UNCHANGED <<now, registryVars, described, refresh, serverVars, proofVars>>,
         keys' \in [set : SUBSET (1 .. MaxKeys), fetched : 0 .. Never]
  PROVE  ProviderInv'
  <1>1. \A j \in Proof : madeAt[j] # Never => madeAt'[j] = madeAt[j]
    BY DEF proofVars
  <1>2. /\ DOMAIN call' = Call /\ CallsFit'
        /\ \A g \in Call : call'[g].at \in {"idle", "keys", "proof", "describe", "asking", "done"}
    BY <1>1, CallMoves
  <1>3. ProviderTypeOK'
    BY <1>2 DEF ProviderInv, ProviderTypeOK, registryVars, serverVars, proofVars
  <1>4. ReadInTime'
    BY DEF ProviderInv, ReadInTime, StaleInTime, registryVars
  <1>5. UsedIsKept'
    BY DEF ProviderInv, UsedIsKept, proofVars, AsSpent
  <1> QED
    BY <1>2, <1>3, <1>4, <1>5 DEF ProviderInv

LEMMA FreeFits == \A h : call'[h] = Free => CallFits(h)'
  BY DEF CallFits, Free

\* A call that ends.
LEMMA EndStep ==
  ASSUME ProviderInv, NEW h \in Call, Refuse(h),
         UNCHANGED <<now, registryVars, described, refresh, serverVars, proofVars>>,
         keys' \in [set : SUBSET (1 .. MaxKeys), fetched : 0 .. Never]
  PROVE  ProviderInv'
  <1>1. call' = [call EXCEPT ![h] = Free] /\ Free.at = "idle"
    BY DEF Refuse, Free
  <1>2. call'[h] = Free
    BY <1>1 DEF ProviderInv, ProviderTypeOK
  <1>3. CallFits(h)'
    BY <1>2, FreeFits
  <1> QED
    BY <1>1, <1>3, CallStep

LEMMA ReceiveStep ==
  ASSUME ProviderInv, NEW h \in Call, NEW k \in 1 .. MaxKeys, NEW j \in Proof, Receive(h, k, j)
  PROVE  ProviderInv'
  <1> DEFINE c == [at |-> "keys", token |-> k, proof |-> j]
  <1>1. /\ now \in 0 .. MaxTime /\ MaxTime \in Nat /\ Never = MaxTime + 1 /\ Window \in Nat
        /\ madeAt \in [Proof -> 0 .. Never] /\ used \subseteq Proof /\ DOMAIN call = Call
    BY ProviderAssumption DEF ProviderInv, ProviderTypeOK, Never
  <1>2. madeAt' = [madeAt EXCEPT ![j] = IF @ = Never THEN now ELSE @]
    BY DEF Receive
  <1>3. /\ madeAt' \in [Proof -> 0 .. Never] /\ \A i \in Proof : madeAt[i] # Never => madeAt'[i] = madeAt[i]
    BY <1>1, <1>2
  <1>4. \A i \in Proof : madeAt[i] = Never \/ madeAt[i] <= now
    BY DEF ProviderInv, UsedIsKept
  <1>5. \A i \in Proof : madeAt'[i] = Never \/ madeAt'[i] <= now
    BY <1>1, <1>2, <1>4
  <1>6. madeAt'[j] <= now
    BY <1>1, <1>2, <1>4
  <1>7. CallFits(h)'
    <2>1. call'[h] = c /\ now' = now
      BY <1>1 DEF Receive
    <2>2. c.at = "keys" /\ c.token = k /\ c.proof = j
      OBVIOUS
    <2>3. Keyed(c)'
      BY <1>6, <2>1, <2>2 DEF Keyed
    <2> HIDE DEF c
    <2> QED
      BY <2>1, <2>2, <2>3 DEF CallFits
  <1>8. /\ DOMAIN call' = Call /\ CallsFit'
        /\ \A g \in Call : call'[g].at \in {"idle", "keys", "proof", "describe", "asking", "done"}
    <2>1. call' = [call EXCEPT ![h] = c] /\ now' = now /\ c.at = "keys"
      BY DEF Receive
    <2> HIDE DEF c
    <2> QED
      BY <1>3, <1>7, <2>1, CallMoves
  <1>9. UNCHANGED <<now, registryVars, described, refresh, serverVars, keys, spent, used>>
    BY DEF Receive
  <1>10. ProviderTypeOK'
    BY <1>3, <1>8, <1>9 DEF ProviderInv, ProviderTypeOK, registryVars, serverVars
  <1>11. ReadInTime'
    BY <1>9 DEF ProviderInv, ReadInTime, StaleInTime, registryVars
  <1>12. UsedIsKept'
    <2>1. ASSUME NEW i \in used
          PROVE  madeAt'[i] <= now /\ (now <= madeAt'[i] + Window => AsSpent(i)' \in spent)
      <3>1. madeAt[i] <= now /\ (now <= madeAt[i] + Window => AsSpent(i) \in spent)
        BY DEF ProviderInv, UsedIsKept
      <3>2. madeAt'[i] = madeAt[i]
        BY <1>1, <1>3, <3>1
      <3> QED
        BY <3>1, <3>2 DEF AsSpent
    <2> QED
      BY <1>5, <1>9, <2>1 DEF UsedIsKept, Never
  <1> QED
    BY <1>8, <1>10, <1>11, <1>12 DEF ProviderInv

\* With the key of its token a request is held against the clock, or ends.
LEMMA ClockStep ==
  ASSUME ProviderInv, NEW h \in Call, call[h].at = "keys", ReadClock(h),
         UNCHANGED <<now, registryVars, described, refresh, serverVars, proofVars>>,
         keys' \in [set : SUBSET (1 .. MaxKeys), fetched : 0 .. Never]
  PROVE  ProviderInv'
  <1> DEFINE c == [at |-> "proof", token |-> call[h].token, proof |-> call[h].proof, clock |-> now]
  <1>1. CASE Refuse(h)
    BY <1>1, EndStep
  <1>2. CASE ProofInTime(call[h].proof) /\ call' = [call EXCEPT ![h] = c]
    <2>1. c.at = "proof" /\ c.token = call[h].token /\ c.proof = call[h].proof /\ c.clock = now
      OBVIOUS
    <2>2. Keyed(call[h]) /\ now \in Nat
      BY DEF ProviderInv, CallsFit, CallFits, ProviderTypeOK
    <2>3. call'[h] = c
      BY <1>2 DEF ProviderInv, ProviderTypeOK
    <2> HIDE DEF c
    <2>4. InWindow(call[h])'
      BY <1>2, <2>1, <2>2, <2>3 DEF InWindow, Keyed, ProofInTime, proofVars
    <2>5. CallFits(h)'
      BY <2>1, <2>3, <2>4 DEF CallFits
    <2> QED
      BY <1>2, <2>1, <2>5, CallStep
  <1> QED
    BY <1>1, <1>2 DEF ReadClock

LEMMA KeysStep ==
  ASSUME ProviderInv, NEW h \in Call, UseKnown(h) \/ FetchKeys(h) \/ FetchFails(h)
  PROVE  ProviderInv'
  <1>1. keys \in [set : SUBSET (1 .. MaxKeys), fetched : 0 .. Never] /\ signing \in 1 .. MaxKeys
        /\ now \in 0 .. MaxTime /\ MaxTime \in Nat
    BY ProviderAssumption DEF ProviderInv, ProviderTypeOK
  <1>2. keys' \in [set : SUBSET (1 .. MaxKeys), fetched : 0 .. Never]
    <2>1. [set |-> {signing}, fetched |-> now] \in [set : SUBSET (1 .. MaxKeys), fetched : 0 .. Never]
      BY <1>1 DEF Never
    <2> QED
      BY <1>1, <2>1 DEF UseKnown, FetchKeys, FetchFails
  <1>3. UNCHANGED <<now, registryVars, described, refresh, serverVars, proofVars>>
    BY DEF UseKnown, FetchKeys, FetchFails
  <1>4. call[h].at = "keys" /\ (ReadClock(h) \/ Refuse(h))
    BY DEF UseKnown, FetchKeys, FetchFails
  <1> QED
    BY <1>2, <1>3, <1>4, ClockStep, EndStep

\* What the cache forgets has passed; what is accepted it remembers.
LEMMA PresentKeeps ==
  ASSUME ProviderInv, NEW h \in Call, NEW bound \in BOOLEAN, NEW s \in Source, NEW r \in Requests,
         PresentProof(h, bound, s, r)
  PROVE  /\ spent' \subseteq [proof : Proof, until : 0 .. MaxTime + Window] /\ used' \subseteq Proof
         /\ UsedIsKept'
  <1> DEFINE p == call[h]
             again == \E e \in Kept(p.clock) : e.proof = p.proof
  <1>1. /\ now \in 0 .. MaxTime /\ MaxTime \in Nat /\ Window \in Nat /\ Never = MaxTime + 1
        /\ madeAt \in [Proof -> 0 .. Never] /\ used \subseteq Proof
        /\ spent \subseteq [proof : Proof, until : 0 .. MaxTime + Window]
    BY ProviderAssumption DEF ProviderInv, ProviderTypeOK, Never
  <1>2. /\ p.proof \in Proof /\ madeAt[p.proof] <= now /\ p.clock \in 0 .. now
    BY DEF PresentProof, ProviderInv, CallsFit, CallFits, InWindow, Keyed
  <1>3. /\ spent' \subseteq Kept(p.clock) \cup {AsSpent(p.proof)} /\ Kept(p.clock) \subseteq spent'
        /\ used' = used \/ (AsSpent(p.proof) \in spent' /\ used' = used \cup {p.proof})
        /\ UNCHANGED <<now, madeAt>>
    BY DEF PresentProof
  <1>4. Kept(p.clock) \subseteq spent
    BY DEF Kept
  <1>5. AsSpent(p.proof) \in [proof : Proof, until : 0 .. MaxTime + Window]
    <2>1. madeAt[p.proof] + Window \in 0 .. MaxTime + Window
      BY <1>1, <1>2
    <2> QED
      BY <1>2, <2>1 DEF AsSpent
  <1>6. ASSUME NEW j \in used'
        PROVE  madeAt[j] <= now /\ (now <= madeAt[j] + Window => AsSpent(j) \in spent')
    <2>1. CASE j \in used
      <3>1. madeAt[j] <= now /\ (now <= madeAt[j] + Window => AsSpent(j) \in spent)
        BY <2>1 DEF ProviderInv, UsedIsKept
      <3>2. AsSpent(j).until = madeAt[j] + Window
        BY DEF AsSpent
      <3>3. madeAt[j] \in Nat
        BY <1>1, <2>1
      <3>4. now <= madeAt[j] + Window => p.clock <= AsSpent(j).until
        BY <1>1, <1>2, <3>2, <3>3
      <3>5. now <= madeAt[j] + Window => AsSpent(j) \in Kept(p.clock)
        BY <3>1, <3>4 DEF Kept
      <3> QED
        BY <1>3, <3>1, <3>5
    <2>2. CASE j = p.proof /\ AsSpent(j) \in spent'
      BY <1>2, <2>2
    <2> QED
      BY <1>3, <2>1, <2>2
  <1>7. UsedIsKept'
    <2>1. \A j \in Proof : madeAt[j] = Never \/ madeAt[j] <= now
      BY DEF ProviderInv, UsedIsKept
    <2> QED
      BY <1>3, <1>6, <2>1 DEF UsedIsKept, AsSpent
  <1> HIDE DEF p, again
  <1> QED
    BY <1>1, <1>2, <1>3, <1>4, <1>5, <1>7

LEMMA PresentStep ==
  ASSUME ProviderInv, NEW h \in Call, NEW bound \in BOOLEAN, NEW s \in Source, NEW r \in Requests,
         PresentProof(h, bound, s, r)
  PROVE  ProviderInv'
  <1> DEFINE c == [at |-> "describe", token |-> call[h].token, proof |-> call[h].proof, source |-> s,
                   request |-> r]
  <1>1. UNCHANGED <<now, registryVars, described, refresh, serverVars, keys, madeAt>>
    BY DEF PresentProof
  <1>2. DOMAIN call = Call
    BY DEF ProviderInv, ProviderTypeOK
  <1>3. \/ call' = [call EXCEPT ![h] = Free]
        \/ call' = [call EXCEPT ![h] = c] /\ Authorized(call[h].token, Items(r))
    BY DEF PresentProof, Refuse
  <1>4. /\ DOMAIN call' = Call /\ CallsFit'
        /\ \A g \in Call : call'[g].at \in {"idle", "keys", "proof", "describe", "asking", "done"}
    <2>1. CASE call' = [call EXCEPT ![h] = Free]
      <3>1. call'[h] = Free /\ Free.at = "idle"
        BY <1>2, <2>1 DEF Free
      <3>2. CallFits(h)'
        BY <3>1, FreeFits
      <3> QED
        BY <1>1, <2>1, <3>1, <3>2, CallMoves
    <2>2. CASE call' = [call EXCEPT ![h] = c] /\ Authorized(call[h].token, Items(r))
      <3>1. /\ c.at = "describe" /\ c.token = call[h].token /\ c.source = s /\ c.request = r
        OBVIOUS
      <3>2. call'[h] = c
        BY <1>2, <2>2
      <3>3. call[h].token \in 1 .. MaxKeys
        BY DEF PresentProof, ProviderInv, CallsFit, CallFits, InWindow, Keyed
      <3> HIDE DEF c
      <3>4. Admitted(call[h])'
        BY <2>2, <3>1, <3>2, <3>3 DEF Admitted, Authorized
      <3>5. CallFits(h)'
        BY <3>1, <3>2, <3>4 DEF CallFits
      <3> QED
        BY <1>1, <2>2, <3>1, <3>5, CallMoves
    <2> QED
      BY <1>3, <2>1, <2>2
  <1>5. ProviderTypeOK'
    BY <1>1, <1>4, PresentKeeps DEF ProviderInv, ProviderTypeOK, registryVars, serverVars
  <1>6. ReadInTime'
    BY <1>1 DEF ProviderInv, ReadInTime, StaleInTime, registryVars
  <1> QED
    BY <1>4, <1>5, <1>6, PresentKeeps DEF ProviderInv

LEMMA DescribedStep ==
  ASSUME ProviderInv, NEW h \in Call, NEW q \in Release, NEW s \in Source,
         Described(h, Capability[q][s])
  PROVE  ProviderInv'
  <1> DEFINE p == call[h]
             asi == Capability[q][s]
             c == [at |-> "asking", token |-> p.token, request |-> p.request, asi |-> asi,
                   selection |-> Selection(asi, Askable(asi, Items(p.request)))]
  <1>1. /\ c.at = "asking" /\ c.token = p.token /\ c.request = p.request /\ c.asi = asi
        /\ c.selection = Selection(asi, Askable(asi, Items(p.request)))
    OBVIOUS
  <1>2. Admitted(p) /\ Ids(Items(p.request)) \subseteq DOMAIN asi.attributes /\ Published(asi)
    BY DEF Described, ProviderInv, CallsFit, CallFits, Published
  <1>3. /\ call' = [call EXCEPT ![h] = c]
        /\ UNCHANGED <<now, registryVars, described, refresh, serverVars, keys, proofVars>>
    BY DEF Described
  <1> HIDE DEF c, asi
  <1>4. call'[h] = c
    BY <1>3 DEF ProviderInv, ProviderTypeOK
  <1>5. Planned(call[h])'
    <2>1. Admitted(call[h])'
      BY <1>1, <1>2, <1>4 DEF Admitted, Authorized
    <2>2. Published(call[h].asi)'
      BY <1>1, <1>2, <1>4 DEF Published
    <2> QED
      BY <1>1, <1>2, <1>4, <2>1, <2>2 DEF Planned
  <1>6. CallFits(h)'
    BY <1>1, <1>4, <1>5 DEF CallFits
  <1>7. keys' \in [set : SUBSET (1 .. MaxKeys), fetched : 0 .. Never]
    BY <1>3 DEF ProviderInv, ProviderTypeOK
  <1> QED
    BY <1>1, <1>3, <1>6, <1>7, CallStep

LEMMA AnsweredStep ==
  ASSUME ProviderInv, NEW h \in Call, NEW person \in Person \cup {Nothing}, Answered(h, person)
  PROVE  ProviderInv'
  <1> DEFINE p == call[h]
             known == person # Nothing /\ p.selection # {}
             answer == IF known THEN AnswerOf(person, p.selection) ELSE NoAnswer
             c == [at |-> "done", request |-> p.request, asi |-> p.asi, person |-> person,
                   result |-> ResultOf(p, answer, known)]
  <1>1. /\ c.at = "done" /\ c.request = p.request /\ c.asi = p.asi /\ c.person = person
        /\ c.result = ResultOf(p, answer, known)
    OBVIOUS
  <1>2. Planned(p)
    BY DEF Answered, ProviderInv, CallsFit, CallFits
  <1>3. /\ call' = [call EXCEPT ![h] = c]
        /\ UNCHANGED <<now, registryVars, described, refresh, serverVars, keys, proofVars>>
    BY DEF Answered
  <1> HIDE DEF c
  <1>4. /\ \A a, k : ResultOf(c, a, k) = ResultOf(p, a, k)
        /\ \A i, a, k : ItemOf(c, i, a, k) = ItemOf(p, i, a, k)
    BY <1>1 DEF ResultOf, ItemOf
  <1>5. Truthful(c)
    <2>1. ASSUME NEW i \in Items(p.request), ReadsSource(p.asi, i)
          PROVE  ItemOf(p, i, answer, known) = ItemOf(p, i, Told(c), person # Nothing)
      <3>1. CASE person = Nothing
        BY <1>1, <3>1 DEF Told
      <3>2. CASE person # Nothing /\ p.selection = {}
        <4>1. \A a, b : \A k, l \in BOOLEAN : ItemOf(p, i, a, k) = ItemOf(p, i, b, l)
          BY <1>2, <2>1, <3>2, AskedTellsTheTruth
        <4> QED
          BY <4>1
      <3>3. CASE person # Nothing /\ p.selection # {}
        <4>1. Told(c) = WholeRecord(person)
          BY <1>1, <3>3 DEF Told
        <4>2. \A k : ItemOf(p, i, AnswerOf(person, p.selection), k) = ItemOf(p, i, WholeRecord(person), k)
          BY <1>2, <2>1, <3>3, AskedTellsTheTruth
        <4> QED
          BY <3>3, <4>1, <4>2
      <3> QED
        BY <3>1, <3>2, <3>3
    <2> HIDE DEF answer, known
    <2>2. \A i \in Items(c.request) : ReadsSource(c.asi, i) =>
            ItemOf(c, i, answer, known) = ItemOf(c, i, Told(c), c.person # Nothing)
      BY <1>1, <1>4, <2>1
    <2> QED
      BY <1>1, <1>4, <2>2, SaidOfEach
  <1>6. call'[h] = c
    BY <1>3 DEF ProviderInv, ProviderTypeOK
  <1>7. CallFits(h)'
    <2>1. Truthful(call[h])' = Truthful(c)
      BY <1>6 DEF Truthful, Truth, Told
    <2> QED
      BY <1>1, <1>5, <1>6, <2>1 DEF CallFits
  <1>8. keys' \in [set : SUBSET (1 .. MaxKeys), fetched : 0 .. Never]
    BY <1>3 DEF ProviderInv, ProviderTypeOK
  <1> QED
    BY <1>1, <1>3, <1>7, <1>8, CallStep

LEMMA OtherEnds ==
  ASSUME ProviderInv, NEW h \in Call, NotDescribed(h) \/ SourceFails(h) \/ Send(h)
  PROVE  ProviderInv'
  <1>1. /\ Refuse(h)
        /\ UNCHANGED <<now, registryVars, described, refresh, serverVars, keys, proofVars>>
    BY DEF NotDescribed, SourceFails, Send
  <1>2. keys' \in [set : SUBSET (1 .. MaxKeys), fetched : 0 .. Never]
    BY <1>1 DEF ProviderInv, ProviderTypeOK
  <1> QED
    BY <1>1, <1>2, EndStep

-----------------------------------------------------------------------------
LEMMA ProviderStep == ProviderInv /\ [ProviderNext]_providerVars => ProviderInv'
  <1> SUFFICES ASSUME ProviderInv, [ProviderNext]_providerVars PROVE ProviderInv'
    OBVIOUS
  <1>1. CASE Surroundings
    BY <1>1, SurroundingsKeep
  <1>2. ASSUME NEW h \in Call, NEW k \in 1 .. MaxKeys, NEW j \in Proof, Receive(h, k, j)
        PROVE  ProviderInv'
    BY <1>2, ReceiveStep
  <1>3. ASSUME NEW h \in Call, UseKnown(h) \/ FetchKeys(h) \/ FetchFails(h) PROVE ProviderInv'
    BY <1>3, KeysStep
  <1>4. ASSUME NEW h \in Call, NEW bound \in BOOLEAN, NEW s \in Source, NEW r \in Requests,
               PresentProof(h, bound, s, r)
        PROVE  ProviderInv'
    BY <1>4, PresentStep
  <1>5. ASSUME NEW h \in Call, NotDescribed(h) \/ SourceFails(h) \/ Send(h) PROVE ProviderInv'
    BY <1>5, OtherEnds
  <1>6. ASSUME NEW h \in Call, NEW r \in Release, NEW s \in Source, Described(h, Capability[r][s])
        PROVE  ProviderInv'
    BY <1>6, DescribedStep
  <1>7. ASSUME NEW h \in Call, NEW p \in Person \cup {Nothing}, Answered(h, p) PROVE ProviderInv'
    BY <1>7, AnsweredStep
  <1>8. CASE UNCHANGED providerVars
    <2>1. /\ UNCHANGED <<now, active, staleUntil, described, refresh, signing, expiry, keys, spent>>
          /\ UNCHANGED <<madeAt, used, call>>
      BY <1>8 DEF providerVars, registryVars, serverVars, proofVars
    <2>2. ProviderTypeOK'
      BY <2>1 DEF ProviderInv, ProviderTypeOK
    <2>3. ReadInTime'
      BY <2>1 DEF ProviderInv, ReadInTime, StaleInTime
    <2>4. now \in Nat /\ now' \in Nat /\ now' >= now /\ UNCHANGED proofVars /\ now' \in 0 .. MaxTime
      BY <2>1, ProviderAssumption DEF ProviderInv, ProviderTypeOK, proofVars
    <2>5. CallsFit' /\ UsedIsKept'
      BY <2>1, <2>4, CallsUnmoved
    <2> QED
      BY <2>2, <2>3, <2>5 DEF ProviderInv
  <1> QED
    BY <1>1, <1>2, <1>3, <1>4, <1>5, <1>6, <1>7, <1>8 DEF ProviderNext, Surroundings

LEMMA ProviderHolds == ProviderSpec => []ProviderInv
  BY ProviderStarts, ProviderStep, PTL DEF ProviderSpec

-----------------------------------------------------------------------------
(* The type of the ASIP's state.                                           *)
THEOREM ProviderTypeCorrect == ProviderSpec => []ProviderTypeOK
  <1>1. ProviderInv => ProviderTypeOK
    BY DEF ProviderInv
  <1> QED
    BY <1>1, ProviderHolds, PTL

(* A source is asked only for what the attributes of the token are made of *)
(* (attributesAuthorized before Plan), however the release changes between *)
(* the check of the token and the description.                             *)
THEOREM AskedIsGranted == ProviderSpec => []AsksOnlyGranted
  <1>1. ProviderInv => AsksOnlyGranted
    <2> SUFFICES ASSUME ProviderInv, NEW h \in Call, call[h].at = "asking", NEW s \in call[h].selection
                 PROVE  \E id \in TokenAttributes[call[h].token] \cap DOMAIN call[h].asi.attributes :
                          s \in Selection(call[h].asi, {Whole(id)})
      BY DEF AsksOnlyGranted
    <2> DEFINE p == call[h]
    <2>1. Planned(p)
      BY DEF ProviderInv, CallsFit, CallFits
    <2> HIDE DEF p
    <2>2. /\ Published(p.asi) /\ Ids(Items(p.request)) \subseteq DOMAIN p.asi.attributes
          /\ p.selection = Selection(p.asi, Askable(p.asi, Items(p.request)))
          /\ Ids(Items(p.request)) \subseteq TokenAttributes[p.token]
      BY <2>1 DEF Planned, Admitted, Authorized
    <2>3. PICK i \in Askable(p.asi, Items(p.request)) : s \in Pointers(p.asi, i)
      BY <2>2 DEF p, Selection
    <2>4. i.id \in Ids(Items(p.request))
      BY <2>3 DEF Askable, Ids
    <2> QED
      BY <2>2, <2>3, <2>4, PartOfTheWhole DEF p
  <1> QED
    BY <1>1, ProviderHolds, PTL

(* What is answered about an item that reads the source is what the        *)
(* description says of the whole record, for any description that keeps to *)
(* the metadata schema; an attribute of constants only may be in it.       *)
THEOREM AnswersAreTrue == ProviderSpec => []AnswersTruthfully
  <1>1. ProviderInv => AnswersTruthfully
    BY DEF ProviderInv, CallsFit, CallFits, AnswersTruthfully
  <1> QED
    BY <1>1, ProviderHolds, PTL

(* A description goes stale no later than the registry last said.          *)
THEOREM StaleNoLater == ProviderSpec => []StaleInTime
  <1>1. ProviderInv => StaleInTime
    BY DEF ProviderInv, ReadInTime
  <1> QED
    BY <1>1, ProviderHolds, PTL

\* A call leaves the proof for the description by presenting it.
LEMMA OnlyPresenting ==
  ASSUME ProviderInv, [ProviderNext]_providerVars, NEW h \in Call,
         call[h].at = "proof", call'[h].at = "describe"
  PROVE  \E bound \in BOOLEAN, s \in Source, r \in Requests : PresentProof(h, bound, s, r)
  <1>1. DOMAIN call = Call /\ call'[h] # call[h]
    BY DEF ProviderInv, ProviderTypeOK
  <1>2. ASSUME NEW g \in Call, NEW c, call' = [call EXCEPT ![g] = c] PROVE g = h
    BY <1>1, <1>2
  <1>3. ASSUME NEW g \in Call, NEW bound \in BOOLEAN, NEW s \in Source, NEW r \in Requests,
               PresentProof(g, bound, s, r)
        PROVE  g = h
    <2>1. \E c : call' = [call EXCEPT ![g] = c]
      BY <1>3 DEF PresentProof, Refuse
    <2> QED
      BY <1>2, <2>1
  <1>4. ASSUME NEW g \in Call, NEW k \in 1 .. MaxKeys, NEW j \in Proof, Receive(g, k, j) PROVE FALSE
    <2>1. call[g].at = "idle" /\ call' = [call EXCEPT ![g] = [at |-> "keys", token |-> k, proof |-> j]]
      BY <1>4 DEF Receive
    <2> QED
      BY <1>2, <2>1
  <1>5. ASSUME NEW g \in Call, UseKnown(g) \/ FetchKeys(g) \/ FetchFails(g) PROVE FALSE
    <2>1. call[g].at = "keys" /\ \E c : call' = [call EXCEPT ![g] = c]
      BY <1>5 DEF UseKnown, FetchKeys, FetchFails, ReadClock, Refuse
    <2> QED
      BY <1>2, <2>1
  <1>6. ASSUME NEW g \in Call, NotDescribed(g) \/ SourceFails(g) \/ Send(g) PROVE FALSE
    <2>1. call[g].at \in {"describe", "asking", "done"} /\ \E c : call' = [call EXCEPT ![g] = c]
      BY <1>6 DEF NotDescribed, SourceFails, Send, Refuse
    <2> QED
      BY <1>2, <2>1
  <1>7. ASSUME NEW g \in Call, NEW r \in Release, NEW s \in Source, Described(g, Capability[r][s])
        PROVE  FALSE
    <2>1. call[g].at = "describe" /\ \E c : call' = [call EXCEPT ![g] = c]
      BY <1>7 DEF Described
    <2> QED
      BY <1>2, <2>1
  <1>8. ASSUME NEW g \in Call, NEW p \in Person \cup {Nothing}, Answered(g, p) PROVE FALSE
    <2>1. call[g].at = "asking" /\ \E c : call' = [call EXCEPT ![g] = c]
      BY <1>8 DEF Answered
    <2> QED
      BY <1>2, <2>1
  <1>9. ~Surroundings /\ ~UNCHANGED providerVars
    BY <1>1 DEF Surroundings, Activate, Observe, NewKey, TimePasses, ReadState, TakeLifecycle,
                LoadRelease, RefreshFails, providerVars
  <1> QED
    BY <1>3, <1>4, <1>5, <1>6, <1>7, <1>8, <1>9, Zenon DEF ProviderNext, Surroundings

(* A proof lets no second request through, but for one that read the clock *)
(* before the proof's last moment and comes to the cache after it          *)
(* (firstUse of accesstoken).                                              *)
THEOREM ProofsSpentOnce == ProviderSpec => SecondProofOnlyLate
  <1>1. ASSUME ProviderInv, [ProviderNext]_providerVars, NEW h \in Call,
               call[h].at = "proof", call'[h].at = "describe", call[h].proof \in used
        PROVE  now > madeAt[call[h].proof] + Window
    <2>1. DOMAIN call = Call /\ now \in Nat /\ Window \in Nat /\ madeAt \in [Proof -> 0 .. Never]
      BY <1>1, ProviderAssumption DEF ProviderInv, ProviderTypeOK
    <2>2. call[h].proof \in Proof /\ call[h].clock \in 0 .. now
      BY <1>1 DEF ProviderInv, CallsFit, CallFits, InWindow, Keyed
    <2>3. PICK bound \in BOOLEAN, s \in Source, r \in Requests : PresentProof(h, bound, s, r)
      BY <1>1, OnlyPresenting
    <2>4. ~ \E e \in Kept(call[h].clock) : e.proof = call[h].proof
      <3>1. Refuse(h) => call'[h].at = "idle"
        BY <2>1 DEF Refuse, Free
      <3> QED
        BY <1>1, <2>3, <3>1 DEF PresentProof
    <2>5. AsSpent(call[h].proof).proof = call[h].proof
          /\ AsSpent(call[h].proof).until = madeAt[call[h].proof] + Window
      BY DEF AsSpent
    <2>6. now <= madeAt[call[h].proof] + Window => AsSpent(call[h].proof) \in Kept(call[h].clock)
      <3>1. now <= madeAt[call[h].proof] + Window => AsSpent(call[h].proof) \in spent
        BY <1>1 DEF ProviderInv, UsedIsKept
      <3>2. madeAt[call[h].proof] \in Nat
        BY <2>1, <2>2 DEF Never
      <3> QED
        BY <2>1, <2>2, <2>5, <3>1, <3>2 DEF Kept
    <2>7. madeAt[call[h].proof] + Window \in Nat
      BY <2>1, <2>2
    <2> QED
      BY <2>1, <2>4, <2>5, <2>6, <2>7
  <1>2. ProviderInv /\ [ProviderNext]_providerVars =>
          [\A h \in Call :
             call[h].at = "proof" /\ call'[h].at = "describe" /\ call[h].proof \in used
               => now > madeAt[call[h].proof] + Window]_providerVars
    BY <1>1
  <1> QED
    BY <1>2, ProviderHolds, PTL DEF SecondProofOnlyLate, ProviderSpec
=============================================================================
