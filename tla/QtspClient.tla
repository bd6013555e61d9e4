---------------------------- MODULE QtspClient ----------------------------
(***************************************************************************)
(* The client side of the reference QTSP (qtsp-reference/internal/qtsp):   *)
(* which data service a request goes to, and the registration at its       *)
(* authorization server, which is made once and then kept in memory. The   *)
(* authorization server keeps its clients in memory as well, and can       *)
(* restart.                                                                *)
(***************************************************************************)
EXTENDS Naturals, FiniteSets

CONSTANTS
  Attribute,    \* attribute identifiers
  Provides,     \* data service (a number, the order of endpoint URIs) -> its attributes
  Sound,        \* the data services whose contract names them and their server's metadata
  MaxClients,   \* bound on registrations
  MaxRestarts   \* bound on restarts of the authorization server

DataService == DOMAIN Provides

ASSUME ClientAssumption ==
  /\ DataService \subseteq Nat
  /\ Sound \subseteq DataService
  /\ \A d \in DataService : Provides[d] \subseteq Attribute
  /\ {MaxClients, MaxRestarts} \subseteq Nat

VARIABLES
  reg,        \* the registration the QTSP keeps (Client.regs); 0: none
  known,      \* the clients the authorization server knows
  clients,    \* how many it ever registered
  restarts    \* how often it restarted

clientVars == <<reg, known, clients, restarts>>

ClientTypeOK ==
  /\ reg \in 0 .. MaxClients
  /\ known \subseteq 1 .. MaxClients
  /\ clients \in 0 .. MaxClients
  /\ restarts \in 0 .. MaxRestarts

ClientInit ==
  /\ reg = 0
  /\ known = {}
  /\ clients = 0
  /\ restarts = 0

---------------------------------------------------------------------------
(* The data services that list every one of the attributes. *)
Common(attrs) == {d \in DataService : attrs \subseteq Provides[d]}

(* The data service of a request: the first by endpoint that provides all   *)
(* its attributes. There is no second try when its contract is not sound.   *)
Plans(attrs) ==
  {d \in Common(attrs) : /\ \A e \in Common(attrs) : d <= e
                         /\ d \in Sound
                         /\ attrs # {}}

(* Register: what is kept is used; otherwise the server is asked, and what  *)
(* it answers is kept. Two callers that find nothing both ask.              *)
UseKept == reg # 0 /\ UNCHANGED clientVars

RegisterAnew ==
  /\ clients < MaxClients
  /\ clients' = clients + 1
  /\ known' = known \cup {clients + 1}
  /\ reg' = clients + 1
  /\ UNCHANGED restarts

(* The authorization server starts again and knows its clients no more.     *)
ServerRestarts ==
  /\ restarts < MaxRestarts
  /\ restarts' = restarts + 1
  /\ known' = {}
  /\ UNCHANGED <<reg, clients>>

(* Token: an unknown client gets invalid_client; Token passes the error on  *)
(* and keeps the registration.                                              *)
TokenRefused == UNCHANGED clientVars
=============================================================================
