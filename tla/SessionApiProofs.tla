-------------------------- MODULE SessionApiProofs --------------------------
(***************************************************************************)
(* Proofs about the handlers over the session store.  They use the store   *)
(* only through its operations (HandlersUseStore), so every theorem about  *)
(* the store holds of the server; the rest is what the handlers add.       *)
(***************************************************************************)
EXTENDS SessionApi, SessionStoreProofs

LEMMA InitApiTypeOK == Init => TypeOK /\ ApiTypeOK
<1> SUFFICES ASSUME Init PROVE TypeOK /\ ApiTypeOK
  OBVIOUS
<1>1. TypeOK
  BY InitIInv DEF Init, IInv
<1>2. account \in [Users -> Account \cup {NoAccount}]
  BY ApiAssumption DEF Init
<1>3. Idle \in Request
  BY DEF Idle, NoOne, Request
<1>4. req \in [Requests -> Request] /\ \A r \in Requests : req[r] = Idle
  BY <1>3 DEF Init
<1>5. QED
  BY <1>1, <1>2, <1>4 DEF ApiTypeOK, Idle, AccountOps

-----------------------------------------------------------------------------
(* Every step of a handler is one operation of the store, or none.         *)

LEMMA StoreStep ==
    ASSUME TypeOK, ApiTypeOK, [Next]_vars
    PROVE  [StoreNext]_storeVars
<1>0. live \subseteq DOMAIN sessions /\ DOMAIN sessions \subseteq drawn /\ drawn \subseteq SessionIds
  BY DEF live, TypeOK
<1>1. ASSUME NEW r \in Requests, NEW user \in Users, NEW ip \in Clients,
             LoginCreate(r, user, ip)
      PROVE  CreateSession
  BY <1>1 DEF LoginCreate, CreateSession
<1>2. ASSUME NEW r \in Requests, Authenticate(r)
      PROVE  [StoreNext]_storeVars
  <2>1. ASSUME NEW ask, NEW id \in DOMAIN sessions, ByToken(r, ask, id)
        PROVE  StoreNext
    BY <1>0, <2>1 DEF ByToken, StoreNext
  <2>2. ASSUME NEW ask, NEW user \in Users, NEW ip \in Clients, ByBasic(r, ask, user, ip)
        PROVE  CreateSession
    <3>1. CASE \E id \in SessionIds : CreateNew(user, ip, "Basic", id)
      BY <3>1 DEF CreateSession
    <3>2. CASE \E id \in SessionIds : CreateReused(user, ip, id)
      BY <3>2 DEF CreateSession, CreateReused, Reusable
    <3>3. CASE CreateRefused(user, ip, "Basic")
      BY <3>3 DEF CreateSession
    <3>4. QED
      BY <2>2, <3>1, <3>2, <3>3 DEF ByBasic
  <2>3. ASSUME NEW ask, NEW user \in Users, NEW ip \in Clients, ByCertificate(r, ask, user, ip)
        PROVE  CreateSession
    BY <2>3 DEF ByCertificate, CreateSession
  <2>4. QED
    BY <1>2, <2>1, <2>2, <2>3 DEF Authenticate, NoneLeft, StoreNext
<1>3. ASSUME NEW r \in Requests, Serve(r)
      PROVE  [StoreNext]_storeVars
  <2>1. CASE LoginFetchRole(r) \/ AccountCheck(r) \/ CreateAccount(r) \/ PatchAccount(r) \/ RemoveAccount(r)
    BY <2>1 DEF LoginFetchRole, AccountCheck, CreateAccount, PatchAccount, RemoveAccount
  <2>2. CASE LoginSetRole(r)
    BY <2>2 DEF LoginSetRole, ApiTypeOK, At, StoreNext
  <2>3. CASE GetSession(r)
    BY <2>3 DEF GetSession, Handling, At, ApiTypeOK, StoreNext
  <2>4. CASE ListSessions(r)
    BY <2>4 DEF ListSessions, StoreNext
  <2>5. CASE PatchTimeout(r)
    BY <2>5 DEF PatchTimeout, set_timeout_seconds, InRange, StoreNext
  <2>6. CASE DeleteAllowed(r)
    BY <2>6 DEF DeleteAllowed, Handling, At, ApiTypeOK, StoreNext
  <2>7. CASE DeleteVerify(r) \/ DeleteRemove(r)
    <3>1. req[r].target \in drawn
      BY <2>7 DEF DeleteVerify, DeleteRemove, At, ApiTypeOK
    <3>2. get_session(req[r].target) \/ delete_session(req[r].target)
      BY <2>7 DEF DeleteVerify, DeleteRemove
    <3>3. QED
      BY <3>1, <3>2 DEF StoreNext
  <2>8. QED
    BY <1>3, <2>1, <2>2, <2>3, <2>4, <2>5, <2>6, <2>7 DEF Serve
<1>4. ASSUME NEW r \in Requests, Hangup(r)
      PROVE  UNCHANGED storeVars
  BY <1>4 DEF Hangup
<1>5. CASE Health
  BY <1>5 DEF Health, StoreNext
<1>6. CASE Clock
  BY <1>6 DEF Clock, StoreNext
<1>7. CASE UNCHANGED vars
  BY <1>7 DEF vars
<1>8. QED
  BY <1>1, <1>2, <1>3, <1>4, <1>5, <1>6, <1>7 DEF Next, Arrive, Progress, StoreNext

-----------------------------------------------------------------------------
(* Type correctness of the handlers.                                       *)

\* What ApiTypeOK says of one request q, when d are the UUIDs drawn.
RequestOK(q, d) ==
    /\ q \in Request
    /\ q.pc # "done" => q.status = 0
    /\ q.pc \in {"fetching", "fetched"} =>
          q.op = "login" /\ q.target \in d /\ q.user \in Users
    /\ q.pc = "fetched" => q.role \in Roles
    /\ q.pc \in {"handler", "dbus", "verify", "remove"} =>
          q.op # "login" /\ q.caller \in [username: Users, role: Roles]
    /\ q.op \in {"get", "delete"} /\ q.pc # "done" => q.target \in d
    /\ q.pc \in {"verify", "remove"} => q.op = "delete"
    /\ q.op \in AccountOps /\ q.pc # "done" => q.target \in Users
    /\ q.op \in {"create", "patch"} /\ q.pc # "done" => q.role \in Roles

\* Only r's request changes in this step.
Only(r) == req' = [req EXCEPT ![r] = req'[r]]

LEMMA OthersSame ==
    ASSUME ApiTypeOK, NEW r \in Requests, Only(r)
    PROVE  /\ DOMAIN req' = Requests
           /\ \A s \in Requests \ {r} : req'[s] = req[s]
           /\ req' = [s \in Requests |-> req'[s]]
BY DEF ApiTypeOK, Only

\* What was well typed about the other requests stays so.
LEMMA OneRequest ==
    ASSUME ApiTypeOK, drawn \subseteq drawn',
           account' \in [Users -> Account \cup {NoAccount}],
           NEW r \in Requests, Only(r), RequestOK(req'[r], drawn')
    PROVE  ApiTypeOK'
<1>1. \A s \in Requests : RequestOK(req[s], drawn)
  BY DEF ApiTypeOK, RequestOK
<1>2. \A s \in Requests : RequestOK(req'[s], drawn')
  BY <1>1, OthersSame DEF RequestOK
<1>3. req' \in [Requests -> Request]
  BY <1>2, OthersSame DEF RequestOK
<1>4. QED
  BY <1>2, <1>3 DEF ApiTypeOK, RequestOK

\* The ways an action sets its request.
LEMMA Assigned ==
    ASSUME ApiTypeOK, NEW r \in Requests, NEW q, req' = [req EXCEPT ![r] = q]
    PROVE  Only(r) /\ req'[r] = q
BY DEF ApiTypeOK, Only

LEMMA AnswerOK ==
    ASSUME ApiTypeOK, NEW r \in Requests, NEW status \in Nat, Answer(r, status),
           drawn \subseteq drawn'
    PROVE  /\ Only(r) /\ req'[r] = [req[r] EXCEPT !.pc = "done", !.status = status]
           /\ RequestOK(req'[r], drawn')
<1>1. Only(r) /\ req'[r] = [req[r] EXCEPT !.pc = "done", !.status = status]
  BY DEF ApiTypeOK, Only, Answer
<1>2. req[r] \in Request
  BY DEF ApiTypeOK
<1>3. /\ req'[r] \in Request
      /\ req'[r].pc = "done" /\ req'[r].op = req[r].op /\ req'[r].target = req[r].target
  BY <1>1, <1>2 DEF Request
<1>4. QED
  BY <1>1, <1>2, <1>3 DEF RequestOK

LEMMA DrawnGrows ==
    ASSUME TypeOK, [StoreNext]_storeVars
    PROVE  drawn \subseteq drawn'
<1>1. Shape
  BY StepShape
<1>2. QED
  BY <1>1 DEF Shape, Shrinks, Renews, GivesRole, CreateNew, OnlyClockOrTimeout

\* The middleware's outcomes.
LEMMA AcceptOK ==
    ASSUME TypeOK', ApiTypeOK, drawn \subseteq drawn', NEW r \in Requests,
           NEW ask \in Asked, NEW id \in DOMAIN sessions', Accept(r, ask, id)
    PROVE  Only(r) /\ RequestOK(req'[r], drawn')
<1> DEFINE q == Carrying(ask, Snapshot(id))
<1>1. Only(r) /\ req'[r] = q
  BY DEF Accept, ApiTypeOK, Only
<1>2. sessions'[id] \in UserSession
  BY DEF TypeOK
<1>3. Snapshot(id) \in [username: Users, role: Roles]
  BY <1>2 DEF Snapshot, UserSession
<1>4. \/ ask.op \in {"get", "delete"} /\ ask.target \in drawn /\ ask.role = "none" /\ ask.seconds = 0
      \/ ask.op \in {"list"} /\ ask.target = "none" /\ ask.role = "none" /\ ask.seconds = 0
      \/ ask.op = "timeout" /\ ask.target = "none" /\ ask.role = "none" /\ ask.seconds \in Timeouts
      \/ ask.op \in {"create", "patch"} /\ ask.target \in Users /\ ask.role \in Roles /\ ask.seconds = 0
      \/ ask.op = "remove" /\ ask.target \in Users /\ ask.role = "none" /\ ask.seconds = 0
  <2>1. \/ ask \in Ask({"get", "delete"}, drawn, {"none"}, {0})
        \/ ask \in Ask({"list"}, {"none"}, {"none"}, {0})
        \/ ask \in Ask({"timeout"}, {"none"}, {"none"}, Timeouts)
        \/ ask \in Ask({"create", "patch"}, Users, Grantable, {0})
        \/ ask \in Ask({"remove"}, Users, {"none"}, {0})
    BY DEF Asked
  <2>2. QED
    BY <2>1, ApiAssumption DEF Ask
<1>5. drawn' \subseteq SessionIds
  BY DEF TypeOK
<1>7. Snapshot(id) \in [username: Users \cup {"none"}, role: Roles \cup {"none"}]
  BY <1>3
<1>8. q \in Request
  BY <1>4, <1>5, <1>7 DEF Request, AccountOps, Carrying
<1>9. RequestOK(q, drawn')
  BY <1>3, <1>4, <1>8 DEF RequestOK, AccountOps, Carrying
<1>10. QED
  BY <1>1, <1>9

LEMMA RefuseOK ==
    ASSUME ApiTypeOK, NEW r \in Requests, NEW ask \in Asked,
           NEW user \in Users \cup {"none"}, NEW status \in Nat,
           Refuse(r, ask, user, status)
    PROVE  Only(r) /\ RequestOK(req'[r], drawn')
<1> DEFINE q == [Idle EXCEPT !.op = ask.op, !.pc = "done", !.user = user, !.status = status]
<1>1. Only(r) /\ req'[r] = q
  BY DEF Refuse, ApiTypeOK, Only
<1>2. ask.op \in {"get", "list", "timeout", "delete"} \cup AccountOps
  BY DEF Asked, Ask, AccountOps
<1>3. q \in Request /\ q.pc = "done"
  BY <1>2 DEF Idle, NoOne, Request
<1>4. QED
  BY <1>1, <1>3 DEF RequestOK

LEMMA TryNextOK ==
    ASSUME ApiTypeOK, NEW r \in Requests, TryNext(r)
    PROVE  /\ Only(r) /\ RequestOK(req'[r], drawn')
           /\ req'[r].pc = "credential" /\ req'[r].op = "none" /\ req'[r].status = 0
<1> DEFINE q == [Idle EXCEPT !.pc = "credential"]
<1>1. Only(r) /\ req'[r] = q
  BY DEF TryNext, ApiTypeOK, Only
<1>2. q \in Request /\ q.pc = "credential" /\ q.op = "none" /\ q.status = 0
  BY DEF Idle, NoOne, Request
<1>3. QED
  BY <1>1, <1>2 DEF RequestOK, AccountOps

LEMMA ApiTypeStep ==
    ASSUME TypeOK, TypeOK', ApiTypeOK, drawn \subseteq drawn', [Next]_vars
    PROVE  ApiTypeOK'
<1>a. account \in [Users -> Account \cup {NoAccount}]
  BY DEF ApiTypeOK
<1>q. \A r \in Requests : req[r] \in Request
  BY DEF ApiTypeOK
<1>1. ASSUME NEW r \in Requests, NEW user \in Users, NEW ip \in Clients,
             LoginCreate(r, user, ip)
      PROVE  ApiTypeOK'
  <2>1. CASE \E id \in SessionIds :
               /\ CreateNew(user, ip, "Token", id)
               /\ req' = [req EXCEPT ![r] = Login("fetching", user, id, 0)]
    <3>1. PICK id \in SessionIds :
               /\ id \in drawn'
               /\ req' = [req EXCEPT ![r] = Login("fetching", user, id, 0)]
      BY <2>1 DEF CreateNew
    <3>2. Only(r) /\ req'[r] = Login("fetching", user, id, 0)
      BY <3>1 DEF ApiTypeOK, Only
    <3>3. id \in drawn' /\ drawn' \subseteq SessionIds
      BY <3>1 DEF TypeOK
    <3>4. RequestOK(req'[r], drawn')
      BY <3>2, <3>3 DEF RequestOK, Request, Login, NoOne, AccountOps
    <3>5. QED
      BY <1>1, <1>a, <3>2, <3>4, OneRequest DEF LoginCreate
  <2>2. CASE req' = [req EXCEPT ![r] = Login("done", user, "none", 503)]
    <3>2. Only(r) /\ req'[r] = Login("done", user, "none", 503)
      BY <2>2 DEF ApiTypeOK, Only
    <3>4. RequestOK(req'[r], drawn')
      BY <3>2 DEF RequestOK, Request, Login, NoOne, AccountOps
    <3>5. QED
      BY <1>1, <1>a, <3>2, <3>4, OneRequest DEF LoginCreate
  <2>3. QED
    BY <1>1, <2>1, <2>2 DEF LoginCreate
<1>2. ASSUME NEW r \in Requests, Authenticate(r)
      PROVE  ApiTypeOK'
  <2>0. PICK ask \in Asked :
          \/ NoneLeft(r, ask)
          \/ \E id \in DOMAIN sessions : ByToken(r, ask, id)
          \/ \E user \in Users, ip \in Clients :
                ByBasic(r, ask, user, ip) \/ ByCertificate(r, ask, user, ip)
    BY <1>2 DEF Authenticate
  <2>1. CASE \E id \in DOMAIN sessions' : Accept(r, ask, id)
    BY <1>2, <1>a, <2>1, AcceptOK, OneRequest DEF Authenticate
  <2>2. CASE \E user \in Users \cup {"none"}, status \in Nat : Refuse(r, ask, user, status)
    BY <1>2, <1>a, <2>2, RefuseOK, OneRequest DEF Authenticate
  <2>3. ASSUME NEW id \in DOMAIN sessions, ByToken(r, ask, id)
        PROVE  ApiTypeOK'
    <3>1. id \in live => id \in DOMAIN sessions'
      BY <2>3 DEF ByToken, get_session_by_token, LookedUp
    <3>2. CASE TryNext(r)
      BY <1>2, <1>a, <3>2, TryNextOK, OneRequest DEF Authenticate
    <3>3. QED
      BY <2>1, <2>3, <3>1, <3>2 DEF ByToken
  <2>4. ASSUME NEW user \in Users, NEW ip \in Clients, ByBasic(r, ask, user, ip)
        PROVE  ApiTypeOK'
    <3>1. ASSUME NEW id \in SessionIds,
                 CreateNew(user, ip, "Basic", id) \/ CreateReused(user, ip, id)
          PROVE  id \in DOMAIN sessions'
      BY <3>1 DEF CreateNew, CreateReused, Reusable, Retain
    <3>2. QED
      BY <2>1, <2>2, <2>4, <3>1 DEF ByBasic
  <2>5. ASSUME NEW user \in Users, NEW ip \in Clients, ByCertificate(r, ask, user, ip)
        PROVE  ApiTypeOK'
    <3>1. ASSUME NEW id \in SessionIds, CreateNew(user, ip, "Token", id)
          PROVE  id \in DOMAIN sessions'
      BY <3>1 DEF CreateNew
    <3>2. QED
      BY <2>1, <2>2, <2>5, <3>1 DEF ByCertificate
  <2>6. QED
    BY <2>0, <2>2, <2>3, <2>4, <2>5 DEF NoneLeft
<1>3. ASSUME NEW r \in Requests, NEW status \in Nat, Answer(r, status), UNCHANGED account
      PROVE  ApiTypeOK'
  BY <1>3, <1>a, AnswerOK, OneRequest
<1>4. ASSUME NEW r \in Requests, LoginFetchRole(r)
      PROVE  ApiTypeOK'
  <2>1. PICK role \in {"ReadOnly"} \cup RolesOf(req[r].user) :
           req' = [req EXCEPT ![r].pc = "fetched", ![r].role = role]
    BY <1>4 DEF LoginFetchRole
  <2>2. req[r].pc = "fetching" /\ req[r].user \in Users
    BY <1>4 DEF LoginFetchRole, At, ApiTypeOK
  <2>3. role \in Roles
    BY <1>a, <2>2 DEF RolesOf, Account, Roles
  <2>4. Only(r) /\ req'[r] = [req[r] EXCEPT !.pc = "fetched", !.role = role]
    BY <2>1 DEF ApiTypeOK, Only
  <2>5. RequestOK(req'[r], drawn')
    <3>1. /\ req[r].op = "login" /\ req[r].target \in drawn /\ req[r].status = 0
          /\ req[r] \in Request
      BY <1>q, <2>2 DEF ApiTypeOK
    <3>2. /\ req'[r].op = "login" /\ req'[r].pc = "fetched" /\ req'[r].target \in drawn
          /\ req'[r].user \in Users /\ req'[r].role = role /\ req'[r].status = 0
      BY <2>2, <2>4, <3>1 DEF Request
    <3>3. req'[r] \in Request
      BY <2>3, <2>4, <3>1 DEF Request
    <3>4. QED
      BY <2>3, <3>2, <3>3 DEF RequestOK, AccountOps
  <2>6. QED
    BY <1>4, <1>a, <2>4, <2>5, OneRequest DEF LoginFetchRole
<1>5. ASSUME NEW r \in Requests, NEW pc \in {"verify", "remove"}, Goto(r, pc), UNCHANGED account,
             req[r].pc \in {"handler", "verify"}, req[r].op = "delete"
      PROVE  ApiTypeOK'
  <2>1. Only(r) /\ req'[r] = [req[r] EXCEPT !.pc = pc]
    BY <1>5 DEF ApiTypeOK, Only, Goto
  <2>2. RequestOK(req'[r], drawn')
    BY <1>q, <1>5, <2>1 DEF RequestOK, Request, ApiTypeOK, AccountOps
  <2>3. QED
    BY <1>5, <1>a, <2>1, <2>2, OneRequest
<1>6. ASSUME NEW r \in Requests, AccountCheck(r)
      PROVE  ApiTypeOK'
  <2>1. CASE Goto(r, "dbus")
    <3>1. Only(r) /\ req'[r] = [req[r] EXCEPT !.pc = "dbus"]
      BY <2>1 DEF ApiTypeOK, Only, Goto
    <3>2. req[r].pc = "handler" /\ req[r].op \in AccountOps
      BY <1>6 DEF AccountCheck, Handling, At
    <3>3. RequestOK(req'[r], drawn')
      BY <1>q, <3>1, <3>2 DEF RequestOK, Request, ApiTypeOK, AccountOps
    <3>4. QED
      BY <1>6, <1>a, <3>1, <3>3, OneRequest DEF AccountCheck
  <2>2. QED
    BY <1>6, <1>3, <2>1 DEF AccountCheck
<1>7. ASSUME NEW r \in Requests, CreateAccount(r) \/ PatchAccount(r) \/ RemoveAccount(r)
      PROVE  ApiTypeOK'
  <2>1. /\ req[r].target \in Users
        /\ req[r].op \in {"create", "patch"} => req[r].role \in Roles
    BY <1>7 DEF CreateAccount, PatchAccount, RemoveAccount, At, ApiTypeOK, AccountOps
  <2>2. account' \in [Users -> Account \cup {NoAccount}]
    <3>1. CASE CreateAccount(r)
      BY <1>a, <2>1, <3>1 DEF CreateAccount, Account
    <3>2. CASE PatchAccount(r)
      <4>1. CASE UNCHANGED account
        BY <1>a, <4>1
      <4>2. CASE account[req[r].target] # NoAccount
                 /\ account' = [account EXCEPT ![req[r].target].privilege = req[r].role]
        <5>1. account[req[r].target] \in Account /\ req[r].role \in Roles
          BY <1>a, <2>1, <3>2, <4>2 DEF PatchAccount
        <5>2. [account[req[r].target] EXCEPT !.privilege = req[r].role] \in Account
          BY <5>1 DEF Account
        <5>3. QED
          BY <1>a, <2>1, <4>2, <5>2
      <4>3. QED
        BY <3>2, <4>1, <4>2 DEF PatchAccount
    <3>3. CASE RemoveAccount(r)
      BY <1>a, <2>1, <3>3 DEF RemoveAccount
    <3>4. QED
      BY <1>7, <3>1, <3>2, <3>3
  <2>3. \E status \in Nat : Answer(r, status)
    BY <1>7 DEF CreateAccount, PatchAccount, RemoveAccount, AnswerAccount
  <2>4. QED
    BY <2>2, <2>3, AnswerOK, OneRequest
<1>8. ASSUME NEW r \in Requests, Serve(r)
      PROVE  ApiTypeOK'
  <2>1. CASE LoginSetRole(r) \/ GetSession(r) \/ ListSessions(r) \/ PatchTimeout(r) \/ DeleteRemove(r)
    <3>1. \E status \in Nat : Answer(r, status)
      BY <2>1 DEF LoginSetRole, GetSession, ListSessions, PatchTimeout, DeleteRemove
    <3>2. UNCHANGED account
      BY <2>1 DEF LoginSetRole, GetSession, ListSessions, PatchTimeout, DeleteRemove
    <3>3. QED
      BY <1>3, <3>1, <3>2
  <2>2. CASE DeleteAllowed(r) \/ DeleteVerify(r)
    <3>1. Goto(r, "verify") \/ Goto(r, "remove") \/ Answer(r, 403) \/ Answer(r, 404)
      BY <2>2 DEF DeleteAllowed, DeleteVerify
    <3>2. req[r].pc \in {"handler", "verify"} /\ req[r].op = "delete" /\ UNCHANGED account
      BY <2>2 DEF DeleteAllowed, DeleteVerify, Handling, At, ApiTypeOK
    <3>3. QED
      BY <1>3, <1>5, <3>1, <3>2
  <2>3. QED
    BY <1>4, <1>6, <1>7, <1>8, <2>1, <2>2 DEF Serve
<1>9. ASSUME NEW r \in Requests, Hangup(r)
      PROVE  ApiTypeOK'
  <2>1. Only(r) /\ req'[r] = Idle
    BY <1>9 DEF Hangup, ApiTypeOK, Only
  <2>2. RequestOK(req'[r], drawn')
    BY <2>1 DEF RequestOK, Idle, NoOne, Request, AccountOps
  <2>3. QED
    BY <1>9, <1>a, <2>1, <2>2, OneRequest DEF Hangup
<1>10. CASE UNCHANGED <<account, req>>
  BY <1>10 DEF ApiTypeOK
<1>11. QED
  BY <1>1, <1>2, <1>8, <1>9, <1>10 DEF Next, Arrive, Progress, Health, Clock, vars

\* The invariant of store and handlers together.
ApiIInv == IInv /\ ApiTypeOK

LEMMA ApiStep ==
    ASSUME ApiIInv, [Next]_vars
    PROVE  ApiIInv' /\ [StoreNext]_storeVars
<1>1. [StoreNext]_storeVars
  BY StoreStep DEF ApiIInv, IInv
<1>2. IInv'
  BY <1>1, StepIInv DEF ApiIInv
<1>3. drawn \subseteq drawn'
  BY <1>1, DrawnGrows DEF ApiIInv, IInv
<1>4. ApiTypeOK'
  BY <1>2, <1>3, ApiTypeStep DEF ApiIInv, IInv
<1>5. QED
  BY <1>1, <1>2, <1>4 DEF ApiIInv

LEMMA InitApiIInv == Init => ApiIInv
BY InitApiTypeOK, InitIInv DEF Init, ApiIInv

\* The handlers' state is well typed, whatever the constants.
THEOREM ApiTypeCorrect == Spec => []ApiTypeOK
<1>1. ApiIInv /\ [Next]_vars => ApiIInv'
  BY ApiStep
<1>2. ApiIInv => ApiTypeOK
  BY DEF ApiIInv
<1>3. QED
  BY InitApiIInv, <1>1, <1>2, PTL DEF Spec

\* The handlers use the store only through its operations.
THEOREM HandlersUseStore == Spec => UsesStore
<1>1. ApiIInv /\ [Next]_vars => ApiIInv' /\ [StoreNext]_storeVars
  BY ApiStep
<1>2. Init => StoreInit
  BY DEF Init
<1>3. QED
  BY InitApiIInv, <1>1, <1>2, PTL DEF Spec, UsesStore, StoreSpec

\* What holds of the store holds of the server.
THEOREM ServerCapacity ==
    Spec => []CapacityRespected /\ []OneBasicSession /\ RemovedStaysRemoved
<1>1. Spec => StoreSpec
  BY HandlersUseStore DEF UsesStore
<1>2. QED
  BY <1>1, CapacityCorrect, OneBasicCorrect, RemovedStaysRemovedCorrect, PTL

\* The handlers keep the store's promise to its clients: with a clock that is
\* never set back, the server implements the lease specification.
THEOREM ServerImplementsLease == ClockAdvances => (Spec => ImplementsLease)
<1>1. Spec => StoreSpec
  BY HandlersUseStore DEF UsesStore
<1>2. QED
  BY <1>1, StoreImplementsLease, PTL

-----------------------------------------------------------------------------
(* What logins, logouts and account changes do to the roles of sessions.   *)
(* Only LoginSetRole gives a role, only DeleteRemove removes a session     *)
(* before it expired; every other step is quiet.                           *)

\* A login that has or had a session to give a role to.
Holding(q) == q.op = "login" /\ (q.pc \in {"fetching", "fetched"} \/ q.status = 201)

Deleted(q) == q.op = "delete" /\ q.status = 204

\* Sessions keep owner, type and role; only an id never drawn is added.
KeepsRoles ==
    \A id \in DOMAIN sessions' :
        \/ /\ id \in DOMAIN sessions
           /\ sessions'[id].username = sessions[id].username
           /\ sessions'[id].session_type = sessions[id].session_type
           /\ sessions'[id].role = sessions[id].role
        \/ id \notin drawn /\ sessions'[id].role = "ReadOnly"

KeepsLive == live \subseteq DOMAIN sessions'

Quiet(r) == /\ Only(r)
            /\ ~ Holding(req'[r]) /\ ~ Deleted(req'[r])
            /\ KeepsRoles /\ KeepsLive

Still == req' = req /\ KeepsRoles /\ KeepsLive

LoginStarts(r, id) ==
    /\ \E user \in Users, ip \in Clients :
          /\ CreateNew(user, ip, "Token", id)
          /\ req' = [req EXCEPT ![r] = Login("fetching", user, id, 0)]
    /\ KeepsRoles /\ KeepsLive

LEMMA LookupKeeps ==
    ASSUME TypeOK, NEW id \in SessionIds, sessions' = LookedUp(id)
    PROVE  KeepsRoles /\ KeepsLive
<1>1. CASE id \in live
  <2>1. sessions' = [sessions EXCEPT ![id] = touch(@)] /\ id \in DOMAIN sessions
    BY <1>1 DEF LookedUp, live
  <2>2. sessions[id] \in UserSession
    BY <2>1 DEF TypeOK
  <2>3. /\ touch(sessions[id]).username = sessions[id].username
        /\ touch(sessions[id]).session_type = sessions[id].session_type
        /\ touch(sessions[id]).role = sessions[id].role
    BY <2>2 DEF touch, UserSession
  <2>4. QED
    BY <2>1, <2>3 DEF KeepsRoles, KeepsLive, live, TypeOK
<1>2. CASE id \notin live
  BY <1>2 DEF LookedUp, Retain, KeepsRoles, KeepsLive, live
<1>3. QED
  BY <1>1, <1>2

LEMMA SameKeeps == ASSUME sessions' = sessions PROVE KeepsRoles /\ KeepsLive
BY DEF KeepsRoles, KeepsLive, live

LEMMA PurgeKeeps == ASSUME sessions' = Retain(live) PROVE KeepsRoles /\ KeepsLive
BY DEF KeepsRoles, KeepsLive, live, Retain

LEMMA NewKeeps ==
    ASSUME NEW user, NEW ip, NEW type, NEW id, CreateNew(user, ip, type, id)
    PROVE  KeepsRoles /\ KeepsLive
<1>1. /\ DOMAIN sessions' = live \cup {id} /\ id \notin drawn
      /\ \A s \in live \cup {id} :
            sessions'[s] = IF s = id THEN NewSession(user, ip, type) ELSE sessions[s]
  BY DEF CreateNew
<1>2. NewSession(user, ip, type).role = "ReadOnly"
  BY DEF NewSession
<1>3. live \subseteq DOMAIN sessions
  BY DEF live
<1>4. QED
  BY <1>1, <1>2, <1>3 DEF KeepsRoles, KeepsLive

LEMMA AnswerQuiet ==
    ASSUME ApiTypeOK, NEW r \in Requests, NEW status \in Nat, Answer(r, status),
           req[r].op # "login", req[r].op = "delete" => status # 204,
           KeepsRoles, KeepsLive
    PROVE  Quiet(r)
<1>1. Only(r) /\ req'[r] = [req[r] EXCEPT !.pc = "done", !.status = status]
  BY DEF ApiTypeOK, Only, Answer
<1>2. req[r] \in Request
  BY DEF ApiTypeOK
<1>3. req'[r].op = req[r].op /\ req'[r].status = status
  BY <1>1, <1>2 DEF Request
<1>4. QED
  BY <1>1, <1>3 DEF Quiet, Holding, Deleted

\* The middleware starts no login and deletes nothing.
LEMMA ArrivalQuiet ==
    ASSUME ApiTypeOK, TypeOK, NEW r \in Requests, Authenticate(r)
    PROVE  Quiet(r)
<1>0. PICK ask \in Asked :
        \/ NoneLeft(r, ask)
        \/ \E id \in DOMAIN sessions : ByToken(r, ask, id)
        \/ \E user \in Users, ip \in Clients :
              ByBasic(r, ask, user, ip) \/ ByCertificate(r, ask, user, ip)
  BY DEF Authenticate
<1>1. ask.op # "login"
  BY DEF Asked, Ask
<1>2. ASSUME NEW id, Accept(r, ask, id)
      PROVE  Only(r) /\ ~ Holding(req'[r]) /\ ~ Deleted(req'[r])
  <2>1. Only(r) /\ req'[r] = Carrying(ask, Snapshot(id))
    BY <1>2 DEF Accept, ApiTypeOK, Only
  <2>2. QED
    BY <1>1, <2>1 DEF Carrying, Holding, Deleted
<1>3. ASSUME NEW user, NEW status, Refuse(r, ask, user, status), status # 204
      PROVE  Only(r) /\ ~ Holding(req'[r]) /\ ~ Deleted(req'[r])
  <2> DEFINE q == [Idle EXCEPT !.op = ask.op, !.pc = "done", !.user = user, !.status = status]
  <2>1. Only(r) /\ req'[r] = q
    BY <1>3 DEF Refuse, ApiTypeOK, Only
  <2>2. q.op = ask.op /\ q.status = status
    BY DEF Idle
  <2>3. QED
    BY <1>1, <1>3, <2>1, <2>2 DEF Holding, Deleted
<1>4. ASSUME NEW id \in DOMAIN sessions, ByToken(r, ask, id)
      PROVE  Quiet(r)
  <2>1. sessions' = LookedUp(id) /\ id \in SessionIds
    BY <1>4 DEF ByToken, get_session_by_token, TypeOK
  <2>2. KeepsRoles /\ KeepsLive
    BY <2>1, LookupKeeps
  <2>3. CASE TryNext(r)
    BY <2>2, <2>3, TryNextOK DEF Quiet, Holding, Deleted
  <2>4. QED
    BY <1>2, <1>4, <2>2, <2>3 DEF ByToken, Quiet
<1>5. ASSUME NEW user \in Users, NEW ip \in Clients, ByBasic(r, ask, user, ip)
      PROVE  Quiet(r)
  <2>1. KeepsRoles /\ KeepsLive
    BY <1>5, NewKeeps, PurgeKeeps DEF ByBasic, CreateReused, CreateRefused
  <2>2. QED
    BY <1>2, <1>3, <1>5, <2>1 DEF ByBasic, Quiet
<1>6. ASSUME NEW user \in Users, NEW ip \in Clients, ByCertificate(r, ask, user, ip)
      PROVE  Quiet(r)
  <2>1. KeepsRoles /\ KeepsLive
    BY <1>6, NewKeeps, PurgeKeeps DEF ByCertificate, CreateRefused
  <2>2. QED
    BY <1>2, <1>3, <1>6, <2>1 DEF ByCertificate, Quiet
<1>7. ASSUME NoneLeft(r, ask)
      PROVE  Quiet(r)
  <2>1. KeepsRoles /\ KeepsLive
    BY <1>7, SameKeeps DEF NoneLeft, storeVars
  <2>2. QED
    BY <1>3, <1>7, <2>1 DEF NoneLeft, Quiet
<1>8. QED
  BY <1>0, <1>4, <1>5, <1>6, <1>7

LEMMA StepKinds ==
    ASSUME ApiTypeOK, TypeOK, [Next]_vars
    PROVE  \/ Still
           \/ \E r \in Requests : \/ Quiet(r)
                                 \/ LoginFetchRole(r)
                                 \/ LoginSetRole(r)
                                 \/ DeleteRemove(r)
                                 \/ \E id \in SessionIds : LoginStarts(r, id)
<1>1. ASSUME NEW r \in Requests, NEW user \in Users, NEW ip \in Clients,
             LoginCreate(r, user, ip)
      PROVE  Quiet(r) \/ \E id \in SessionIds : LoginStarts(r, id)
  <2>1. CASE \E id \in SessionIds :
               /\ CreateNew(user, ip, "Token", id)
               /\ req' = [req EXCEPT ![r] = Login("fetching", user, id, 0)]
    BY <2>1, NewKeeps DEF LoginStarts
  <2>2. CASE CreateRefused(user, ip, "Token")
               /\ req' = [req EXCEPT ![r] = Login("done", user, "none", 503)]
    <3>1. Only(r) /\ req'[r] = Login("done", user, "none", 503)
      BY <2>2 DEF ApiTypeOK, Only
    <3>2. KeepsRoles /\ KeepsLive
      BY <2>2, PurgeKeeps DEF CreateRefused
    <3>3. QED
      BY <3>1, <3>2 DEF Quiet, Holding, Deleted, Login
  <2>3. QED
    BY <1>1, <2>1, <2>2 DEF LoginCreate
<1>2. ASSUME NEW r \in Requests, GetSession(r) \/ DeleteAllowed(r) \/ DeleteVerify(r)
      PROVE  Quiet(r)
  <2>1. req[r].op \in {"get", "delete"} /\ req[r].target \in SessionIds /\ req[r].status = 0
    BY <1>2 DEF GetSession, DeleteAllowed, DeleteVerify, Handling, At, ApiTypeOK, TypeOK
  <2>2. KeepsRoles /\ KeepsLive
    BY <1>2, <2>1, LookupKeeps DEF GetSession, DeleteAllowed, DeleteVerify, get_session
  <2>3. CASE \E status \in {200, 403, 404} : Answer(r, status)
    BY <2>1, <2>2, <2>3, AnswerQuiet
  <2>4. CASE Goto(r, "verify") \/ Goto(r, "remove")
    <3>1. Only(r) /\ \E pc \in {"verify", "remove"} : req'[r] = [req[r] EXCEPT !.pc = pc]
      BY <2>4 DEF ApiTypeOK, Only, Goto
    <3>2. req[r] \in Request
      BY DEF ApiTypeOK
    <3>3. req'[r].op = req[r].op /\ req'[r].status = 0
      BY <2>1, <3>1, <3>2 DEF Request
    <3>4. QED
      BY <2>1, <2>2, <3>1, <3>3 DEF Quiet, Holding, Deleted
  <2>5. QED
    BY <1>2, <2>3, <2>4 DEF GetSession, DeleteAllowed, DeleteVerify
<1>3. ASSUME NEW r \in Requests, ListSessions(r) \/ PatchTimeout(r)
      PROVE  Quiet(r)
  <2>1. req[r].op \in {"list", "timeout"}
    BY <1>3 DEF ListSessions, PatchTimeout, Handling
  <2>2. KeepsRoles /\ KeepsLive
    BY <1>3, SameKeeps, PurgeKeeps
       DEF ListSessions, PatchTimeout, PurgeExpired, set_timeout_seconds, storeVars
  <2>3. \E status \in {200, 400, 403} : Answer(r, status)
    BY <1>3 DEF ListSessions, PatchTimeout
  <2>4. QED
    BY <2>1, <2>2, <2>3, AnswerQuiet
<1>4. ASSUME NEW r \in Requests,
             AccountCheck(r) \/ CreateAccount(r) \/ PatchAccount(r) \/ RemoveAccount(r)
      PROVE  Quiet(r)
  <2>1. req[r].op \in AccountOps
    BY <1>4 DEF AccountCheck, CreateAccount, PatchAccount, RemoveAccount, Handling, AccountOps
  <2>2. KeepsRoles /\ KeepsLive
    BY <1>4, SameKeeps DEF AccountCheck, CreateAccount, PatchAccount, RemoveAccount, storeVars
  <2>3. CASE \E status \in Nat : Answer(r, status)
    BY <2>1, <2>2, <2>3, AnswerQuiet DEF AccountOps
  <2>4. CASE Goto(r, "dbus")
    <3>1. Only(r) /\ req'[r] = [req[r] EXCEPT !.pc = "dbus"]
      BY <2>4 DEF ApiTypeOK, Only, Goto
    <3>2. req[r] \in Request
      BY DEF ApiTypeOK
    <3>3. req'[r].op = req[r].op
      BY <3>1, <3>2 DEF Request
    <3>4. QED
      BY <2>1, <2>2, <3>1, <3>3 DEF Quiet, Holding, Deleted, AccountOps
  <2>5. QED
    BY <1>4, <2>3, <2>4 DEF AccountCheck, CreateAccount, PatchAccount, RemoveAccount, AnswerAccount
<1>5. ASSUME NEW r \in Requests, Hangup(r)
      PROVE  Quiet(r)
  <2>1. Only(r) /\ req'[r] = Idle
    BY <1>5 DEF Hangup, ApiTypeOK, Only
  <2>2. KeepsRoles /\ KeepsLive
    BY <1>5, SameKeeps DEF Hangup, storeVars
  <2>3. QED
    BY <2>1, <2>2 DEF Quiet, Holding, Deleted, Idle
<1>6. CASE Health
  BY <1>6, PurgeKeeps DEF Health, PurgeExpired, Still
<1>7. CASE Clock \/ UNCHANGED vars
  BY <1>7, SameKeeps DEF Clock, Tick, vars, storeVars, Still
<1>8. QED
  BY <1>1, <1>2, <1>3, <1>4, <1>5, <1>6, <1>7, ArrivalQuiet
     DEF Next, Arrive, Progress, Serve

-----------------------------------------------------------------------------
(* Each login has a session of its own, so the role it stores is not       *)
(* overwritten by another login; and a deleted session is not revived.     *)

LoginInv ==
    /\ \A r \in Requests : Holding(req[r]) => req[r].target \in drawn
    /\ \A r, s \in Requests :
          Holding(req[r]) /\ Holding(req[s]) /\ req[r].target = req[s].target => r = s
    /\ \A r \in Requests :
          Deleted(req[r]) => req[r].target \in drawn \ DOMAIN sessions
    /\ LoginRoleKept

LEMMA LoginStep ==
    ASSUME ApiIInv, LoginInv, [Next]_vars
    PROVE  LoginInv'
<1>0. ApiTypeOK /\ TypeOK /\ ApiTypeOK' /\ drawn \subseteq drawn' /\ DOMAIN sessions \subseteq drawn
  BY ApiStep, DrawnGrows DEF ApiIInv, IInv, TypeOK
<1>q. \A r \in Requests : req[r] \in Request /\ req'[r] \in Request
  BY <1>0 DEF ApiTypeOK
<1>1. CASE Still
  BY <1>0, <1>1 DEF Still, KeepsRoles, LoginInv, LoginRoleKept, Holding
<1>2. ASSUME NEW r \in Requests, Quiet(r)
      PROVE  LoginInv'
  <2>1. \A s \in Requests \ {r} : req'[s] = req[s]
    BY <1>0, <1>2, OthersSame DEF Quiet
  <2>2. ~ Holding(req'[r]) /\ ~ Deleted(req'[r]) /\ KeepsRoles
    BY <1>2 DEF Quiet
  <2>3. QED
    BY <1>0, <2>1, <2>2 DEF KeepsRoles, LoginInv, LoginRoleKept, Holding
<1>3. ASSUME NEW r \in Requests, NEW id \in SessionIds, LoginStarts(r, id)
      PROVE  LoginInv'
  <2>1. PICK user \in Users :
           req' = [req EXCEPT ![r] = Login("fetching", user, id, 0)]
    BY <1>3 DEF LoginStarts
  <2>2. Only(r) /\ req'[r] = Login("fetching", user, id, 0)
    BY <1>0, <2>1 DEF ApiTypeOK, Only
  <2>3. \A s \in Requests \ {r} : req'[s] = req[s]
    BY <1>0, <2>2, OthersSame
  <2>4. /\ req'[r].target = id /\ req'[r].status = 0 /\ req'[r].op = "login"
        /\ ~ Deleted(req'[r])
    BY <2>2 DEF Login, Deleted
  <2>5. id \notin drawn /\ id \in drawn' /\ KeepsRoles
    BY <1>3 DEF LoginStarts, CreateNew
  <2>6. QED
    BY <1>0, <2>3, <2>4, <2>5 DEF KeepsRoles, LoginInv, LoginRoleKept, Holding
<1>4. ASSUME NEW r \in Requests, LoginFetchRole(r)
      PROVE  LoginInv'
  <2>1. PICK role : req' = [req EXCEPT ![r].pc = "fetched", ![r].role = role]
    BY <1>4 DEF LoginFetchRole
  <2>2. Only(r) /\ req'[r] = [req[r] EXCEPT !.pc = "fetched", !.role = role]
    BY <1>0, <2>1 DEF ApiTypeOK, Only
  <2>3. \A s \in Requests \ {r} : req'[s] = req[s]
    BY <1>0, <2>2, OthersSame
  <2>4. req[r].op = "login" /\ req[r].pc = "fetching" /\ req[r].status = 0
    BY <1>0, <1>4 DEF LoginFetchRole, At, ApiTypeOK
  <2>5. /\ req'[r].op = "login" /\ req'[r].target = req[r].target /\ req'[r].status = 0
    BY <1>q, <2>2, <2>4 DEF Request
  <2>6. sessions' = sessions /\ drawn' = drawn
    BY <1>4 DEF LoginFetchRole, storeVars
  <2>7. QED
    BY <2>3, <2>4, <2>5, <2>6 DEF LoginInv, LoginRoleKept, Holding, Deleted
<1>5. ASSUME NEW r \in Requests, LoginSetRole(r)
      PROVE  LoginInv'
  <2>1. Only(r) /\ req'[r] = [req[r] EXCEPT !.pc = "done", !.status = 201]
    BY <1>0, <1>5 DEF LoginSetRole, Answer, ApiTypeOK, Only
  <2>2. \A s \in Requests \ {r} : req'[s] = req[s]
    BY <1>0, <2>1, OthersSame
  <2>3. req[r].op = "login" /\ req[r].pc = "fetched"
    BY <1>0, <1>5 DEF LoginSetRole, At, ApiTypeOK
  <2>4. /\ req'[r].op = "login" /\ req'[r].target = req[r].target
        /\ req'[r].role = req[r].role /\ req'[r].status = 201
    BY <1>q, <2>1, <2>3 DEF Request
  <2>5. /\ drawn' = drawn /\ DOMAIN sessions' = DOMAIN sessions
        /\ \A id \in DOMAIN sessions \ {req[r].target} : sessions'[id] = sessions[id]
    BY <1>0, <1>5 DEF LoginSetRole, set_session_role, TypeOK
  <2>6. req[r].target \in DOMAIN sessions => sessions'[req[r].target].role = req[r].role
    <3> SUFFICES ASSUME req[r].target \in DOMAIN sessions
                 PROVE  sessions'[req[r].target].role = req[r].role
      OBVIOUS
    <3>1. sessions[req[r].target] \in UserSession
      BY <1>0 DEF TypeOK
    <3>2. sessions'[req[r].target] = [sessions[req[r].target] EXCEPT !.role = req[r].role]
      BY <1>0, <1>5 DEF LoginSetRole, set_session_role, TypeOK
    <3>3. QED
      BY <3>1, <3>2 DEF UserSession
  <2>7. QED
    BY <2>2, <2>3, <2>4, <2>5, <2>6 DEF LoginInv, LoginRoleKept, Holding, Deleted
<1>6. ASSUME NEW r \in Requests, DeleteRemove(r)
      PROVE  LoginInv'
  <2>1. Only(r) /\ req'[r] = [req[r] EXCEPT !.pc = "done", !.status = 204]
    BY <1>0, <1>6 DEF DeleteRemove, Answer, ApiTypeOK, Only
  <2>2. \A s \in Requests \ {r} : req'[s] = req[s]
    BY <1>0, <2>1, OthersSame
  <2>3. req[r].op = "delete" /\ req[r].target \in drawn
    BY <1>0, <1>6 DEF DeleteRemove, At, ApiTypeOK
  <2>4. req'[r].op = "delete" /\ req'[r].target = req[r].target
    BY <1>q, <2>1, <2>3 DEF Request
  <2>5. /\ drawn' = drawn /\ DOMAIN sessions' = DOMAIN sessions \ {req[r].target}
        /\ \A id \in DOMAIN sessions' : sessions'[id] = sessions[id]
    BY <1>6 DEF DeleteRemove, delete_session, Retain
  <2>6. QED
    BY <2>2, <2>3, <2>4, <2>5 DEF LoginInv, LoginRoleKept, Holding, Deleted
<1>7. QED
  BY <1>0, <1>1, <1>2, <1>3, <1>4, <1>5, <1>6, StepKinds

LEMMA LoginInvariant == Spec => []LoginInv
<1>1. Init => LoginInv
  BY DEF Init, Idle, LoginInv, LoginRoleKept, Holding, Deleted
<1>2. ApiIInv /\ LoginInv /\ [Next]_vars => ApiIInv' /\ LoginInv'
  BY ApiStep, LoginStep
<1>3. QED
  BY InitApiIInv, <1>1, <1>2, PTL DEF Spec

\* The role a login answered with is the role of its session from then on.
THEOREM LoginRoleKeptCorrect == Spec => []LoginRoleKept
<1>1. LoginInv => LoginRoleKept
  BY DEF LoginInv
<1>2. QED
  BY <1>1, LoginInvariant, PTL

\* A session whose DELETE was answered 204 is not in the store again.
THEOREM DeletedIsGoneCorrect == Spec => []DeletedIsGone
<1>1. LoginInv => DeletedIsGone
  BY DEF LoginInv, DeletedIsGone, Deleted
<1>2. QED
  BY <1>1, LoginInvariant, PTL

-----------------------------------------------------------------------------
(* Every role was held: what a login fetched it fetched of the session's   *)
(* own user, while the session existed.                                    *)

RoleInv ==
    /\ DOMAIN held = DOMAIN sessions
    /\ \A id \in DOMAIN sessions :
          RolesIn(account[sessions[id].username]) \subseteq held[id]
    /\ \A r \in Requests :
          req[r].pc \in {"fetching", "fetched"} /\ req[r].target \in DOMAIN sessions =>
             /\ sessions[req[r].target].username = req[r].user
             /\ sessions[req[r].target].session_type = "Token"
             /\ req[r].pc = "fetched" =>
                   req[r].role \in {"ReadOnly"} \cup held[req[r].target]
    /\ RoleWasHeld /\ BasicIsReadOnly

\* What a step adds to the history, once the store of the next state is known.
LEMMA HistoryGrows ==
    ASSUME TrackHeld, DOMAIN held = DOMAIN sessions
    PROVE  /\ DOMAIN held' = DOMAIN sessions'
           /\ \A id \in DOMAIN sessions' :
                 /\ RolesIn(account'[sessions'[id].username]) \subseteq held'[id]
                 /\ id \in DOMAIN sessions => held[id] \subseteq held'[id]
BY DEF TrackHeld

LEMMA RoleStep ==
    ASSUME ApiIInv, LoginInv, RoleInv, [Next]_vars
    PROVE  RoleInv'
<1>0. ApiTypeOK /\ TypeOK /\ ApiTypeOK' /\ DOMAIN sessions \subseteq drawn
  BY ApiStep DEF ApiIInv, IInv, TypeOK
<1>q. \A r \in Requests : req[r] \in Request
  BY <1>0 DEF ApiTypeOK
<1>p. \A r \in Requests : req[r].pc \in {"fetching", "fetched"} => req[r].target \in drawn
  BY <1>0 DEF ApiTypeOK
<1>1. CASE UNCHANGED vars
  BY <1>1 DEF vars, storeVars, RoleInv, RoleWasHeld, BasicIsReadOnly
<1>2. CASE TrackHeld
  <2>h. /\ DOMAIN held' = DOMAIN sessions'
        /\ \A id \in DOMAIN sessions' :
              /\ RolesIn(account'[sessions'[id].username]) \subseteq held'[id]
              /\ id \in DOMAIN sessions => held[id] \subseteq held'[id]
    BY <1>2, HistoryGrows DEF RoleInv
  <2>1. ASSUME KeepsRoles
        PROVE  /\ RoleWasHeld' /\ BasicIsReadOnly'
               /\ \A id \in DOMAIN sessions' : id \in drawn =>
                     /\ id \in DOMAIN sessions
                     /\ sessions'[id].username = sessions[id].username
                     /\ sessions'[id].session_type = sessions[id].session_type
    <3>1. RoleWasHeld'
      BY <1>0, <2>h, <2>1 DEF KeepsRoles, RoleInv, RoleWasHeld
    <3>2. BasicIsReadOnly'
      BY <2>1 DEF KeepsRoles, RoleInv, BasicIsReadOnly
    <3>3. QED
      BY <2>1, <3>1, <3>2 DEF KeepsRoles
  <2>2. CASE Still
    BY <1>p, <2>h, <2>1, <2>2 DEF Still, RoleInv
  <2>3. ASSUME NEW r \in Requests, Quiet(r)
        PROVE  RoleInv'
    <3>1. \A s \in Requests \ {r} : req'[s] = req[s]
      BY <1>0, <2>3, OthersSame DEF Quiet
    <3>2. req'[r].pc \notin {"fetching", "fetched"}
      BY <1>0, <2>3 DEF Quiet, Holding, ApiTypeOK
    <3>3. QED
      BY <1>p, <2>h, <2>1, <2>3, <3>1, <3>2 DEF Quiet, RoleInv
  <2>4. ASSUME NEW r \in Requests, NEW id \in SessionIds, LoginStarts(r, id)
        PROVE  RoleInv'
    <3>1. PICK user \in Users, ip \in Clients :
             /\ CreateNew(user, ip, "Token", id)
             /\ req' = [req EXCEPT ![r] = Login("fetching", user, id, 0)]
      BY <2>4 DEF LoginStarts
    <3>2. Only(r) /\ req'[r] = Login("fetching", user, id, 0)
      BY <1>0, <3>1 DEF ApiTypeOK, Only
    <3>3. \A s \in Requests \ {r} : req'[s] = req[s]
      BY <1>0, <3>2, OthersSame
    <3>4. req'[r].pc = "fetching" /\ req'[r].target = id /\ req'[r].user = user
      BY <3>2 DEF Login
    <3>5. sessions'[id].username = user /\ sessions'[id].session_type = "Token"
      BY <3>1 DEF CreateNew, NewSession
    <3>6. QED
      BY <1>p, <2>h, <2>1, <2>4, <3>3, <3>4, <3>5 DEF LoginStarts, RoleInv
  <2>5. ASSUME NEW r \in Requests, LoginFetchRole(r)
        PROVE  RoleInv'
    <3>1. PICK role \in {"ReadOnly"} \cup RolesOf(req[r].user) :
             req' = [req EXCEPT ![r].pc = "fetched", ![r].role = role]
      BY <2>5 DEF LoginFetchRole
    <3>2. Only(r) /\ req'[r] = [req[r] EXCEPT !.pc = "fetched", !.role = role]
      BY <1>0, <3>1 DEF ApiTypeOK, Only
    <3>3. \A s \in Requests \ {r} : req'[s] = req[s]
      BY <1>0, <3>2, OthersSame
    <3>4. /\ req'[r].target = req[r].target /\ req'[r].user = req[r].user
          /\ req'[r].role = role /\ req[r].pc = "fetching"
      BY <1>q, <2>5, <3>2 DEF Request, LoginFetchRole, At
    <3>5. sessions' = sessions /\ account' = account
      BY <2>5 DEF LoginFetchRole, storeVars
    <3>6. req[r].target \in DOMAIN sessions => role \in {"ReadOnly"} \cup held[req[r].target]
      BY <3>1, <3>4 DEF RolesOf, RolesIn, RoleInv
    <3>7. RoleWasHeld' /\ BasicIsReadOnly'
      BY <2>h, <3>5 DEF RoleInv, RoleWasHeld, BasicIsReadOnly
    <3>8. QED
      BY <2>h, <3>3, <3>4, <3>5, <3>6, <3>7 DEF RoleInv
  <2>6. ASSUME NEW r \in Requests, LoginSetRole(r) \/ DeleteRemove(r)
        PROVE  RoleInv'
    <3>1. Only(r) /\ req'[r].pc = "done"
      <4>1. \E status \in Nat : req' = [req EXCEPT ![r].pc = "done", ![r].status = status]
        BY <2>6 DEF LoginSetRole, DeleteRemove, Answer
      <4>2. Only(r) /\ \E status \in Nat : req'[r] = [req[r] EXCEPT !.pc = "done", !.status = status]
        BY <1>0, <4>1 DEF ApiTypeOK, Only
      <4>3. QED
        BY <1>q, <4>2 DEF Request
    <3>2. \A s \in Requests \ {r} : req'[s] = req[s]
      BY <1>0, <3>1, OthersSame
    <3>3. CASE DeleteRemove(r)
      <4>1. /\ DOMAIN sessions' \subseteq DOMAIN sessions
            /\ \A id \in DOMAIN sessions' : sessions'[id] = sessions[id]
        BY <3>3 DEF DeleteRemove, delete_session, Retain
      <4>2. RoleWasHeld' /\ BasicIsReadOnly'
        BY <2>h, <4>1 DEF RoleInv, RoleWasHeld, BasicIsReadOnly
      <4>3. QED
        BY <2>h, <3>1, <3>2, <4>1, <4>2 DEF RoleInv
    <3>4. CASE LoginSetRole(r)
      <4>1. /\ DOMAIN sessions' = DOMAIN sessions
            /\ \A id \in DOMAIN sessions :
                  /\ sessions'[id].username = sessions[id].username
                  /\ sessions'[id].session_type = sessions[id].session_type
                  /\ sessions'[id].role =
                        IF id = req[r].target THEN req[r].role ELSE sessions[id].role
        <5>1. \A id \in DOMAIN sessions : sessions[id] \in UserSession
          BY <1>0 DEF TypeOK
        <5>2. QED
          BY <1>0, <3>4, <5>1 DEF LoginSetRole, set_session_role, TypeOK, UserSession
      <4>2. req[r].target \in DOMAIN sessions =>
               /\ req[r].role \in {"ReadOnly"} \cup held[req[r].target]
               /\ sessions[req[r].target].session_type = "Token"
        BY <3>4 DEF LoginSetRole, At, RoleInv
      <4>3. RoleWasHeld'
        BY <2>h, <4>1, <4>2 DEF RoleInv, RoleWasHeld
      <4>4. BasicIsReadOnly'
        BY <4>1, <4>2 DEF RoleInv, BasicIsReadOnly
      <4>5. QED
        BY <2>h, <3>1, <3>2, <4>1, <4>3, <4>4 DEF RoleInv
    <3>5. QED
      BY <2>6, <3>3, <3>4
  <2>7. QED
    BY <1>0, <2>2, <2>3, <2>4, <2>5, <2>6, StepKinds
<1>3. TrackHeld \/ UNCHANGED vars
  BY DEF Next, Arrive, Progress
<1>4. QED
  BY <1>1, <1>2, <1>3

LEMMA RoleInvariant == Spec => []RoleInv
<1>1. Init => RoleInv
  BY DEF Init, StoreInit, Idle, RoleInv, RoleWasHeld, BasicIsReadOnly
<1>2. ApiIInv /\ LoginInv /\ RoleInv /\ [Next]_vars => RoleInv'
  BY RoleStep
<1>3. ApiIInv /\ [Next]_vars => ApiIInv'
  BY ApiStep
<1>4. QED
  BY InitApiIInv, LoginInvariant, <1>1, <1>2, <1>3, PTL DEF Spec

\* A session only ever carries ReadOnly or a role its account had while the
\* session existed.
THEOREM RoleWasHeldCorrect == Spec => []RoleWasHeld
<1>1. RoleInv => RoleWasHeld
  BY DEF RoleInv
<1>2. QED
  BY <1>1, RoleInvariant, PTL

\* A session of HTTP Basic is never given a role: the session of a login is one
\* that this login created.
THEOREM BasicIsReadOnlyCorrect == Spec => []BasicIsReadOnly
<1>1. RoleInv => BasicIsReadOnly
  BY DEF RoleInv
<1>2. QED
  BY <1>1, RoleInvariant, PTL

-----------------------------------------------------------------------------
(* Who may: the role a request is checked against is the one its session   *)
(* had when the middleware accepted it, and its user once had that role.   *)

\* A request the middleware has accepted and its handler has not answered.
Accepted(q) == q.pc \in {"handler", "verify", "remove", "dbus"}

\* Of the privileges an account or timeout change needs, only administrators
\* have one.
LEMMA NeedsAdministrator ==
    ASSUME NEW role, NEW required \in {PRIVILEGE_PATCH, PRIVILEGE_CONFIGURE_USERS},
           check_privilege(role, required)
    PROVE  role = "Administrator"
<1>1. required \in {{"ConfigureManager"}, {"ConfigureUsers"}}
  BY DEF PRIVILEGE_PATCH, PRIVILEGE_CONFIGURE_USERS
<1>2. privileges_for_role(role) \cap required # {}
  BY <1>1 DEF check_privilege
<1>3. QED
  BY <1>1, <1>2 DEF privileges_for_role

\* Where a DELETE is once it was allowed.
Deleting(q) == q.pc \in {"verify", "remove"}

\* A request keeps the caller it was accepted with and what it is about, and
\* calls D-Bus or goes on to the next lock only after the check.
KeepsCaller(r) ==
    /\ Accepted(req[r])
    /\ req'[r].op = req[r].op /\ req'[r].target = req[r].target
    /\ req'[r].caller = req[r].caller
    /\ req'[r].pc = "dbus" => req[r].pc = "dbus" \/ MayCaller(r, PRIVILEGE_CONFIGURE_USERS)
    /\ Deleting(req'[r]) => Deleting(req[r]) \/ (At(r, "handler") /\ MayDelete(r))

JustAccepted(r) ==
    /\ req'[r].pc = "handler"
    /\ \E id \in DOMAIN sessions' : req'[r].caller = Snapshot(id)

LEMMA CallerStep ==
    ASSUME ApiTypeOK, TypeOK, [Next]_vars, NEW r \in Requests, Accepted(req'[r])
    PROVE  KeepsCaller(r) \/ JustAccepted(r)
<1>q. req[r] \in Request
  BY DEF ApiTypeOK
<1>0. CASE req'[r] = req[r]
  BY <1>0 DEF KeepsCaller, Accepted, Deleting
<1>1. ASSUME NEW s \in Requests, NEW user \in Users, NEW ip \in Clients, LoginCreate(s, user, ip)
      PROVE  req'[r] = req[r]
  <2>1. PICK pc, id, status : /\ pc \in {"fetching", "done"}
                              /\ req' = [req EXCEPT ![s] = Login(pc, user, id, status)]
    BY <1>1 DEF LoginCreate
  <2>2. Only(s) /\ req'[s] = Login(pc, user, id, status)
    BY <2>1 DEF ApiTypeOK, Only
  <2>3. req'[s].pc = pc /\ pc \in {"fetching", "done"}
    BY <2>1, <2>2 DEF Login
  <2>4. QED
    BY <2>2, <2>3, OthersSame DEF Accepted
<1>2. ASSUME NEW s \in Requests, Authenticate(s)
      PROVE  req'[r] = req[r] \/ JustAccepted(r)
  <2>0. PICK ask \in Asked :
          \/ NoneLeft(s, ask)
          \/ \E id \in DOMAIN sessions : ByToken(s, ask, id)
          \/ \E user \in Users, ip \in Clients :
                ByBasic(s, ask, user, ip) \/ ByCertificate(s, ask, user, ip)
    BY <1>2 DEF Authenticate
  <2>1. ASSUME NEW id \in DOMAIN sessions', Accept(s, ask, id)
        PROVE  req'[r] = req[r] \/ JustAccepted(r)
    <3>1. Only(s) /\ req'[s] = Carrying(ask, Snapshot(id))
      BY <2>1 DEF Accept, ApiTypeOK, Only
    <3>2. req'[s].pc = "handler" /\ req'[s].caller = Snapshot(id)
      BY <3>1 DEF Carrying
    <3>3. QED
      BY <3>1, <3>2, OthersSame DEF JustAccepted
  <2>2. ASSUME NEW user, NEW status, Refuse(s, ask, user, status)
        PROVE  req'[r] = req[r]
    <3> DEFINE q == [Idle EXCEPT !.op = ask.op, !.pc = "done", !.user = user, !.status = status]
    <3>1. Only(s) /\ req'[s] = q
      BY <2>2 DEF Refuse, ApiTypeOK, Only
    <3>2. q.pc = "done"
      BY DEF Idle
    <3>3. QED
      BY <3>1, <3>2, OthersSame DEF Accepted
  <2>3. ASSUME NEW id \in DOMAIN sessions, ByToken(s, ask, id)
        PROVE  req'[r] = req[r] \/ JustAccepted(r)
    <3>1. id \in live => id \in DOMAIN sessions'
      BY <2>3 DEF ByToken, get_session_by_token, LookedUp
    <3>2. CASE TryNext(s)
      BY <3>2, TryNextOK, OthersSame DEF Accepted
    <3>3. QED
      BY <2>1, <2>3, <3>1, <3>2 DEF ByToken
  <2>4. ASSUME NEW user \in Users, NEW ip \in Clients, ByBasic(s, ask, user, ip)
        PROVE  req'[r] = req[r] \/ JustAccepted(r)
    <3>1. ASSUME NEW id \in SessionIds,
                 CreateNew(user, ip, "Basic", id) \/ CreateReused(user, ip, id)
          PROVE  id \in DOMAIN sessions'
      BY <3>1 DEF CreateNew, CreateReused, Reusable, Retain
    <3>2. QED
      BY <2>1, <2>2, <2>4, <3>1 DEF ByBasic
  <2>5. ASSUME NEW user \in Users, NEW ip \in Clients, ByCertificate(s, ask, user, ip)
        PROVE  req'[r] = req[r] \/ JustAccepted(r)
    <3>1. ASSUME NEW id \in SessionIds, CreateNew(user, ip, "Token", id)
          PROVE  id \in DOMAIN sessions'
      BY <3>1 DEF CreateNew
    <3>2. QED
      BY <2>1, <2>2, <2>5, <3>1 DEF ByCertificate
  <2>6. QED
    BY <2>0, <2>2, <2>3, <2>4, <2>5 DEF NoneLeft
<1>3. ASSUME NEW s \in Requests, NEW status \in Nat, Answer(s, status)
      PROVE  req'[r] = req[r]
  <2>1. Only(s) /\ req'[s] = [req[s] EXCEPT !.pc = "done", !.status = status]
    BY <1>3 DEF ApiTypeOK, Only, Answer
  <2>2. req[s] \in Request
    BY DEF ApiTypeOK
  <2>3. req'[s].pc = "done"
    BY <2>1, <2>2 DEF Request
  <2>4. QED
    BY <2>1, <2>3, OthersSame DEF Accepted
<1>4. ASSUME NEW s \in Requests, NEW pc \in {"verify", "remove", "dbus"}, Goto(s, pc),
             Accepted(req[s]), pc = "dbus" => MayCaller(s, PRIVILEGE_CONFIGURE_USERS),
             pc # "dbus" => Deleting(req[s]) \/ (At(s, "handler") /\ MayDelete(s))
      PROVE  req'[r] = req[r] \/ KeepsCaller(r)
  <2>1. Only(s) /\ req'[s] = [req[s] EXCEPT !.pc = pc]
    BY <1>4 DEF ApiTypeOK, Only, Goto
  <2>2. req[s] \in Request
    BY DEF ApiTypeOK
  <2>3. /\ req'[s].pc = pc /\ req'[s].op = req[s].op
        /\ req'[s].target = req[s].target /\ req'[s].caller = req[s].caller
    BY <2>1, <2>2 DEF Request
  <2>4. QED
    BY <1>4, <2>1, <2>3, OthersSame DEF KeepsCaller, Deleting
<1>5. ASSUME NEW s \in Requests, LoginFetchRole(s)
      PROVE  req'[r] = req[r]
  <2>1. PICK role : req' = [req EXCEPT ![s].pc = "fetched", ![s].role = role]
    BY <1>5 DEF LoginFetchRole
  <2>2. Only(s) /\ req'[s] = [req[s] EXCEPT !.pc = "fetched", !.role = role]
    BY <2>1 DEF ApiTypeOK, Only
  <2>3. req[s] \in Request
    BY DEF ApiTypeOK
  <2>4. req'[s].pc = "fetched"
    BY <2>2, <2>3 DEF Request
  <2>5. QED
    BY <2>2, <2>4, OthersSame DEF Accepted
<1>6. ASSUME NEW s \in Requests, Serve(s)
      PROVE  req'[r] = req[r] \/ KeepsCaller(r)
  <2>1. CASE \E status \in Nat : Answer(s, status)
    BY <1>3, <2>1
  <2>2. CASE DeleteAllowed(s) \/ DeleteVerify(s)
    BY <1>3, <1>4, <2>2 DEF DeleteAllowed, DeleteVerify, Handling, At, Accepted, Deleting
  <2>3. CASE AccountCheck(s)
    BY <1>3, <1>4, <2>3 DEF AccountCheck, AccountRefused, Handling, At, Accepted
  <2>4. CASE CreateAccount(s) \/ PatchAccount(s) \/ RemoveAccount(s)
    BY <2>1, <2>4 DEF CreateAccount, PatchAccount, RemoveAccount, AnswerAccount
  <2>5. CASE LoginSetRole(s) \/ GetSession(s) \/ ListSessions(s) \/ PatchTimeout(s) \/ DeleteRemove(s)
    BY <2>1, <2>5 DEF LoginSetRole, GetSession, ListSessions, PatchTimeout, DeleteRemove
  <2>6. QED
    BY <1>5, <1>6, <2>2, <2>3, <2>4, <2>5 DEF Serve
<1>7. ASSUME NEW s \in Requests, Hangup(s)
      PROVE  req'[r] = req[r]
  <2>1. Only(s) /\ req'[s] = Idle
    BY <1>7 DEF Hangup, ApiTypeOK, Only
  <2>2. QED
    BY <2>1, OthersSame DEF Idle, Accepted
<1>8. CASE UNCHANGED req
  BY <1>0, <1>8
<1>9. QED
  BY <1>0, <1>1, <1>2, <1>6, <1>7, <1>8 DEF Next, Arrive, Progress, Health, Clock, vars

\* A role is one the user once had, or the default of a new session.
Vouched(role, user) == role \in {"ReadOnly"} \cup had[user]

AccountsTracked == \A user \in Users : RolesIn(account[user]) \subseteq had[user]

SessionsVouched ==
    \A id \in DOMAIN sessions : Vouched(sessions[id].role, sessions[id].username)

LoginsVouched ==
    \A r \in Requests : req[r].pc = "fetched" => Vouched(req[r].role, req[r].user)

CallersVouched ==
    \A r \in Requests :
        /\ Accepted(req[r]) => Vouched(req[r].caller.role, req[r].caller.username)
        /\ req[r].pc = "dbus" => req[r].caller.role = "Administrator"

AuthInv == AccountsTracked /\ SessionsVouched /\ LoginsVouched /\ CallersVouched

\* A user's history only grows, and holds the account as it is.
LEMMA HadGrows ==
    ASSUME AccountsTracked, [Next]_vars
    PROVE  /\ AccountsTracked'
           /\ \A user \in Users : had[user] \subseteq had'[user]
<1>1. CASE TrackHeld
  BY <1>1 DEF TrackHeld, AccountsTracked
<1>2. CASE UNCHANGED vars
  BY <1>2 DEF vars, AccountsTracked
<1>3. QED
  BY <1>1, <1>2 DEF Next, Arrive, Progress

\* Only a login that asks the user manager gets a role of its own, and only
\* the login's own session is given it.
LEMMA SessionsVouchedStep ==
    ASSUME ApiIInv, RoleInv, AuthInv, [Next]_vars
    PROVE  SessionsVouched' /\ LoginsVouched'
<1>0. ApiTypeOK /\ TypeOK /\ ApiTypeOK' /\ TypeOK' /\ DOMAIN sessions \subseteq drawn
  BY ApiStep DEF ApiIInv, IInv, TypeOK
<1>h. \A user \in Users : had[user] \subseteq had'[user]
  BY HadGrows DEF AuthInv
<1>s. \A id \in DOMAIN sessions : sessions[id] \in UserSession /\ sessions[id].username \in Users
  BY <1>0 DEF TypeOK, UserSession
<1>q. \A r \in Requests : /\ req[r] \in Request
                          /\ req[r].pc \in {"fetching", "fetched"} => req[r].user \in Users
  BY <1>0 DEF ApiTypeOK
<1>1. ASSUME KeepsRoles
      PROVE  SessionsVouched'
  BY <1>1, <1>h, <1>s DEF KeepsRoles, AuthInv, SessionsVouched, Vouched
<1>2. ASSUME NEW r \in Requests, \A s \in Requests \ {r} : req'[s] = req[s],
             req'[r].pc # "fetched"
      PROVE  LoginsVouched'
  BY <1>2, <1>h, <1>q DEF AuthInv, LoginsVouched, Vouched
<1>3. CASE Still
  <2>1. LoginsVouched'
    BY <1>3, <1>h, <1>q DEF Still, AuthInv, LoginsVouched, Vouched
  <2>2. QED
    BY <1>1, <1>3, <2>1 DEF Still
<1>4. ASSUME NEW r \in Requests, Quiet(r)
      PROVE  SessionsVouched' /\ LoginsVouched'
  <2>1. \A s \in Requests \ {r} : req'[s] = req[s]
    BY <1>0, <1>4, OthersSame DEF Quiet
  <2>2. req'[r].pc # "fetched"
    BY <1>0, <1>4 DEF Quiet, Holding, ApiTypeOK
  <2>3. QED
    BY <1>1, <1>2, <1>4, <2>1, <2>2 DEF Quiet
<1>5. ASSUME NEW r \in Requests, NEW id \in SessionIds, LoginStarts(r, id)
      PROVE  SessionsVouched' /\ LoginsVouched'
  <2>1. PICK user \in Users : req' = [req EXCEPT ![r] = Login("fetching", user, id, 0)]
    BY <1>5 DEF LoginStarts
  <2>2. Only(r) /\ req'[r] = Login("fetching", user, id, 0)
    BY <1>0, <2>1 DEF ApiTypeOK, Only
  <2>3. req'[r].pc = "fetching"
    BY <2>2 DEF Login
  <2>4. \A s \in Requests \ {r} : req'[s] = req[s]
    BY <1>0, <2>2, OthersSame
  <2>5. QED
    BY <1>1, <1>2, <1>5, <2>3, <2>4 DEF LoginStarts
<1>6. ASSUME NEW r \in Requests, LoginFetchRole(r)
      PROVE  SessionsVouched' /\ LoginsVouched'
  <2>1. PICK role \in {"ReadOnly"} \cup RolesOf(req[r].user) :
           req' = [req EXCEPT ![r].pc = "fetched", ![r].role = role]
    BY <1>6 DEF LoginFetchRole
  <2>2. Only(r) /\ req'[r] = [req[r] EXCEPT !.pc = "fetched", !.role = role]
    BY <1>0, <2>1 DEF ApiTypeOK, Only
  <2>3. \A s \in Requests \ {r} : req'[s] = req[s]
    BY <1>0, <2>2, OthersSame
  <2>4. req'[r].user = req[r].user /\ req'[r].role = role /\ req[r].user \in Users
    BY <1>q, <1>6, <2>2 DEF Request, LoginFetchRole, At
  <2>5. RolesOf(req[r].user) \subseteq RolesIn(account[req[r].user])
    BY DEF RolesOf, RolesIn
  <2>6. Vouched(role, req[r].user)
    BY <2>1, <2>4, <2>5 DEF AuthInv, AccountsTracked, Vouched
  <2>7. LoginsVouched'
    BY <1>h, <1>q, <2>3, <2>4, <2>6 DEF AuthInv, LoginsVouched, Vouched
  <2>8. sessions' = sessions
    BY <1>6 DEF LoginFetchRole, storeVars
  <2>9. QED
    BY <1>1, <2>7, <2>8, SameKeeps
<1>7. ASSUME NEW r \in Requests, LoginSetRole(r) \/ DeleteRemove(r)
      PROVE  SessionsVouched' /\ LoginsVouched'
  <2>1. PICK status \in Nat : Answer(r, status)
    BY <1>7 DEF LoginSetRole, DeleteRemove
  <2>2. Only(r) /\ req'[r] = [req[r] EXCEPT !.pc = "done", !.status = status]
    BY <1>0, <2>1 DEF Answer, ApiTypeOK, Only
  <2>3. req'[r].pc = "done"
    BY <1>q, <2>2 DEF Request
  <2>4. \A s \in Requests \ {r} : req'[s] = req[s]
    BY <1>0, <2>2, OthersSame
  <2>5. LoginsVouched'
    BY <1>2, <2>3, <2>4
  <2>6. CASE DeleteRemove(r)
    <3>1. /\ DOMAIN sessions' \subseteq DOMAIN sessions
          /\ \A id \in DOMAIN sessions' : sessions'[id] = sessions[id]
      BY <2>6 DEF DeleteRemove, delete_session, Retain
    <3>2. QED
      BY <1>1, <2>5, <3>1 DEF KeepsRoles
  <2>7. CASE LoginSetRole(r)
    <3>1. /\ DOMAIN sessions' = DOMAIN sessions
          /\ \A id \in DOMAIN sessions :
                /\ sessions'[id].username = sessions[id].username
                /\ sessions'[id].role =
                      IF id = req[r].target THEN req[r].role ELSE sessions[id].role
      BY <1>0, <1>s, <2>7 DEF LoginSetRole, set_session_role, TypeOK, UserSession
    <3>2. req[r].pc = "fetched"
      BY <2>7 DEF LoginSetRole, At
    <3>3. req[r].target \in DOMAIN sessions => sessions[req[r].target].username = req[r].user
      BY <3>2 DEF RoleInv
    <3>4. Vouched(req[r].role, req[r].user)
      BY <3>2 DEF AuthInv, LoginsVouched
    <3>5. QED
      BY <1>h, <1>s, <2>5, <3>1, <3>3, <3>4 DEF AuthInv, SessionsVouched, Vouched
  <2>8. QED
    BY <1>7, <2>6, <2>7
<1>8. QED
  BY <1>0, <1>3, <1>4, <1>5, <1>6, <1>7, StepKinds

LEMMA AuthStep ==
    ASSUME ApiIInv, RoleInv, AuthInv, [Next]_vars
    PROVE  AuthInv'
<1>0. ApiTypeOK /\ TypeOK /\ ApiTypeOK' /\ TypeOK'
  BY ApiStep DEF ApiIInv, IInv
<1>1. AccountsTracked' /\ SessionsVouched' /\ LoginsVouched'
  BY HadGrows, SessionsVouchedStep DEF AuthInv
<1>2. ASSUME NEW r \in Requests, Accepted(req'[r])
      PROVE  /\ Vouched(req[r].caller.role, req[r].caller.username)' 
             /\ req'[r].pc = "dbus" => req'[r].caller.role = "Administrator"
  <2>1. CASE KeepsCaller(r)
    <3>1. req'[r].caller = req[r].caller /\ Accepted(req[r])
      BY <2>1 DEF KeepsCaller
    <3>2. req[r].caller.username \in Users
      BY <1>0, <3>1 DEF ApiTypeOK, Accepted
    <3>3. Vouched(req[r].caller.role, req[r].caller.username)'
      BY <3>1, <3>2, HadGrows DEF AuthInv, CallersVouched, Vouched
    <3>4. req'[r].pc = "dbus" => req[r].caller.role = "Administrator"
      <4>1. MayCaller(r, PRIVILEGE_CONFIGURE_USERS) => req[r].caller.role = "Administrator"
        BY NeedsAdministrator DEF MayCaller
      <4>2. req[r].pc = "dbus" => req[r].caller.role = "Administrator"
        BY DEF AuthInv, CallersVouched
      <4>3. QED
        BY <2>1, <4>1, <4>2 DEF KeepsCaller
    <3>5. QED
      BY <3>1, <3>3, <3>4
  <2>2. CASE JustAccepted(r)
    <3>1. PICK id \in DOMAIN sessions' : req'[r].caller = Snapshot(id)
      BY <2>2 DEF JustAccepted
    <3>2. /\ req'[r].caller.role = sessions'[id].role
          /\ req'[r].caller.username = sessions'[id].username
      BY <3>1 DEF Snapshot
    <3>3. Vouched(req[r].caller.role, req[r].caller.username)'
      BY <1>1, <3>2 DEF SessionsVouched, Vouched
    <3>4. QED
      BY <2>2, <3>3 DEF JustAccepted
  <2>3. QED
    BY <1>0, <1>2, <2>1, <2>2, CallerStep
<1>3. CallersVouched'
  BY <1>2 DEF CallersVouched, Accepted
<1>4. QED
  BY <1>1, <1>3 DEF AuthInv

\* The steps that change an account or the timeout: each the last of a request
\* whose caller was checked, when it was accepted or in this very step.
LEMMA ChangeStep ==
    ASSUME ApiTypeOK, [Next]_vars, account' # account \/ timeout' # timeout
    PROVE  \E r \in Requests :
              /\ req'[r] # req[r]
              /\ \/ req[r].pc = "dbus"
                 \/ req[r].pc = "handler" /\ MayCaller(r, PRIVILEGE_PATCH)
<1>1. ASSUME NEW r \in Requests, NEW status, Answer(r, status), req[r].pc # "done"
      PROVE  req'[r] # req[r]
  <2>1. req[r] \in Request /\ req'[r] = [req[r] EXCEPT !.pc = "done", !.status = status]
    BY <1>1 DEF ApiTypeOK, Answer
  <2>2. req'[r].pc = "done"
    BY <2>1 DEF Request
  <2>3. QED
    BY <1>1, <2>2
<1>2. ASSUME NEW r \in Requests, CreateAccount(r) \/ PatchAccount(r) \/ RemoveAccount(r)
      PROVE  req'[r] # req[r] /\ req[r].pc = "dbus"
  BY <1>1, <1>2 DEF CreateAccount, PatchAccount, RemoveAccount, AnswerAccount, At
<1>3. ASSUME NEW r \in Requests, PatchTimeout(r), timeout' # timeout
      PROVE  req'[r] # req[r] /\ req[r].pc = "handler" /\ MayCaller(r, PRIVILEGE_PATCH)
  BY <1>1, <1>3 DEF PatchTimeout, Handling, At, storeVars
<1>4. ASSUME NEW r \in Requests, PatchTimeout(r) \/ LoginFetchRole(r) \/ AccountCheck(r)
      PROVE  UNCHANGED account
  BY <1>4 DEF PatchTimeout, LoginFetchRole, AccountCheck
<1>5. ASSUME NEW r \in Requests, LoginFetchRole(r) \/ AccountCheck(r) \/ Hangup(r)
      PROVE  UNCHANGED <<account, timeout>>
  BY <1>5 DEF LoginFetchRole, AccountCheck, Hangup, storeVars
<1>6. ASSUME NEW r \in Requests,
             \/ LoginSetRole(r) \/ GetSession(r) \/ ListSessions(r)
             \/ DeleteAllowed(r) \/ DeleteVerify(r) \/ DeleteRemove(r)
      PROVE  UNCHANGED <<account, timeout>>
  BY <1>6 DEF LoginSetRole, GetSession, ListSessions, DeleteAllowed, DeleteVerify, DeleteRemove,
              set_session_role, get_session, PurgeExpired, delete_session
<1>7. ASSUME NEW r \in Requests, NEW user \in Users, NEW ip \in Clients, LoginCreate(r, user, ip)
      PROVE  UNCHANGED <<account, timeout>>
  BY <1>7 DEF LoginCreate, CreateNew, CreateRefused
<1>8. ASSUME NEW r \in Requests, Authenticate(r)
      PROVE  UNCHANGED <<account, timeout>>
  <2>1. ASSUME NEW user, NEW ip, NEW id,
               \/ CreateNew(user, ip, "Basic", id) \/ CreateNew(user, ip, "Token", id)
               \/ CreateReused(user, ip, id)
               \/ CreateRefused(user, ip, "Basic") \/ CreateRefused(user, ip, "Token")
        PROVE  timeout' = timeout
    BY <2>1 DEF CreateNew, CreateReused, CreateRefused
  <2>2. ASSUME NEW ask, NEW user, NEW ip,
               ByBasic(r, ask, user, ip) \/ ByCertificate(r, ask, user, ip)
        PROVE  timeout' = timeout
    BY <2>1, <2>2 DEF ByBasic, ByCertificate
  <2>3. ASSUME NEW ask, NEW id, ByToken(r, ask, id)
        PROVE  timeout' = timeout
    BY <2>3 DEF ByToken, get_session_by_token
  <2>4. ASSUME NEW ask, NoneLeft(r, ask)
        PROVE  timeout' = timeout
    BY <2>4 DEF NoneLeft, storeVars
  <2>5. QED
    BY <1>8, <2>2, <2>3, <2>4 DEF Authenticate
<1>9. CASE Health \/ Clock \/ UNCHANGED vars
  BY <1>9 DEF Health, PurgeExpired, Clock, Tick, vars, storeVars
<1>10. QED
  BY <1>2, <1>3, <1>4, <1>5, <1>6, <1>7, <1>8, <1>9 DEF Next, Arrive, Progress, Serve

\* The invariant behind who may do what: whatever vouches for a request, its
\* session, the clone it carries or the check it passed, goes back to a role
\* its own user had.
LEMMA AuthInvariant == Spec => []AuthInv
<1>1. Init => AuthInv
  BY DEF Init, StoreInit, Idle, AuthInv, AccountsTracked, SessionsVouched, LoginsVouched,
         CallersVouched, Accepted
<1>2. ApiIInv /\ RoleInv /\ AuthInv /\ [Next]_vars => AuthInv'
  BY AuthStep
<1>3. ApiIInv /\ [Next]_vars => ApiIInv'
  BY ApiStep
<1>4. QED
  BY InitApiIInv, RoleInvariant, <1>1, <1>2, <1>3, PTL DEF Spec

\* Accounts and the timeout are only changed for a user who has been an
\* administrator, however logins, account changes and requests interleave.
THEOREM OnlyForAdministratorsCorrect == Spec => OnlyForAdministrators
<1> DEFINE Administers == \E r \in Requests :
              /\ req'[r] # req[r]
              /\ req[r].pc \in {"handler", "dbus"}
              /\ "Administrator" \in had[req[r].caller.username]
<1>1. ASSUME ApiIInv, AuthInv, [Next]_vars, account' # account \/ timeout' # timeout
      PROVE  Administers
  <2>1. PICK r \in Requests :
              /\ req'[r] # req[r]
              /\ \/ req[r].pc = "dbus"
                 \/ req[r].pc = "handler" /\ MayCaller(r, PRIVILEGE_PATCH)
    BY <1>1, ChangeStep DEF ApiIInv
  <2>2. req[r].caller.role = "Administrator"
    BY <1>1, <2>1, NeedsAdministrator DEF AuthInv, CallersVouched, MayCaller
  <2>3. Vouched(req[r].caller.role, req[r].caller.username)
    BY <1>1, <2>1 DEF AuthInv, CallersVouched, Accepted
  <2>4. "Administrator" \in had[req[r].caller.username]
    BY <2>2, <2>3 DEF Vouched
  <2>5. QED
    BY <2>1, <2>4
<1>2. ApiIInv /\ AuthInv /\ [Next]_vars =>
         [account' # account \/ timeout' # timeout => Administers]_vars
  BY <1>1
<1>3. ApiIInv /\ [Next]_vars => ApiIInv'
  BY ApiStep
<1>4. QED
  BY InitApiIInv, AuthInvariant, <1>2, <1>3, PTL DEF Spec, OnlyForAdministrators

-----------------------------------------------------------------------------
(* A session ends only by a DELETE that may still remove it: no other id is *)
(* ever given to the session found at the first lock, and sessions do not   *)
(* change hands.                                                            *)

\* What MayDelete asks, of a session that is there, be it expired or not.
Rightful(r) ==
    \/ sessions[req[r].target].username = req[r].caller.username
    \/ MayCaller(r, PRIVILEGE_CONFIGURE_USERS) \/ MayCaller(r, PRIVILEGE_DELETE_SESSION)

DeleteInv ==
    \A r \in Requests :
        Deleting(req[r]) /\ req[r].target \in DOMAIN sessions => Rightful(r)

\* What was drawn before and is still there is the same user's.
LEMMA OwnersKept ==
    ASSUME ApiTypeOK, TypeOK, [Next]_vars, NEW id \in DOMAIN sessions', id \in drawn
    PROVE  id \in DOMAIN sessions /\ sessions'[id].username = sessions[id].username
<1>1. CASE KeepsRoles
  BY <1>1 DEF KeepsRoles
<1>2. ASSUME NEW r \in Requests, LoginFetchRole(r)
      PROVE  sessions' = sessions
  BY <1>2 DEF LoginFetchRole, storeVars
<1>3. ASSUME NEW r \in Requests, DeleteRemove(r)
      PROVE  id \in DOMAIN sessions /\ sessions'[id] = sessions[id]
  BY <1>3 DEF DeleteRemove, delete_session, Retain
<1>4. ASSUME NEW r \in Requests, LoginSetRole(r)
      PROVE  id \in DOMAIN sessions /\ sessions'[id].username = sessions[id].username
  <2>1. \A s \in DOMAIN sessions : sessions[s] \in UserSession
    BY DEF TypeOK
  <2>2. QED
    BY <1>4, <2>1 DEF LoginSetRole, set_session_role, TypeOK, UserSession
<1>5. QED
  BY <1>1, <1>2, <1>3, <1>4, StepKinds DEF Still, Quiet, LoginStarts

LEMMA DeleteStep ==
    ASSUME ApiIInv, DeleteInv, [Next]_vars
    PROVE  DeleteInv'
<1>0. ApiTypeOK /\ TypeOK /\ ApiTypeOK'
  BY ApiStep DEF ApiIInv, IInv
<1> SUFFICES ASSUME NEW r \in Requests, Deleting(req'[r]), req'[r].target \in DOMAIN sessions'
             PROVE  Rightful(r)'
  BY DEF DeleteInv, Deleting
<1>1. KeepsCaller(r)
  <2>1. Accepted(req'[r]) /\ req'[r].pc # "handler"
    BY DEF Deleting, Accepted
  <2>2. QED
    BY <1>0, <2>1, CallerStep DEF JustAccepted
<1>2. /\ req'[r].caller = req[r].caller /\ req'[r].target = req[r].target
      /\ req'[r].op = req[r].op
      /\ Deleting(req[r]) \/ (req[r].pc = "handler" /\ MayDelete(r))
  BY <1>1 DEF KeepsCaller, At
<1>3. req[r].target \in drawn
  <2>1. CASE Deleting(req[r])
    BY <1>0, <2>1 DEF Deleting, ApiTypeOK
  <2>2. CASE req[r].pc = "handler"
    <3>1. req[r].op = "delete"
      BY <1>0, <1>2 DEF ApiTypeOK, Deleting
    <3>2. QED
      BY <1>0, <2>2, <3>1 DEF ApiTypeOK
  <2>3. QED
    BY <1>2, <2>1, <2>2
<1>4. /\ req[r].target \in DOMAIN sessions
      /\ sessions'[req[r].target].username = sessions[req[r].target].username
  BY <1>0, <1>2, <1>3, OwnersKept
<1>5. Rightful(r)
  <2>1. CASE Deleting(req[r])
    BY <1>4, <2>1 DEF DeleteInv
  <2>2. CASE MayDelete(r)
    BY <2>2 DEF MayDelete, IsOwn, Rightful
  <2>3. QED
    BY <1>2, <2>1, <2>2
<1>6. QED
  BY <1>2, <1>4, <1>5 DEF Rightful, MayCaller

\* A role with the requirement of any of the three checks is not NoAccess.
LEMMA NoAccessMayNot ==
    /\ ~ check_privilege("NoAccess", PRIVILEGE_CONFIGURE_USERS)
    /\ ~ check_privilege("NoAccess", PRIVILEGE_DELETE_SESSION)
BY DEF check_privilege, privileges_for_role, PRIVILEGE_CONFIGURE_USERS, PRIVILEGE_DELETE_SESSION

\* A live session leaves the store only by a DELETE of that session, and for a
\* caller without any privilege only if it is the caller's own.
THEOREM EndsOnlyByDeleteCorrect == Spec => EndsOnlyByDelete
<1> DEFINE ByDelete(id) == \E r \in Requests :
               /\ Removes(r, id)
               /\ req[r].caller.role = "NoAccess" => IsOwn(r)
<1>1. ASSUME ApiIInv, DeleteInv, [Next]_vars, NEW id \in live, id \notin DOMAIN sessions'
      PROVE  ByDelete(id)
  <2>1. ApiTypeOK /\ TypeOK /\ live \subseteq DOMAIN sessions
    BY <1>1 DEF ApiIInv, IInv, live
  <2>2. ~ KeepsLive
    BY <1>1 DEF KeepsLive
  <2>3. ASSUME NEW r \in Requests, LoginFetchRole(r) \/ LoginSetRole(r)
        PROVE  FALSE
    BY <1>1, <2>1, <2>3 DEF LoginFetchRole, LoginSetRole, set_session_role, storeVars
  <2>4. ASSUME NEW r \in Requests, DeleteRemove(r)
        PROVE  ByDelete(id)
    <3>1. At(r, "remove") /\ sessions' = Retain(DOMAIN sessions \ {req[r].target})
      BY <2>4 DEF DeleteRemove, delete_session
    <3>2. req[r].target = id
      BY <1>1, <2>1, <3>1 DEF Retain
    <3>3. req'[r].pc = "done"
      <4>1. req[r] \in Request
        BY <2>1 DEF ApiTypeOK
      <4>2. req'[r] = [req[r] EXCEPT !.pc = "done", !.status = 204]
        BY <2>1, <2>4 DEF DeleteRemove, Answer, ApiTypeOK
      <4>3. QED
        BY <4>1, <4>2 DEF Request
    <3>4. req[r].caller.role = "NoAccess" => IsOwn(r)
      <4>1. Rightful(r)
        BY <1>1, <2>1, <3>1, <3>2 DEF At, Deleting, DeleteInv
      <4>2. QED
        BY <1>1, <3>2, <4>1, NoAccessMayNot DEF Rightful, MayCaller, IsOwn
    <3>5. QED
      BY <3>1, <3>2, <3>3, <3>4 DEF Removes
  <2>5. QED
    BY <1>1, <2>1, <2>2, <2>3, <2>4, StepKinds DEF Still, Quiet, LoginStarts
<1>2. ApiIInv /\ DeleteInv /\ [Next]_vars =>
         [\A id \in live : id \notin DOMAIN sessions' => ByDelete(id)]_vars
  BY <1>1
<1>3. ApiIInv /\ DeleteInv /\ [Next]_vars => ApiIInv' /\ DeleteInv'
  BY ApiStep, DeleteStep
<1>4. Init => DeleteInv
  BY DEF Init, Idle, DeleteInv, Deleting
<1>5. QED
  BY InitApiIInv, <1>2, <1>3, <1>4, PTL DEF Spec, EndsOnlyByDelete
=============================================================================
