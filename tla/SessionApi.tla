----------------------------- MODULE SessionApi -----------------------------
(***************************************************************************)
(* The handlers that use the session store, interleaved: the two ways in   *)
(* (POST Sessions, and the authentication middleware in front of every     *)
(* other route), the SessionService and AccountService handlers behind it, *)
(* and the user manager on D-Bus that owns the accounts and their roles.   *)
(*                                                                         *)
(* A handler runs on one of several tokio workers and takes the store's    *)
(* lock once per store call, so every store call is a step of its own; an  *)
(* .await of D-Bus lets anything happen before the answer.  The middleware *)
(* hands the handler a clone of the session, which then ages.              *)
(***************************************************************************)
EXTENDS SessionStore

CONSTANTS
    Requests,   \* slots for HTTP requests in progress
    Root,       \* the user that DELETE Accounts refuses to delete
    Grantable,  \* the roles PATCH Accounts asks for, among Roles
    Timeouts,   \* the values PATCH SessionService asks for
    Accounts0,  \* the tables of accounts the server may start with
    Operations  \* what clients ask for: bounds the requests of a run

NoAccount == [group |-> "none", privilege |-> "none"]

\* What GetUserInfo tells of an account: the role among its UserGroups, if
\* there is one, and its UserPrivilege.
Account == [group: Roles \cup {"none"}, privilege: Roles]

ASSUME ApiAssumption ==
    /\ Root \in Users
    /\ Grantable \subseteq Roles
    /\ Timeouts \subseteq Int
    /\ Accounts0 \subseteq [Users -> Account \cup {NoAccount}]

VARIABLES
    account,    \* the user manager's table: user -> account, or NoAccount
    req,        \* the requests in progress
    held,       \* history: the roles a session's user had since its creation
    had         \* history: the roles a user has ever had

vars == <<storeVars, account, req, held, had>>

NoOne == [username |-> "none", role |-> "none"]

Idle == [op |-> "none", pc |-> "idle", caller |-> NoOne,
         target |-> "none", user |-> "none", role |-> "none", seconds |-> 0,
         status |-> 0]

AccountOps == {"create", "patch", "remove"}

Request ==
    [op: {"none", "login", "get", "list", "timeout", "delete"} \cup AccountOps,
     pc: {"idle", "credential", "fetching", "fetched", "handler", "verify", "remove", "dbus", "done"},
     caller: [username: Users \cup {"none"}, role: Roles \cup {"none"}],
     target: SessionIds \cup Users \cup {"none"}, user: Users \cup {"none"},
     role: Roles \cup {"none"}, seconds: Timeouts \cup {0}, status: Nat]

At(r, pc) == req[r].pc = pc
Goto(r, pc) == req' = [req EXCEPT ![r].pc = pc]
Answer(r, status) == req' = [req EXCEPT ![r].pc = "done", ![r].status = status]

\* A clone of a session of the map, as it is after this step.
Snapshot(id) == [username |-> sessions'[id].username, role |-> sessions'[id].role]

-----------------------------------------------------------------------------
(* POST /SessionService/Sessions: create the session as ReadOnly, ask the  *)
(* user manager for the role, store the role.                              *)

\* The request of a login for user, its session once there is one.
Login(pc, user, id, status) ==
    [op |-> "login", pc |-> pc, caller |-> NoOne, target |-> id,
     user |-> user, role |-> "none", seconds |-> 0, status |-> status]

\* Mutant: a login takes the Basic session its user may have.
LoginCreateReusing(r, user, ip) ==
    /\ At(r, "idle")
    /\ account[user] # NoAccount
    /\ \E id \in SessionIds :
          /\ CreateNew(user, ip, "Basic", id) \/ CreateReused(user, ip, id)
          /\ req' = [req EXCEPT ![r] = Login("fetching", user, id, 0)]
    /\ UNCHANGED account

LoginCreate(r, user, ip) ==
    /\ At(r, "idle")
    /\ account[user] # NoAccount        \* PAM accepts the credentials
    /\ \/ \E id \in SessionIds :
             /\ CreateNew(user, ip, "Token", id)
             /\ req' = [req EXCEPT ![r] = Login("fetching", user, id, 0)]
       \/ /\ CreateRefused(user, ip, "Token")
          /\ req' = [req EXCEPT ![r] = Login("done", user, "none", 503)]
    /\ UNCHANGED account

\* The role GetUserInfo gives: that of the groups, else that of the privilege.
RolesOf(user) ==
    IF account[user] = NoAccount THEN {}
    ELSE IF account[user].group # "none" THEN {account[user].group}
    ELSE {account[user].privilege}

\* Mutant: a failed call leaves the session privileged.
LoginFetchRoleOpen(r) ==
    /\ At(r, "fetching")
    /\ \E role \in {"Administrator"} \cup RolesOf(req[r].user) :
          req' = [req EXCEPT ![r].pc = "fetched", ![r].role = role]
    /\ UNCHANGED <<storeVars, account>>

\* fetch_user_role: what GetUserInfo says, or ReadOnly when the call fails.
LoginFetchRole(r) ==
    /\ At(r, "fetching")
    /\ \E role \in {"ReadOnly"} \cup RolesOf(req[r].user) :
          req' = [req EXCEPT ![r].pc = "fetched", ![r].role = role]
    /\ UNCHANGED <<storeVars, account>>

\* Mutant: the role is set on the handler's clone only.
LoginSetRoleOnClone(r) ==
    /\ At(r, "fetched")
    /\ Answer(r, 201)
    /\ UNCHANGED <<storeVars, account>>

\* 201 is answered whether or not the session is still there.
LoginSetRole(r) ==
    /\ At(r, "fetched")
    /\ set_session_role(req[r].target, req[r].role)
    /\ Answer(r, 201)
    /\ UNCHANGED account

-----------------------------------------------------------------------------
(* auth_middleware.  Accepted, the request carries the clone to its        *)
(* handler; a request is what the client chose to ask: op, and its target. *)

\* What clients ask for: the operation, the session or user it is about,
\* and the role or timeout it wants.
Ask(ops, targets, roles, timeouts) ==
    [op: ops \cap Operations, target: targets, role: roles, seconds: timeouts]

Asked ==
    UNION {Ask({"get", "delete"}, drawn, {"none"}, {0}),
           Ask({"list"}, {"none"}, {"none"}, {0}),
           Ask({"timeout"}, {"none"}, {"none"}, Timeouts),
           Ask({"create", "patch"}, Users, Grantable, {0}),
           Ask({"remove"}, Users, {"none"}, {0})}

\* The request as its handler gets it.
Carrying(ask, caller) ==
    [op |-> ask.op, pc |-> "handler", caller |-> caller, target |-> ask.target,
     user |-> "none", role |-> ask.role, seconds |-> ask.seconds, status |-> 0]

\* Mutant: the session is not attached to the request.
AcceptBare(r, ask, id) == req' = [req EXCEPT ![r] = Carrying(ask, NoOne)]

Accept(r, ask, id) == req' = [req EXCEPT ![r] = Carrying(ask, Snapshot(id))]

Refuse(r, ask, user, status) ==
    req' = [req EXCEPT ![r] = [Idle EXCEPT !.op = ask.op, !.pc = "done", !.user = user,
                                           !.status = status]]

TryNext(r) == req' = [req EXCEPT ![r] = [Idle EXCEPT !.pc = "credential"]]

\* By X-Auth-Token or cookie: a live token session is renewed and cloned.  An
\* expired one is dropped, and the request goes on to its next credential.
ByToken(r, ask, id) ==
    /\ HasToken(id)
    /\ get_session_by_token(id)
    /\ \/ id \in live /\ Accept(r, ask, id)
       \/ id \notin live /\ TryNext(r)

\* By HTTP Basic: create or reuse the user's session, or fail with 500.  What
\* fails here is final: the certificate is not looked at.
ByBasic(r, ask, user, ip) ==
    /\ account[user] # NoAccount        \* PAM accepts the credentials
    /\ \/ \E id \in SessionIds :
             /\ CreateNew(user, ip, "Basic", id) \/ CreateReused(user, ip, id)
             /\ Accept(r, ask, id)
       \/ CreateRefused(user, ip, "Basic") /\ Refuse(r, ask, user, 500)

\* By client certificate: every request creates a session of its own.
ByCertificate(r, ask, user, ip) ==
    \/ \E id \in SessionIds :
          /\ CreateNew(user, ip, "Token", id)
          /\ Accept(r, ask, id)
    \/ /\ CreateRefused(user, ip, "Token")
       /\ Refuse(r, ask, user, 401)

\* No credential, none that is left, or one that names no session or user.
NoneLeft(r, ask) == Refuse(r, ask, "none", 401) /\ UNCHANGED storeVars

\* A request is tried by one credential after the other, until one decides.
Authenticate(r) ==
    /\ At(r, "idle") \/ At(r, "credential")
    /\ \E ask \in Asked :
          \/ NoneLeft(r, ask)
          \/ \E id \in DOMAIN sessions : ByToken(r, ask, id)
          \/ \E user \in Users, ip \in Clients :
                ByBasic(r, ask, user, ip) \/ ByCertificate(r, ask, user, ip)
    /\ UNCHANGED account

-----------------------------------------------------------------------------
(* The SessionService handlers.                                            *)

Handling(r, op) == At(r, "handler") /\ req[r].op = op

MayCaller(r, required) == check_privilege(req[r].caller.role, required)

\* GET Sessions/{id} renews the session it shows.
GetSession(r) ==
    /\ Handling(r, "get")
    /\ get_session(req[r].target)
    /\ Answer(r, IF req[r].target \in live THEN 200 ELSE 404)
    /\ UNCHANGED account

\* GET Sessions purges what has expired.
ListSessions(r) ==
    /\ Handling(r, "list")
    /\ PurgeExpired
    /\ Answer(r, 200)
    /\ UNCHANGED account

PatchTimeout(r) ==
    /\ Handling(r, "timeout")
    /\ \/ /\ ~ MayCaller(r, PRIVILEGE_PATCH)
          /\ Answer(r, 403) /\ UNCHANGED storeVars
       \/ /\ MayCaller(r, PRIVILEGE_PATCH) /\ ~ InRange(req[r].seconds)
          /\ Answer(r, 400) /\ UNCHANGED storeVars
       \/ /\ MayCaller(r, PRIVILEGE_PATCH)
          /\ set_timeout_seconds(req[r].seconds)
          /\ Answer(r, 200)
    /\ UNCHANGED account

\* DELETE Sessions/{id}, first lock: is it the caller's own session?
IsOwn(r) == /\ req[r].target \in live
            /\ sessions[req[r].target].username = req[r].caller.username

\* Else ConfigureUsers is asked for, and then ConfigureSelf, which every role
\* but NoAccess carries.
MayDelete(r) == \/ IsOwn(r)
                \/ MayCaller(r, PRIVILEGE_CONFIGURE_USERS)
                \/ MayCaller(r, PRIVILEGE_DELETE_SESSION)

\* Mutant: the first lock only looks whether there is such a session.
DeleteAllowedUnchecked(r) ==
    /\ Handling(r, "delete")
    /\ get_session(req[r].target)
    /\ IF req[r].target \in live THEN Goto(r, "verify") ELSE Answer(r, 403)
    /\ UNCHANGED account

DeleteAllowed(r) ==
    /\ Handling(r, "delete")
    /\ get_session(req[r].target)
    /\ IF MayDelete(r) THEN Goto(r, "verify") ELSE Answer(r, 403)
    /\ UNCHANGED account

\* Second lock: does it exist?
DeleteVerify(r) ==
    /\ At(r, "verify")
    /\ get_session(req[r].target)
    /\ IF req[r].target \in live THEN Goto(r, "remove") ELSE Answer(r, 404)
    /\ UNCHANGED account

\* Third lock: remove it.
DeleteRemove(r) ==
    /\ At(r, "remove")
    /\ delete_session(req[r].target)
    /\ Answer(r, 204)
    /\ UNCHANGED account

-----------------------------------------------------------------------------
(* The AccountService handlers: the caller is checked, then the user       *)
(* manager is called, which may fail.  The store is not told.              *)

AccountRefused(r) == \/ ~ MayCaller(r, PRIVILEGE_CONFIGURE_USERS)
                     \/ req[r].op = "remove" /\ req[r].target = Root

\* 400 is for a role that does not exist, and a user without name or password.
AccountCheck(r) ==
    /\ \E op \in AccountOps : Handling(r, op)
    /\ \/ AccountRefused(r) /\ Answer(r, 403)
       \/ ~ AccountRefused(r) /\ req[r].op # "remove" /\ Answer(r, 400)
       \/ ~ AccountRefused(r) /\ Goto(r, "dbus")
    /\ UNCHANGED <<storeVars, account>>

\* CreateUser is told the role as a group; an error is answered 500.  Without
\* D-Bus, 201 is answered and nobody is created.
CreateAccount(r) ==
    /\ At(r, "dbus") /\ req[r].op = "create"
    /\ \/ /\ account[req[r].target] = NoAccount
          /\ account' = [account EXCEPT ![req[r].target] =
                            [group |-> req[r].role, privilege |-> req[r].role]]
          /\ Answer(r, 201)
       \/ UNCHANGED account /\ \E status \in {201, 500} : Answer(r, status)
    /\ UNCHANGED storeVars

\* The answer is the account as GetUserInfo then shows it, root's also when
\* that call fails.
AnswerAccount(r) ==
    \/ Answer(r, 200)
    \/ req[r].target # Root /\ Answer(r, 404)

\* Mutant: the handler also rewrites the roles of the user's sessions.
PatchAccountAndSessions(r) ==
    /\ At(r, "dbus") /\ req[r].op = "patch"
    /\ account[req[r].target] # NoAccount
    /\ account' = [account EXCEPT ![req[r].target].privilege = req[r].role]
    /\ sessions' = [id \in DOMAIN sessions |->
                       IF sessions[id].username = req[r].target
                       THEN [sessions[id] EXCEPT !.role = req[r].role]
                       ELSE sessions[id]]
    /\ AnswerAccount(r)
    /\ UNCHANGED <<now, timeout, drawn>>

\* Set UserPrivilege, and not the groups; a failure is only logged.
PatchAccount(r) ==
    /\ At(r, "dbus") /\ req[r].op = "patch"
    /\ \/ /\ account[req[r].target] # NoAccount
          /\ account' = [account EXCEPT ![req[r].target].privilege = req[r].role]
       \/ UNCHANGED account
    /\ AnswerAccount(r)
    /\ UNCHANGED storeVars

\* DeleteUser; an error is answered 404.
RemoveAccount(r) ==
    /\ At(r, "dbus") /\ req[r].op = "remove"
    /\ \/ /\ account[req[r].target] # NoAccount
          /\ account' = [account EXCEPT ![req[r].target] = NoAccount]
          /\ Answer(r, 204)
       \/ UNCHANGED account /\ Answer(r, 404)
    /\ UNCHANGED storeVars

-----------------------------------------------------------------------------
\* The client has its answer; the slot is free for another request.
Hangup(r) ==
    /\ At(r, "done")
    /\ req' = [req EXCEPT ![r] = Idle]
    /\ UNCHANGED <<storeVars, account>>

\* GET /health, without authentication, purges too.
Health ==
    /\ PurgeExpired
    /\ UNCHANGED <<account, req>>

Clock == Tick /\ UNCHANGED <<account, req>>

\* The roles an account's groups and its privilege give it.
RolesIn(a) == {a.group, a.privilege}

\* The history of a session's account since the session was created, and that
\* of an account since the server started.
TrackHeld ==
    /\ held' = [id \in DOMAIN sessions' |->
                   (IF id \in DOMAIN held THEN held[id] ELSE {})
                      \cup RolesIn(account'[sessions'[id].username])]
    /\ had' = [user \in Users |-> had[user] \cup RolesIn(account'[user])]

\* The server's own steps of a request that was accepted.
Serve(r) ==
    \/ LoginFetchRole(r) \/ LoginSetRole(r)
    \/ GetSession(r) \/ ListSessions(r) \/ PatchTimeout(r)
    \/ DeleteAllowed(r) \/ DeleteVerify(r) \/ DeleteRemove(r)
    \/ AccountCheck(r) \/ CreateAccount(r) \/ PatchAccount(r) \/ RemoveAccount(r)

Progress(r) == Serve(r) /\ TrackHeld

Arrive(r) ==
    /\ \/ \E user \in Users, ip \in Clients : LoginCreate(r, user, ip)
       \/ Authenticate(r)
    /\ TrackHeld

Init ==
    /\ StoreInit
    /\ account \in Accounts0
    /\ req = [r \in Requests |-> Idle]
    /\ held = [id \in {} |-> {}]
    /\ had = [user \in Users |-> RolesIn(account[user])]

Next ==
    \/ \E r \in Requests : Arrive(r) \/ Progress(r) \/ (Hangup(r) /\ TrackHeld)
    \/ Health /\ TrackHeld
    \/ Clock /\ TrackHeld

Spec == Init /\ [][Next]_vars

-----------------------------------------------------------------------------
(* Properties.                                                             *)

\* Type invariant of the handlers' state, and what a request carries at each
\* point of its handler.
ApiTypeOK ==
    /\ account \in [Users -> Account \cup {NoAccount}]
    /\ req \in [Requests -> Request]
    /\ \A r \in Requests :
          /\ req[r].pc # "done" => req[r].status = 0
          /\ req[r].pc \in {"fetching", "fetched"} =>
                req[r].op = "login" /\ req[r].target \in drawn /\ req[r].user \in Users
          /\ req[r].pc = "fetched" => req[r].role \in Roles
          /\ req[r].pc \in {"handler", "dbus", "verify", "remove"} =>
                req[r].op # "login" /\ req[r].caller \in [username: Users, role: Roles]
          /\ req[r].op \in {"get", "delete"} /\ req[r].pc # "done" => req[r].target \in drawn
          /\ req[r].pc \in {"verify", "remove"} => req[r].op = "delete"
          /\ req[r].op \in AccountOps /\ req[r].pc # "done" => req[r].target \in Users
          /\ req[r].op \in {"create", "patch"} /\ req[r].pc # "done" => req[r].role \in Roles

\* A session never carries a role that its user's account did not have at
\* some moment of the session's own life: not one from before the session
\* was created, not another user's; ReadOnly is what it has by default.
RoleWasHeld ==
    \A id \in DOMAIN sessions :
        sessions[id].role \in {"ReadOnly"} \cup held[id]

\* The role a login fetched is the session's role for the rest of its life:
\* no other handler overwrites it and the update is not lost.
LoginRoleKept ==
    \A r \in Requests :
        /\ req[r].op = "login" /\ req[r].status = 201
        /\ req[r].target \in DOMAIN sessions
        => sessions[req[r].target].role = req[r].role

\* Only POST Sessions gives a role: a session of HTTP Basic is ReadOnly for its
\* whole life, though it stays in the store for later requests, and though its
\* user logs in and is given roles meanwhile.
BasicIsReadOnly ==
    \A id \in DOMAIN sessions :
        sessions[id].session_type = "Basic" => sessions[id].role = "ReadOnly"

\* Once DELETE was answered 204 the session is gone for good, even when a
\* login was still fetching its role or another request was using it.
DeletedIsGone ==
    \A r \in Requests :
        req[r].op = "delete" /\ req[r].status = 204
            => req[r].target \notin DOMAIN sessions

\* The request whose DELETE removes this session in this step.
Removes(r, id) == At(r, "remove") /\ req[r].target = id /\ req'[r].pc = "done"

\* A session that has not expired leaves the store only when a DELETE removes
\* that very session: not to make room for another one, and not because its
\* account changed.  A caller whose role grants nothing ends no session but its
\* own, though it is three locks, with other requests in between, from the
\* check to the removal.  Who else may end it is OnlyOwnOrUserAdmin's matter.
EndsOnlyByDelete ==
    [][\A id \in live : id \notin DOMAIN sessions' =>
          \E r \in Requests : /\ Removes(r, id)
                              /\ req[r].caller.role = "NoAccess" => IsOwn(r)]_vars

\* sessions.rs:415-416: "Users may only delete their own sessions unless they
\* hold the `ConfigureUsers` privilege."
OnlyOwnOrUserAdmin ==
    [][\A id \in live : id \notin DOMAIN sessions' =>
          \E r \in Requests : /\ Removes(r, id)
                              /\ IsOwn(r) \/ MayCaller(r, PRIVILEGE_CONFIGURE_USERS)]_vars

\* The accounts and the timeout are only changed for a user who has been an
\* administrator, though the session that vouches for it may have ended, its
\* role be taken away or its account removed since the request was accepted.
OnlyForAdministrators ==
    [][account' # account \/ timeout' # timeout =>
          \E r \in Requests : /\ req'[r] # req[r]
                              /\ req[r].pc \in {"handler", "dbus"}
                              /\ "Administrator" \in had[req[r].caller.username]]_vars

\* The handlers use the store only through its operations, so what is proved
\* of the store holds of the server.
UsesStore == StoreSpec

\* session.rs:45-46: the role is populated from GetUserInfo at login.  A
\* session of HTTP Basic then carries a role its account had meanwhile.
BasicRolePopulated ==
    \A id \in DOMAIN sessions :
        sessions[id].session_type = "Basic" => sessions[id].role \in held[id]
=============================================================================
