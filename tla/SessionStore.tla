---------------------------- MODULE SessionStore ----------------------------
(***************************************************************************)
(* The in-memory session store (auth/session.rs): a map from session id to *)
(* session behind one RwLock, and an atomic timeout that PATCH may change. *)
(* Every operation takes the lock once, so every operation is one action.  *)
(*                                                                         *)
(* A session's token is a second UUID drawn with its id, present unless    *)
(* the session is a Basic one: the id stands for both.  Expiry is checked  *)
(* lazily, against the wall clock, whenever an operation looks at a        *)
(* session; nothing in the program runs in the background to purge it.     *)
(***************************************************************************)
EXTENDS FiniteSets, Clock, Privilege

CONSTANTS
    SessionIds,     \* the UUIDs UserSession::new may draw
    Users,          \* user names
    Clients,        \* client addresses
    MaxSessions,    \* config.auth.max_sessions
    InitTimeout,    \* config.auth.session_timeout_seconds, not range-checked
    MinTimeout,     \* 30 in the code
    MaxTimeout      \* 86400 in the code

ASSUME StoreAssumption ==
    /\ MaxSessions \in Nat
    /\ InitTimeout \in Nat
    /\ MinTimeout \in Nat /\ MaxTimeout \in Nat

VARIABLES
    timeout,    \* timeout_seconds, an AtomicI64
    sessions,   \* the HashMap: session id -> session
    drawn       \* the UUIDs drawn so far; a v4 UUID never repeats

storeVars == <<now, timeout, sessions, drawn>>

SessionTypes == {"Basic", "Token", "Cookie"}

UserSession == [username: Users, client_ip: Clients,
                session_type: SessionTypes, expires_at: Int, role: Roles]

-----------------------------------------------------------------------------
(* The map as the operations see it.                                       *)

is_expired(id) == now > sessions[id].expires_at

live == {id \in DOMAIN sessions : ~ is_expired(id)}

\* Mutant: a session has no role until its login has fetched one.
NewSessionWithoutRole(user, ip, type) ==
    [username |-> user, client_ip |-> ip, session_type |-> type,
     expires_at |-> now + timeout, role |-> "none"]

NewSession(user, ip, type) ==
    [username |-> user, client_ip |-> ip, session_type |-> type,
     expires_at |-> now + timeout, role |-> "ReadOnly"]

touch(session) == [session EXCEPT !.expires_at = now + timeout]

\* sessions.retain(..): the map with only the sessions of S.
Retain(S) == [id \in S |-> sessions[id]]

\* The Basic sessions a Basic request of this user and address may reuse.
Reusable(user, ip) ==
    {id \in live : /\ sessions[id].session_type = "Basic"
                   /\ sessions[id].username = user
                   /\ sessions[id].client_ip = ip}

-----------------------------------------------------------------------------
(* Operations.  create_session has three outcomes; all three purge.        *)

\* Mutant: off by one.
HasRoomForOneMore == Cardinality(live) <= MaxSessions

HasRoom == Cardinality(live) < MaxSessions

\* The limit is checked before the search for a Basic session to reuse.
CreateRefused(user, ip, type) ==
    /\ ~ HasRoom
    /\ sessions' = Retain(live)
    /\ UNCHANGED <<now, timeout, drawn>>

\* A reused Basic session is returned as it is: its expiry is not extended.
CreateReused(user, ip, id) ==
    /\ HasRoom
    /\ id \in Reusable(user, ip)
    /\ sessions' = Retain(live)
    /\ UNCHANGED <<now, timeout, drawn>>

\* Mutant: the search for a session to reuse is skipped.
CreateNewAlways(user, ip, type, id) ==
    /\ HasRoom
    /\ id \in SessionIds \ drawn
    /\ sessions' = [s \in live \cup {id} |->
                       IF s = id THEN NewSession(user, ip, type) ELSE sessions[s]]
    /\ drawn' = drawn \cup {id}
    /\ UNCHANGED <<now, timeout>>

CreateNew(user, ip, type, id) ==
    /\ HasRoom
    /\ type = "Basic" => Reusable(user, ip) = {}
    /\ id \in SessionIds \ drawn
    /\ sessions' = [s \in live \cup {id} |->
                       IF s = id THEN NewSession(user, ip, type) ELSE sessions[s]]
    /\ drawn' = drawn \cup {id}
    /\ UNCHANGED <<now, timeout>>

\* Mutant: a lookup renews whatever it finds.
LookedUpUnchecked(id) ==
    IF id \in DOMAIN sessions THEN [sessions EXCEPT ![id] = touch(@)] ELSE sessions

\* What a lookup leaves behind: an expired session is dropped, a live one
\* renewed.  The lookup returns a session exactly when id \in live.
LookedUp(id) ==
    IF id \in live THEN [sessions EXCEPT ![id] = touch(@)]
                   ELSE Retain(DOMAIN sessions \ {id})

get_session(id) ==
    /\ sessions' = LookedUp(id)
    /\ UNCHANGED <<now, timeout, drawn>>

\* Only a session that is not a Basic one has a token to be found by.
HasToken(id) == id \in DOMAIN sessions /\ sessions[id].session_type # "Basic"

get_session_by_token(id) ==
    /\ sessions' = IF HasToken(id) THEN LookedUp(id) ELSE sessions
    /\ UNCHANGED <<now, timeout, drawn>>

\* Mutant: logging out ends every session of the user.
delete_session_everywhere(id) ==
    /\ sessions' = Retain({s \in DOMAIN sessions : id \in DOMAIN sessions =>
                              sessions[s].username # sessions[id].username})
    /\ UNCHANGED <<now, timeout, drawn>>

delete_session(id) ==
    /\ sessions' = Retain(DOMAIN sessions \ {id})
    /\ UNCHANGED <<now, timeout, drawn>>

\* get_all_sessions and cleanup_expired change the map in the same way.
PurgeExpired ==
    /\ sessions' = Retain(live)
    /\ UNCHANGED <<now, timeout, drawn>>

delete_user_sessions(user) ==
    /\ sessions' = Retain({id \in DOMAIN sessions : sessions[id].username # user})
    /\ UNCHANGED <<now, timeout, drawn>>

\* Mutant: the session is written back even when it is gone.
set_session_role_upsert(id, role) ==
    /\ \E user \in Users, ip \in Clients :
          sessions' = [s \in DOMAIN sessions \cup {id} |->
              IF s # id THEN sessions[s]
              ELSE IF id \in DOMAIN sessions THEN [sessions[id] EXCEPT !.role = role]
              ELSE [NewSession(user, ip, "Token") EXCEPT !.role = role]]
    /\ UNCHANGED <<now, timeout, drawn>>

\* A session that is gone stays gone: only an existing entry is updated.
set_session_role(id, role) ==
    /\ sessions' = IF id \in DOMAIN sessions
                   THEN [sessions EXCEPT ![id].role = role]
                   ELSE sessions
    /\ UNCHANGED <<now, timeout, drawn>>

InRange(seconds) == seconds \in MinTimeout..MaxTimeout

\* Out of range, the call is an error and changes nothing.
set_timeout_seconds(seconds) ==
    /\ InRange(seconds)
    /\ timeout' = seconds
    /\ UNCHANGED <<now, sessions, drawn>>

Tick ==
    /\ Advance
    /\ UNCHANGED <<timeout, sessions, drawn>>

-----------------------------------------------------------------------------
StoreInit ==
    /\ now = 0
    /\ timeout = InitTimeout
    /\ sessions = [id \in {} |-> {}]
    /\ drawn = {}

\* create_session is only ever called for Basic and Token sessions.
CreateSession ==
    \E user \in Users, ip \in Clients, type \in {"Basic", "Token"} :
        \/ CreateRefused(user, ip, type)
        \/ type = "Basic" /\ \E id \in live : CreateReused(user, ip, id)
        \/ \E id \in SessionIds : CreateNew(user, ip, type, id)

StoreNext ==
    \/ CreateSession
    \/ \E id \in drawn : \/ get_session(id)
                         \/ get_session_by_token(id)
                         \/ delete_session(id)
                         \/ \E role \in Roles : set_session_role(id, role)
    \/ \E user \in Users : delete_user_sessions(user)
    \/ PurgeExpired
    \/ \E seconds \in MinTimeout..MaxTimeout : set_timeout_seconds(seconds)
    \/ Tick

StoreSpec == StoreInit /\ [][StoreNext]_storeVars

-----------------------------------------------------------------------------
(* Properties.                                                             *)

\* Type invariant of the store.
TypeOK ==
    /\ now \in Nat
    /\ timeout \in Nat
    /\ drawn \subseteq SessionIds
    /\ DOMAIN sessions \subseteq drawn
    /\ IsFiniteSet(DOMAIN sessions)
    /\ sessions \in [DOMAIN sessions -> UserSession]

\* The map never holds more than max_sessions entries, expired ones
\* included: create_session counts after its purge and inserts at most one.
CapacityRespected == Cardinality(DOMAIN sessions) <= MaxSessions

\* One user at one address has at most one Basic session in the map, however
\* reuse, expiry, renewal by id and timeout changes interleave.
OneBasicSession ==
    \A a, b \in DOMAIN sessions :
        /\ sessions[a].session_type = "Basic"
        /\ sessions[b].session_type = "Basic"
        /\ sessions[a].username = sessions[b].username
        /\ sessions[a].client_ip = sessions[b].client_ip
        => a = b

\* A session that was deleted or purged never comes back, whatever arrives
\* late for it (the role a login is still fetching, for one), and whichever
\* way the clock is set.
RemovedStaysRemoved ==
    [][\A id \in drawn : id \notin DOMAIN sessions => id \notin (DOMAIN sessions)']_storeVars

-----------------------------------------------------------------------------
(* What the store promises its callers: sessions are leases.               *)

phase == [id \in SessionIds |->
             IF id \notin drawn THEN "unused"
             ELSE IF id \in live THEN "open" ELSE "closed"]

Lease == INSTANCE SessionLease WITH
    SessionIds <- SessionIds, MaxSessions <- MaxSessions, phase <- phase

\* Every step of the store is a step of the lease specification: a lease is
\* opened once, at most MaxSessions are open, an ended one is never reopened.
\* It needs a clock that does not go backwards.
ImplementsLease == Lease!Spec
=============================================================================
