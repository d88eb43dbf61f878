------------------------- MODULE SessionStoreProofs -------------------------
(***************************************************************************)
(* Proofs about the session store, for every value of its constants.       *)
(***************************************************************************)
EXTENDS SessionStore, FiniteSetTheorems, TLAPS

\* A step's effect on the map comes in four shapes, which the proofs below
\* treat one by one: entries are dropped (Shrinks), one entry is renewed,
\* one entry gets a role, one entry is added.
Shrinks ==
    \E S \in SUBSET DOMAIN sessions :
        sessions' = Retain(S) /\ UNCHANGED <<now, timeout, drawn>>

Renews(id) ==
    /\ id \in live
    /\ sessions' = [sessions EXCEPT ![id] = touch(@)]
    /\ UNCHANGED <<now, timeout, drawn>>

GivesRole(id, role) ==
    /\ id \in DOMAIN sessions
    /\ sessions' = [sessions EXCEPT ![id].role = role]
    /\ UNCHANGED <<now, timeout, drawn>>

OnlyClockOrTimeout ==
    /\ timeout' \in Nat /\ now' \in Nat
    /\ UNCHANGED <<sessions, drawn>>
    /\ timeout' = timeout => (Tick \/ now' = now)
    /\ timeout' # timeout => now' = now

Shape ==
    \/ Shrinks
    \/ \E id \in DOMAIN sessions : Renews(id)
    \/ \E id \in DOMAIN sessions, role \in Roles : GivesRole(id, role)
    \/ \E user \in Users, ip \in Clients, type \in {"Basic", "Token"}, id \in SessionIds :
          CreateNew(user, ip, type, id)
    \/ OnlyClockOrTimeout

\* A lookup drops the session or renews it.
LEMMA LookupShape ==
    ASSUME TypeOK, NEW id \in SessionIds, sessions' = LookedUp(id),
           UNCHANGED <<now, timeout, drawn>>
    PROVE  Shrinks \/ Renews(id)
<1>1. CASE id \in live
  BY <1>1 DEF LookedUp, Renews
<1>2. CASE id \notin live
  <2>1. DOMAIN sessions \ {id} \in SUBSET DOMAIN sessions
    OBVIOUS
  <2>2. QED
    BY <1>2, <2>1 DEF LookedUp, Shrinks
<1>3. QED
  BY <1>1, <1>2

\* Leaving the map alone is dropping nothing.
LEMMA KeepAll ==
    ASSUME TypeOK, sessions' = sessions, UNCHANGED <<now, timeout, drawn>>
    PROVE  Shrinks
<1>1. Retain(DOMAIN sessions) = sessions
  BY DEF Retain, TypeOK
<1>2. QED
  BY <1>1 DEF Shrinks

\* Every step of the store has one of the shapes.
LEMMA StepShape ==
    ASSUME TypeOK, [StoreNext]_storeVars
    PROVE  Shape
<1>0. live \in SUBSET DOMAIN sessions /\ drawn \subseteq SessionIds
  BY DEF live, TypeOK
<1>1. CASE CreateSession
  <2>1. CASE \E user \in Users, ip \in Clients, type \in {"Basic", "Token"} :
                 CreateRefused(user, ip, type)
    BY <1>0, <2>1 DEF CreateRefused, Shape, Shrinks
  <2>2. CASE \E user \in Users, ip \in Clients : \E id \in live : CreateReused(user, ip, id)
    BY <1>0, <2>2 DEF CreateReused, Shape, Shrinks
  <2>3. CASE \E user \in Users, ip \in Clients, type \in {"Basic", "Token"} :
                 \E id \in SessionIds : CreateNew(user, ip, type, id)
    BY <2>3 DEF Shape
  <2>4. QED
    BY <1>1, <2>1, <2>2, <2>3 DEF CreateSession
<1>2. ASSUME NEW id \in drawn, get_session(id)
      PROVE  Shape
  <2>1. Shrinks \/ Renews(id)
    BY <1>0, <1>2, LookupShape DEF get_session
  <2>2. QED
    BY <2>1 DEF Shape, Renews, live
<1>3. ASSUME NEW id \in drawn, get_session_by_token(id)
      PROVE  Shape
  <2>1. CASE HasToken(id)
    <3>1. Shrinks \/ Renews(id)
      BY <1>0, <1>3, <2>1, LookupShape DEF get_session_by_token
    <3>2. QED
      BY <3>1 DEF Shape, Renews, live
  <2>2. CASE ~ HasToken(id)
    BY <1>3, <2>2, KeepAll DEF get_session_by_token, Shape
  <2>3. QED
    BY <2>1, <2>2
<1>4. ASSUME NEW id \in drawn, delete_session(id)
      PROVE  Shape
  <2>1. DOMAIN sessions \ {id} \in SUBSET DOMAIN sessions
    OBVIOUS
  <2>2. QED
    BY <1>4, <2>1 DEF delete_session, Shape, Shrinks
<1>5. ASSUME NEW id \in drawn, NEW role \in Roles, set_session_role(id, role)
      PROVE  Shape
  <2>1. CASE id \in DOMAIN sessions
    BY <1>5, <2>1 DEF set_session_role, Shape, GivesRole
  <2>2. CASE id \notin DOMAIN sessions
    BY <1>5, <2>2, KeepAll DEF set_session_role, Shape
  <2>3. QED
    BY <2>1, <2>2
<1>6. ASSUME NEW user \in Users, delete_user_sessions(user)
      PROVE  Shape
  <2>1. {id \in DOMAIN sessions : sessions[id].username # user} \in SUBSET DOMAIN sessions
    OBVIOUS
  <2>2. QED
    BY <1>6, <2>1 DEF delete_user_sessions, Shape, Shrinks
<1>7. CASE PurgeExpired
  BY <1>0, <1>7 DEF PurgeExpired, Shape, Shrinks
<1>8. ASSUME NEW seconds \in MinTimeout..MaxTimeout, set_timeout_seconds(seconds)
      PROVE  Shape
  BY <1>8, StoreAssumption DEF set_timeout_seconds, Shape, OnlyClockOrTimeout, TypeOK
<1>9. CASE Tick
  BY <1>9, ClockAssumption DEF Tick, Advance, Shape, OnlyClockOrTimeout, TypeOK
<1>10. CASE UNCHANGED storeVars
  BY <1>10, KeepAll DEF storeVars, Shape
<1>11. QED
  BY <1>1, <1>2, <1>3, <1>4, <1>5, <1>6, <1>7, <1>8, <1>9, <1>10 DEF StoreNext

-----------------------------------------------------------------------------
(* The inductive invariant: the three invariants support each other only   *)
(* through the types, so their conjunction is inductive.                   *)

IInv == TypeOK /\ CapacityRespected /\ OneBasicSession

LEMMA InitIInv == StoreInit => IInv
<1> SUFFICES ASSUME StoreInit PROVE IInv
  OBVIOUS
<1>1. DOMAIN sessions = {}
  BY DEF StoreInit
<1>2. IsFiniteSet({}) /\ Cardinality({}) = 0
  BY FS_EmptySet
<1>3. TypeOK
  BY <1>1, <1>2, StoreAssumption DEF StoreInit, TypeOK
<1>4. CapacityRespected
  BY <1>1, <1>2, StoreAssumption DEF CapacityRespected
<1>5. QED
  BY <1>1, <1>3, <1>4 DEF IInv, OneBasicSession

\* A step that keeps the domain and, of each session, everything but expiry
\* and role, keeps the invariant once the new map is well typed.
LEMMA SameKeys ==
    ASSUME IInv, TypeOK', DOMAIN sessions' = DOMAIN sessions,
           \A id \in DOMAIN sessions :
              /\ sessions'[id].session_type = sessions[id].session_type
              /\ sessions'[id].username = sessions[id].username
              /\ sessions'[id].client_ip = sessions[id].client_ip
    PROVE  IInv'
<1>1. CapacityRespected'
  BY DEF IInv, CapacityRespected
<1>2. OneBasicSession'
  BY DEF IInv, OneBasicSession
<1>3. QED
  BY <1>1, <1>2 DEF IInv

LEMMA NewSessionType ==
    ASSUME TypeOK, NEW user \in Users, NEW ip \in Clients, NEW type \in {"Basic", "Token"}
    PROVE  NewSession(user, ip, type) \in UserSession
<1>1. now + timeout \in Int
  BY DEF TypeOK
<1>2. QED
  BY <1>1 DEF NewSession, UserSession, SessionTypes, Roles

LEMMA StepIInv == IInv /\ [StoreNext]_storeVars => IInv'
<1> SUFFICES ASSUME IInv, [StoreNext]_storeVars PROVE IInv'
  OBVIOUS
<1>t. TypeOK
  BY DEF IInv
<1>s. Shape
  BY <1>t, StepShape
<1>1. CASE Shrinks
  <2>1. PICK S \in SUBSET DOMAIN sessions :
           sessions' = Retain(S) /\ UNCHANGED <<now, timeout, drawn>>
    BY <1>1 DEF Shrinks
  <2>2. DOMAIN sessions' = S /\ \A id \in S : sessions'[id] = sessions[id]
    BY <2>1 DEF Retain
  <2>3. IsFiniteSet(S) /\ Cardinality(S) <= Cardinality(DOMAIN sessions)
    BY <1>t, FS_Subset DEF TypeOK
  <2>4. TypeOK'
    BY <1>t, <2>1, <2>2, <2>3 DEF TypeOK, Retain
  <2>5. CapacityRespected'
    <3>1. Cardinality(S) \in Nat /\ Cardinality(DOMAIN sessions) \in Nat
      BY <1>t, <2>3, FS_CardinalityType DEF TypeOK
    <3>2. QED
      BY <2>2, <2>3, <3>1, StoreAssumption DEF IInv, CapacityRespected
  <2>6. OneBasicSession'
    BY <2>2 DEF IInv, OneBasicSession
  <2>7. QED
    BY <2>4, <2>5, <2>6 DEF IInv
<1>2. ASSUME NEW id \in DOMAIN sessions, Renews(id)
      PROVE  IInv'
  <2>1. sessions[id] \in UserSession /\ now + timeout \in Int
    BY <1>t DEF TypeOK
  <2>2. touch(sessions[id]) \in UserSession
    BY <2>1 DEF touch, UserSession
  <2>3. TypeOK'
    BY <1>t, <1>2, <2>2 DEF TypeOK, Renews
  <2>4. /\ DOMAIN sessions' = DOMAIN sessions
        /\ \A i \in DOMAIN sessions :
              /\ sessions'[i].session_type = sessions[i].session_type
              /\ sessions'[i].username = sessions[i].username
              /\ sessions'[i].client_ip = sessions[i].client_ip
    BY <1>t, <1>2, <2>1 DEF TypeOK, Renews, touch, UserSession
  <2>5. QED
    BY <2>3, <2>4, SameKeys
<1>3. ASSUME NEW id \in DOMAIN sessions, NEW role \in Roles, GivesRole(id, role)
      PROVE  IInv'
  <2>1. sessions[id] \in UserSession
    BY <1>t DEF TypeOK
  <2>2. [sessions[id] EXCEPT !.role = role] \in UserSession
    BY <2>1 DEF UserSession
  <2>3. TypeOK'
    BY <1>t, <1>3, <2>2 DEF TypeOK, GivesRole
  <2>4. /\ DOMAIN sessions' = DOMAIN sessions
        /\ \A i \in DOMAIN sessions :
              /\ sessions'[i].session_type = sessions[i].session_type
              /\ sessions'[i].username = sessions[i].username
              /\ sessions'[i].client_ip = sessions[i].client_ip
    BY <1>t, <1>3, <2>1 DEF TypeOK, GivesRole, UserSession
  <2>5. QED
    BY <2>3, <2>4, SameKeys
<1>4. ASSUME NEW user \in Users, NEW ip \in Clients, NEW type \in {"Basic", "Token"},
             NEW id \in SessionIds, CreateNew(user, ip, type, id)
      PROVE  IInv'
  <2>1. live \in SUBSET DOMAIN sessions /\ id \notin DOMAIN sessions
    BY <1>t, <1>4 DEF live, TypeOK, CreateNew
  <2>2. /\ DOMAIN sessions' = live \cup {id}
        /\ \A s \in live : sessions'[s] = sessions[s]
        /\ sessions'[id] = NewSession(user, ip, type)
    BY <1>4, <2>1 DEF CreateNew
  <2>3. IsFiniteSet(live)
    BY <1>t, <2>1, FS_Subset DEF TypeOK
  <2>4. /\ IsFiniteSet(live \cup {id})
        /\ Cardinality(live \cup {id}) = Cardinality(live) + 1
    BY <2>1, <2>3, FS_AddElement
  <2>5. TypeOK'
    <3>1. sessions' \in [DOMAIN sessions' -> UserSession]
      BY <1>t, <1>4, <2>1, <2>2, NewSessionType DEF TypeOK, CreateNew
    <3>2. QED
      BY <1>t, <1>4, <2>1, <2>2, <2>4, <3>1 DEF TypeOK, CreateNew
  <2>6. CapacityRespected'
    <3>1. Cardinality(live) \in Nat
      BY <2>3, FS_CardinalityType
    <3>2. QED
      BY <1>4, <2>2, <2>4, <3>1, StoreAssumption DEF CreateNew, HasRoom, CapacityRespected
  <2>7. OneBasicSession'
    <3>1. /\ sessions'[id].session_type = type
          /\ sessions'[id].username = user
          /\ sessions'[id].client_ip = ip
      BY <2>2 DEF NewSession
    <3>2. ASSUME NEW a \in live,
                 sessions[a].session_type = "Basic", type = "Basic",
                 sessions[a].username = user, sessions[a].client_ip = ip
          PROVE  FALSE
      BY <1>4, <3>2 DEF CreateNew, Reusable
    <3>3. QED
      BY <2>1, <2>2, <3>1, <3>2 DEF IInv, OneBasicSession
  <2>8. QED
    BY <2>5, <2>6, <2>7 DEF IInv
<1>5. CASE OnlyClockOrTimeout
  <2>1. TypeOK'
    BY <1>t, <1>5, ClockAssumption DEF TypeOK, OnlyClockOrTimeout
  <2>2. QED
    BY <1>5, <2>1, SameKeys DEF OnlyClockOrTimeout
<1>6. QED
  BY <1>s, <1>1, <1>2, <1>3, <1>4, <1>5 DEF Shape

\* The store is well typed in every reachable state, whatever the constants.
THEOREM TypeCorrect == StoreSpec => []TypeOK
<1>1. IInv => TypeOK
  BY DEF IInv
<1>2. QED
  BY InitIInv, StepIInv, <1>1, PTL DEF StoreSpec

\* create_session keeps the map within max_sessions.
THEOREM CapacityCorrect == StoreSpec => []CapacityRespected
<1>1. IInv => CapacityRespected
  BY DEF IInv
<1>2. QED
  BY InitIInv, StepIInv, <1>1, PTL DEF StoreSpec

\* A user at an address has at most one Basic session.
THEOREM OneBasicCorrect == StoreSpec => []OneBasicSession
<1>1. IInv => OneBasicSession
  BY DEF IInv
<1>2. QED
  BY InitIInv, StepIInv, <1>1, PTL DEF StoreSpec

\* No operation brings back a session that was removed: only create_session
\* adds to the map, and it adds an id never drawn before.
THEOREM RemovedStaysRemovedCorrect == StoreSpec => RemovedStaysRemoved
<1> DEFINE Step == \A id \in drawn : id \notin DOMAIN sessions => id \notin (DOMAIN sessions)'
<1>1. TypeOK /\ [StoreNext]_storeVars => [Step]_storeVars
  <2> SUFFICES ASSUME TypeOK, [StoreNext]_storeVars,
                      NEW id \in drawn, id \notin DOMAIN sessions
               PROVE  id \notin (DOMAIN sessions)'
    OBVIOUS
  <2>1. Shape
    BY StepShape
  <2>2. CASE Shrinks
    BY <2>2 DEF Shrinks, Retain
  <2>3. CASE \E s \in DOMAIN sessions : Renews(s)
    BY <2>3 DEF Renews
  <2>4. CASE \E s \in DOMAIN sessions, role \in Roles : GivesRole(s, role)
    BY <2>4 DEF GivesRole
  <2>5. CASE \E user \in Users, ip \in Clients, type \in {"Basic", "Token"}, s \in SessionIds :
                 CreateNew(user, ip, type, s)
    BY <2>5 DEF CreateNew, live
  <2>6. CASE OnlyClockOrTimeout
    BY <2>6 DEF OnlyClockOrTimeout
  <2>7. QED
    BY <2>1, <2>2, <2>3, <2>4, <2>5, <2>6 DEF Shape
<1>2. QED
  BY TypeCorrect, <1>1, PTL DEF StoreSpec, RemovedStaysRemoved

-----------------------------------------------------------------------------
(* The store implements the lease specification when the clock never goes  *)
(* backwards.                                                              *)

\* If no id is drawn and no session becomes live, leases only end.
LEMMA LeasesEnd ==
    ASSUME TypeOK, drawn' = drawn, live' \subseteq live
    PROVE  Lease!Next \/ UNCHANGED phase
<1> DEFINE ended == live \ live'
<1>1. live \subseteq drawn /\ drawn \subseteq SessionIds
  BY DEF TypeOK, live
<1>2. live = {id \in SessionIds : phase[id] = "open"}
  BY <1>1 DEF phase
<1>3. ended \in SUBSET Lease!InPhase("open")
  BY <1>1, <1>2 DEF Lease!InPhase
<1>4. phase' = [i \in SessionIds |-> IF i \in ended THEN "closed" ELSE phase[i]]
  BY <1>1 DEF phase
<1>5. QED
  BY <1>3, <1>4 DEF Lease!Next, Lease!End

\* A shape that keeps clock, timeout and drawn and does not shorten a lease
\* below now leaves every session that was not live not live.
LEMMA LiveShrinks ==
    ASSUME TypeOK, DOMAIN sessions' \subseteq DOMAIN sessions, now' = now,
           \A id \in DOMAIN sessions' :
              id \in live \/ sessions'[id].expires_at = sessions[id].expires_at
    PROVE  live' \subseteq live
BY DEF live, is_expired, TypeOK

LEMMA StepLease ==
    ClockAdvances /\ IInv /\ [StoreNext]_storeVars => [Lease!Next]_phase
<1> SUFFICES ASSUME ClockAdvances, IInv, [StoreNext]_storeVars
             PROVE  Lease!Next \/ UNCHANGED phase
  OBVIOUS
<1>t. TypeOK
  BY DEF IInv
<1>s. Shape
  BY <1>t, StepShape
<1>1. CASE Shrinks
  <2>1. PICK S \in SUBSET DOMAIN sessions :
           sessions' = Retain(S) /\ UNCHANGED <<now, timeout, drawn>>
    BY <1>1 DEF Shrinks
  <2>2. live' \subseteq live
    BY <1>t, <2>1, LiveShrinks DEF Retain
  <2>3. QED
    BY <1>t, <2>1, <2>2, LeasesEnd
<1>2. ASSUME NEW id \in DOMAIN sessions, Renews(id)
      PROVE  Lease!Next \/ UNCHANGED phase
  <2>1. live' \subseteq live
    BY <1>t, <1>2, LiveShrinks DEF Renews, TypeOK
  <2>2. QED
    BY <1>t, <1>2, <2>1, LeasesEnd DEF Renews
<1>3. ASSUME NEW id \in DOMAIN sessions, NEW role \in Roles, GivesRole(id, role)
      PROVE  Lease!Next \/ UNCHANGED phase
  <2>1. sessions[id] \in UserSession
    BY <1>t DEF TypeOK
  <2>2. [sessions[id] EXCEPT !.role = role].expires_at = sessions[id].expires_at
    BY <2>1 DEF UserSession
  <2>3. \A i \in DOMAIN sessions' : sessions'[i].expires_at = sessions[i].expires_at
    BY <1>t, <1>3, <2>2 DEF GivesRole, TypeOK
  <2>4. DOMAIN sessions' = DOMAIN sessions /\ now' = now /\ drawn' = drawn
    BY <1>t, <1>3 DEF GivesRole, TypeOK
  <2>5. live' \subseteq live
    BY <1>t, <2>3, <2>4, LiveShrinks
  <2>6. QED
    BY <1>t, <2>4, <2>5, LeasesEnd
<1>4. ASSUME NEW user \in Users, NEW ip \in Clients, NEW type \in {"Basic", "Token"},
             NEW id \in SessionIds, CreateNew(user, ip, type, id)
      PROVE  Lease!Next \/ UNCHANGED phase
  <2>1. /\ live \subseteq drawn /\ drawn \subseteq SessionIds
        /\ live \subseteq DOMAIN sessions /\ id \notin drawn /\ id \notin live
    BY <1>t, <1>4 DEF TypeOK, live, CreateNew
  <2>2. /\ DOMAIN sessions' = live \cup {id}
        /\ \A s \in live : sessions'[s] = sessions[s]
        /\ sessions'[id] = NewSession(user, ip, type)
        /\ now' = now /\ drawn' = drawn \cup {id}
    BY <1>4, <2>1 DEF CreateNew
  <2>3. live' = live \cup {id}
    <3>1. ~ (now > sessions'[id].expires_at)
      BY <1>t, <2>2 DEF NewSession, TypeOK
    <3>2. QED
      BY <1>t, <2>1, <2>2, <3>1 DEF live, is_expired, TypeOK
  <2>4. phase[id] = "unused"
    BY <2>1 DEF phase
  <2>5. phase' = [i \in SessionIds |->
                     IF i = id THEN "open" ELSE IF i \in {} THEN "closed" ELSE phase[i]]
    BY <2>1, <2>2, <2>3 DEF phase
  <2>6. Cardinality((Lease!InPhase("open"))') <= MaxSessions
    <3>1. (Lease!InPhase("open"))' = live \cup {id}
      BY <2>1, <2>2, <2>3 DEF Lease!InPhase, phase
    <3>2. DOMAIN sessions' = live \cup {id} /\ CapacityRespected'
      BY <2>2, StepIInv DEF IInv
    <3>3. QED
      BY <3>1, <3>2 DEF CapacityRespected
  <2>7. {} \in SUBSET Lease!InPhase("open")
    OBVIOUS
  <2>8. Lease!Open(id)
    <3>1. \E ended \in SUBSET Lease!InPhase("open") :
             phase' = [i \in SessionIds |->
                         IF i = id THEN "open"
                         ELSE IF i \in ended THEN "closed" ELSE phase[i]]
      BY <2>5, <2>7
    <3>2. QED
      BY <2>4, <2>6, <3>1 DEF Lease!Open, Lease!InPhase, Lease!Cardinality, Cardinality
  <2>9. QED
    BY <2>8 DEF Lease!Next
<1>5. CASE OnlyClockOrTimeout
  <2>1. now' >= now
    BY <1>t, <1>5, ClockAssumption DEF OnlyClockOrTimeout, Tick, Advance, ClockAdvances, TypeOK
  <2>2. live' \subseteq live
    BY <1>t, <1>5, <2>1 DEF OnlyClockOrTimeout, live, is_expired, TypeOK, UserSession
  <2>3. QED
    BY <1>t, <1>5, <2>2, LeasesEnd DEF OnlyClockOrTimeout
<1>6. QED
  BY <1>s, <1>1, <1>2, <1>3, <1>4, <1>5 DEF Shape

\* With a clock that only advances, the store implements the leases: no
\* session is honoured again after it expired or was deleted, and at most
\* max_sessions are honoured at a time.
THEOREM StoreImplementsLease == ClockAdvances => (StoreSpec => ImplementsLease)
<1>1. StoreInit => Lease!Init
  BY DEF StoreInit, Lease!Init, phase, live
<1>2. CASE ClockAdvances
  <2>1. IInv /\ [StoreNext]_storeVars => [Lease!Next]_phase
    BY <1>2, StepLease
  <2>2. QED
    BY <1>1, <2>1, InitIInv, StepIInv, PTL DEF StoreSpec, ImplementsLease, Lease!Spec
<1>3. QED
  BY <1>2
=============================================================================
