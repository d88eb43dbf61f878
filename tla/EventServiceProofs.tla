------------------------- MODULE EventServiceProofs -------------------------
(***************************************************************************)
(* Subscriptions and deliveries, for any number of subscribers and events  *)
(* and whatever clients ask for.  That a delivery was asked for does not   *)
(* follow from the current subscriptions, which may be gone: every task    *)
(* under way carries its own warrant, and a subscription's types are those *)
(* of the request that created it for as long as it exists.                *)
(***************************************************************************)
EXTENDS EventService, FiniteSetTheorems, TLAPS

\* What a request for these types subscribes to.
TypesFor(types) == IF types = {} THEN {"Alert"} ELSE types

\* The delivery d was asked for and its subscription was there.
Warranted(d) ==
    /\ d[2] \in DOMAIN events
    /\ d[1] \in events[d[2]].there
    /\ d[1] \in DOMAIN wanted
    /\ events[d[2]].type \in TypesFor(wanted[d[1]])

\* A subscription has the types of the request that created it.
AsCreated ==
    \A id \in DOMAIN subscriptions :
        subscriptions[id].event_types = TypesFor(wanted[id])

\* A task that has not posted yet has posted nothing.
NotYetPosted ==
    \A d \in DOMAIN sends : sends[d] \in {"connecting", "posting"} => posts[d] = 0

\* The inductive invariant.
EventInv ==
    /\ EventTypeOK
    /\ IsFiniteSet(DOMAIN subscriptions)
    /\ AsCreated
    /\ \A d \in DOMAIN sends : Warranted(d)
    /\ NotYetPosted
    /\ \A d \in Deliveries : posts[d] <= 1
    /\ \A d \in Deliveries : posts[d] > 0 => Warranted(d)

LEMMA EventInit_Inv == EventInit => EventInv
<1> SUFFICES ASSUME EventInit PROVE EventInv
  OBVIOUS
<1>1. DOMAIN subscriptions = {} /\ DOMAIN sends = {} /\ DOMAIN wanted = {}
  BY DEF EventInit
<1>2. IsFiniteSet(DOMAIN subscriptions) /\ Cardinality(DOMAIN subscriptions) <= MaxSubscriptions
  BY <1>1, FS_EmptySet, EventAssumption
<1>3. EventTypeOK
  BY <1>1, <1>2 DEF EventInit, EventTypeOK, Settings, Subscription
<1> QED
  BY <1>1, <1>2, <1>3 DEF EventInit, EventInv, AsCreated, NotYetPosted

\* A refused PATCH is no step, and one that is not refused keeps the ranges.
LEMMA PatchKeepsType ==
    ASSUME EventTypeOK, NEW enabled \in BOOLEAN,
           NEW attempts \in Attempts, NEW interval \in Intervals,
           PatchEventService(enabled, attempts, interval)
    PROVE  EventTypeOK'
BY EventAssumption
   DEF EventTypeOK, PatchEventService, update_settings, ValidAttempts, ValidInterval,
       Given, Absent, Settings

\* The limit is checked before the one subscription is added.
LEMMA CreateKeepsType ==
    ASSUME EventInv, NEW id \in SubscriptionIds, NEW types \in Asked,
           CreateSubscription(id, types)
    PROVE  EventTypeOK' /\ IsFiniteSet((DOMAIN subscriptions)')
<1>1. (DOMAIN subscriptions)' = DOMAIN subscriptions \cup {id}
  BY DEF CreateSubscription
<1>2. /\ IsFiniteSet(DOMAIN subscriptions \cup {id})
      /\ Cardinality(DOMAIN subscriptions \cup {id}) <= Cardinality(DOMAIN subscriptions) + 1
  <2> DEFINE S == DOMAIN subscriptions
  <2>1. IsFiniteSet(S)
    BY DEF EventInv
  <2>2. Cardinality(S) \in Nat
    BY <2>1, FS_CardinalityType
  <2>3. /\ IsFiniteSet(S \cup {id})
        /\ Cardinality(S \cup {id}) = IF id \in S THEN Cardinality(S) ELSE Cardinality(S) + 1
    BY <2>1, FS_AddElement
  <2> HIDE DEF S
  <2>4. Cardinality(S \cup {id}) <= Cardinality(S) + 1
    BY <2>2, <2>3
  <2> QED
    BY <2>3, <2>4 DEF S
<1>3. Cardinality(DOMAIN subscriptions \cup {id}) <= MaxSubscriptions
  BY <1>2, FS_CardinalityType, EventAssumption DEF CreateSubscription, EventInv
<1>4. subscriptions' \in [(DOMAIN subscriptions)' -> Subscription]
  BY <1>1 DEF CreateSubscription, EventInv, EventTypeOK, Subscription, EventType
<1> QED
  BY <1>1, <1>2, <1>3, <1>4 DEF CreateSubscription, EventInv, EventTypeOK

LEMMA DeleteKeepsType ==
    ASSUME EventInv, NEW id \in SubscriptionIds, DeleteSubscription(id)
    PROVE  EventTypeOK' /\ IsFiniteSet((DOMAIN subscriptions)')
<1>1. (DOMAIN subscriptions)' = DOMAIN subscriptions \ {id}
  BY DEF DeleteSubscription
<1>2. /\ IsFiniteSet(DOMAIN subscriptions \ {id})
      /\ Cardinality(DOMAIN subscriptions \ {id}) <= Cardinality(DOMAIN subscriptions)
  BY FS_Subset DEF EventInv
<1>3. Cardinality(DOMAIN subscriptions \ {id}) <= MaxSubscriptions
  BY <1>2, FS_CardinalityType, EventAssumption DEF EventInv, EventTypeOK
<1> QED
  BY <1>1, <1>2, <1>3 DEF DeleteSubscription, EventInv, EventTypeOK

\* A published event is new, so no task has posted it; and whoever it is sent
\* to was there and had asked for its type.
LEMMA PublishKeepsInv ==
    ASSUME EventInv, NEW event \in EventIds, NEW name \in Submitted, Publish(event, name)
    PROVE  EventInv'
<1> DEFINE type == EventOf(name)
           new == Interested(type) \X {event}
<1>1. /\ event \notin DOMAIN events
      /\ (DOMAIN events)' = DOMAIN events \cup {event}
      /\ events'[event] = [type |-> type, there |-> DOMAIN subscriptions]
      /\ \A e \in DOMAIN events : events'[e] = events[e]
  BY DEF Publish
<1>2. /\ (DOMAIN sends)' = DOMAIN sends \cup new
      /\ \A d \in DOMAIN sends : sends'[d] = sends[d]
      /\ \A d \in new \ DOMAIN sends : sends'[d] = "connecting"
  BY DEF Publish
<1>3. UNCHANGED <<settings, subscriptions, wanted, posts>>
  BY DEF Publish
<1>4. new \subseteq Deliveries
  BY DEF Interested, Deliveries, EventInv, EventTypeOK
<1>5. \A d : Warranted(d) => Warranted(d)'
  BY <1>1, <1>3 DEF Warranted
<1>6. \A d \in new : Warranted(d)'
  <2> SUFFICES ASSUME NEW id \in Interested(type) PROVE Warranted(<<id, event>>)'
    BY <1>4
  <2>1. id \in DOMAIN subscriptions /\ type \in subscriptions[id].event_types
    BY DEF Interested, is_interested_in
  <2>2. id \in DOMAIN wanted /\ type \in TypesFor(wanted[id])
    BY <2>1 DEF EventInv, EventTypeOK, AsCreated
  <2> QED
    BY <1>1, <1>3, <2>1, <2>2 DEF Warranted
<1>7. \A d \in new : posts[d] = 0
  BY <1>1, <1>4 DEF EventInv, EventTypeOK, Warranted
<1>8. EventTypeOK'
  BY <1>2, <1>3, <1>4, Zenon DEF Publish, EventInv, EventTypeOK
<1>9. NotYetPosted'
  BY <1>2, <1>3, <1>7 DEF EventInv, NotYetPosted
<1> QED
  BY <1>2, <1>3, <1>5, <1>6, <1>8, <1>9 DEF EventInv, AsCreated

\* The delivery tasks: they end, or they move on after posting at most once.
LEMMA SendKeepsInv ==
    ASSUME EventInv, NEW d \in Deliveries, Reach(d) \/ Post(d) \/ AnswerArrives(d)
    PROVE  EventInv'
<1>1. d \in DOMAIN sends /\ Warranted(d)
  BY DEF EventInv, Reach, Post, AnswerArrives, Sending
<1>2. UNCHANGED <<settings, subscriptions, wanted, events>>
  BY DEF Reach, Post, AnswerArrives
<1>3. \A x : Warranted(x)' <=> Warranted(x)
  BY <1>2 DEF Warranted
<1>4. CASE Reach(d)
  BY <1>1, <1>2, <1>3, <1>4
     DEF Reach, Finish, Sending, EventInv, EventTypeOK, AsCreated, NotYetPosted
<1>5. CASE Post(d)
  BY <1>1, <1>2, <1>3, <1>5
     DEF Post, Finish, Sending, EventInv, EventTypeOK, AsCreated, NotYetPosted
<1>6. CASE AnswerArrives(d)
  BY <1>1, <1>2, <1>3, <1>6
     DEF AnswerArrives, Finish, EventInv, EventTypeOK, AsCreated, NotYetPosted
<1> QED
  BY <1>4, <1>5, <1>6

LEMMA EventNext_Inv == EventInv /\ [EventNext]_eventVars => EventInv'
<1> SUFFICES ASSUME EventInv, [EventNext]_eventVars PROVE EventInv'
  OBVIOUS
<1>1. ASSUME NEW enabled \in BOOLEAN, NEW attempts \in Attempts, NEW interval \in Intervals,
             PatchEventService(enabled, attempts, interval)
      PROVE  EventInv'
  BY <1>1, PatchKeepsType
     DEF PatchEventService, EventInv, AsCreated, NotYetPosted, Warranted
<1>2. ASSUME NEW id \in SubscriptionIds, NEW types \in Asked, CreateSubscription(id, types)
      PROVE  EventInv'
  <2>1. \A d : Warranted(d) => Warranted(d)'
    BY <1>2 DEF CreateSubscription, Warranted
  <2>2. AsCreated'
    BY <1>2 DEF CreateSubscription, EventInv, EventTypeOK, AsCreated, TypesFor
  <2> QED
    BY <1>2, <2>1, <2>2, CreateKeepsType DEF CreateSubscription, EventInv, NotYetPosted
<1>3. ASSUME NEW id \in SubscriptionIds, NEW enabled \in BOOLEAN, update_subscription(id, enabled)
      PROVE  EventInv'
  <2>1. EventTypeOK' /\ AsCreated'
    BY <1>3 DEF update_subscription, EventInv, EventTypeOK, AsCreated, Subscription
  <2> QED
    BY <1>3, <2>1 DEF update_subscription, EventInv, NotYetPosted, Warranted
<1>4. ASSUME NEW id \in SubscriptionIds, DeleteSubscription(id)
      PROVE  EventInv'
  BY <1>4, DeleteKeepsType
     DEF DeleteSubscription, EventInv, AsCreated, NotYetPosted, Warranted
<1>5. CASE UNCHANGED eventVars
  BY <1>5 DEF eventVars, EventInv, EventTypeOK, AsCreated, NotYetPosted, Warranted
<1> QED
  BY <1>1, <1>2, <1>3, <1>4, <1>5, PublishKeepsInv, SendKeepsInv DEF EventNext

LEMMA EventInvCorrect == EventSpec => []EventInv
BY EventInit_Inv, EventNext_Inv, PTL DEF EventSpec

\* The types, the limit on subscriptions and the ranges of the settings.
THEOREM EventTypeCorrect == EventSpec => []EventTypeOK
BY EventInvCorrect, PTL DEF EventInv

\* No subscriber gets an event twice, or one it did not ask for, however its
\* subscription is changed or deleted while the event is on its way.
THEOREM DeliveredAsAskedCorrect == EventSpec => []DeliveredAsAsked
<1>1. EventInv => DeliveredAsAsked
  BY DEF EventInv, EventTypeOK, DeliveredAsAsked, Warranted, TypesFor
<1> QED
  BY <1>1, EventInvCorrect, PTL

-----------------------------------------------------------------------------
(* The fan-out.  Copies of events that are not published are nowhere: no   *)
(* task has one and none was posted; so publishing decides for each copy,  *)
(* and after that only its own task moves it.                              *)

\* What the invariant leaves of Fate.
FateSays ==
    \A d \in Deliveries :
        /\ posts[d] \in {0, 1}
        /\ posts[d] = 1 => Fate(d) = "arrived"
        /\ posts[d] = 0 /\ d \in DOMAIN sends => Fate(d) = "underway"
        /\ posts[d] = 0 /\ d \notin DOMAIN sends /\ d[2] \in DOMAIN events => Fate(d) = "missed"
        /\ d[2] \notin DOMAIN events => d \notin DOMAIN sends /\ posts[d] = 0
        /\ posts[d] = 0 /\ d \notin DOMAIN sends /\ d[2] \notin DOMAIN events =>
              Fate(d) = "unpublished"

LEMMA FateFromInv == EventInv => FateSays
<1> SUFFICES ASSUME EventInv, NEW d \in Deliveries
             PROVE  /\ posts[d] \in {0, 1}
                    /\ posts[d] = 1 => Fate(d) = "arrived"
                    /\ posts[d] = 0 /\ d \in DOMAIN sends => Fate(d) = "underway"
                    /\ posts[d] = 0 /\ d \notin DOMAIN sends /\ d[2] \in DOMAIN events => Fate(d) = "missed"
                    /\ d[2] \notin DOMAIN events => d \notin DOMAIN sends /\ posts[d] = 0
                    /\ posts[d] = 0 /\ d \notin DOMAIN sends /\ d[2] \notin DOMAIN events =>
                          Fate(d) = "unpublished"
  BY DEF FateSays
<1>1. posts[d] \in {0, 1}
  BY DEF EventInv, EventTypeOK
<1>2. d[2] \notin DOMAIN events => d \notin DOMAIN sends /\ posts[d] = 0
  BY <1>1 DEF EventInv, Warranted
<1> QED
  BY <1>1, <1>2 DEF Fate

\* Each copy has one of the fates of the abstract specification.
FatesTyped == [d \in Deliveries |-> Fate(d)] \in [Deliveries -> Fanned!Fates]

LEMMA FatesFromSays == FateSays => FatesTyped
<1> SUFFICES ASSUME FateSays, NEW d \in Deliveries
             PROVE  Fate(d) \in {"unpublished", "underway", "arrived", "missed"}
  BY DEF FatesTyped, Fanned!Fates
<1> QED
  BY DEF FateSays

LEMMA FanoutStep ==
    ASSUME EventInv, FateSays, FateSays', EventNext
    PROVE  Fanned!Next \/ UNCHANGED [d \in Deliveries |-> Fate(d)]
<1> DEFINE fate == [d \in Deliveries |-> Fate(d)]
<1>t. fate' \in [Deliveries -> Fanned!Fates]
  <2>1. FatesTyped'
    BY FatesFromSays, PTL
  <2> QED
    BY <2>1 DEF FatesTyped
<1>1. CASE UNCHANGED <<posts, sends, events>>
  BY <1>1 DEF Fate
<1>2. ASSUME NEW event \in EventIds, NEW name \in Submitted, Publish(event, name)
      PROVE  Fanned!Publish(event)
  <2>1. /\ event \notin DOMAIN events /\ (DOMAIN events)' = DOMAIN events \cup {event}
        /\ posts' = posts
        /\ (DOMAIN sends)' = DOMAIN sends \cup (Interested(EventOf(name)) \X {event})
    BY <1>2 DEF Publish
  <2>2. ASSUME NEW id \in SubscriptionIds
        PROVE  /\ fate[<<id, event>>] = "unpublished"
               /\ fate'[<<id, event>>] \in {"underway", "missed"}
    <3> DEFINE d == <<id, event>>
    <3>1. d \in Deliveries /\ d[2] = event
      BY DEF Deliveries
    <3>2. posts[d] = 0 /\ d \notin DOMAIN sends /\ Fate(d) = "unpublished"
      BY <2>1, <3>1 DEF FateSays
    <3>3. posts'[d] = 0 /\ d[2] \in (DOMAIN events)'
      BY <2>1, <3>1, <3>2
    <3>4. Fate(d)' \in {"underway", "missed"}
      BY <3>1, <3>3 DEF FateSays
    <3> QED
      BY <3>1, <3>2, <3>4
  <2>3. ASSUME NEW d \in Deliveries, d[2] # event
        PROVE  fate'[d] = fate[d]
    <3>1. d \in (DOMAIN sends)' <=> d \in DOMAIN sends
      BY <2>1, <2>3
    <3>2. d[2] \in (DOMAIN events)' <=> d[2] \in DOMAIN events
      BY <2>1, <2>3
    <3>3. posts'[d] = posts[d]
      BY <2>1
    <3> QED
      BY <3>1, <3>2, <3>3 DEF FateSays
  <2> QED
    BY <1>t, <2>2, <2>3 DEF Fanned!Publish, Fanned!Copies, Deliveries
<1>3. ASSUME NEW d \in Deliveries, Reach(d) \/ Post(d) \/ AnswerArrives(d)
      PROVE  Fanned!Leave(d) \/ UNCHANGED fate
  <2>1. d \in DOMAIN sends /\ events' = events /\ d[2] \in DOMAIN events
    BY <1>3 DEF Reach, Post, AnswerArrives, Sending, FateSays
  <2>2. /\ (DOMAIN sends)' \in {DOMAIN sends, DOMAIN sends \ {d}}
        /\ \A x \in Deliveries \ {d} : posts'[x] = posts[x]
    BY <1>3 DEF Reach, Post, AnswerArrives, Finish, EventInv, EventTypeOK
  <2>3. ASSUME NEW x \in Deliveries \ {d}
        PROVE  Fate(x)' = Fate(x)
    <3>1. /\ x \in (DOMAIN sends)' <=> x \in DOMAIN sends
          /\ posts'[x] = posts[x] /\ events' = events
      BY <2>1, <2>2
    <3> QED
      BY <3>1 DEF FateSays
  <2>4. posts[d] = 1 => posts'[d] = 1
    BY <1>3, <2>1 DEF Reach, Post, AnswerArrives, Sending, EventInv, NotYetPosted
  <2>5. posts'[d] = 0 \/ posts'[d] = 1
    BY DEF FateSays
  <2>6. CASE posts[d] = 1
    <3>1. Fate(d) = "arrived" /\ Fate(d)' = "arrived"
      BY <2>4, <2>6 DEF FateSays
    <3> QED
      BY <2>3, <3>1
  <2>7. CASE posts[d] = 0 /\ posts'[d] = 0 /\ d \in (DOMAIN sends)'
    <3>1. Fate(d) = "underway" /\ Fate(d)' = "underway"
      BY <2>1, <2>7 DEF FateSays
    <3> QED
      BY <2>3, <3>1
  <2>8. CASE posts[d] = 0 /\ (posts'[d] = 1 \/ d \notin (DOMAIN sends)')
    <3>1. Fate(d) = "underway" /\ Fate(d)' \in {"arrived", "missed"}
      BY <2>1, <2>5, <2>8 DEF FateSays
    <3>2. fate' = [fate EXCEPT ![d] = Fate(d)']
      BY <2>3
    <3> QED
      BY <3>1, <3>2 DEF Fanned!Leave
  <2> QED
    BY <2>5, <2>6, <2>7, <2>8 DEF FateSays
<1>4. ASSUME NEW id \in SubscriptionIds,
             \/ \E types \in Asked : CreateSubscription(id, types)
             \/ \E enabled \in BOOLEAN : update_subscription(id, enabled)
             \/ DeleteSubscription(id)
      PROVE  UNCHANGED <<posts, sends, events>>
  BY <1>4 DEF CreateSubscription, update_subscription, DeleteSubscription
<1>5. ASSUME NEW enabled, NEW attempts, NEW interval,
             PatchEventService(enabled, attempts, interval)
      PROVE  UNCHANGED <<posts, sends, events>>
  BY <1>5 DEF PatchEventService
<1> QED
  BY <1>1, <1>2, <1>3, <1>4, <1>5 DEF EventNext, Fanned!Next, Fanned!Copies, Deliveries

\* The deliveries are a fan-out decided once, at publication.
THEOREM ImplementsFanoutCorrect == EventSpec => ImplementsFanout
<1>1. EventInit => Fanned!Init
  BY DEF EventInit, Fate, Fanned!Init, Fanned!Copies, Deliveries
<1>2. EventInv /\ EventInv' /\ [EventNext]_eventVars =>
         [Fanned!Next]_([d \in Deliveries |-> Fate(d)])
  <2>1. CASE UNCHANGED eventVars
    BY <2>1 DEF eventVars, Fate
  <2>2. ASSUME EventInv, EventInv'
        PROVE  FateSays /\ FateSays'
    BY <2>2, FateFromInv, PTL
  <2> QED
    BY <2>1, <2>2, FanoutStep
<1> QED
  BY <1>1, <1>2, EventInvCorrect, PTL DEF EventSpec, ImplementsFanout, Fanned!Spec
=============================================================================
