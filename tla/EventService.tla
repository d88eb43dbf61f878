---------------------------- MODULE EventService ----------------------------
(***************************************************************************)
(* Event subscriptions and deliveries (services/event.rs), and the Redfish *)
(* handlers over them (api/redfish/event_service.rs).                      *)
(*                                                                         *)
(* publish_event picks the interested subscriptions under the read lock    *)
(* and spawns one task for each: the task connects, posts the event once   *)
(* and waits for the answer, while the subscription may be disabled or     *)
(* deleted and other events published.  No handler awaits anything else,   *)
(* so each handler is one action.                                          *)
(***************************************************************************)
EXTENDS Integers, FiniteSets, Privilege

CONSTANTS
    SubscriptionIds,    \* the UUIDs EventSubscription::new may draw
    MaxSubscriptions,   \* max_subscriptions, 64 in AppState
    EventIds,           \* the UUIDs EventMessage::new may draw
    Asked,              \* the EventTypes of the POST bodies: sets of names
    Submitted,          \* the EventType names of SubmitTestEvent
    Attempts,           \* DeliveryRetryAttempts of the PATCH bodies
    Intervals           \* DeliveryRetryIntervalSeconds of the PATCH bodies

ASSUME EventAssumption ==
    /\ MaxSubscriptions \in Nat
    /\ Attempts \subseteq Int /\ Intervals \subseteq Int

VARIABLES
    settings,       \* EventServiceSettings
    subscriptions,  \* the HashMap: subscription id -> subscription
    sends,          \* the spawned deliveries, by subscription and event
    wanted,         \* history: what each subscription asked for
    events,         \* history: the events published, and who was there
    posts           \* history: how often each event reached each subscriber

eventVars == <<settings, subscriptions, sends, wanted, events, posts>>

EventType == {"StatusChange", "ResourceAdded", "ResourceRemoved",
              "ResourceUpdated", "Alert"}

Subscription == [event_types: SUBSET EventType, enabled: BOOLEAN]

Settings == [service_enabled: BOOLEAN, attempts: Nat, interval: Nat]

Deliveries == SubscriptionIds \X EventIds

Absent == -1    \* Option::None in a PATCH body

Given(value, current) == IF value = Absent THEN current ELSE value

-----------------------------------------------------------------------------
(* PATCH EventService.                                                     *)

\* Mutant: off by one.
ValidAttemptsFromZero(n) == n = Absent \/ n \in 0..3

ValidAttempts(n) == n = Absent \/ n \in 1..3
ValidInterval(n) == n = Absent \/ n \in 5..180

\* update_settings applies the values that are present; an absent
\* ServiceEnabled leaves it as it is, like the value it has.
update_settings(enabled, attempts, interval) ==
    settings' = [service_enabled |-> enabled,
                 attempts |-> Given(attempts, settings.attempts),
                 interval |-> Given(interval, settings.interval)]

\* Everything is validated before anything is applied; a refused request is
\* no step.
PatchEventService(enabled, attempts, interval) ==
    /\ ValidAttempts(attempts) /\ ValidInterval(interval)
    /\ update_settings(enabled, attempts, interval)
    /\ UNCHANGED <<subscriptions, sends, wanted, events, posts>>

-----------------------------------------------------------------------------
(* Subscriptions.                                                          *)

\* POST Subscriptions: an unknown type is refused, no type means Alert.
CreateSubscription(id, types) ==
    /\ types \subseteq EventType
    /\ id \in SubscriptionIds \ DOMAIN wanted
    /\ Cardinality(DOMAIN subscriptions) < MaxSubscriptions
    /\ LET new == [event_types |-> IF types = {} THEN {"Alert"} ELSE types,
                   enabled |-> TRUE]
       IN subscriptions' = [s \in DOMAIN subscriptions \cup {id} |->
                               IF s = id THEN new ELSE subscriptions[s]]
    /\ wanted' = [s \in DOMAIN wanted \cup {id} |-> IF s = id THEN types ELSE wanted[s]]
    /\ UNCHANGED <<settings, sends, events, posts>>

\* Mutant: a subscription that is enabled again is sent what it missed.
update_subscription_resend(id, enabled) ==
    /\ id \in DOMAIN subscriptions
    /\ subscriptions' = [subscriptions EXCEPT ![id].enabled = enabled]
    /\ LET missed == {d \in {id} \X DOMAIN events : enabled /\ posts[d] = 0}
       IN sends' = [d \in DOMAIN sends \cup missed |->
                       IF d \in DOMAIN sends THEN sends[d] ELSE "connecting"]
    /\ UNCHANGED <<settings, wanted, events, posts>>

\* No handler of the program enables or disables a subscription.
update_subscription(id, enabled) ==
    /\ id \in DOMAIN subscriptions
    /\ subscriptions' = [subscriptions EXCEPT ![id].enabled = enabled]
    /\ UNCHANGED <<settings, sends, wanted, events, posts>>

\* Deliveries under way are not told.
DeleteSubscription(id) ==
    /\ id \in DOMAIN subscriptions
    /\ subscriptions' = [s \in DOMAIN subscriptions \ {id} |-> subscriptions[s]]
    /\ UNCHANGED <<settings, sends, wanted, events, posts>>

-----------------------------------------------------------------------------
(* Publishing.                                                             *)

\* Mutant: every enabled subscription is sent every event.
is_interested_in_any(id, type) == subscriptions[id].enabled

is_interested_in(id, type) ==
    subscriptions[id].enabled /\ type \in subscriptions[id].event_types

Interested(type) == {id \in DOMAIN subscriptions : is_interested_in(id, type)}

\* SubmitTestEvent: an unknown type becomes Alert.
EventOf(name) == IF name \in EventType THEN name ELSE "Alert"

\* publish_event: service_enabled is not looked at.
Publish(event, name) ==
    /\ event \in EventIds \ DOMAIN events
    /\ LET type == EventOf(name)
       IN /\ events' = [e \in DOMAIN events \cup {event} |->
                           IF e = event THEN [type |-> type, there |-> DOMAIN subscriptions]
                           ELSE events[e]]
          /\ sends' = [d \in DOMAIN sends \cup (Interested(type) \X {event}) |->
                          IF d \in DOMAIN sends THEN sends[d] ELSE "connecting"]
    /\ UNCHANGED <<settings, subscriptions, wanted, posts>>

-----------------------------------------------------------------------------
(* send_event_to_subscriber, one spawned task for each delivery.           *)

Sending(d, pc) == d \in DOMAIN sends /\ sends[d] = pc

Finish(d) == sends' = [x \in DOMAIN sends \ {d} |-> sends[x]]

\* Mutant: the deliveries are awaited one after the other, not spawned.
ReachInTurn(d) ==
    /\ Sending(d, "connecting")
    /\ \A x \in DOMAIN sends : sends[x] = "connecting"
    /\ sends' = [sends EXCEPT ![d] = "posting"] \/ Finish(d)
    /\ UNCHANGED <<settings, subscriptions, wanted, events, posts>>

\* The task connects; or it gives up, because the URL cannot be parsed, the
\* subscriber is not reached, or 30 seconds are over.
Reach(d) ==
    /\ Sending(d, "connecting")
    /\ sends' = [sends EXCEPT ![d] = "posting"] \/ Finish(d)
    /\ UNCHANGED <<settings, subscriptions, wanted, events, posts>>

\* The request reaches the subscriber, or the connection breaks before.  A
\* subscriber that accepts the connection and takes nothing holds the task
\* here: send_request has no timeout.
Post(d) ==
    /\ Sending(d, "posting")
    /\ \/ /\ posts' = [posts EXCEPT ![d] = @ + 1]
          /\ sends' = [sends EXCEPT ![d] = "answering"]
       \/ Finish(d) /\ UNCHANGED posts
    /\ UNCHANGED <<settings, subscriptions, wanted, events>>

\* Whatever the answer is, the task is over; nothing limits the wait for it.
AnswerArrives(d) ==
    /\ Sending(d, "answering")
    /\ Finish(d)
    /\ UNCHANGED <<settings, subscriptions, wanted, events, posts>>

-----------------------------------------------------------------------------
EventInit ==
    /\ settings = [service_enabled |-> TRUE, attempts |-> 3, interval |-> 60]
    /\ subscriptions = [id \in {} |-> [event_types |-> {}, enabled |-> TRUE]]
    /\ sends = [d \in {} |-> "connecting"]
    /\ wanted = [id \in {} |-> {}]
    /\ events = [e \in {} |-> [type |-> "Alert", there |-> {}]]
    /\ posts = [d \in Deliveries |-> 0]

EventNext ==
    \/ \E enabled \in BOOLEAN, attempts \in Attempts, interval \in Intervals :
          PatchEventService(enabled, attempts, interval)
    \/ \E id \in SubscriptionIds :
          \/ \E types \in Asked : CreateSubscription(id, types)
          \/ \E enabled \in BOOLEAN : update_subscription(id, enabled)
          \/ DeleteSubscription(id)
    \/ \E event \in EventIds, name \in Submitted : Publish(event, name)
    \/ \E d \in Deliveries : Reach(d) \/ Post(d) \/ AnswerArrives(d)

EventSpec == EventInit /\ [][EventNext]_eventVars

\* tokio polls the spawned tasks, and connecting ends within 30 seconds.
\* Nothing obliges a subscriber to take the request, or to answer it.
FairEventSpec == EventSpec /\ \A d \in Deliveries : WF_eventVars(Reach(d))

-----------------------------------------------------------------------------
(* Properties.                                                             *)

\* Type invariant; the limit on subscriptions, and the ranges PATCH checks.
EventTypeOK ==
    /\ settings \in Settings
    /\ settings.attempts \in 1..3 /\ settings.interval \in 5..180
    /\ DOMAIN subscriptions \subseteq DOMAIN wanted
    /\ DOMAIN wanted \subseteq SubscriptionIds
    /\ subscriptions \in [DOMAIN subscriptions -> Subscription]
    /\ Cardinality(DOMAIN subscriptions) <= MaxSubscriptions
    /\ sends \in [DOMAIN sends -> {"connecting", "posting", "answering"}]
    /\ DOMAIN sends \subseteq Deliveries
    /\ posts \in [Deliveries -> Nat]

\* A subscriber gets an event at most once, only if its subscription was
\* there when the event was published, and only of a type it asked for:
\* also when the subscription is changed while deliveries are under way.
DeliveredAsAsked ==
    \A d \in Deliveries : posts[d] > 0 =>
        /\ posts[d] = 1
        /\ d[1] \in events[d[2]].there
        /\ \/ events[d[2]].type \in wanted[d[1]]
           \/ wanted[d[1]] = {} /\ events[d[2]].type = "Alert"

\* What became of a delivery, as those at its ends see it.
Fate(d) ==
    CASE posts[d] > 1                              -> "repeated"
      [] posts[d] = 1                              -> "arrived"
      [] posts[d] = 0 /\ d \in DOMAIN sends        -> "underway"
      [] posts[d] = 0 /\ d \notin DOMAIN sends /\ d[2] \in DOMAIN events -> "missed"
      [] OTHER                                     -> "unpublished"

Fanned == INSTANCE Fanout WITH
            Receivers <- SubscriptionIds, Notices <- EventIds,
            fate <- [d \in Deliveries |-> Fate(d)]

\* The deliveries are a fan-out: who gets an event is decided when it is
\* published, and a subscription that is changed, deleted or created later
\* has it sent to nobody else.  What has arrived, or has been given up, is
\* not sent again.
ImplementsFanout == Fanned!Spec

\* No subscriber holds up another: a delivery gets as far as its own
\* subscriber, or is given up, although others may take nothing or never
\* answer, and keep their deliveries for ever.
OthersNotHeldUp ==
    \A d \in Deliveries : Sending(d, "connecting") ~> ~ Sending(d, "connecting")

\* event_service.rs:131, "DeliveryRetryPolicy": "RetryForever": as long as its
\* subscription is there, a delivery is not given up before the event has
\* arrived.
RetriedUntilArrived ==
    [][\A d \in DOMAIN sends :
          d \notin DOMAIN sends' /\ d[1] \in DOMAIN subscriptions => posts'[d] > 0]_eventVars
=============================================================================
