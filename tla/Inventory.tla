------------------------------ MODULE Inventory ------------------------------
(***************************************************************************)
(* Clients reading a Redfish collection and its members, while the objects *)
(* behind them come and go and D-Bus calls fail.  The handlers keep no     *)
(* state between requests: each takes what it needs from the daemons, call *)
(* by call, and a client holds links from collections it read earlier.     *)
(*                                                                         *)
(* A behaviour is about one of the resources, chosen at the start.         *)
(***************************************************************************)
EXTENDS Resource

CONSTANTS
    Resources,      \* the resources, by their names
    Clients

\* What every resource is: it lists objects it knows of, under ids it answers,
\* and a handler that looks at several places answers with a stub when all the
\* calls fail or find nothing: its 404 would not be true at one instant.
WellFormed(r) ==
    /\ r.ids # {} /\ r.list.from \subseteq r.objects
    /\ r.list.noBus \cup r.list.failed \cup r.list.none \subseteq r.ids
    /\ r.member.tries \in [r.ids -> Seq(SUBSET r.objects)]
    /\ r.member.reads \in Nat
    /\ \A id \in r.ids :
          Len(r.member.tries[id]) > 1 => id \in r.member.missing \cap r.member.failed

ASSUME ResourceAssumption == \A r \in DOMAIN Resources : WellFormed(Resources[r])

VARIABLES
    resource,   \* the one this behaviour is about
    bus,        \* whether the server has a D-Bus connection
    tree,       \* the objects the daemons have now
    listed,     \* history: the objects listed under an id, those astray excepted,
                \* and there ever since
    promised,   \* history: the ids listed for want of objects, none having come
    req         \* each client's request for a member

vars == <<resource, bus, tree, listed, promised, req>>

R == Resources[resource]

\* Where a request is; the object found, if any; whether looking for it
\* failed; whether one of the later reads found nothing, and whether one
\* failed.  As history: the objects the id named at some moment of the request;
\* the objects and the placeholder its link was listed for, as far as they are
\* what they were.
Idle == [pc |-> "idle", id |-> CHOOSE id \in R.ids : TRUE, step |-> 1, reads |-> 0,
         found |-> {}, failed |-> FALSE, missed |-> FALSE, lost |-> FALSE,
         seen |-> {}, link |-> {}, stub |-> FALSE, status |-> 0]

At(c, pc) == req[c].pc = pc

Tries(id) == R.member.tries[id]
Listed(id) == {o \in R.list.from \ R.list.astray : R.list.id[o] = id}
Named(id) == UNION {Tries(id)[i] : i \in DOMAIN Tries(id)}
Denoted(id) == Named(id) \cup Listed(id)

-----------------------------------------------------------------------------
(* The daemons.                                                            *)

Appear(o) ==
    /\ o \in R.objects \ tree
    /\ tree' = tree \cup {o}
    /\ promised' = {}
    /\ req' = [c \in Clients |->
                  [req[c] EXCEPT
                      !.stub = FALSE,
                      !.seen = IF o \in Denoted(req[c].id) /\ ~ At(c, "idle")
                               THEN @ \cup {o} ELSE @]]
    /\ UNCHANGED <<resource, bus, listed>>

Vanish(o) ==
    /\ o \in tree
    /\ tree' = tree \ {o}
    /\ listed' = [id \in R.ids |-> listed[id] \ {o}]
    /\ req' = [c \in Clients |-> [req[c] EXCEPT !.link = @ \ {o}]]
    /\ UNCHANGED <<resource, bus, promised>>

-----------------------------------------------------------------------------
(* GET of the collection.                                                  *)

Present == tree \cap R.list.from

\* The ids it lists without having found an object.
Placeholders ==
    IF Present = {} /\ (R.list.needs = {} \/ R.list.needs \cap tree # {})
    THEN R.list.none ELSE {}

ListSnapshot ==
    /\ bus
    /\ listed' = [id \in R.ids |-> listed[id] \cup (Listed(id) \cap tree)]
    /\ promised' = promised \cup Placeholders
    /\ UNCHANGED <<resource, bus, tree, req>>

\* The call fails, or there is no connection.
ListBlind ==
    /\ promised' = IF Present = {}
                   THEN promised \cup (IF bus THEN R.list.failed ELSE R.list.noBus)
                   ELSE promised
    /\ UNCHANGED <<resource, bus, tree, listed, req>>

-----------------------------------------------------------------------------
(* GET of a member.                                                        *)

GetMember(c, id) ==
    /\ At(c, "idle")
    /\ req' = [req EXCEPT ![c] =
                  [Idle EXCEPT !.pc = "looking", !.id = id,
                               !.seen = tree \cap Denoted(id),
                               !.link = listed[id], !.stub = id \in promised]]
    /\ UNCHANGED <<resource, bus, tree, listed, promised>>

\* The object the later properties are read from.
Target(q) == IF R.member.built[q.id] = {} THEN q.found ELSE R.member.built[q.id]

\* 200, after the later reads if there is anything to read from.
Accepted(q) ==
    IF R.member.reads > 0 /\ bus /\ Target(q) # {}
    THEN [q EXCEPT !.pc = "reading", !.reads = R.member.reads, !.status = 200]
    ELSE [q EXCEPT !.pc = "done", !.status = 200]

NotFound(q) == [q EXCEPT !.pc = "done", !.status = 404]

\* Mutant: the stubs are forgotten.
DecidedNotFound(q, stubs) == NotFound(q)

\* How a handler that has found nothing decides.
Decided(q, stubs) == IF q.id \in stubs THEN Accepted(q) ELSE NotFound(q)

LastTry(q) == q.step = Len(Tries(q.id))

\* Mutant: an object seen earlier in the request is good enough.
HitsCached(q) == Tries(q.id)[q.step] \cap q.seen

Hits(q) == Tries(q.id)[q.step] \cap tree

\* No call is made: no connection, or nothing to look for.
LookBlind(c) ==
    LET q == req[c] IN
    /\ At(c, "looking") /\ (~ bus \/ Tries(q.id) = << >>)
    /\ req' = [req EXCEPT ![c] =
                  Decided(q, IF bus THEN R.member.missing ELSE R.member.noBus)]
    /\ UNCHANGED <<resource, bus, tree, listed, promised>>

\* The map of a snapshot has no order: of several objects any may be found.
LookFinds(c) ==
    LET q == req[c] IN
    /\ At(c, "looking") /\ bus /\ Tries(q.id) # << >>
    /\ \E o \in Hits(q) : req' = [req EXCEPT ![c] = Accepted([q EXCEPT !.found = {o}])]
    /\ UNCHANGED <<resource, bus, tree, listed, promised>>

LookMisses(c) ==
    LET q == req[c] IN
    /\ At(c, "looking") /\ bus /\ Tries(q.id) # << >>
    /\ Hits(q) = {}
    /\ req' = [req EXCEPT ![c] =
                  IF ~ LastTry(q) THEN [q EXCEPT !.step = @ + 1]
                  ELSE Decided(q, R.member.missing \cup
                                  (IF Present = {} THEN R.member.empty ELSE {}))]
    /\ UNCHANGED <<resource, bus, tree, listed, promised>>

LookFails(c) ==
    LET q == [req[c] EXCEPT !.failed = TRUE] IN
    /\ At(c, "looking") /\ bus /\ Tries(q.id) # << >>
    /\ req' = [req EXCEPT ![c] =
                  IF ~ LastTry(q) THEN [q EXCEPT !.step = @ + 1]
                  ELSE Decided(q, R.member.failed)]
    /\ UNCHANGED <<resource, bus, tree, listed, promised>>

\* One of the later properties; what cannot be read has a default.
Read(c) ==
    LET q == req[c] IN
    /\ At(c, "reading")
    /\ \E lost \in BOOLEAN :
          req' = [req EXCEPT ![c] =
                     [q EXCEPT !.reads = @ - 1,
                               !.pc = IF q.reads = 1 THEN "done" ELSE "reading",
                               !.lost = @ \/ lost,
                               !.missed = @ \/ Target(q) \cap tree = {}]]
    /\ UNCHANGED <<resource, bus, tree, listed, promised>>

Answer(c) ==
    /\ At(c, "done")
    /\ req' = [req EXCEPT ![c] = [Idle EXCEPT !.id = req[c].id]]
    /\ UNCHANGED <<resource, bus, tree, listed, promised>>

-----------------------------------------------------------------------------
Init ==
    /\ resource \in DOMAIN Resources
    /\ bus \in BOOLEAN
    /\ tree = {}
    /\ listed = [id \in R.ids |-> {}]
    /\ promised = {}
    /\ req = [c \in Clients |-> Idle]

Next ==
    \/ \E o \in R.objects : Appear(o) \/ Vanish(o)
    \/ ListSnapshot \/ ListBlind
    \/ \E c \in Clients :
          \/ \E id \in R.ids : GetMember(c, id)
          \/ LookBlind(c) \/ LookFinds(c) \/ LookMisses(c) \/ LookFails(c)
          \/ Read(c) \/ Answer(c)

Spec == Init /\ [][Next]_vars

-----------------------------------------------------------------------------
(* Properties.                                                             *)

Request == [pc: {"idle", "looking", "reading", "done"}, id: R.ids,
            step: Nat, reads: Nat, found: SUBSET R.objects, failed: BOOLEAN,
            missed: BOOLEAN, lost: BOOLEAN, seen: SUBSET R.objects,
            link: SUBSET R.objects, stub: BOOLEAN, status: {0, 200, 404}]

\* Type invariant.
InventoryTypeOK ==
    /\ resource \in DOMAIN Resources
    /\ bus \in BOOLEAN
    /\ tree \subseteq R.objects
    /\ listed \in [R.ids -> SUBSET tree]
    /\ promised \subseteq R.ids
    /\ req \in [Clients -> Request]

\* The whole resource: the object was found and every property read from it.
Whole(q) == q.found # {} /\ ~ q.missed

\* The links of a collection lead somewhere.  A client follows a link; no call
\* fails, and from the request to the answer the id names just the objects it
\* was listed for, which have been there ever since: it is answered with their
\* data.  A link listed for want of objects is answered until one appears.  Of
\* an object its resource has as "astray" nothing is said.
LinkResolves ==
    \A c \in Clients :
        LET q == req[c] IN
        At(c, "done") /\ ~ q.failed /\ ~ q.lost =>
            /\ bus /\ q.seen # {} /\ q.seen \subseteq q.link
                 => q.status = 200 /\ (Whole(q) \/ Tries(q.id) = << >>)
            /\ q.stub => q.status = 200

\* The handlers implement lookups in a directory of the ids: whatever comes
\* and goes between their calls, there is one instant at which the object they
\* answer with was there, or, for a 404, none of that name.
PhaseOf(q) ==
    IF q.pc = "idle" THEN "idle"
    ELSE IF q.pc = "looking" THEN "asked"
    ELSE IF q.found # {} THEN "found"
    ELSE IF q.failed \/ ~ bus THEN "excused"
    ELSE IF q.status = 404 THEN "missing" ELSE "stub"

phase == [c \in Clients |-> [id |-> req[c].id, state |-> PhaseOf(req[c])]]

Lookup == INSTANCE Directory WITH
    ids <- R.ids,
    defaults <- R.member.missing \cup R.member.empty,
    present <- {id \in R.ids : Named(id) \cap tree # {}}

ImplementsDirectory == Lookup!Spec
=============================================================================
