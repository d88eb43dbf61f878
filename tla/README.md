# bmcweb-ng in TLA+

Specifications of [bmcweb-ng](../src/README.md), a Redfish server for baseboard
management controllers written in Rust on tokio and axum. The modules follow the
code of `src/src/`; paths below are relative to that directory.

- [Running the checks](#running-the-checks)
- [The system](#the-system): the inventory
- [The modules](#the-modules): what models what
- [The runs](#the-runs): what TLC checks, with which bounds
- [The proofs](#the-proofs): what TLAPS proves, and how
- [What the code does otherwise](#what-the-code-does-otherwise): findings
- [Not modelled](#not-modelled) and [the plan](#the-plan)

## Running the checks

    tlc -workers 2 -config SessionApiDelete.cfg MCSessionApi
    tlapm SessionApiProofs.tla

Each `X.cfg` belongs to the `MC*` module that names its constants
(`PROJECT.json` lists the pairs). `SessionApiDelete.cfg`, `SessionApiRoles.cfg`,
`HostIO.cfg`, `Redfish.cfg` and `Services.cfg` take one to three minutes each,
the others seconds; each proof a few minutes at most.

## The system

One process serves HTTPS. Each request is a tokio task on one of several worker
threads: the router runs the authentication middleware, then the handler. All
state that outlives a request is in `AppState` (`lib.rs`), an `Arc` of services,
each a `HashMap` behind an `RwLock`. Everything about the machine itself lives
in other daemons, behind D-Bus; a D-Bus call is an `.await` during which
anything else may run, and it may fail.

| Component | State | Operations | Talks to | What is hard |
|---|---|---|---|---|
| Session store, `auth/session.rs` | map id -> session; the timeout, an atomic | create, look up by id or token, set role, delete, purge | called by the middleware and the session handlers | lazy expiry by the wall clock; the limit; reuse of Basic sessions |
| Authentication, `auth/middleware.rs`, `basic.rs` | none; gives each handler a clone of the session | token, cookie, HTTP Basic, client certificate | PAM, session store | the clone ages while the handler awaits |
| Privileges, `auth/privilege.rs` | none | role -> privileges -> decision | every handler that writes | a wrong table or check |
| SessionService, `api/redfish/sessions.rs` | none | login, list, read, PATCH timeout, DELETE | session store, user manager | login publishes a session before it knows its role; DELETE takes the lock three times |
| AccountService, `api/redfish/accounts.rs` | in the user manager | list, read, create, PATCH, DELETE of accounts; PATCH of the policy | user manager over D-Bus | sessions are not told; several writes, each may fail |
| Task service, `services/task.rs`, `api/redfish/task_service.rs` | map id -> task | create, set state or progress, delete, clean up | SimpleUpdate | a bounded table that must not drop unfinished work |
| Update service, `services/update.rs`, `api/redfish/update_service.rs` | map id -> operation | start, complete, cancel, clean up | task service | check under one lock, insert under another; the failure half way |
| Event service, `services/event.rs`, `api/redfish/event_service.rs` | map id -> subscription; settings | subscribe, unsubscribe, PATCH, publish | subscribers over HTTP | one spawned task a delivery, racing with everything else |
| Telemetry triggers, `api/redfish/telemetry_service.rs` | a list behind a lock | create, read, PATCH, delete | none | PATCH may change the id |
| Persistent data, `persistent_data.rs` | `config.json` | load, save | file system | kills, failed calls, power cuts |
| WebSocket proxies, `api/websocket/mod.rs` | two tasks a connection | copy both ways | console, KVM and media daemons | backpressure, either end leaving |
| Systems, managers, chassis, fabrics: reading, `api/redfish/` | in other daemons | GET of 28 collections and of their members | D-Bus | a collection and a member find an object each in its own way; objects come and go between the calls |
| The same: setting | in other daemons | PATCH of boot override, network, LED; resets; clearing logs | D-Bus | several writes in turn, each may fail; read back later |
| D-Bus client and its REST API, `dbus/mod.rs`, `api/dbus_rest.rs` | the connection | get, set, call, list | D-Bus | what has no D-Bus form; calls that fail half way |
| HTTP server, `protocol/http.rs` | none | accept, TLS, routes, health | everything | I/O |
| Configuration, start-up, metrics, static Redfish documents | constant, or only written | - | - | - |

For each component, the properties that make it correct:

- *Session store*: bounded; one Basic session per user and address; a session is
  a lease, opened once, and never honoured after it ended.
- *Authentication and the session handlers*: a session's role is one its account
  held, and that of HTTP Basic ReadOnly; the role a login fetched is not lost;
  what was deleted stays deleted; a live session ends only by a DELETE that its
  handler allows, and may still allow when it removes; accounts and the timeout
  change only for somebody who has been an administrator.
- *Task and update services*: bounded tables; unfinished tasks stay; a 202
  answer's location stays valid; the limit on concurrent updates, and how far it
  can be missed; how many are ever accepted.
- *Event service*: nobody gets an event twice or unasked, and who gets one is
  decided once; no subscriber holds up the deliveries to another.
- *Triggers*: the location of a trigger leads to it and to it alone, whatever
  PATCH renames; what was deleted is not found.
- *Reading*: a link leads to its resource; an answer was true at one instant.
- *Setting*: every member of a body is tried, one that fails stops no other; the
  answer is read after the last call; the override for one boot is the target
  that came with it.
- *Persistent data*: no half-written file; a stored UUID is never replaced; what
  is served is what was stored; while the file is whole, boots agree.
- *Proxies*: the streams arrive whole and in order; what is on its way is
  bounded; one direction does not block the other; a client that leaves ends the
  handler, unless the daemon has stopped reading.

The hazards behind these are listed, each at its line, in `PROJECT.json`.

## The modules

    Clock, Privilege               shared: the wall clock; roles and privileges

    SessionStore ------refines----> SessionLease
      +-- SessionApi               middleware, login, session, account handlers
    TaskService ---+
    UpdateService -+-- SimpleUpdate   the handlers over both services
    Triggers
    EventService ------refines----> Fanout
    PersistentStore
    WebSocketProxy ----refines----> ByteStream      each direction

    Resource                       what collections and members have in common
      +-- SystemResources  ChassisResources  ManagerResources  ServiceResources
      +-- Inventory ---refines----> Directory
            +-- InventoryLinks
    Settings
      +-- SettingForms

    MCServices = SessionStore, SimpleUpdate, Triggers           in memory
    MCHostIO   = PersistentStore, WebSocketProxy, EventService, UpdateService
    MCRedfish  = InventoryLinks, SettingForms           reading and setting

`X` has its properties at its end, its proofs in `XProofs` (the file and the
sockets in `HostIOProofs`, tasks and updates in `SimpleUpdateProofs`), and the
sets its configurations need in `MCX`. `MCServices`, `MCRedfish` and `MCHostIO`
put components that do not interact into one run: a behaviour is about one of
them, chosen at the start, and the others rest. Definitions named `Mutant: ...`
are faulty variants of the definition that follows them; no specification uses
them. They show that a property can fail: with the variant in the place of the
original, TLC finds it violated.

**Granularity.** A lock is held for a whole operation of a service, so an
operation is one action. A handler is split where it lets go of a lock and takes
it again, and where it awaits D-Bus. A handler that does neither is one action
with the service operation in it. UUIDs are drawn from a set, each at most once.

**Clock** (`chrono::Utc::now`). `now` moves by a step of the constant
`ClockSteps`: `{1}` is a clock that only advances, `{-1, 1}` one that is also
set back, as BMCs without a battery-backed clock do when time synchronisation
arrives. `MaxClock` bounds it.

**Privilege** (`auth/privilege.rs`). The roles of `accounts.rs`, the privileges
of each, and `check_privilege` with the four requirements the handlers state.

**SessionStore** (`auth/session.rs`). `sessions` is the map, `timeout` the
atomic, `drawn` the ids used. Token and id are drawn together, so the id stands
for both. `create_session` has three outcomes, `CreateRefused`, `CreateReused`
and `CreateNew`, each with the purge the code begins with; a lookup drops an
expired session and renews a live one (`LookedUp`). **SessionLease** is the
abstract specification: an id is unused, then open, then closed, and at most
`MaxSessions` are open. `phase` is the refinement mapping.

**SessionApi** (`auth/middleware.rs`, `api/redfish/sessions.rs`, `accounts.rs`).
`req[r]` is a request in progress: where its handler is (`pc`), the clone of the
caller's session, its arguments, its answer. `Authenticate` tries one credential
of a request; a token of an expired session passes the request on to its next
(`TryNext`), HTTP Basic and a certificate decide. A login is `LoginCreate`,
`LoginFetchRole` (the `.await` of `GetUserInfo`, which may fail) and
`LoginSetRole`. A DELETE is `DeleteAllowed`, `DeleteVerify` and `DeleteRemove`,
one for each time it takes the lock. `account` is the user manager's table, with
the group and the privilege that `openbmc_priv_to_role` reads; `PatchAccount`
sets only the privilege, as the code does; `AccountCheck` may answer 400, and
`CreateAccount` 201 without an account, which it does when there is no D-Bus.
`held` and `had` are history: the roles a session's account has had since the
session was created, and those each user has ever had.

**TaskService** (`services/task.rs`) and **UpdateService**
(`services/update.rs`). The tables, with every operation of the Rust API, the
ones that only tests call included. `start_update` is two actions, `StartCount`
under the read lock and `StartInsert` under the write lock; `starting` holds the
callers in between. An operation has a `task_id`, and the code puts a fresh UUID
there that is the id of no task (`Placeholder`).

**SimpleUpdate** (`api/redfish/update_service.rs`, `task_service.rs`). The only
code that changes the two tables in the running server: `AcceptUpdate` checks
and creates the task, `CheckLimit` and `StartUpdate` are the halves of
`start_update`, `DeleteTask` is the client's DELETE. Nothing completes an
operation or sets a task's state, because no code of the server does.

**EventService** (`services/event.rs`, `api/redfish/event_service.rs`).
`subscriptions` and `settings` as in the code; `sends` has one entry for each
spawned delivery (connecting, posting, answering). `Reach` ends within the
connect timeout; `Post` and `AnswerArrives` may never come, because nothing
limits how long a subscriber takes the request or answers it. `wanted`, `events`
and `posts` are history: what each subscription's request asked for, who was
subscribed when an event was published, how often it arrived. `Publish` is
`publish_event`, which takes the interested subscriptions under one lock.
**Fanout** is the abstract specification: publishing decides for every receiver
whether a copy is sent, and each copy arrives once or is missed. `Fate` is the
refinement mapping.

**Triggers** (`api/redfish/telemetry_service.rs`). The list of the triggers'
`Id`s, in its order; GET and PATCH take the first of an id, DELETE takes all.
`NoText` is an `Id` that is not a string, which PATCH also accepts. `kept`,
`given` and `removed` are history: what the clients were told.

**Resource**, **SystemResources**, **ChassisResources**, **ManagerResources**,
**ServiceResources** (`systems.rs`, `chassis.rs`, `fabrics.rs`, `managers.rs`,
`accounts.rs`, `update_service.rs`, all in `api/redfish/`). Some fifty handlers
read collections and their members, and all follow one scheme with different
decisions: where to look for an object, by a snapshot (`GetManagedObjects`) or
by a property at a path built from the id; what to list and to answer without
D-Bus, when a call fails, when there is nothing; which properties to read
afterwards, and from where. `Resource` says what such a decision is, and each
resource is a record of them, one definition of a few lines for two handlers.
`Mixed`, `Nested` and `Others` put objects elsewhere in the tree, under the same
last names and of other kinds, which is where handlers go wrong.

**Inventory** runs the scheme. `ListSnapshot` and `ListBlind` are GET of a
collection, `GetMember` to `Answer` GET of a member, one action for each call it
makes; `Appear` and `Vanish` come between any two. Which branch a handler takes,
`Decided`, is a matter of its record. `listed`, `promised`, `seen` and `link`
are history: what a client may rely on when it follows a link. **Directory** is
the abstract specification: a lookup is decided at one instant between request
and answer, and then it is true. **InventoryLinks** has the assumption under
which links resolve, `LinksAgree`; it holds of every resource of the `redfish`
run and not of `DBusEventLog`, see below. Some collections list objects that
their member handler looks for elsewhere: a resource has these as `astray`, and
`LinkResolves` says nothing of them ([below](#what-the-code-does-otherwise)).

**Settings** and **SettingForms** (the handlers that set D-Bus properties, in
`systems.rs`, `managers.rs`, `chassis.rs`, `accounts.rs` and
`api/dbus_rest.rs`). As above: a form is a record of the calls of one handler in
their order, with what each sends for the values a body may give
(`boot_source_to_redfish`, `openbmc_priv_to_role` and the rest are the
conversions of the code), and of the reads that make the answer, each with how
its member is made: from one property (`Shown`), or by comparing it with another
(`beside`, `alike`), as the boot override is. `Settings` runs
it: `Accept` or `Reject`, then one action a call, which may succeed, fail with
or without its effect (`SetPropertyFails`) or be refused before it is sent
because its JSON has no D-Bus form (`SetPropertyRefused`), then the reads, whose
first may find the object gone (`Vanished`). What was read is in `seen`, and
`Shows` is what the answer makes of it.
`Change` is everybody else who sets the same properties. `touched` and `mine`
are history.

**PersistentStore** (`persistent_data.rs`, `main.rs`). A boot of the daemon,
call by call: load, announce or save, where save opens the temporary file,
writes it and renames it. `SaveFails` may replace any of the calls, `Kill` may
come between any two, and `PowerCut` loses what `WriteBack` has not yet taken to
the disk (`dirty`): the new name, or the data behind it. `last` is history: the
UUID that the last boot without a failure announced.

**WebSocketProxy** (`api/websocket/mod.rs`). One of the three handlers, which
are copies of each other. `up` and `down` are the two spawned tasks, each
reading or writing and holding what it has read; the four pipes are bounded and
their writers wait. A client that closes has its Close read after what it sent
(`closing`, `closed`); one whose connection breaks (`gone`) may lose what was on
its way. A connection closes only when both its halves are dropped,
that is when both tasks are over. **ByteStream** is the abstract specification
of one direction, instantiated once for messages and once for bytes: what is
received is what was sent, in order, and may end early.

## The runs

| Run | Question | States |
|---|---|---|
| `api_delete` | logins, reads, lists, timeout changes and DELETEs while sessions expire and the clock is set back | 1 561 622 (symmetry) |
| `api_roles` | logins while accounts are created, changed and deleted, and who may do so | 2 212 124 (symmetry) |
| `services` | the store alone as leases; the task table alone; SimpleUpdate requests with task deletions; triggers | 275 427 (symmetry) |
| `redfish` | 28 collections with their members, 15 forms | 337 651 |
| `host_io` | boots with kills, failed calls and power cuts; one proxied connection; subscriptions with their deliveries; updates that race for the limit | 246 538 |
| `api_basic_role`, `others_session`, `update_limit`, `event_log`, `event_retry`, `boot_once`, `persistent_stable` | violations, see below | |

**Bounds, and why they are enough.**

- *api_delete*: two requests are what a race needs; the operations of this run
  leave the accounts alone and let time pass, forwards and back, where
  *api_roles* does the opposite; both together would be too many states. The
  other user may log in but nothing else (`NoAccess`), was demoted, or has no
  account, so that a DELETE is both allowed and refused. A deleted id is never
  drawn again, and other requests may still ask for it.
- *api_roles*: no time passes, so that roles and accounts have the state space
  for themselves; the other user may read, was demoted (its group still says
  Operator), or has no account yet, and Operator may be granted, which is one
  role more than a session created before would have.
- *services*, the store: three ids for two places fill it, refuse a request and
  make room again by expiry; two users, one address, so that Basic sessions are
  told apart by one component of their key; a timeout of 0, 1 or 2 over a clock
  of 0 to 3 lets a session expire, be renewed, and outlive a shortened timeout.
  The real limits (30 to 86400 seconds, 64 sessions) only change the scale. The
  clock only advances in this part, which the refinement needs.
- *services*, tasks: four ids for two places, retention 1 and the clock set
  forwards and back, so that a task can become old, be revived and be swept;
  percentages in the range and above it. The handlers: two requests, a limit of
  one update, a table of two, so that the table fills up and requests are
  refused; three operation ids, one more than the limit and the race allow.
  Three triggers may all get one id, and what there is of an id is always the
  first or the rest.
- *redfish*: one client, because clients of `Inventory` share nothing that they
  write: `listed` and `promised` change by the handlers of collections, which
  are actions of their own; the proofs are for any number. Two names, one of
  them also one level deeper and the other also the name of something else, and
  the ids a handler treats apart (`cpu0`, `eth0`, `chassis`, `root`...). Two
  members in a body: an order needs two, and the boot override is made of two.
- *host_io*: four UUIDs are four fresh boots, more than a second failure needs;
  every fault may occur at every point of each. Pipes of one item fill at once;
  a read buffer of two and four bytes make frames of one and two bytes; three
  messages are one more than task and pipe hold. A limit of one makes the second
  subscription wait for the deletion of the first, whose deliveries may be under
  way; two events, so that deliveries overlap; the bodies ask for no type, one,
  two, and an unknown one. Three callers exceed a limit of one update by two,
  the most `ActiveWithinRace` allows.
- *The violations* have the smallest sets that show them: one user who may only
  read, one subscription, one form.

`MaxClock`, the finite sets of ids, `Operations`, `MaxTriggers`, `MaxItems`,
`MaxUp` and `MaxDown` are bounds of the runs, not of the program. When the ids
are used up the creating actions stop; the others go on. `host_io` does not
check for deadlock: a proxy comes to rest when both ends are closed, or when the
client neither sends nor reads. `event_retry` is of the same specification. All
other runs check it. Symmetry is used only where no liveness is checked:
`ImplementsLease`, `UsesStore`, `UnfinishedKept`, `RemovedStaysRemoved`,
`EndsOnlyByDelete` and `OnlyForAdministrators` are safety properties that do not
tell the permuted values apart. In `services` all ids are UUIDs of one set, and
it is these that are permuted, with the callers. `host_io` checks liveness and
uses none.

**Fairness.** `host_io` checks liveness. As in `FairProxySpec` of
`WebSocketProxy`, the handler and each of its tasks are weakly fair: tokio polls
every ready task, and one that waits for a full pipe is not enabled and so not
obliged. The client and the daemon owe nothing, either may stop reading for
ever. So `InputArrives` is about a daemon that keeps reading (weak fairness of
`DaemonRead` is its premise), and `HandlerReturns` says that a client that
leaves ends the handler, or else the daemon has stopped reading for good
(`DaemonHoldsUp`). As in `FairEventSpec` of `EventService`, the `Reach` of each
delivery is weakly fair: connecting is limited to 30 seconds. Taking the request
and answering it are not, because nothing obliges a subscriber and the code sets
no limit: `OthersNotHeldUp` is that one subscriber's silence keeps nobody else's
delivery from getting as far as its own subscriber. Reading and setting have no
fairness: a D-Bus call has no time limit, and a request may wait for ever.

## The proofs

TLAPS proves the following for every value of the constants (any number of
sessions, users, requests, tasks, callers, subscribers, triggers, UUIDs,
objects, any well-formed resource, any form), from the named assumptions of the
modules, which only say that limits are natural numbers and the like.
`ImplementsLease` assumes in addition that the clock does not go backwards.

*SessionStoreProofs.* `IInv`, inductive, is type correctness, the capacity and
the uniqueness of Basic sessions together. Most operations only shrink the map
or change times and roles; the lemma `Shape` captures this, so capacity and
uniqueness are argued once for all of them and once for `CreateNew`, where the
purge, the limit and the search for a session to reuse meet. From there:
`TypeCorrect`, `CapacityCorrect`, `OneBasicCorrect`,
`RemovedStaysRemovedCorrect` (for any clock), and `StoreImplementsLease`, step
by step with the refinement mapping.

*SessionApiProofs.* `ApiTypeCorrect` says what a request carries at each point
of its handler. `HandlersUseStore` shows that every step of the server is a step
of the store or leaves it alone, so that the store's theorems hold of the server
(`ServerCapacity`, `ServerImplementsLease`). The lemma `StepKinds` sorts the
steps by what they do to roles and live sessions, and the invariants below are
argued over these kinds.

- `LoginRoleKeptCorrect` and `DeletedIsGoneCorrect` share `LoginInv`: two logins
  never hold the same session, an id that is being logged in or was deleted has
  been drawn, and so no other login can write its role or bring it back.
- `RoleWasHeldCorrect` and `BasicIsReadOnlyCorrect` need `RoleInv`: a role that
  a login has fetched and not yet written is in the history of the session it is
  meant for, as long as that session exists; and the session of a login is never
  one of HTTP Basic, so no login promotes one of those.
- `OnlyForAdministratorsCorrect` follows the trust from the account to the
  change, over all the copies made of it. `AuthInv` says that each of them, the
  account's own role, the session's, the one a login has fetched, the clone a
  handler works on, is `Vouched`: its user has had it. `NeedsAdministrator` says
  that of all roles only Administrator has the privilege, so the change is for a
  user who has been one. Has been, not is: a demoted administrator keeps the
  session.
- `EndsOnlyByDeleteCorrect` needs `DeleteInv`: what allowed a DELETE at the
  first of its three locks still holds of the session it finds at the third,
  because sessions do not change hands (`OwnersKept`) and an id is never given
  to another.

*SimpleUpdateProofs.* `TaskTypeCorrect`, `UpdateTypeCorrect` and `HandlersTyped`
are the types; `UnfinishedKeptCorrect` goes through the operations of the task
table: what leaves it has an end time, or is deleted by name. `TasksCorrect` and
`RaceBounded` for the two services by themselves. The race needs
`Cardinality(active) + Cardinality(starting)`, since the callers in between have
passed a check whose answer is growing old. `LimitExactAlone`: with one caller
at a time the limit holds exactly. `ServerBounded` carries both over to the
handlers. `LocationStaysCorrect` rests on the fact that a task without an end is
never swept. `UpdatesForLifeCorrect`: no operation ends, so the bound of the
race is one on all the updates that a server ever accepts.

*EventServiceProofs.* `DeliveredAsAsked` cannot follow from the current
subscriptions, which may be gone when the event arrives. `EventInv` gives each
delivery under way its own warrant: the event was published, the subscriber was
there, and its types, fixed at creation (`AsCreated`), include it.
`ImplementsFanoutCorrect` goes on from there: `FateSays` is what the invariant
leaves of `Fate`, and with it each action either decides the copies of one new
event, moves one copy on, or moves none.

*HostIOProofs.* Of the file, the properties with `LoadedMatches`, what a boot
knows between loading and announcing, are inductive. `StoredUuidKeptCorrect`
then needs only the rename: the invariant says that no file is there when it
happens. `UuidStableUnlessTornCorrect` needs `AnnouncedIsStored`: until the file
is torn, the last UUID announced without a failure is in it.

Of the proxy, `ProxyTypeCorrect` bounds what is on its way, for every window and
buffer. The order of what is on its way is an invariant about everything a
direction holds strung together, which no proof here could unfold. It is argued
instead over runs: `Follows` says of two neighbours that one begins where the
other ended, and `Reached` where a run ends, so a step at either end of a pipe
concerns one neighbour (`Order...` for messages, `Frames...` for frames of
bytes). `NothingLostCorrect` is the invariant so obtained;
`ImplementsStreamsCorrect` then takes each step, for each direction, to a step
of the stream.

*TriggersProofs.* `TriggerInv` adds to the two properties of the list that an id
which is anywhere, in a trigger or in the history, has been used: a new UUID
meets none of them. PATCH needs the most care, since it takes one id from a
trigger and gives it another at once.

*InventoryProofs.* Two assumptions on the resources, which TLC evaluates for all
28: `ResourceAssumption`, that a resource is `WellFormed` (a handler with
several places to look answers with a stub if none has the object), and for
links `LinkAssumption` (`LinksAgree`). From the first: `InventoryTypeCorrect`,
by `DirInv`, which adds where a request may be, and
`ImplementsDirectoryCorrect`: the lemmas `...Is` say what each action does to
the request that takes it, the lemmas `...Step` that this is a step of the
directory; `NotFound` is the one that needs `WellFormed`, since a 404 after two
calls would not be true at one instant. From both: `LinkResolvesCorrect`. Its
invariant `LinkInv` says of each request that follows a link that the objects it
was listed for are still to be looked for: as long as none of them is gone and
no call failed, a place where they may be has not been passed.

*SettingsProofs.* `FormAssumption`, which TLC evaluates for all 15 forms, says
what the handlers have in common: no two calls set one property, and a property
that is copied is set by an earlier call if at all. Since others may set any
property between any two calls, what holds in the end is an invariant of the
calls already made: `WorkInv` says of each that did not fail, and whose property
nobody has set since, that the property is as asked or as the one copied. A
later call cannot disturb it because of the assumption, `OrderInv` being what
makes "earlier" precise; `CopyInv` bridges the time between a copy and its call.
`SeenInv` bridges that between the reads and the answer: what was read is what
the property is, unless somebody else has set it since; it needs that no call is
left once the reads begin. The lemma `CallOverInv` argues once for the three
ways a call may end.

Only model-checked: liveness (`OthersNotHeldUp`, `InputArrives`,
`HandlerReturns`), which is out of the prover's reach. Every other property of
the passing runs is the statement of a theorem. Of what is proved, no run
evaluates `ServedIsStored` and the type invariants of `TaskService`,
`UpdateService`, `Inventory`, `Settings` and `PersistentStore`: they hold for
every value of the constants, and the properties that are run would hardly
survive without them.

## What the code does otherwise

Seven runs show a disagreement between the code and its own documentation.

- `update_limit`: two requests pass `start_update`'s check before either is
  inserted, and more than "Maximum concurrent updates"
  (`services/update.rs:162`) run.
- `api_basic_role`: a session created by HTTP Basic has the role ReadOnly for
  its whole life, where `auth/session.rs:45` says that the role is populated
  from `GetUserInfo`. An administrator who uses Basic may only read. What does
  hold is proved: the role never becomes anything else (`BasicIsReadOnly`).
- `persistent_stable`: a `config.json` that cannot be parsed, for instance
  because a power cut left it empty, is never replaced, so every restart serves
  another UUID; `persistent_data.rs:170` promises that it is stable. That it is
  as long as the file is whole is proved (`UuidStableUnlessTorn`).
- `event_log`: the manager's event log lists the entries below `logging/entry`,
  and a GET of one looks for it at `logging/{id}`
  (`api/redfish/managers.rs:1321`), so every link it lists is answered 404;
  `CHANGELOG.md:204` says that the entry is returned when the object exists.
- `others_session`: DELETE of a session by somebody who neither owns it nor
  holds ConfigureUsers goes on to ask for ConfigureSelf
  (`api/redfish/sessions.rs:435`), which every role but NoAccess has, so a
  ReadOnly user ends anybody's session; the comment at 415 and
  `CHANGELOG.md:306` say that only one's own may be deleted without
  ConfigureUsers. `EndsOnlyByDelete` is proved of what the handler does allow.
- `event_retry`: a delivery that fails is given up (`services/event.rs:361`),
  while `api/redfish/event_service.rs:131` advertises `RetryForever` and
  `services/event.rs:182` a number of retries.
- `boot_once`: PATCH of `BootSourceOverrideEnabled` to "Once" copies the target
  to the one-time path, and reading takes equal targets for "Disabled"
  (`api/redfish/systems.rs:184`): the answer, and every GET after it, denies
  what was set. What holds of the answer, that it is read after the last call,
  is proved (`AnswerFromStored`), and so is what was set (`OnceIsForTarget`).

Observed while modelling, without a run of their own:

- A full store refuses a Basic request whose own session it holds:
  `create_session` checks the limit before it looks for one to reuse
  (`auth/session.rs:154`).
- PATCH of an account checks who may give a `Password`, answers 200 and sets
  nothing (`api/redfish/accounts.rs:604`), where `CHANGELOG.md:183` says that
  users may update their own; creating an account without D-Bus is answered 201
  and creates nothing (`api/redfish/accounts.rs:463`).
- Deleting or demoting an account leaves its sessions alive with their roles;
  `delete_user_sessions` has no caller.
- SimpleUpdate's 202 answer calls its task Running, but it stays New for ever,
  and no code completes an operation: after `max_concurrent_updates` updates
  every later one is refused until a restart (`UpdatesForLife`).
- A task started for an update that is then refused stays in the table, and only
  finished tasks are evicted, so refused requests use up `max_tasks`.
- The `task_id` of an operation, "Associated task ID"
  (`services/update.rs:119`), is a fresh UUID that names no task
  (`services/update.rs:242`); the 202 answer and the operation are not linked.
- `ServiceEnabled` of the event service is stored and shown, and nothing reads
  it. A subscriber that takes a connection and nothing else keeps its delivery,
  and so its task, for ever: `send_request` has no time limit.
- A daemon that keeps a proxied connection and neither reads nor writes may keep
  the handler and both its tasks, also when the client is long gone.
- When one direction of a proxy ends, the other task goes on, holding both
  connections, until its own peer closes or it has something to write.
- Links that lead nowhere, the `astray` objects of the resources. The firmware
  inventory lists what it finds over D-Bus and looks for a member only in
  memory, where nothing is ever put (`api/redfish/update_service.rs:293`).
  Drives, network adapters, slots of virtual media and the BMC's interfaces are
  listed at any depth and read at one: a nested one is answered 404, or with
  defaults. A chassis is found anywhere and read below `system/chassis`. The
  operating configurations of cpu1 are listed by a prefix that is also one of
  cpu10's.
- A sensor whose `Value` is not a number is listed and answered 404
  (`api/redfish/chassis.rs:667`), an `astray` object like those above.
- The id of a sensor joins its type and its name with `_`, so two sensors may
  have one id; elsewhere the id is the last element of the path, and two objects
  at different places may share it.
- The processor's power cap: PATCH takes the first object whose path contains
  `p1`, GET looks for `p1_` (`api/redfish/systems.rs:2142`).
- `BiosSetup` and `UefiTarget` are advertised and stored as `Default`.
- `ResetActionInfo` (`api/redfish/systems.rs:1677`) advertises reset types that
  the reset answers 400.
- Static IPv4 addresses go to D-Bus as a JSON object, which has no D-Bus form:
  they are never sent. A list of strings is sent as a list of variants, though
  `dbus/mod.rs:685` says `as`.
- `DHCPEnabled` and `MinPasswordLength` of an answer are constants, whatever was
  set; the identify LED is set at one object and answered from others.
- `get_property` and `set_property` name no destination for their call
  (`dbus/mod.rs:204`, `238`). The model lets any call fail.
- A PATCH of a trigger's `Id` may give two triggers one id, and an `Id` that is
  not a string makes a trigger nobody can find or delete.
- `persistent_data.rs:9` says that sessions are saved and restored; they are
  not.

## Not modelled

- PAM, Base64 and TLS: stateless or external; their verdict is a guard.
- The exact formats of Redfish documents, and the static ones among them.
- `add_firmware` and the map in memory behind it, which only tests fill.
- Handlers that assemble one document from one snapshot or from independent
  reads, each with a default: environment metrics with the power cap, the
  chassis' power and thermal documents, assembly, PCIe slots, BIOS attributes;
  post codes, the host logger, the journal and diagnostic data, which read
  files; certificates and aggregation. Nothing they do relates two pieces of
  state.
- Of the D-Bus REST API the lists, and the search for an object at seven
  services.
- Answers of D-Bus as data: a value that does not convert counts as one that
  could not be read.
- The event stream (SSE), which sends one heartbeat.
- `optional_auth_middleware`, which no route uses.
- `path.exists()` is taken to answer truly; it also says no when it may not
  look.
- A response is taken to reach the client; a client that goes away in the middle
  makes axum drop the handler's future at an `.await`, which is the same as its
  remaining steps never being taken, and no property relies on them.
- Poisoned locks: a panic inside a lock would fail every later request; no
  modelled operation panics with a timeout that PATCH admits.

## The plan

What the project set out to model is modelled: sessions, tasks and updates,
events, the file, the proxies, triggers, reading and setting; and every safety
property of it is proved. What is left, in order of importance:

1. *Settings*: the power cap, whose lookup and call are two steps.
2. *D-Bus client*: numbers between JSON and D-Bus with their widths, as
   functions checked against a reference.
3. *Server*: the accept loop, TLS set-up and shutdown; what becomes of the
   deliveries and proxies then.
