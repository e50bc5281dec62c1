# Home Curator, in TLA+

Home Curator is a Home Assistant add-on: a FastAPI process that mirrors Home
Assistant's device, area and entity registries, evaluates policies against them,
remembers exceptions and deletions in SQLite, and serves a React front end that is
kept up to date by server-sent events. This directory holds a model of it in TLA+,
configurations that check the model with TLC, and proofs checked by TLAPS.

Paths below are relative to `src/apps/backend/src/home_curator/` (back end) and
`src/apps/frontend/src/` (front end, written `frontend:`). `PROJECT.json` maps every
definition to the lines it translates.

## 1. The system

| Component | State it keeps | Operations | Modelled in |
|---|---|---|---|
| Home Assistant client (`ha_client/websocket.py`) | socket, request table, supervisor task, subscribers | start, handshake, read loop, reconnect with backoff, commands, stop | `WebSocketClient` |
| Registry caches (`registry_cache/`) | areas, devices, entities, one lock per cache | load and refresh with a diff, lookups | `RegistrySync` |
| Event handlers, resync, lifespan (`main.py`, `api/cache.py`) | rule engine, tasks, policy file and error | startup, `on_event`, refresh tasks, recompilation, resync loop and endpoint, policy reload | `RegistrySync`, `DeletionTracker`, `PolicyStore`, `LiveUpdates` |
| Deletion tracker (`deletion_tracker.py`, `storage/deletion_repo.py`) | last snapshots, reappeared flags, table `deletion_events` | diff of devices and of entities, restore | `DeletionTracker` |
| Policy store (`policies/`, `api/policies.py`) | `policies.yaml`, loaded file, load error, compiled engine | seed, load, watch, reload, save with cascade | `PolicyStore` |
| Exceptions (`storage/exceptions_repo.py`, `api/exceptions.py`) | table `exceptions` | acknowledge, clear, list, bulk delete, cascade | `PolicyStore`, `LiveUpdates`, `Listing`, `Catalogue` |
| Event broker and stream (`events/broker.py`, `api/events.py`) | one bounded queue per subscriber | subscribe, publish, take, idle poll, end | `EventBroker`, `LiveUpdates` |
| Browser cache (`frontend:api/`, `frontend:hooks/`) | query results, invalidated queries, mutations under way | stream, invalidate, refetch, mutate | `LiveUpdates`, `DevicePage` |
| Settings pages (`frontend:pages/Settings/`) | a draft of the whole policy file | fetch, change, save | `PolicyStore` |
| Rule engine and rules (`rules/`, `user_regex.py`) | compiled rules | validate, compile, evaluate | `RuleEngine`, `Catalogue` (when it is compiled: `RegistrySync`) |
| Device and entity listing (`api/devices.py`, `api/entities.py`, `api/listing.py`) | none | filter, count, sort, page; the simulator of custom rules | `Listing`, `Catalogue` |
| Bulk actions (`api/devices.py`, `api/entities.py`, `api/listing.py`) | the request being worked off | delete, assign, switch off, rename by pattern, dry run, single updates | `Batch`, `BulkActions` |
| Device page (`frontend:pages/Devices/`, `frontend:hooks/`) | filter, rows, selection, drawer and draft, dialogs | select, filter, edit, save, confirm, refetch | `DevicePage` |
| Entity page (`frontend:pages/Entities/`) | the same | the same, on the entity endpoints | its requests in `BulkActions` |
| Areas, configuration, static files, migrations, fake client | none that changes | reads | not modelled |

How they interact. The client hands registry events to `on_event` (a callback on the
event loop), which only *schedules* refresh tasks; those reload a cache under its lock
(awaiting one or two replies), let the tracker compare the new contents with its
snapshot, commit its session, and publish a notice to the broker. The resync loop and
the resync endpoint do the same for both caches. The rule engine resolves its room
overrides against the areas at compilation, so area events recompile it. `policies.yaml`
is written by people and by the settings pages; a file watcher reloads it. Notices reach
each tab through a bounded queue and make it refetch. The lists are computed from the
caches, the compiled rules, the flags and the exceptions at every request; a bulk request
looks each item up in the cache and calls Home Assistant for it, one after the other,
while refreshes follow behind. Handlers declared with `def` run
in a thread pool beside the event loop.

What is hard about it:

* refreshes of one cache overlap, fail half-way, and finish in any order;
* events are lost with the connection, during the handshake, and before the
  subscription at startup; only refreshes on reconnection and the resync make up for them;
* requests have no timeout; their replies can be consumed by a handshake;
* deletions and returns are seen only as differences of snapshots, taken by handlers
  that share one database session, across restarts;
* a save writes a file, deletes rows and is noticed by the watcher, in steps a crash can
  separate; files break in ways that raise in different places;
* notices are dropped from full queues and lost while a stream is down;
* three lists, their filters and counters, two naming rules and the simulator each work
  out for themselves where an entity is and what a rule says of it;
* a deletion takes several calls, a bulk request many, and any of them may be refused
  while others change the same devices;
* a drawer's draft, a dialog's ids and a confirmed preview are older than what they are
  applied to.

`PROJECT.json` lists each of these as a hazard, at its line, with the properties that
would catch it going wrong.

## 2. The modules

A state machine whose instance needs symmetry sets, or homes, rules and patterns, has an
MC module (`MC...`) with them; each `.cfg` gives the constants their values.
Definitions named `M_...` are plausible bugs: substituted for the definition of the same
name they make the property named in `PROJECT.json` fail, which shows that the property
watches that code.

### RegistrySync

Contents of a registry are abstracted to a revision; a cache is the revisions it was
built from, including those of the *names it copied* (a device carries the area name of
its load, an entity those of its area and its device). Tasks are slots; a task's `pc` is
the await it is suspended at. One action is one stretch between two awaits:

| Action | Code |
|---|---|
| `Dispatch`, `Reconnect` | `on_event`: one task per registry event, a device and an entity task for a `ReconnectedEvent` |
| `BeginHandshake`, `Discard` | `_supervise`, `_connect_and_handshake`: a reconnection authenticates and subscribes, and throws away the answer to a request made meanwhile |
| `StartResync` | `_safety_resync_loop`, `POST /api/cache/resync` |
| `LockDevices`, `ReceiveAreas`, `ReceiveDevices` | `RegistryCache.refresh` under its lock, then what the task does with it: diff, notice, recompilation |
| `LockEntities`, `ReceiveEntities` | `EntityRegistryCache.refresh`, then `FinishResync`, `FinishEntities` or `FinishBoot` |
| `Fail` | a refused request or a dead connection, at any await, with what the `except` and `async with` do |
| `HAChange`, `Disconnect`, `Answer` | Home Assistant and the network (external) |

The areas are replaced when they arrive and the devices asked for after that
(`ReceiveAreas`): a refusal or a lost connection can come in between. A resync that asks
while a handshake lasts may never get its answer (`Unheard`, `Hung`): it then holds the
cache's lock until the connection goes, for good if it does not. `get_devices` asks several
registries; their replies are taken as one listing. History
variables `lost` (what a failed refresh, a lost or an early event will not deliver) and
`unannounced` (a listing change not yet told to the browser) state exactly what the
code promises.

### WebSocketClient

The supervisor's phases, the handshake steps, the socket as a queue of unread messages,
and the request table. `Call` may happen at any time after the first handshake, as tasks
of RegistrySync and HTTP handlers do: on a closed socket it raises, before authentication
Home Assistant hangs up, during the later steps it is sent on a socket whose reader
discards what it does not wait for. `untold` are registries changed since subscribers
were last told; a `ReconnectedEvent` tells them everything because it reloads both
caches. Whether frames during a handshake are malformed is left out. RegistrySync's
assumptions on the connection are what this module establishes: an event per change
while it is up, a reconnection after every loss, and no answer for a request whose reply a
handshake has discarded (`websocket_hang`, `Discard` there).

### DeletionTracker

Registries map ids to identities (hashes). A handler reloads, diffs and commits without
an await in between, and is one action (`Refresh`); a resync awaits between its two
reloads and is two (`ResyncDevices`, `ResyncEntities`, `ResyncFails`). `Commits`,
`Faults` and `Raises` are the outcomes on SQLite: a write may be refused at the commit or
at the flush a lookup triggers, after which the shared session stays broken. `Restart`
rebuilds snapshots and flags. A rename takes an entity from one id to another: it leaves
the first like a deletion, and `removed` (history) tells the two apart. `Mishaps` selects
what may go wrong in a run: restarts, refused writes, renamed entities, identities changed
in place. A write that fails or an identity that changes under the same id (`Rekey`) costs the process its properties until
it restarts: they are stated for `Healthy` processes. The two kinds share the column of
hashes, and nothing keeps their hashes apart (`Shared`).

### EventBroker and LiveUpdates

`EventBroker` has the bounded queues and the life of a stream. `LiveUpdates` extends it
with the resources on the server, each reduced to the number of its changes, and the
queries, invalidations and mutations of each tab. It takes what the other modules do as
single changes (`DevicesChange`, `EntitiesChange`, `ReloadPolicies`, `SavePolicies`) and
asks what a browser ends up showing. React Query cancels and restarts a fetch under way
when its query is invalidated, so a refetch is one step. Pings change nothing.

### PolicyStore

A file is what loading it does (missing, its directory too or not, valid, invalid, a list,
binary); contents map
policy ids to settings, of which some hold a pattern RE2 refuses. `Start` is the part of
the lifespan that seeds, loads and compiles; between it and `StartWatching` a change is
seen by nobody (`missed`), and `StartWatching` itself ends the watcher's task if there is
no directory to watch: `awatch` raises, nobody looks at the task, and no later change is
seen either. When the directory is deleted the watch goes with it. `Reload` keeps the order of its assignments: with a refused
pattern the error is reset before the compilation raises. A save is `BeginSave`,
`ReplaceFile`, `Cascade` with editors, thread-pool handlers and crashes between them,
but no `Reload`: `update_policies` is a coroutine without an await in that stretch.
Settings pages keep the draft they fetched for as long as they are open.

### RuleEngine, Listing and Catalogue

`RuleEngine` (no state) has what the schema accepts (`ValidPolicy`), compilation against
the areas with its room overrides, and each rule's verdict on a device or an entity. A
text is its words and the way they are written (`snake`, `kebab`, `title`, ...), which is
all that the presets, the room prefixes and the two naming rules look at. Regular
expressions are the styles they match, CEL expressions one of a few conditions on the
context the code builds for them.

`Listing` (no state) has what the read endpoints answer from a state of the server: rows
and issues, effective areas, filters, counts and choices, sorting, pages, the exception
list and the simulator. What Python writes as a comprehension or as `sorted` is defined by
ranks: `Keep` has what a sequence holds at some of its positions, `Sorted` the rows in the
order of their keys and, among equal keys, of their positions; both take the element of
rank `n`, so that something can be proved of them.

`Catalogue` moves that state. Home Assistant's registries change (`DeviceEdited`,
`EntityEdited`, `AreaCreated`, `AreaRenamed`, `AreaRemoved`, `Removed`, `CameBack`), the
caches, the engine and the flags follow (`RefreshAreas`, `RefreshDevices`,
`RefreshEntities`, `Recompile`), issues are acknowledged and cleared. Its properties relate
answers computed by different code from the same state. A refresh of the devices is two
steps, as the areas are replaced before the devices are asked for and may be renamed or
gone by then; the rules are compiled in a step of their own. Devices that have the names of
other areas than the cached are therefore a state of the server, and what the properties
say of rooms they say while the copies are those a reload would make (`DevicesCurrent`,
`Coherent`, or the same of one device). What the tracker knows is the set of identities it
saw go, as `DeletionTracker` has the table; it passes over devices without identifiers
(`Unidentified`), of which `DeviceReturnsReported` says nothing. `Device` and `Entity` are the
dataclasses of `rules/base.py` as far as the lists read them, and `IsHome` says what Home
Assistant keeps to: no two areas of one name, no two items of one id, nothing in an area
that is not there.

### Batch and BulkActions

`Batch` is what a bulk request promises: every item gets an outcome, in the order of the
request, whatever became of those before it; when all have one the answer is sent, and
that it is sent in the end. `BulkActions` has what the endpoints do: an item is looked up
in the cache and settled at once or asked of Home Assistant (`Attempt`); the call is
refused (`Refused`), carried out when it is answered (`Listed`, `Unlinked`, `Removed`,
`Changed`), or carried out with its answer lost (`ReplyLost`), which counts as a failure. `delete_device` lists the config entries once and removes them one by one.
`Edited` are other users of Home Assistant, `Refreshed` the cache following. A rename by
pattern is worked off like any other request; its dry run is the same code without the
calls, and `preview` keeps its outcomes. `DeviceRecord` and `EntityRecord` are what Home
Assistant keeps of an item; `uid` is the id it had at first, which no code reads: it tells
items apart when ids change hands. `BatchImplemented` is the refinement: the
abstract specification, liveness included, with the items and the outcomes' `ok`.

### DevicePage

Extends `BulkActions` with one tab at the device page. `tab` has the filter, the answers
kept for each filter, the rows on screen, the selection, the drawer with its draft, and
the dialog. `Effects` are React's effects after new rows: the selection loses what is not
on screen, the drawer closes when its device leaves. `Refresh` is the server's cache
following, with its notice or without (`missed`): one is lost while the stream reconnects,
and none is sent by a resync that fails half-way; `Online` refetches for another reason.
`Fetch` is the refetch of what is stale; a filter without an answer shows the rows of the
last one. `FetchFails` is one that fails with all its retries: an alert takes the place of
table and drawer (`Unmounted`), the draft is gone, and a drawer that comes back with the
table starts from its row (`Mounted`). `mounts` counts the alerts, since what a component
wants done with an answer is dropped if it has been unmounted in between (`AskerMounted`).

Gestures are `SetFilter`, `Select`, `OpenDrawer`, `EditDraft`, `Save`, `RequestClose`,
`Discard`, `OpenDialog`, `ChangePattern`, `Cancel`, `ConfirmDelete`, `Submit`; `AfterAnswer`
is what the answer of a request does to the page it comes from, with the values its closure
captured (`back`). The drawer trims the draft's name before it compares it with the row's,
which is not trimmed (`Entered`, `Differs`), and saves no empty one; `Trim` is any function
that does nothing the second time. The answers of the page's own requests are never lost.
Its rows are id, name and area; search, sorting and pages drop rows as the room filter
does. It takes the issues of a row from nowhere: `Catalogue` has them.

## 3. What is checked

TLC finishes every passing run with the given bounds; the violation runs show one
disagreement each.

| Run | Bounds | Shows |
|---|---|---|
| `sync` | 3 tasks, 1 resync at once, 1 change, 1 refusal, 2 disconnections | `TypeOK`; `LockInv`: locks are exclusive and never leaked; `NoRegress`: no cache or engine goes back; `DevicesSettle`, `EntitiesSettle`, `EngineSettle`: at rest each is current unless its notice or refresh was lost; `AnnouncedSettle`, `TrackerSettle`: without refusals every change is announced and diffed; `EventuallyCoherent`: the resync heals caches, copied names and snapshots whatever was lost, unless a refresh is left hanging |
| `deletions` | 2 ids, 1 identity of each kind, all mishaps | `FlagsMatchRows`, `ObservedReturnsFlagged`, `DeletionsRecorded`, `OnlyDepartedFlagged`: flags and table agree, nothing observed is forgotten, nothing is flagged that never left an id |
| `deletions_fault` (violation) | as `deletions`, refused writes only | after a refused write no later round records a deletion |
| `deletions_rename` (violation) | as `deletions`, renames only | an entity that was only renamed is flagged as returned |
| `websocket` | 2 requests, 2 changes, 2 failures, 1 unreadable frame | `NothingMissed`, `EveryChangeTold`, `CallsEnd` |
| `websocket_hang` (violation) | 1 request, 1 failure | a request made during a handshake loses its reply and never ends |
| `live` | 1 tab and another client, queue of 2, 1 change of each resource, 2 of the exceptions | `ShownWhenSettled`, `OwnAcknowledgementShown`, and in `TypeOK` the bound of the queues |
| `live_idle` (violation) | no change | a stream without a notice in its first two seconds raises |
| `policies` | 1 shipped and 1 custom policy, 2 settings, 2 pages, 1 target | `RulesFollowFile`, `LastGoodKept`, `OnlyEditorsBreak`, `BuiltInExceptionsKept` |
| `catalogue` | 2 devices, one of them without identifiers, 3 entities, 2 areas, 10 rules of every type, 2 changes | `RoomViewsAgree`, `PagesComplete`, `ExceptionPages`, `CountsPredictFilters`, `SimulatorAgrees`, `RoomPrefixBlamedOnce`, `DeviceReturnsReported`: what is computed in several places agrees |
| `entity_returns` (violation) | as above | an entity that was deleted and returned is not reported by the rule for entities |
| `page` | 2 devices, one with space around its name, and 2 config entries, or 2 entities with 3 ids; 3 names, one of them empty, 2 patterns, 1 change by others, 2 requests, 4 steps of users in all, 1 failed refetch | `BatchImplemented`, `DeleteOutcome`, `PreviewKept`: requests do what they report; `NothingOffScreen`, `UntouchedFieldsKept`, `DraftKept`: the page acts on what it shows; `DeletedLeavesTable`: what is deleted leaves the table |

Why the bounds are enough to be interesting. `sync`: the first load and one change give a
cache three contents, so that a refresh can be outdated while another is under way; three
tasks let a resync contend for a lock with the two of a reconnection; a refusal, a
disconnection or a discarded answer can cut any of them, and the second disconnection lets
one that hangs go. More changes and two resyncs at once are left to the proofs, which cover
every safety property of the run. `deletions`: with two ids an identity returns under its
old id or another one, next to devices without identifiers; nothing counts steps, so
interleavings are not bounded. A hash that a device and an entity share is left to the
proofs: it would take a third identity, which is too many states.
`websocket`: two failures let a reconnection fail, and two requests have their replies
reordered around it. `live`: with queues of two, three notices overflow a queue. Tabs do
not influence each other except through the server, where the other client takes their
part. `policies`: a file holds any of nine contents, is missing, its directory too, or is broken
in one of three ways, and two drafts allow lost updates. `catalogue`: two changes are enough
to remove and bring back, to move a device away from its entity, to create, rename or remove
the area an override names, or to edit and acknowledge, each with any refreshes in between;
the homes and the ten rules differ in what their properties distinguish, device names among
them that are, and are not, in title case, and a new name that is the room's in other
letter case. `page`: a step is a gesture, a request or a change by others; the page may start
with a drawer open, and four are enough to edit, save and have the row changed by somebody
else meanwhile, or to select, confirm and have an entry linked. One failed refetch is enough
to lose a draft and to unmount who asked for something.
`RoomViewsAgree` is about lists that fit on a page, which ends at 500 rows (`Fits`). One
request is worked off at a time and the page is opened in a home that has devices. No
request names an item twice: the pages send a selection, and the server does not check.

The proofs of section 5 lift the bounds for the theorems listed there.

Deadlock. The runs of `PolicyStore` and `DeletionTracker` check for it. In the others the
system may really stop: the process has exited or was stopped (`RegistrySync`,
`WebSocketClient`), or changes and requests, which are bounded, are used up
(`LiveUpdates`, `Catalogue`, `DevicePage`). Nothing waits for ever there unless
`websocket_hang` or the exemption of a liveness property (`Hung`) says so.

## 4. Fairness

* `RegistrySync`: the event loop runs ready tasks; Home Assistant answers over a live
  connection, and requests over a dead one fail (`_fail_pending`); the sleep of the resync
  loop ends. Nobody need *get* an answer: a handshake may discard it (`Discard`), and no
  fairness then frees the task. Locks are strongly fair: `asyncio.Lock` serves its waiters
  first come, first served. `BeginHandshake` and `Reconnect` are strongly fair because they
  wait for tasks to end, which only the model bounds. Changes, refusals, disconnections and
  discarded answers are never forced; that refusals and disconnections do not go on for ever
  are the bounds `MaxFaults` and `MaxDrops`.
* `WebSocketClient`: Home Assistant answers over an open connection, the supervisor runs,
  its backoff is at most 30 seconds. `Stop`, `Drop`, `Call` are not forced.
* `DeletionTracker` (for `deletions_fault` only): resync rounds come, and their entity
  half succeeds if it is tried again and again, so that the counterexample cannot hide
  behind an idle loop.
* `DevicePage`: Home Assistant answers a call or the connection fails it (`Server`; when it
  does neither is `websocket_hang`), an answer reaches the page, and the browser refetches
  what is stale, or fails to (`Fetch \/ FetchFails`). No refresh has to come, no notice to
  arrive, and users and other clients are never forced. The liveness of `Batch` rests on the
  first two.
* `PolicyStore`, `LiveUpdates`, `Catalogue`: safety only.

## 5. What is proved

For every value of the constants (which only have to satisfy the modules' assumptions):

`RegistrySyncProofs`
* `TypeCorrect`, `LockSafety`: types; `LockInv` is inductive relative to them.
* `OrderSafety`, `CachesNeverRegress`: `NoRegress` is no invariant of the caches alone: a
  reply is compared with what it will replace only when it arrives. `Ordered` adds that a
  reply on its way lies between the cache and the registry. It needs the lock: a second
  refresh of the same cache could move the cache past the reply.
* `TrackedSafety`: `Tracked` says that nothing is forgotten: whatever is behind Home
  Assistant has an event in flight, a task that *will* read the current revision, a
  reconnection to come, or counts as lost. With `BootAlone` (one lifespan task, only while
  booting) it is inductive. At rest there is no event and no task, which leaves
  `DevicesSettleAlways`, `EntitiesSettleAlways` and `EngineSettlesAlways`.
* `OwingSafety`: `Owing` says who still owes a diff or a notice when the device cache is
  ahead of the snapshot or of the browser: a task that has not ended, or the one the next
  reconnection starts. At rest there is neither: `AlwaysAnnounced`, `TrackerAlwaysSettles`.

`DeletionTrackerProofs`
* `TypeCorrect`, `FlagsAlwaysMatchRows`, `ObservedReturnsAlwaysFlagged`,
  `DeletionsAlwaysRecorded`, `OnlyDepartedEverFlagged`. None is inductive by itself. The
  invariant says that registry, caches and snapshots have no identity at two ids
  (`Contained`) and Home Assistant only what it gave an id (`Owned`), that whatever a cache
  or a snapshot has at an id is still there or has left it (`Left`), that every row is of
  something that left (`RowsLeft`), and, for a healthy process, that an id keeps its
  identity (`Steady`) and that table and flags know what the diffs saw (`Known`). A change
  of identity in place has to count as leaving the id for this, and nothing assumes that
  the hashes of devices and of entities differ.

`WebSocketClientProofs`
* `TypeCorrect`, `NothingEverMissed`. `NothingMissed` is about an open, read socket; the
  invariant says for each step of the handshake which registries are subscribed by then
  (`SubscribedSoFar`), that no reply but the one waited for is ahead (`OneReply`), and that
  the same holds of a socket that a backoff leaves open (`Heard`).

`LiveUpdatesProofs`
* `TypeCorrect`, `AlwaysShownWhenSettled`, `OwnAcknowledgementAlwaysShown`. `Told` says
  where the news of what a tab does not show is: in its queue, in an invalidation, in the
  answer of a mutation, or lost. That a full queue drops the oldest notice and keeps the
  later ones of its kind is the lemma the rest turns on; `Acted` is the same for what a tab
  acknowledged itself.

`DevicePageProofs`
* `NothingEverOffScreen`, `UntouchedFieldsAlwaysKept`, `DeletesAlwaysReported`. The
  invariant types the request, the registries and the page, says that an untouched field of
  a draft is as it was when the drawer opened (`DrawerOK`, unless an alert is in its place),
  so that it is sent only if the row has changed or trimming changes it, and that while
  entries are being removed the device has none but those still to do and those linked since
  (`Reached`), lost answers included. Beneath it, what Home Assistant and the cache hold are records of their kinds (`Home`,
  `CacheOK`), an update changes only such fields (`ChangesOK`), and no request names an item
  twice.
* `DraftAlwaysKept`: from the same invariant, one step at a time. A refetch that succeeds
  touches rows and not the draft, one that fails is exempt; of the answers only one closes a drawer; the gestures that change
  rows or filter need the drawer closed.
* `EveryItemAnswered`: the safety half of `BatchImplemented`. Every step of the composed
  system, page and other users included, is a step of `Batch` or leaves its variables alone.

`RenameProofs`
* `PreviewInvariance`, `PreviewAlwaysKept`. `PreviewKept` speaks of the items a rename has
  settled; its invariant (`PreviewOK`, `Renaming`) of those ahead: each is in Home Assistant
  as in the cache and as the preview saw it, however often the cache was refreshed
  meanwhile, the call under way asks for what the pattern makes of the next one, and the
  place of an item that has been renamed is none of those ahead. One that was renamed while
  the answer was lost counts as failed and is behind all the same (`CarriedOutKeepsPreview`). Home Assistant refuses an
  id that is taken, so a rename moves no item onto another. It is needed that a request
  names no item twice: a pattern applied again to its own result gives what no preview said.
  Any change by others ends the claim (`clean`).

`CatalogueProofs`
* `Invariance`: registries hold distinct items in areas that exist, and what was removed
  still fits in, since an area that goes takes it out (`GoneOK`); the cached areas have names
  of their own and the cached devices the names of the areas of *one* time, which need not be
  those now cached (`ServerOK`); the rules are the file's, compiled for the areas of some
  time; and the flags cover the devices with identifiers that the tracker saw go and that
  are cached again. The entity cache may hold copies of anything older.
* `RoomsAgree`, `CountsPredict`, `SimulatorIsHonest`, `RoomPrefixIsBlamed`,
  `ReturnsAreReported`: each from the invariant, by what the answers say of a row at
  a position. What is about rooms rests on `Coherent` or `DevicesCurrent` besides, or for
  `RoomPrefixIsBlamed` on the one device having the cached name of its room. Two things that code computes in two places are brought to one set of
  positions: of the rows in a room, of the items a rule fails. That an entity's copied
  area name stands for its effective area needs that areas have names of their own, also
  in lower case. Counting what a filter keeps (`KeepCount`) is a bijection between
  positions.
* `PagesAreComplete`, `ExceptionPagesWhole`: a finite set in a strict total order has one
  element of each rank (`RankFacts`, `Arrangement`): different ranks, and as many as there
  are elements. The keys of a column are ordered lexicographically (`LessOrders`, from the
  first position where two differ); equal keys are ordered by position; so a sorted list is
  a rearrangement in order. A list cut at multiples of the page size and flattened is the list
  (`FlattenCut`), by induction over the number of pages.

  Inductions are stated of sets of numbers and not of predicates: a set that holds zero and
  every successor holds all (`Successors`), from the well-foundedness of `<`. And since a
  recursive function is a choice among those that satisfy its equation, the proof of
  `FlattenFacts` first shows one that does.

`PolicyStoreProofs`
* `TypeCorrect`, `RulesAlwaysFollowFile`, `SavesNeverBreak`, `LastGoodAlwaysKept`,
  `BuiltInExceptionsAlwaysKept`. The invariant adds to the properties that a save under
  way carries a body with every shipped policy (because drafts do, because what was
  loaded did), that the engine is compiled from the listed rules, and that the state
  follows the file already before the watcher runs.

Assumed: what the modules' comments name as external behaves as its actions say, and the
named assumptions on constants, which TLC evaluates:

* `ItemsAssumption` (`BulkActions`): devices and entities have different ids, devices are
  finitely many, Home Assistant holds a record or nothing at each id, patterns map entity
  ids to entity ids and names to names.
* `TrimAssumption` (`DevicePage`): trimming gives names names and does nothing the second time.
* `NoneAssumption`, `HomesAssumption`, `NewAssumption`, `KeptAssumption` (`Catalogue`): what
  stands for a missing value or a missing room is no text, column or device; the homes are
  such as Home Assistant keeps (`IsHome`); areas, names and ids that are given are texts; kept
  exceptions are triples.
* `PoliciesAssumption` (`Catalogue`): the policies are such as the schema lets through. It
  does not ask for ids of their own: where a property needs that, it says so (`OwnId`).

All invariants and action properties of the passing runs are proved. Model-checked only:
what is temporal under fairness (`EventuallyCoherent`, `EveryChangeTold`, `CallsEnd`,
`DeletedLeavesTable`, the liveness of `BatchImplemented`), which is out of the prover's
reach.

## 6. Where the code does not do what it says

The findings of `PROJECT.json`, each with its run:

* `websocket_hang`: `_supervise` fails pending requests "so callers don't hang forever";
  a request sent during a reconnection's handshake does. If it is the resync's, it holds the
  device cache's lock as long as the new connection lasts, and neither an event nor a later
  resync loads that cache again: `Hung` in `EventuallyCoherent`.
* `live_idle`: the ping counter of the stream is a local read before assignment.
* `deletions_fault`: the tracker's session is never rolled back.
* `deletions_rename`: an entity that is renamed leaves one id and enters another in one diff,
  and is flagged as returned; `docs/policies.md:81-83` says that renaming one "does not look
  like a new one", and `docs/architecture/data-model.md:50` that it keeps its identity.
* `entity_returns`: `docs/policies.md` has `reappeared_after_delete` for entities too; the
  tracker flags them, but the entity list never reads the flags.

Found while modelling and narrower than a run, or without a sentence that says otherwise:

* A reconnection and a resync refresh the areas without recompiling the engine: room
  overrides keep resolving against the old areas until the next area event
  (`EngineSettle` delimits it).
* A `policies.yaml` that is not UTF-8, or holds a pattern RE2 refuses, when the program
  starts keeps it from serving; `docs/policies.md:13-15` promises degradation.
* An entity's copied area and device names may stay old after a device or area event;
  only the resync refreshes them (`EventuallyCoherent` is the property that claims them).
  One whose area was created after the device cache loaded is listed as having no area.
* A resync that fails in its entity half has changed the device cache without a notice;
  `AnnouncedSettle` is therefore about behaviours without refusals.
* What is back before a diff has seen it gone, or returns while the process is down, is
  never flagged (`observed` in `ObservedReturnsFlagged`).
* Hashes of devices and entities share a column: with identities spelt alike the deletion
  of one flags the other, and stamps the row for only one of them.
* `GET /api/policies` returns no error after a bad reload while good rules are loaded.
* A `policies.yaml` that holds a list makes every save fail.
* The settings pages' query is invalidated by nothing, their own save included: two open
  pages undo each other's changes. A save refetches the device list before the watcher
  has reloaded the rules, and never the entity list.
* The stream's reconnection invalidates nothing; acknowledging publishes nothing; a bulk
  deletion of exceptions leaves the device and entity lists as they were.
* A change between the load of `policies.yaml` and the start of its watch is missed. A
  configuration directory that cannot be made is "not fatal" (`main.py:128-139`), but the
  watcher's task dies of it, unnoticed: nothing that is written later is loaded, a save of
  the program's own included, which makes the directory. `docs/architecture/rule-engine.md:152`
  says of the watcher only what it does when it runs. (`missed` in `RulesFollowFile`)
* Between the areas and the devices of a refresh, for good if the devices are refused, the
  device list filters by the rooms' old names and the exception list by the new areas; a room
  prefix may then be blamed on neither device nor entity (`Coherent`, `DevicesCurrent`).
* A device without identifiers that was deleted and returns is not flagged: the tracker
  passes over it (`deletion_tracker.py:123`, `:136`).
* Exceptions are keyed by `entity_id`: after a rename whatever takes over the id has them.
* `issue_counts_by_type` counts issues, its filter shows rows. The exception list filters by
  effective area and shows an entity's own. The search of devices looks at `name` where the
  row shows `name_by_user`. CEL rules see an entity's own area where
  `docs/policies.md:249,261` has the effective room.
* Two room overrides that resolve to one area are accepted, and the later one wins. An
  override of a naming rule whose room is not found switches the rule off for every room;
  one of an entity naming rule is skipped.
* The comments of `entity_naming.py` leave a missing room prefix to the device rule, which
  does not report it when the entity is in another area than its device, when the device
  rule wants snake or kebab case, or when it is off (`RoomPrefixBlamedOnce` has the
  conditions). A device that has its room's name in other letter case is reported by the
  device rule, which minds the case, and its entity by the entity rule, which does not
  (`entity_naming.py:203`): twice for one name.
* Policies of one file may share an id: an exception then silences both, and the simulator
  speaks for the one it was given only (`OwnId` in `SimulatorAgrees` and
  `RoomPrefixBlamedOnce`).
* A page past the end stays after a bulk deletion; the entity page keeps `?entity=` of an
  entity that left.
* A save of the drawer compares the draft with the row as refetched: a field that somebody
  else changed meanwhile is sent back as it was. And it compares the trimmed draft with the
  untrimmed name: a drawer of a name with a space at an end is dirty untouched, and a save of
  its room sends `name_by_user` too, which the test "sends only area_id when only Room
  changes" (`EditDeviceDrawer.test.tsx:145`) has no such name to show. (`UntouchedFieldsKept`)
* A refetch that fails takes the drawer away with its draft, unasked, and drops what was to
  follow a request under way (`DevicesPage.tsx:174-179`; the exemption in `DraftKept`).
* An open dialog acts on the ids it captured, though the selection under it is pruned so that
  no action "operates on rows the user can no longer see" (`DevicesPage.tsx:154-156`).
* A deletion started in a drawer closes, when it succeeds, whichever drawer is open then,
  and puts back the filter that was set when it was confirmed; so do the dialogs' forms,
  which close whichever dialog is open.
* The pattern dialog keeps the old preview, and its Apply, after the pattern is edited. A
  dry run does not see two names or ids become one, and the batch works on ids, which may
  have changed hands. A device that a pattern leaves alone counts as failed in the toast.

## 7. Not modelled, and why

Rendering, forms and formatting (no state the properties tell apart); pings; logs; the
fake client (a test double); migrations (run before the start); areas, configuration and
static files (pure reads). The order of the lifespan's teardown. Torn reads: a handler in
the thread pool that reads the policy file and the engine between two assignments of a
reload can mix the old and the new in one answer; `Reload` is one step. A database read
that fails during a reload. Clients other than the pages that send a partial policy file.

The entity page has the same table, selection, drawer and dialogs over the same hooks;
`DevicePage` stands for both, and what differs, the entity endpoints, is in `BulkActions`.
Columns and their widths, and rows that are wide apart only in how they are sorted, are
left to `Listing`. The characters of a text, a regular expression or a CEL expression are
abstracted to what the rules of the instance ask of them, so what `re2` and `celpy`
compute is not checked. Pages that are open in several tabs at once meet only through the
server: `LiveUpdates` has the other client, `PolicyStore` two settings pages.

## 8. Running it

    tlc -workers 2 -config sync.cfg RegistrySync
    tlapm RegistrySyncProofs.tla

The runs with liveness take longest: `sync` (450,000 states) about two and a half minutes,
`page` (1.1 million) three and a half; `live` has 6.8 million states and takes two.
