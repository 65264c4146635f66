# rw-manager-backend in TLA+

The backend of the Rising World server manager is one Node.js process. It
keeps a catalog of game servers in MongoDB, asks those servers over HTTP, and
tells browsers over REST and WebSockets what it found. There are no threads
to get wrong, but nearly every operation is `async`: between any two `await`s
another request, a timer, a socket's `close` event or a scheduled loop may
run, and what was read before the `await` may be stale after it. Writes to
MongoDB and to game servers can fail, answers can come late, sockets can close
at any time, and the process can be stopped anywhere.

These modules model that: an action is the code between two awaits (or in one
callback), and an operation with an `await` in the middle is at least two
actions. Paths below are relative to the root of the repository; the
TypeScript sources are in its `src/`.

Contents: [components](#components), [modules](#modules-and-the-code),
[runs](#runs), [fairness](#fairness), [findings](#findings),
[proofs](#proofs), [not modelled](#not-modelled), [plan](#plan).

## Components

For each component: the state it keeps, its operations, who it meets, what is
hard about it and what makes it correct.

| Component | State | Operations | Modelled by |
| --- | --- | --- | --- |
| Legacy data import (`src/db/mongodb.ts`) | `data.json`, `data.json.bak`, the collections, a marker document | `bootstrapMongoDb`, once per start | LegacyMigration |
| Server catalog (`src/service/master-server-list-service.ts`, `src/db/manager-store.ts`) | server documents, the refresh in flight | refresh from the master list, prune, query data loop, `updateServer` | Catalog, CatalogLoops |
| Live status of a server (`src/service/server-live-status-service.ts`) | cache, checks in flight, player list attempts | `getServerLiveStatus`, player list loop, connector events | LiveStatus, KnownPlayers |
| Server status feed (`src/service/server-status-live-service.ts`, `server-live-update-service.ts`) | subscribers with their snapshots | subscribe, set-servers, publish | StatusFeed, StatusBoard |
| Map live feed (`src/service/map-live-service.ts`) | subscriptions per server, each with a loop | subscribe, refresh, close | MapLive, MapData |
| Connector sessions and credentials (`src/service/game-connector-websocket-service.ts`, `game-connector-credential-service.ts`) | one session per server, the encrypted credential on the record | provision, authenticate, re-encrypt, reset | ConnectorCredential |
| Native plugin requests (`src/service/native-plugin-request-service.ts`) | failures and suspensions per server | protected fetch, reset after a 401, back-off | NativeRequests, StatusRequests; the race of the reset in ConnectorCredential |
| Server statistics (`src/db/server-statistics-store.ts`, `src/service/server-statistics-service.ts`) | hourly buckets | upsert of a bucket, ranges, answers for one server and for all | ServerStatistics, StoredData |
| Accounts and favorites (`src/service/storage-service.ts`, `auth-service.ts`, `src/db/manager-store.ts`) | user documents | register, sign in, connect Steam, rename, pin, unpin, delete | Accounts |
| Refresh scheduler (`src/service/manager-refresh-scheduler.ts`) | `stopped`, `running` and a timer per loop | start, stop | RefreshScheduler, RefreshLoops, CatalogLoops |
| Heartbeat and upgrade routing (`src/service/websocket-heartbeat-service.ts`, `websocket-upgrade-router.ts`) | `isAlive` per socket | ping, pong, terminate | what it does to a feed is `SocketClosed`; not modelled itself |
| Plugin data cache (`src/service/plugin-data-cache-service.ts`, `oz-plugin-release-service.ts`) | cached payloads with an expiry | refresh, read | PluginDataCache, MapData; releases not modelled |
| Known players (`src/service/observed-player-service.ts` and others) | lists on the server records | `mergeKnownPlayers` by every kind of writer | KnownPlayers, StoredData |
| Steam sign-in (`src/service/steam-openid-service.ts`, `auth-token-service.ts`) | nonces | verify | not modelled |
| Map layers and data (`src/service/map-layer-service.ts`, `map-service.ts`) | none for layers, read caches of history | layers and the live snapshot derived from an entry of the cache | MapLayers, MapData; history and tiles not modelled |
| Administration checks, routers, handlers, DTOs, mappers, configuration, logging | none | | not modelled |

How they meet:

* `src/index.ts` starts MongoDB (and with it the import), then the HTTP server, the
  three WebSocket services and the scheduler.
* The scheduler's loops, REST handlers and connector events all write the same
  server document. Writes of single fields are conditional and atomic
  (credentials, `$pull` of a pin); most others are `updateServer` or
  `saveServer`, which read a document and later save all of it.
* Five publish a status through `publishServerLiveUpdate`: a check
  (`persistLiveStatus`), the player list loop, the connector, the query data
  loop (and with it a superadmin's refresh) and the map feed
  (`publishLivePlayerStatus`), which stores nothing. The status feed's listener
  turns each into field deltas per socket.
* The catalog's prune deletes server documents, pins and statistics, closes
  the connector session and clears the live-status entry of the server.
* Protected requests read the credential from the document, and on a `401`
  reset it through the connector session, whose authentication ends the
  back-off.
* The map loops, the plugin data loop and REST requests refresh the plugin
  data cache; map layers and the live map are derived from its entries, and
  what it learns of players and of the server goes into the server document.

What is hard, and what makes each correct:

* **Import.** A start can be cut short anywhere, with writes on their way, and
  is repeated. Correct when: nothing MongoDB holds is changed, the source is
  archived only when everything is in, no backup is overwritten, and a
  migratable source is archived in the end. A look for a file that fails is
  taken for its absence, and a unique index may refuse a record.
* **Catalog.** Two starters of a refresh, three kinds of writers with old
  snapshots, a master list that fails. Correct when: one refresh at a time,
  which ends also when it fails; nothing is pruned without a list; a stale
  record goes in the end; a listed endpoint stays.
* **Live status.** Callers that share a check which may fail, be forgotten by
  a prune, or be overtaken by the connector or the player list loop. Correct
  when: callers share one check, each gets an answer, an offline server has no
  players.
* **Status feed.** A snapshot that is read before the subscription counts,
  publishers with old copies of the record, in another order than they stored
  and not always what the record then says, slow clients. Correct when: a
  client never shows a mixture of statuses, and what is published reaches
  everybody who follows the server.
* **Map feed.** A loop per server that starts with the first subscriber and
  ends with the last, while either may come or go during its refresh.
  Correct when: one loop per server with subscribers and none without, and
  deltas that fit what the client shows, as far as there are any (global
  offers have none).
* **Connector.** Pairings that overlap, a re-encryption of a credential that
  was replaced meanwhile, a late `401`, catalog saves of an old record.
  Correct when: a credential that left the store never comes back, Tools (the
  plugin at the game server) holds nothing that was not stored, one session
  speaks for a server, and a reset does not cost a valid pairing.
* **Accounts.** Whole documents that are read, patched and stored with awaits
  in between, against `$pull`, deletion and the catalog's rewriting of every
  user's favorites from one old list. Correct when: the limit of favorites and
  the uniqueness of names and ids hold, and nothing but a request that
  overlaps undoes a rename or a removal.
* **Scheduler.** A run re-arms itself from its `finally` block, while `stop()`
  may come twice and at any time; a task may never settle. Correct when: a loop
  runs its task again as long as its runs end, once at a time, and after
  `stop()` no run starts.
* **Native requests.** Calls hold records with older credentials, wait for a
  request of another call, and are refused late; the failure they leave pauses
  the server. Correct when: a server whose credential is accepted becomes
  accessible again, and stays so.
* **Plugin data cache.** Refreshes of one server overlap, and the one that
  ends last sets the entry, whichever asked last. Correct when: readers get
  what the game server has in the end, and the record its map.
* **Map layers.** A dozen payloads of several plugins, each of which may be missing
  or give junk. Correct when: what is derived from one entry fits together, and
  a claim shows the right sale, renewal and extent.
* **Statistics.** Samples come in another order than they were taken in, and
  bounds of a range fall on and off the hour. Correct when: each sample counts
  once in its hour, adjoining ranges neither share nor miss a bucket, and the
  answer for all servers holds that for each.
* **Known players.** Everybody saves the whole list, some the whole record.
  Correct when: a player who stays is always found again.

`PROJECT.json` lists the hazards line by line with the properties that cover
them.

## Modules and the code

Every component has one module with the specification, an `MC` module that
names the model values of its runs, and, where something is proved, a `Proofs`
module. Names follow the code; a definition `Mut...` is not part of the
specification: it is a plausible bug of the definition below it, and the
property it is listed with in `PROJECT.json` fails when it takes that
definition's place.

**LegacyMigration** — `bootstrapMongoDb` and `migrateLegacyJson`. `pc` is the
await the start has reached: connect, look for `data.json` and read it, look
for the marker, list the ids MongoDB holds, write, verify, mark, look for
`data.json` again and for a backup, rename.
`source` and `backup` are the two files, `mongo` the documents by id, `pending`
the upserts that were sent and not applied. `InsertMissing` applies one of
them (`$setOnInsert`), in any order; `RefuseMissing` is the duplicate key error
of a unique index, which fails the start that waits for it. `Finds` is
`exists()`: any error of `access()` makes a file that is there absent, so that
`NoSource` and `CheckSource` may let the manager serve with `data.json` in
place, and `CheckBackup` may go on to the rename; `missed` remembers the files
this happened to. `VerifyLegacyRecords` compares counts, and sum and maximum of
the buckets, leaving out `existing`. `IOError` (of the awaits that can reject),
`Crash`, `Stop` and `MoveBackup` are what else goes wrong, and the operator;
`Serve` is the manager after the start, which changes documents between two
starts. A record is one number: contents, or the counters of a bucket;
`Clashes` says which contents of two records have an indexed key in common.

**MapLive** — connections, subscriptions and loops of the map feed. A
`ServerSubscription` is an element of `Objects`, because a loop holds on to its
object after the map of subscriptions has forgotten it: the two-loops hazard
is about exactly that. `Subscribe` is the continuation after user and server
were awaited, `SocketClosed` the `close` event with `removeSubscriber`,
`RefreshPublishes` and `RefreshFails` what follows the awaited refresh with
the `finally` block of `run`, `TimerFires` the next run, `Shutdown` is
`close()`. A map is a function from entities to versions; deltas name entities.
`GlobalOffers` are entities that the kept snapshot has and `mapLiveChanges` does
not compare: a delta is over `Told`, the others, and so are `Agree` and the
properties of clients. `FetchMap` is the client that loads its map over REST.

**PluginDataCache** — the cache entry of one server and the refreshes of it:
`ListAnswers` for the two lists that are fetched side by side, `Routes`,
`Offers` (by area, then global), `SaveInfo` or `KeepInfo` with what the server
says of itself, `FindPlayers` and `SavePlayers` as the two halves of
`updateServer`, `SetEntry` as `cache.set`. Data is reduced to whether it is
what the server would answer now. `LoopRefreshes` never looks at the entry,
`EnsureRefreshes` only when it is missing or too old.

**MapLayers** — the layers of the map as operators on an entry, and the
reading of the routes (`ReadRoute`), of which each may give nothing. `MapClaims`,
`MapPlayers`, `ClaimSales`, `CachedRenewZones`, `NpcMarkets` and `Dated` are the
layers, `Capabilities` and `LiveSnapshot` are put together from them. Fields
that are only passed on are left out; `Junk` is an item of the wrong shape.

**MapData** — MapLive, PluginDataCache and MapLayers in one specification (see
below).

**ConnectorCredential** — the credential of one server in the store (`record`,
`cred`), the secret Tools has (`tools`, external), connections with the stage
their first message has reached, the session, protected requests, a catalog
save with a snapshot and a prune. The four ways to write a credential are the
four conditional updates of `manager-store.ts` (`Claimed`, `Replaced`,
`StillCurrent` twice), and a catalog save that leaves it alone
(`SavedCredential`). A secret is a number, an encrypted credential the secret
with the kind of key that encrypted it: the current one, one that still
decrypts, one that does not. `Restart` drops all that is in memory.

**StatusFeed** — the status feed for one server; **StatusBoard** is what it
promises: a client shows nothing or one status that the record had or that was
published, as a whole. A status is a function from its fields to values, where
`None` is a field that is absent; `Changes` is `serverLiveStatusChanges`,
`Apply` the client. `Request`, `ReadSnapshot` and `Subscribe` are the three
parts of handling a message. `Write` is the five publishers, each with a copy
the record had at some time (`recorded`): `PersistLiveStatus`,
`RefreshOnlinePlayers`, `AcceptPlayerStatus`, `RefreshQueryData` and
`PublishLivePlayers`. What they store and what they then publish differ as in
the code: `Over` is `updateServer`, which drops what an update leaves undefined,
while the response is published without it; the player list loop publishes its
old copy with new players; a connector's report is published without the error
that stays on the record; the map feed's players, marked online, are on no
record. `pending` is what a writer has yet to publish, `Publish` the listener,
in any order over the writers. `known` collects what was on record or is
published. `MAX_FRAMES` is the send buffer. `ShowsRealStatuses` is the
refinement `Board!Spec`; the mapping is the identity on `known` and `view`.

**NativeRequests** — the gate of the protected plugin routes for one server:
`failure` and `pending` are its entries in the two maps, a call goes from
`ready` over `waits` or `sent` to `ready` again, and `Ends` is the `finally`
block with the calls that wake up: they do not look at the pending request
again, so that several may go out at once, as in the code. `Evict` is the cap
of the map of failures, `PauseEnds` the end of a back-off, whose length (5 to
30 minutes) is left out.

**StatusRequests** — StatusFeed and NativeRequests in one specification, on
which StatusFeedProofs rests.

**LiveStatus** — `getServerLiveStatus`, the player list loop and the connector's
events, which write the status of one record; the query data loop, which does
so too, is in StatusFeed and, with what it does to `lastSeen`, in Catalog.
`call` is a REST request (found, waiting for a check, answered,
failed), `fetch` a check (query, persist, save, sample, done), `refresh` the
player list loop, `event` a connector event; each holds the record it read in
`base` until it saves it. `Patched` is what `updateServer` saves.

**Catalog** — the refresh from the master list, for one endpoint, with the
record reduced to `lastSeen`: `Start`, `Fetch`, `Save`, `ListStale`, `Delete`
follow the awaits; `query` and `writer` are the writers of whole records. Time
is in months of 30 days, the age at which a record is pruned.

**RefreshScheduler** — `startLoop` and `stop()`: `armed` counts the timeouts
of a loop that did not fire, so that a second one would show. **RefreshLoops**
is what it promises; `PhaseOf` is the refinement mapping. `Bounded` are the
loops whose tasks settle: a run that does not end keeps its loop for good.

**CatalogLoops** — Catalog under the two loops of the scheduler that work on
it: the master loop starts a refresh, or none when one is in flight; the query
loop lists the records (`QueryBegins`); a run settles when its task has ended.
Refreshes and queries begin only there (and with a superadmin), so Catalog is
run and its liveness claimed with the scheduler's own fairness.

**ServerStatistics** — samples into hourly buckets
(`RecordServerStatisticsSample`), `ListBuckets` and the two answers made from
them. `store` says whether MongoDB or memory holds them. Times are small
numbers with an hour of two units; `LastInstant` is the end of the year 9999,
after which an ISO string sorts before all others.

**KnownPlayers** — the list `knownPlayers` of one record and its writers: the
player list loop, status checks, queries, the connector, the plugin's list and
those that save the record for another reason (`Patch`). `Merged` is
`mergeKnownPlayers`; `Answered`, `FindRecord` and `Save` follow the awaits.

**StoredData** — LegacyMigration, ServerStatistics and KnownPlayers in one
specification.

**Accounts** — the users collection (`accounts`) and requests (`task`).
`UpdateReads` and `UpdateSaves` are the two halves of `updateUser` and of
`setUserSteamId`; `patch` is what is put over the document, `base` the
document, `next` what the request does after it (mark the user as present, or
go on with the catalog's loop). `Register`, `SignIn` with `Persona`,
`ConnectSteam`, `DisconnectSteam`, `Touch`, `Rename` and `Pin` with
`PinFindsUser` are the requests; `Touch` stands for those that store fields
nothing else depends on (last seen, roles, tokens, channels). `Unpin`, `Prune`
and `Delete` are one operation of MongoDB each. `ReplaceStarts`, `ReplaceNext`
and `ReplaceEnds` are `replacePinnedServerId`. `Admitted` is the unique
indexes: the index on `steamId` is sparse, but the driver stores `undefined`
as `null`, which it does not leave out, so `None` takes part in it and
`Absent` (imported documents) does not. Names generated from a Steam id are
pairs. Two history variables hold what was chosen or removed while no other
request had a copy: the properties say of those that nothing brings the old
value back. The servers collection is not kept, so that any server may be
found by a pin or pruned.

CatalogLoops is a composition whose parts meet: a step of the scheduler and
the first step of its task are one step. Elsewhere, where a component meets
another one, the other's steps are actions of its module: a prune is in
ConnectorCredential, LiveStatus and Catalog, a check's write in LiveStatus and,
with those of all who publish, in StatusFeed, an authentication in NativeRequests, `Serve` in LegacyMigration.
MapData, StatusRequests and StoredData hold components that lie next to each
other in the data flow and have no variable in common. Any interleaving of
such parts is one behaviour of each, so that a property of one holds of the
whole when it holds while the others stand still; a constant `part`, chosen in
the initial state, says which of them moves. Their product would multiply
states without adding anything a property could see. Where the part that
stands still has several initial states, one of them is enough.

## Runs

| Run | Module | Shows | Bounds |
| --- | --- | --- | --- |
| `migration` | MCStoredData | import is faithful, preserves, archives only when complete, keeps backups, ends; buckets account for samples; known players are found again | 3 records to import, 1 more, 2 contents, 1 clash, 2 faults; 2 servers, 3 samples of 2 hours, 7 bounds; 2 players, an entry without uid, 1 writer besides the loop |
| `migration_restart` | MCLegacyMigration | *violated*: a marked source is not refused later | the import of `migration` |
| `map_live` | MCMapData | one loop with subscribers, none without; deltas keep a client in step but for global offers; the cache catches up; layers fit together | 2 clients, 1 server, 2 objects, 2 changes; 2 refreshes at once; 3 payloads an entry, 2 items each |
| `map_live_dead_subscriber` | MCMapLive | *violated*: a server is refreshed only while it has subscribers | 1 client |
| `connector` | MCConnectorCredential | no retired credential returns, Tools holds only what was stored, one live session | 2 connections, 1 request, 3 secrets |
| `connector_reset` | MCConnectorCredential | *violated*: a reset deletes only the rejected credential | the same |
| `status_feed` | MCStatusFeed | whole statuses only (refinement), frames lead to the snapshot, a published status arrives; access comes back after a 401 | 1 client, 2 publishers, 2 requests, 2 writes, buffer of 1; 3 calls, 2 credentials |
| `live_status` | MCLiveStatus | calls share one check and are answered | 2 calls, 2 checks, 1 event, 1 refresh, 1 prune |
| `live_status_offline` | MCLiveStatus | *violated*: an offline server has no players | the same, no prune |
| `catalog` | MCCatalog | refreshes exclude one another and end, prune needs a list, stale records go; the loops implement RefreshLoops | 2 callers (one is the master loop), 2 loops, 1 writer, 3 months |
| `catalog_listed` | MCCatalog | *violated*: a listed endpoint is not pruned | the same |
| `accounts` | MCAccounts | the limit of favorites, unique accounts, chosen names and removals that stay | 2 accounts, 2 requests at once, 2 names, 2 servers, limit of 1 |

Each is run as `tlc -config <cfg> <module>`; the longest takes about three
minutes.

Why the bounds are enough: every hazard on the list needs at most two actors
of a kind and one of each other kind, once. Two connections let pairings
overlap and a session replace another; three secrets are the pairing of an
earlier run, the one that overlaps with it, and the one after a reset. Two
checks are one that a prune forgot and its successor. Two faults are a start
that is cut short, and one more that is cut short while it repairs the first.
Two objects are the one a loop holds and a new one. Three months are: seen,
stale, and stale again after a writer brought the record back. Two refreshes
of the cache are one that is overtaken by the other. Three calls are one that
is refused and two that wait for it and then go out together. Three samples
are two for one bucket, in either order, and one for its neighbour; bounds
fall on an hour, inside it, past the end of the calendar, or are missing or no
date. Three payloads are the areas with their zones and their sales. One buffered
frame is enough to overrun the buffer with two changes, and two publishers to
overtake one another. Clients of the status
feed do not interact, so one client has all its behaviours. In Accounts two
requests, or a request and the catalog's loop, begin in one behaviour, from
any stored accounts; removals, prunes, deletions and failures are not bounded.
Every race there is between two copies of one document, and two servers with a
limit of one let a list be full, extended and replaced. The theorems below
hold without these bounds.

`CHECK_DEADLOCK FALSE` is in the configurations in which all bounded work can
be done (every call answered, every change made, the service shut down).

## Fairness

Only what the runtime provides is assumed.

* LegacyMigration: an awaited call is answered or rejected, MongoDB applies
  what it received, the supervisor starts the backend again
  (`restart: always` in the compose files). Crashes are not fair, and bounded.
* MapLive: timers fire, awaited checks return, a closing socket closes (the
  heartbeat sees to that), a client loads its map. That a game server which is
  asked again and again answers once is strong fairness of the refresh, since
  each request may fail.
* StatusFeed: frames arrive on an open connection, and a writer whose write was
  confirmed goes on to publish. Nobody has to ask, check or write again: a
  status that a client missed between the read of its snapshot and its
  subscription is made up for by the next one that is published, if there is
  one, and `StatusArrives` is about those who follow the server by then.
* LiveStatus: every request has a timeout (`AbortSignal.timeout`) and the
  database answers, so a check takes its next step; a call that found its
  record decides.
* PluginDataCache: what a refresh awaits returns, entries age, and somebody
  goes on to ask for the data (the plugin data loop does, for servers that are
  online). `CacheCatchesUp` is about behaviours in which requests fail, and
  data changes, finitely often; nothing makes them.
* NativeRequests: requests have a timeout and pauses an end; callers go on to
  ask, now and then with a record they read anew; a game server that is asked
  again and again with the credential it accepts answers once.
* KnownPlayers: awaits settle, and the player list loop comes round for a
  server that is online and has no connector.
* RefreshScheduler: timeouts that are armed fire, and the tasks of `Bounded`
  settle. Of the two tasks in CatalogLoops that is the refresh from the master
  list, which has a timeout (`master-server-list-service.ts:118-120`). The query
  task has none: its `fetchJson` (`master-server-list-service.ts:104-114`,
  134-138) passes no signal, so that a game server that never finishes an answer
  stops the query loop until the process is started again.
* CatalogLoops: the same for the scheduler. That refreshes are started again
  and again is not assumed but follows from the loops; the database and the
  master list do not fail for ever (strong fairness); the writers are not
  fair, and that the query task saves its record, or ends, is not assumed.
* ConnectorCredential has safety properties only: whether Tools connects is
  up to Tools. So has Accounts: a request that fails is not repeated.

## Findings

Where the repository promises something the code does not do, the promise is
a property of its own and its run ends with a counterexample. Shortest forms:

* `MarkedSourceNotRefused` (`src/db/mongodb.ts:94`). MongoDB holds a
  statistics bucket with other counters than `data.json`. The first start
  leaves it alone, verifies without it, sets the marker, and fails before the
  rename. The next start finds the marker, compares *all* buckets, and throws,
  as does every later one. The migration is documented as idempotent.
* `RefreshOnlyWithSubscribers` (`src/service/map-live-service.ts:107`). The
  socket closes while its user or server is looked up; its `close` handler
  finds no subscription; the continuation subscribes the closed socket, and the
  server is polled from then on.
* `ResetSparesValidPairing`
  (`src/service/native-plugin-request-service.ts:49`). A request is refused
  with a `401`, the connector pairs again before the answer is handled, and the
  reset frame goes to the new session. The *store* keeps the new credential
  (`RetiredStaysRetired` and the conditional reset), Tools deletes it.
* `OfflineHasNoPlayers` (`src/service/server-live-status-service.ts:265`). A
  player list that was requested while the server was online is stored after a
  check found it offline.
* `ListedNotPruned` (`src/service/master-server-list-service.ts:305`). The
  query data loop saves the old `lastSeen` of an endpoint that has just
  reappeared, between the refresh's save and its search for stale records.

Three more disagreements with the documentation were read off while modelling
and have no run of their own; the models have them, and the properties leave
them out by name.

* The map feed sends no deltas of global offers. `README.md:179-180` has it emit
  changed map entities, and the offers are in the snapshot that is kept for each
  subscriber (`src/service/map-layer-service.ts:137`), but `mapLiveChanges` does
  not compare them (`src/service/map-live-service.ts:283-317`): a client goes on
  showing the old ones. `ClientStaysInSync` and `ChangesArrive` are about the
  rest (`Told`).
* An existing backup can be overwritten.
  `docs/archive/plugin-auth-websocket-and-mongo-only-storage.md:30` says never,
  and `backupLegacyJson` looks before it renames, but `exists()`
  (`src/db/mongodb.ts:270-277`) takes any error of `access()` for an absent
  file. `BackupNeverOverwritten` says that this is the only way. In the same
  way a start that misses `data.json` serves without importing it, and what it
  changes in a bucket may make every later start refuse the import;
  `MigrationCompletes` is about behaviours without such a start, and about
  records no unique index refuses (`src/db/mongodb.ts:300-318`), which would
  fail every start too.
* A status on record and the status the feed shows can differ for good: a
  connector's report clears the error in what is published and cached but not
  on the record (`src/service/server-live-status-service.ts:288-298`, with
  `src/db/manager-store.ts:274-276`), and so do fields a check leaves out. A
  client that comes later gets the record's.

Other things the models allow, or that modelling brought up, contradict no
promise of the repository. A change of the map between a client's REST load and
the first snapshot of its subscription is in no delta
(`src/service/map-live-service.ts:254`; `ChangesArrive` is about clients that
show their baseline). A request that read a user before a favorite was
removed, a name changed or the account deleted restores what it read
(`src/db/manager-store.ts:362-424`; the properties of Accounts exempt such
requests). And a second account without a Steam id is refused in MongoDB, since
`steamId: undefined` is stored as `null` (`src/db/mongodb.ts:315`,
`src/db/manager-store.ts:351`). A statistics range whose `to` is past the
year 9999 gives no buckets, since bounds are compared as ISO strings, of which
such a one begins with a `+` (`src/db/server-statistics-store.ts:150`;
`BucketsRight` speaks of dates before that). A player who has left can be lost
from `knownPlayers` when a stale list is saved (`src/db/manager-store.ts:148`;
`PlayersKept` is about those who stay). The plugin's player list makes a uid
of an entry's id where live lists pass the entry over. Nothing checks that the
users of `data.json` have no more favorites than the limit; Accounts begins
with lists that keep it (`PinLimit`). And `cachedMapClaims` takes the Steam id
of the user who asks, and does not use it.

## Proofs

The theorems are checked by TLAPS and hold for all values of the constants
that meet the module's `ASSUME` (sets of clients, records and versions of any
size, any bound): the assumptions say that bounds are naturals, that `None` is
not one of the values, and that `data.json` is finite. `StatisticsAssumption`
adds that samples are of servers there are, at instants that are numbers (an
hour has at least one unit), that bounds are dates, missing or no date, and that
the lists of names are sequences; `MapDataAssumption` that the corners of areas
are numbers. TLC evaluates all of them.

| Module | Theorems | Inductive invariant |
| --- | --- | --- |
| StoredDataProofs | `TypeCorrect`, `ImportIsFaithful`, `ArchiveIsComplete`, `ImportPreservesRecords`, `BackupIsKept`, `ImportNextToOthers`, `StatisticsRight`, `PlayersStayFound` | `PhaseInv` (which phases come before and after the marker, what the files are in each, or that a look for one failed), `RecordInv` (a record that was missing is still missing or is that of `data.json`); `StatisticsInv` (`Accounts`: what a bucket is of its samples); `PlayersTypes` |
| MapDataProofs | `TypeCorrect`, `OneLoop`, `LoopsServeSubscribers`, `SyncIsKept`, `FeedNextToCache`, `LayersAlwaysAgree`, `ClaimsKeepPromise`, `CacheStaysCurrent` | `NamesInv`, `LoopInv` (registered subscriptions and busy objects are one to one, while the service is up); `LayersInv` (`PayloadsTyped`, `RoutesInOrder`, `OffersOfMarkets`); `CacheInv` (with `ListsFirst`) |
| ConnectorCredentialProofs | `TypeCorrect`, `NoCredentialReturns`, `ToolsHoldsStored`, `OneSession` | `PairingInv`: `FreshSecrets`, `RotatesWhatItSaw`, `SentWasStored` |
| LiveStatusProofs | `TypeCorrect`, `HeldCheckRuns`, `ChecksCoalesce` | `HasRead`, `NotStarted`, `RunningIsHeld`, `ClearingPruned` |
| CatalogProofs | `TypeCorrect`, `OneRefreshAtATime`, `PruneHasList`, `CatalogUnderLoops`, `LoopsPromiseSafety`, `TasksEndFirst` | `HasList`, `HasRecord`; `TasksInRuns` under the loops |
| RefreshSchedulerProofs | `OneTimeout`, `LoopsImplementPromise` | `OneAtATime`: a loop has a run, or one timeout, or is stopped |
| StatusFeedProofs | `TypeCorrect`, `FramesFit`, `FeedImplementsBoard`, `FeedNextToRequests`, `RequestsRight` | `HasTrail`, with `WasKnown`, `Buffered`, `Unconnected`; `RequestsInv` |
| AccountsProofs | `TypeCorrect`, `PinsLimited`, `AccountsUnique`, `NamesKept`, `RemovalsStay` | `Good` (with `GoodTask` for each request), `NameInv`, `PinsInv` |

None of the safety properties is inductive by itself. Why the strengthening is
needed, in short:

* *Import.* "Faithful at the marker" follows from the verification only with
  what the writes did: a count that agrees gives completeness
  (`SameCountsComplete`: `data.json` is finite and what was found is a subset
  of it), but contents are known only from `RecordInv`.
* *One loop.* That no two objects poll a server needs that a busy object *is*
  the registered one, which `StopsLoop` and `FinishRun` keep by stopping a loop
  and forgetting its object in one step.
* *Credentials.* That a retired secret does not return needs that a pairing
  stores a secret nobody has seen, which needs `FreshSecrets`; that Tools holds
  nothing else needs that a frame is sent only after its secret was stored.
* *Live status.* `ChecksCoalesce` follows from `RunningIsHeld`: until a prune,
  a check that runs is the one in `inflight`; two would be equal. That a check
  ends then clears the right entry. `NotStarted` is there because the next
  check is numbered `fetched + 1`.
* *Catalog.* A refresh that saves, lists or prunes has the list's answer
  (`HasList`), and a loop that saves has a record (`HasRecord`).
* *Status feed.* What a client shows depends on all frames on their way to it.
  Rather than to compute it, `HasTrail` says that a function exists from the
  number of delivered frames to what the client then shows, of statuses that
  are `known`, which begins with what it shows now and ends with what the
  backend has noted. A sent frame adds an element to it, a delivered one takes
  the first away: no induction over the frames is needed for that, and each
  delivery shows a known status, which is the step of StatusBoard. That the
  recursive `Shown` of `FramesLeadToSnapshot` *is* such a trail is shown by the
  least number at which the two differ (`WFMin`). None of it looks at where a
  published status comes from; `WasKnown` says that what writers, requests and
  subscribers hold is known.
* *Scheduler.* `stop()` clears one timeout per loop. That this is enough needs
  `OneAtATime`; the steps of the loops then map to RefreshLoops one to one. Its
  liveness is model-checked (`LoopsKeepPromise`).
* *Accounts.* The limit is checked on one list and another is stored, so
  `Good` says of every copy and patch a request holds, and of the lists the
  catalog read, that they are within it; `Replaced` cannot make a list longer.
  That a chosen name or a removal stays needs the same of the copies
  (`NameInv`, `PinsInv`): a request that holds a copy has the chosen name in
  it and none of what was removed. That a patch brings a name is possible only
  for a rename, or for a sign-in that saw the generated name.

* *Map layers.* That layers of one entry fit together whatever was missing
  needs only what the payloads are (`PayloadsTyped`), but for the offers: they
  are asked for the areas of the markets, so that `RoutesInOrder` has to say
  that the markets were read before (`RouteSpecs`), and `OffersOfMarkets` that
  nothing else was offered. A claim covers its area because rounding is within
  one unit and whole chunks go outwards; that it has the sale and the zone
  promised needs what the folds over listings and zones leave for one area.
* *Statistics.* `BucketsRight` has three parts. `BucketsAccount`: `Accounts` says
  of each bucket what it is of the samples of its server and hour; a sample
  changes that of one bucket and of no other, in whatever order it comes, and the
  sum of the counts is the only one of them that needs an induction (`TotalFacts`,
  from the lemma `Induction`). `RangesJoin`: a sorted list of buckets is the only
  list of its set that is in order (`ListUnique`: where two such lists differ
  first, each would have to be ahead of the other), and the concatenation of
  lists of two sets, one before the other, is the list of both (`ConcatLists`), so
  that it is enough that the sets found for `[a, b)` and `[b, c)` make that for
  `[a, c)` and are disjoint. `AnswersAgree`: what is found for all servers,
  restricted to one, is what is found for it, in the same order; that a name wins
  over none follows from all the lists of names put end to end
  (`FlattenFacts`).
* *Native requests.* `RequestsInv` has no property of a run behind it but is what
  `AccessComesBack` rests on. A credential that is provisioned is new: no call
  and no failure has it, so that a 401 that is still to come is about an older
  one. It then neither takes the accepted credential from the record
  (`AcceptedKept`) nor pauses it (`AcceptedNotPaused`; that the reset frame may
  still cost Tools its copy is `GameForgets`, and a finding above), for which `ResetsRejected` says that the
  credential of a reset under way stays rejected. `NoneWaitsInVain`: a request
  that ends wakes all who wait for it, and the one that newcomers find is
  always on its way.
* *Cache and known players.* Of two liveness properties the safety half is a
  theorem: what `<>[]` in them needs not to be undone. `CacheStaysCurrent`: once
  requests succeed and the game server's data stays, an entry that is up to date
  stays so while every refresh at work is up to date or will set none
  (`UpToDate`), whichever ends last. `PlayersStayFound`: once the record and every
  list that is on its way into it have everybody who is online (`AllFound`), no
  save loses any of them, not even one of the record for another reason.
* *Catalog under the loops.* `[NextLoops]` implies a step or a stutter of Catalog
  and one of RefreshScheduler, so both keep what they promise when they share
  their steps (`CatalogUnderLoops`, `LoopsPromiseSafety`). `TasksInRuns` ties
  them: a task at work has a running loop, since a run settles only when its
  task is done.

The theorems `FeedNextToCache`, `FeedNextToRequests`, `ImportNextToOthers` and
`CatalogUnderLoops` carry the results on single components over to the composed
specifications, which are what the runs check.

Only model-checked: liveness (`MigrationCompletes`, `ChangesArrive`,
`StatusArrives`, `AccessComesBack`, `CallsAnswered`, `RefreshEnds`,
`StaleGoes`, `CacheCatchesUp`, `PlayersKept`, and the liveness of
`LoopsKeepPromise`), since fairness and `ENABLED` are beyond the prover. Every
invariant and every action property of the passing runs is a theorem.
LegacyMigration sums buckets with a fold; its proofs do not need what the sum
is, only that the counts agree. The induction theorems of the library cannot be
instantiated by the provers; where an induction is needed, it is by the least
number that fails (`WFMin`), or by `Induction`, whose parameter is a set.

## Not modelled

* Payload formats, parsing of packets and plugin JSON, wording, logging: no
  state. Map tiles are passed on as they are.
* Heartbeat and upgrade routing: the feeds' modules let a socket close at any
  time, which is all the heartbeat does to them.
* Steam sign-in: the nonces of OpenID assertions, and tokens, which are pure
  functions of their input; the cache of plugin releases and the read cache of
  the player history, which have an expiry and nothing else.
* Routers, handlers and DTOs: a handler checks its input, calls one service and
  maps the result; the service is modelled.
* Authorisation: who may do what is a comparison without state; in the models
  an operation that is refused either does not happen or is an error path
  (`Refuse`, `RequestFails`).
* Indexes (but for the unique ones, in LegacyMigration and Accounts), connection pools
  and MongoDB itself: a write is atomic and applied at some time after it was
  sent.
* The store without MongoDB (`ENABLE_STORAGE=false`), in which objects are
  shared and not copied.
* After `close()` of the status feed nothing is said; for the map feed
  `Shutdown` is an action, but its properties stop there.
* In Accounts, the servers an account owns, which go with it, and the
  verification of the OpenID assertion before a sign-in.

## Plan

Done, in this order: the import, the feeds, the connector, live status and
catalog with their first theorems; accounts; the scheduler with its refinement
and the catalog under it; the gate of native requests; the plugin data cache
and the map layers; statistics and known players; the refinement proof of the
status feed; the statistics, the layers, the gate of native requests and the
composed specifications proved. What is left:

1. **Catalog, second part**: the superadmin's block, the query URL and legacy
   ids, against the same stale saves; with the servers collection, that no
   favorite points at a pruned server (`manager-store.ts:290-293`,
   `storage-service.ts:286-305`).
2. **Small caches**: plugin releases, player history; Steam nonces.
3. **Shutdown of the status feed**, and the heartbeat with its `isAlive`.
4. **Proofs**: the safety halves of more liveness properties (`StatusArrives`,
   `ChangesArrive`), as for `PlayersStayFound`.

A run is kept for each distinct question: those of the parts to come take over
from runs whose question they include.
