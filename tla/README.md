# Verification of NoLets

TLA+ modules, TLC configurations and TLAPS proofs for the NoLets push server.
NoLets is a Go HTTP server that forwards notifications to APNs and to Huawei's
push service, and that offers a push-to-talk service ("PTT"): users join
channels, follow each other over server-sent events, and post voice recordings
that are pushed to the other members of a channel.

Paths below are relative to `src/`; `PTT/` stands for `controller/PushToTalk/`.

## 1. Inventory

### The system's parts

| part | code | state | operations |
|---|---|---|---|
| PTT registry | `PTT/main.go`, `PTT/PushToTalk.go`, `PTT/models.go` | `GlobalUsers` (sync.Map), `Channels`, `UserChannels` under `ChannelLock` | `PttConnect` (connect, leave), `SyncChannels`, `UserList` |
| PTT event streams | `PTT/events.go`, `PTT/PttSubscribe.go` | `subscribers` under `subscriberLock`, one buffer per subscription, `merged` per connection | `Subscribe`, cancel, `Broadcast`, the SSE handler and its fan-in goroutines |
| PTT persistence | `PTT/persist.go`, end of `main.go` | `persistDirty`, `ptt_state.json`, its `.tmp` | `SaveState`, `loadState`, `InitPttSystem`, `ShutdownPttSystem`, the ticker |
| PTT voice pipeline | `PTT/PushToTalk.go`, `PTT/PTTPush.go` | `MsgQueue`, `PushTaskQueue`, files in `voices/` | `PttVoice`, 2 consumers, 24 workers, the cleaner |
| Access | `router/middleware.go` | none between requests | `Verification`, `GCMDecryptMiddleware` |
| Device store | `database/`, `controller/Register.go` | table of devices with a unique key, the file `database.json` | `Register`, `Restore`, `SaveDeviceTokenByKey`, `KeyExists`, export, import, close |
| Push dispatch | `controller/BasePush.go`, `common/params.go`, `common/database.go` | none between requests | collect and complete the parameters, find the users, `UserUnique`, limit, split by platform, answer |
| APNs clients and push | `push/` | the pool `CLIENTS` | `Push`, `BatchPush`, `LocationPush`, `PttPush`, `CloseAPNSClients` |
| Harmony push | `Harmony/` | cached token and until when it is kept, both without a lock | `GetToken`, `AutoPush`, `Push`, `Delete` |
| MCP server | `controller/MCPServer.go` | none between requests | the tool `notify` |
| Everything else | routes, configuration, pages, host statistics | none the parts above depend on | |

### How the parts interact

Every HTTP request is served by its own goroutine.  `PttConnect` calls
`SyncChannels`, which changes the two maps under `ChannelLock` and, after
`Unlock`, marks the registry dirty and calls `Broadcast` once per channel.
`Broadcast` copies the subscribers under `subscriberLock` and sends without it.
`PttSubscribe` registers subscriptions first, then writes snapshots of the
rosters under `ChannelLock.RLock`, then forwards events.  `SaveState` reads the
maps under `RLock` and the users without it.  The voice consumer reads the
rosters under `RLock`.

A push, by HTTP or by the MCP tool, collects its parameters from path, query and
body, looks its users up in the device store by token, key and group, hands
those of Huawei to `AutoPush` in one call and the others to a goroutine each,
which takes an APNs client from the pool and puts it back.  Registrations and
restores write the device store, statement by statement.

Shutdown closes the HTTP server (waiting five seconds at most), exports the
devices, saves the registry and drains the APNs clients, while requests that did
not end in time go on.

### What is hard

`PROJECT.json` lists the hazards line by line.  In short: the leave path of
`PttConnect` reads and walks `UserChannels` without the lock; announcements are
made after the lock is released; a subscription can be closed while a broadcast
is about to send to it; a client is written to with the registry locked; two
savers share one temporary file; `persistDirty` is cleared after the fact;
queues are bounded, one blocking and one dropping; `Register` and `Restore`
read, decide and write in separate statements, any of which may fail; goroutines
of all requests share the pool of clients, which shutdown drains under them; the
token of Huawei and its time are two variables every request reads and writes;
and values that are empty, blank or null, several names for one thing and three
places to give it in decide what kind a push is.

### What makes each part correct

- Registry: the maps are inverse and trim, members are known, each request takes
  effect once between its arrival and its answer; no request holds up another for
  ever, unless a reader of `ChannelLock` does.
- Streams: a client that lost no event ends up with the roster; nobody waits for
  a slow client; whatever is opened is closed.
- Persistence: what is on disk can be read and is consistent; a change of the maps
  that no save missed is on disk or dirty; a graceful shutdown saves.
- Voice: each listener gets one task with one outcome; posts get their recordings
  queued unless `ChannelLock` is kept for ever; tasks end.
- Devices: what a registration was answered stays true over later failures,
  restores, crashes, exports and imports; a device keeps its group.
- Dispatch: nobody is pushed to twice, an answer comes after all pushes and its
  data name the services that failed, limits hold, notifications can be shown and
  found again, the pool loses no client, every request ends.
- Harmony: `GetToken` returns no token that Huawei refuses.

## 2. Modules

| module | models | extends |
|---|---|---|
| `PttRequests` | `JoinParams`: who asks for what | |
| `PttMembership` | abstract: users, their channels, requests that take effect once | `PttRequests` |
| `PttRegistry` | `SyncChannels`, `PttConnect`, `ChannelLock` | `PttRequests` |
| `PttEvents` | event streams, running with the registry | `PttRegistry` |
| `PttPersist` | saves, crashes, restarts, running with the registry | `PttRegistry` |
| `PttDelivery` | abstract: recordings, their listeners, and what becomes of each | |
| `PttVoice` | the voice pipeline | |
| `Access` | who a caller is taken for | |
| `Devices` | the device store, registrations, the process around them | `Access` |
| `PushParams` | pure: parameters, keys, kinds of push, notifications | |
| `HarmonyToken` | the cached token of Huawei | |
| `PushDispatch` | requests to push, the pool of clients, shutdown | `PushParams`, `HarmonyToken` |
| `MC*` | the small instances TLC checks | the module after `MC` |
| `PttRegistryProofs`, `DevicesProofs`, `PttVoiceProofs` | theorems | the module before `Proofs` |
| `HarmonyTokenProofs` | theorems about the token, also in `PushDispatch` | `PushDispatch` |
| `PushDispatchProofs` | theorems about requests to push and the pool | `HarmonyTokenProofs` |
| `PttEventsProofs`, `PttPersistProofs` | theorems | the module before `Proofs`, `PttRegistryProofs` |
| `PttStreamProofs` | the theorem about what clients believe | `PttEventsProofs` |

`PttEvents` and `PttPersist` each run together with the registry they extend: a
step of the streams either is a step of the registry or leaves it alone; a save
also clears `persistDirty`, and a crash or a start replaces the memory.  In
`PushDispatch` a step is one of `HarmonyToken` or leaves the token alone.

### PttRegistry

One process per goroutine that serves a request.  The steps are the places where
another goroutine can get in between:

    idle -PttConnect-> lookup -LookupUser-> scan -ScanChannels-> store     (leave)
    idle -PttConnect-> store                                               (connect)
    store -StoreUser-> lock -Lock-> commit -Commit-> mark -MarkDirty-> publish
    publish -Publish*-> publish -Reply-> idle

`Lock` is the call of `ChannelLock.Lock()` that puts the goroutine first in line:
from then on no reader enters (`NoWriterInLine`).  `Commit` is the critical
section from the lock being granted, when the last reader has left, to `Unlock`.
`Commit` with its helpers `MoveUser`, `NewRoster`, `RecordChannels` is the whole
body of that section, the deletion of emptied entries included.

The maps are partial functions: an absent key and an empty set are different.
A user's record is abstracted to what the properties tell apart: never stored,
stored with an empty token, stored with one.

The race.  A Go map that is read while it is written has no defined content.
While another goroutine is inside its critical section, a lookup may stop the
process if that section adds or deletes a key (`KeyRace`), or find the entry of
the same user there or not (`Lookups`: the section begins by putting an empty set
where there is none); and a walk may stop the process or see any set between the
old and the new one (`Sightings`) if that section changes the set being walked
(`SetRace`).  After the section has emptied
the set and dropped it from `UserChannels`, the walker holds a set nobody else
refers to (`orphans`) and finds nothing in it.

`SerialPerUser` chooses between two environments: requests of one user may
overlap, or an app has one request of a user in flight at a time.  The code does
not enforce the second; it is what its apps do, and which properties need it is
one of the things the runs and theorems show.

Readers of the lock take it and give it back as they like (`RLock`, `RUnlock`).  In
`PttEvents` they are the handlers of `PttSubscribe`, which write to a client under
the lock, so a reader may keep it for ever.

`AbortPublish` is the request that ends in a panic of `Broadcast`; in this
module it may happen in any broadcast, in `PttEvents` only when a broadcast
meets a closed buffer.

### PttMembership

What a caller may rely on: `TakeEffect` happens once between `Accept` and
`Answer`, sets the user's channels for a connect, subtracts from them for a
leave.  `ImplementsMembership` is the refinement: the user's entry in
`UserChannels` is `member`, and a request has been applied once its goroutine is
at `mark` or `publish`.  A leave of a user without an entry is applied at its
lookup.

### PttEvents

Adds the connections to `PttRegistry`.  `Collect`, `Offer`, `Return` are one
`Broadcast` (`Publish` is the return from it).  `Panic` is the send to a closed
buffer.  A connection goes through subscribe, rlock, snapshot, stream, cancel,
done; its fan-in goroutines through receiving, forwarding, ended.  `gone` is the
client having hung up, noticed by the handler through its context or a failed
write.  `view` is what the client has reconstructed from snapshots and events;
`lost` remembers which subscriptions missed a join or a leave, because a buffer
was full or because a broadcast panicked before they were offered it
(`Unoffered`), and `skipped` whom the broadcast that panicked passed over.  `StreamsFollowRosters` says
what the client will believe once everything on its way has arrived: `InFlight`
is that, in its order, and `Arrived` is what becomes of each user by the last of
these events about it, without recursion.

### PttPersist

Adds two savers (the ticker's goroutine and main), files apart from their names,
crashes and restarts.  `OpenTmp` truncates, `WriteTmp` and `WriteFails` write,
`RenameTmp` replaces the state file, `ClearDirty` ends the save; `SaveFails` is the
directory that cannot be made, the open or the rename that fails.  If both savers
have the file open the result may be torn.  `Stop` is a kill at any point or the
end of main, `Boot` a start that restores the file if it is whole and not older
than ten minutes.  Requests go on being served after the server stopped
accepting, as they do when `server.Shutdown` gives up.  Panics of a broadcast are left out here: they end a
request whose changes are already in the maps and marked dirty.

Four variables say which saves the properties can rely on.  `overlapped`: two saves
were in progress at once, now or in an earlier life (`StateFileIsWhole` excuses all
that follows).  `missed`: the saves in progress during which the maps changed or
another save ran.  `slipped`: the last save that renamed its file was one of these;
the next one that is not makes it false again, and so does a start, which takes its
memory from the file.  `discarded`: the file that a start found too old; what is on
disk then is as good as nothing (`OnDisk`), and a file once too old stays so, which
is the assumption that the clock is not set back.  `ChangesWillBeSaved` excuses the
time while `slipped`, and nothing else.

### PttVoice

A recording goes new, sending, queued (or refused); nothing but the answer is left
to do once it is queued.  A consumer receives it (`Receive`), asks for
`ChannelLock`, finds the roster under it (`ReadRoster`) and queues a task for each
listener (`FanOut`).  Of the registry only what a consumer meets is part of this
module.  `locked` is a writer that holds the lock or is in line for it: the consumer
waits while there is one, which may be for ever, as the writer may be waiting for a
handler of `PttSubscribe` whose client reads nothing.  The roster it then finds is
any set of users, since the channel may have changed in any way since the post:
safety holds whatever it is.  A task is a listener and a recording; `settled`
records its end.  The id a recording claims to be from (`SenderOf`) comes from a
header and need not be a user's.

`PttDelivery` is what a sender and a listener may rely on: `Take` once, when the
recording is queued; `Choose` once, when its consumer reads the roster, the
listeners for good and never the sender; `Settle` once for each of them.
`ImplementsDelivery` is the refinement.  A task is due from the moment its user
is chosen until it is settled, so queueing it and handing it to a worker are
steps that the delivery does not see.

### Access

Two operators, `Admin` and `Admitted`, over what a request says of its caller:
a known device, basic authentication (which decides alone if it is present), a
name and a password in the query or in the form of a POST, the User-Agent of the
app, and a signature that is good from its own second to ten seconds later.  They
guard `Register` and `Restore`: who is refused changes nothing in the store, and
`Admitted` depends on more than who one is, so both are there in full.

### Devices

Each statement on the table is a step: there are no transactions, so statements
of other requests come in between.

    idle -Register-> exists -KeyExists-> find     (restore)
    idle -Register-> find                         (registration)
    find -Find-> create | delete | save -Create, Delete, Save-> idle
    save -Save-> insert -Insert-> idle          (the row to update is gone)

`Find` reads the row and decides; what it read (`seen`) may be stale when it is
written back.  `Create` meets the unique index on the key, `Delete` and `Save`
go by the primary key of the row that was read.  gorm's `Save` is an UPDATE; if it
changes no row, the row that was read is inserted again in a statement of its own
(`Insert`), which the unique index may refuse.  `StatementFails` fails any statement.  The process
serves, closes, exports the table, closes the database and is down, or is killed
at any point; `Boot` finds the table again, and `ImportData` runs in a goroutine
of its own.

`agreed` is what the answers given so far say of a key, as if each request had
been served alone (`Effect`); `doubtful` are the keys two requests are about at
once.  `AnswersHold` compares the table with it.

Points of the code that are easy to get wrong in a model, kept as they are:
`ImportData` reads the export only if `os.Stat` finds no file, so it never
imports one; any key of 22 characters can be restored by anybody who is
admitted; `KeyExists` takes any error for an absent key, so that a restore whose
look-up fails empties the device; the error of a delete is dropped.  The last two
are what `AnswersHold` excuses.

### PushParams

No state.  `Collected` is what a request asks for: body over query over path, the
first alias that is given even if it is blank, Markdown as the body, the suffix
of a sound.  `PushType`, `WithBody` and `WithDefaults` decide the kind of push
and complete it.  `ApnsNotification` and `HuaweiRequest` are what is sent.  Null
counts as empty but prints as a text (`{"data":null}` shows `<nil>`), a blank
sound becomes a suffix alone, a string of keys with commas is split in the path
and as a JSON string, but not in the query, in a form or as an element of a JSON
array (`GivenKeys`), except by the tool.  `Over(p, q)` is what p gives and what only q gives, as the
later of two `Set`s of the ordered map wins.

### HarmonyToken

`token` and `expiration` are two variables without a lock; each read and store is
a step of its own.  `Check` reads the time, `Build` makes a token, `StoreToken`
and `StoreTime` store both, `Return` reads what `token` holds by then, which may
be the token of another request.  With a private key that cannot be read, three stores follow
instead (`BuildFails`, `ClearTime`, `ClearToken`): no token, the time, no token.  A processor that orders stores as the program does
shows the token first (`setup.ordered`); on arm64 another goroutine may see the
new time with the old token, and nothing is claimed of such a run.  Time is
counted in units of half the five minutes by which a token outlives its time in
the cache; to build and store a token is assumed to take at most one unit, to
compare the time and return less than one.

### PushDispatch

A handler goes idle, lookup, huawei, apple, done; a push to one user of Apple
goes started, held (has a client), sent (has put it back), accepted or failed.
`Arrive` collects the parameters, `Lookup` finds the users (`FoundUsers`: keys in
any order, since they come out of a map; groups, whose rows the database returns
in any order; rows that cannot be read are passed over, by key each, by group all
at once; `UserUnique`; the limit), `Ask`, `SignIn` and `HuaweiEnds` are the
one call of `AutoPush`, `TakeClient`, `PutBack` and `PushEnds` a goroutine of
`BatchPush` or `LocationPush`, `Answer` the end.  The fan-out of `BatchPush` goes
over all users, as in the code, those of Huawei included.  `StopServing`,
`CloseClient` and `Exit` are main's shutdown with `CloseAPNSClients`, which counts
the clients in the pool once and then takes that many without waiting.

What Apple and Huawei answer is arbitrary.  `Outcome` is what the caller is told
then: `success` is `common.Success(c, true)`; if one of the two services failed,
BasePush answers `common.Success` with that error as the data (`harmonyErr`,
`appleErr`), so code and message say success all the same; `failed` is
`common.Failed`.  The tool knows only the first and the last.  `AnswersAreTrue` is
about the data: `true` only if every push was accepted, and otherwise the services
that failed.  `IsRequest` says what a request is: it came by HTTP or by the tool,
names keys there are lengths of, its path has as many texts as there is a route
for, and a sound is the sequence of its parts.  A token given in the request makes a user without a platform, whom
BasePush counts for neither: a request of such tokens alone pushes nothing and is
answered as a success.  The MCP tool never calls Huawei.

## 3. Runs

| run | instance | shows |
|---|---|---|
| `registry_race` | 2 users, 2 channels, 2 goroutines, any list of channels, overlapping requests, symmetric in users, channels and goroutines; 329,854 states | `MapsAreInverse`, `NoEmptyEntries`, `MembersAreKnown`, `ChangesAreDirty` survive the race |
| `registry_serial` | the same with one reader, lists `{c1}` and `{c1,c2}`, serial users, fair; 39,090 states | `ConnectSettles`, `ImplementsMembership`, `EveryRequestEnds` |
| `events` | 2 users, 1 channel, 2 goroutines, 1 connection, buffers of length 1; 1.8 million states | `StreamsFollowRosters`, `SubscribersAreOpen`, `HandlersCleanUp` |
| `events_live` | 1 user, 1 goroutine, 1 connection, fair; 8,311 states | `RequestsAreAnswered`, `HungUpConnectionsEnd` |
| `events_panic` | 1 user, 2 connections | **violates** `BroadcastOffersToAll` |
| `events_stall` | 1 user, 1 connection, fair server, client may stall anywhere | **violates** `RequestsAreAnswered` |
| `persist` | 1 user, 1 channel, 1 goroutine, 2 lives; 1.8 million states | `StateFileIsWhole`, `ImagesAreConsistent`, `ChangesWillBeSaved` |
| `persist_shutdown` | the same, 1 life | **violates** `ShutdownPersists` |
| `voice` | 2 users, 3 recordings, one from each of them and one from a stranger, 1 consumer, 1 worker, queues of length 1, a lock that may be kept for ever; 10,668 states | `TasksAreConserved`, `ImplementsDelivery`, `PostsEnd`, `TasksSettle` |
| `devices` | 1 key and group, 2 tokens, 2 goroutines, 8 kinds of callers, 2 rows ever created, 2 lives, symmetric in goroutines and tokens; 520,068 states | `AnswersHold`, `GroupsStay` |
| `dispatch` | up to 3 requests at a time, each way to give one or two values or to name devices in a request of its own, 5 phones, limit 2, 1 client, a token kept for 1 unit of 4; 702,234 states | `NobodyIsPushedTwice`, `LimitHolds`, `AnswersAreTrue`, `PoolIsWhole`, `PushesAreWellFormed`, `ReturnedTokensAreValid`, `RequestsEnd` |
| `dispatch_routing` | the same | **violates** `HuaweiDevicesStayOffApns` |

Each module has one type invariant, checked in its first run.  Deadlock is not
checked where the system may stop: the runtime stops the process on a map race,
every connection is opened once, every recording posted and every push requested
once, and main ends.

### Why the bounds are enough

Two users and two goroutines make every pair of requests meet in every order, on
the same user and on different ones; two channels tell a partial leave from a
full one and a kept channel from a joined one.  The theorems of section 5 hold
for all sizes.  Buffers and queues of length one are full after one element, so
dropping, blocking and draining all happen.  One connection is enough for the
stream properties, since connections share only the table of subscribers;
`events_panic` has two because it is about one connection's effect on another.
Two lives of the process are one crash and one restart with a file of the
earlier life in place, left at any step of a save; three files are one per name
and one to create.  Two listeners and three recordings are what it takes for a
consumer to meet a full task queue while another recording waits in the message
queue and a third is being posted.

Keys of the device store share nothing but the numbers of rows, so one key with
two requests at a time shows every interleaving; two rows let a key be deleted
and created again under a request that has read the old row; two tokens tell
whose registration is in the row; the second life finds the table and the export of the first.  One client makes two goroutines
wait for each other, of one request and of two, and the drain find the pool
empty or full.  The five rows are two phones, one of which is registered
twice with another token but the same address for location, one of Huawei, and a
restored key without a device; the
limit of two is met by keys, groups and tokens together.  Four units of time let
a token be built, expire in the cache and expire for good while requests race,
three of them, since it takes one to renew and one to be late.  Values of
parameters are all pairs of a value from one place and a value from another.

### Fairness

Weak fairness of each goroutine's steps: the Go scheduler runs every runnable
goroutine.  Strong fairness of taking `ChannelLock`: `sync.RWMutex` hands the
lock over on release, so a waiting writer or reader is not passed over for ever.
Nothing is assumed of when readers release it: `EveryRequestEnds` excuses a reader
that keeps it, and in `PttVoice` `PostsEnd` excuses a lock that is kept for ever.
Strong fairness of `SendMessage`: senders that wait on a Go channel are served
in order.  Clients owe nothing: `StallingClientsSpec` lets them stall anywhere,
`ReadingClientsSpec` only assumes that a client that is still connected takes
the bytes of its snapshots, and stalls afterwards if it likes.  In `PttVoice`
APNs may never answer (`StallingApnsSpec`); `TasksSettle` states as its premise
that workers get answers, as the timeout of their HTTP client makes them.  In
`PushDispatch` each request goes on as long as its handler or one of its
goroutines can (`WF_vars(GoOnWith(t))`), and so does main's shutdown; Apple and
Huawei, or the timeouts of both HTTP clients, answer in the end.  A request that
waits for a client when the pool has been drained waits for ever: `RequestsEnd`
holds because main goes on to exit.

## 4. Where the code and its documentation differ

Four runs end in a violation; each checks what a comment or the README of the
repository says.

- `events_panic`: `PTT/events.go:73` promises the event to all subscribers.  A
  connection that is cancelled between the copy of the subscribers and the send
  makes the send panic, and the remaining subscribers and channels get nothing.
- `events_stall`: `PTT/events.go:28` says a slow client does not block
  broadcasts.  One that stops reading during its snapshot keeps `ChannelLock`
  read-locked; the next writer waits for ever and everybody else behind it.
  `events_live` shows that a slow client does no harm once it has its snapshots.
- `persist_shutdown`: `main.go:157` says the shutdown persists the registry.  A
  save of the ticker can truncate the temporary file that the shutdown has
  written and is about to rename; the state file is then empty.
- `dispatch_routing`: `README_EN.md:270` and `README.md:280` say that pushes are
  routed by the platform of the device.  `BasePush` asks for the users of each
  platform only to decide whom to call; `BatchPush` and `LocationPush` then loop
  over all users (`push/push.go:25`, `:122`), so the tokens of Huawei's users go
  to APNs as well, and the request is reported as failed although everybody was
  reached.  The MCP tool sends all its pushes to APNs
  (`controller/MCPServer.go:76-86`).

Not contradicted by any document, but worth knowing: the leave path may stop the
process (`FatalMapRace`); a leave of some channels stores an empty token, so the
user stays on its other channels without being pushed to; a change that slips in
during a save is not dirty afterwards, and in no file until a later change is saved
(`slipped` in `ChangesWillBeSaved`); the consumers wait for `ChannelLock`, too, so a
client that stalls its snapshot while a writer waits also stops the voice pipeline,
and posts once `MsgQueue` is full; a change of token or position is never dirty; a user who leaves a channel after a
recording was fanned out is still pushed to.  An export is never imported; a
restore whose look-up fails empties the device; registrations of one key that
overlap may undo each other; by HTTP a group can be pushed to by everybody, the
group without a name included, up to the limit; a key or a group whose look-up
fails is skipped without a word; a push that failed at one of two services is
answered with code 200 and the message success, the error being in the data; and a request for tokens alone is answered as a
success though nothing was pushed.

## 5. Proofs

Each module of theorems holds for every value of the constants that the named
assumptions of its component allow.  The runs check the invariants first; the
strengthenings named here are what makes them inductive.

**`PttRegistryProofs`**, from `RequestAssumption` (requests name channels;
`NoRequest` is no request) and `RegistryAssumption` (`NoThread` is no goroutine;
`SerialPerUser` is Boolean):

- `TypeCorrect`: `TypeOK` is inductive.  `CommitTypes` is the step that needs
  work, since it builds two partial functions.
- `MapsStayInverse`, `MapsStayTrim`: from `MapsInv`, their conjunction, relative
  to the types.  `CommitMaps` computes both maps after a critical section, user by
  user and channel by channel, and both parts follow from it.  Nothing about
  `target` is needed, which is why whatever the unlocked walk sees cannot damage
  the maps.
- `MembersStayKnown`: from `KnownInv`.  `MembersAreKnown` is not inductive, as
  `Commit` adds a member without looking at `GlobalUsers`; `KnownInv` adds that a
  goroutine between `StoreUser` and the end of `Commit` has a known user.
- `ChangesStayDirty`: from `DirtyInv`, which adds that a goroutine has nothing to
  announce before its `Commit`; `Commit` itself sends one that has to `mark`.
- `ConnectsSettle`: from `SerialInv`.  It says that two goroutines never serve
  the same user, that `target` is what the request is to leave its user with
  (`Wanted`) once it is computed, that nobody walks an orphaned set, and that a
  connect's token and channels stay in place until its answer.  `SerialSightings`
  shows that a walk then sees the set itself.
- `SerialRegistryImplementsMembership`: the initial state maps to the abstract
  one, and `StepsImplement` maps every step: `PttConnect` to `Accept`, `Commit`
  (`CommitTakesEffect`) or a lookup that finds nothing (`LookupTakesEffect`) to
  `TakeEffect`, `Reply` and `AbortPublish` to `Answer`, the rest to a stutter.

**`PttEventsProofs`**, from these and `EventsAssumption` (connections are the
readers of the lock; buffers have room for one event at least):

- `StreamsRunTheRegistry`: each step of the streams is a step of the registry or
  leaves it alone, so `EventsSpec => RegistrySpec`.  Every invariant of the
  registry holds under connections, broadcasts and panics, without a new proof;
  `MapsStayInverseUnderStreams` is one such use.
- `EventsTypeCorrect`: with `CastersAnnounce` (a goroutine inside `Broadcast` is
  publishing and has something to announce), so that its event has a user and a
  kind.
- `SubscribersStayOpen`, `HandlersAlwaysCleanUp`: from `SubscriptionInv`.  A
  closed buffer belongs to a handler that has cancelled it (`ClosedAreCancelled`), a
  subscriber in the table to a handler that still has to cancel it
  (`SubscribersWillCancel`), loops are over channels the client asked for, and
  only a handler in its snapshot holds the lock.

**`PttStreamProofs`**, from the same assumptions:

- `StreamsStayTrue` (`StreamsFollowRosters`): the property speaks of users
  about whom nothing is being announced, which is far from inductive.  `StreamInv`
  speaks of every moment.  If every request that changed whether u is
  in c has made its offer to the client, or made its offers before the client
  subscribed (`Told`), then the client's view, or the roster if its snapshot is
  still to come (`Shown`), with all events on their way applied (`Believes`),
  agrees with the roster about u (`Follows`).  Around it: what is still to be
  announced has happened (`NewsAreTrue`, which needs one request of a user at a
  time: two could announce in the other order than they took effect), a broadcast
  is of such news and goes to who has subscribed (`CastsAreNews`), who subscribed
  is in the table (`IsListed`), nothing is merged before the snapshots
  (`StartsEmpty`), and a buffer holds events of its channel (`KeepsChannels`).
  The lemmas about `Arrived` (`ArrivedConcat`, `ArrivedElsewhere`,
  `ArrivedOfUser`) make moving an event along its way a stutter.

**`PttPersistProofs`**, from these and `PersistAssumption` (`NoFile` is no file,
there is a start):

- `PersistTypeCorrect`: a saver has a file open only while it writes
  (`OpenToWrite`), so that of three files one is always to spare (`SpareType`).
- `StateFileStaysWhole`: from `WholeInv`.  While no saves have overlapped, one
  saver at most is at work, the state file is whole and not the file named
  `.tmp`, a saver that writes owns that file and it is empty, and one that
  renames finds it whole.  A crash only ends the savers, so the next life starts
  from the same facts.
- `ImagesStayConsistent`, `MapsStayInverseAcrossRestarts`: from `DiskInv`, also
  when saves overlap.  The maps of an image are those of one moment, where they
  are inverse and their members known (the step lemmas of the registry); by the
  time the users are copied every one of them is still known (`KnownGrows`); a
  file is whole only with such an image; a restart takes its memory from one.
- `ChangesAreSaved` (`ChangesWillBeSaved`): from `SaveInv`.  Of two saves in
  progress both miss something (`OthersAreMissed`), so a save that misses nothing is
  alone, and what it copied, wrote and renames are the current channels at every
  stage (`SavesAreCurrent`): its end leaves the file and the memory the same.  Only
  a save that ran beside another leaves a writer behind with the state file open
  (`StrayWritersSlip`, `NamesApart`); a `Commit` that changes the channels is
  followed by its mark (`CommitMarks`), and no step but a save's takes a mark
  away (`MarksStay`).

**`PttVoiceProofs`**, from `VoiceAssumption` (queues have room for one element):

- `VoiceTypeCorrect`, and `TasksStayConserved` from `TasksInv`, which says of
  each task where it is: held by one consumer, at one position of the queue, held
  by one worker, or settled in one way, and nowhere before its recording was
  taken; and that a recording waits once, in its queue or in the hands of a
  consumer (`RecordingsWaitOnce`), so that no two consumers take it.
- `VoiceImplementsDelivery` (`ImplementsDelivery`), step by step from the same
  invariants.  A consumer that takes a recording moves it from one place where it
  waits to another (`ReceiveKeepsWaiting`).  `ReadRosterChooses` needs that it waits
  in one place, or it would not be chosen when it leaves it, and that nothing of it
  has ended, or it would not be due to all it is chosen for.  `EndSettles` needs
  that a task on its way has not ended before.

**`DevicesProofs`**, from `AccessAssumption` and `DevicesAssumption`:

- `DevicesTypeCorrect`, with primary keys below the next one.
- `AnswersAreKept` (`AnswersHold`): a request that is alone with its key has read
  what the table still holds and what the answers say; a request that is not has
  made the key doubtful.
- `GroupsAreKept` (`GroupsStay`): the row a request has read has the group of the
  row with its number, if that row is still there; two requests that read rows
  with one number read one group, since either may insert it again.

**`HarmonyTokenProofs`**, from `HarmonyTokenAssumption` and `DispatchAssumption`:

- `TokensReturnedAreValid` of the token alone, `DispatchReturnsValidTokens` under
  the requests of `PushDispatch`, each of whose steps is a step of the token or
  leaves it alone (`DispatchStepsAskForTokens`).  `TokenInv` says that a token in
  a goroutine's hands is at most one unit old; that when its time is stored, the
  token in the cache is that one or one built at most a unit before; that the
  time in the cache therefore never passes the life of the token; and that a
  goroutine about to return finds a token with time left.

**`PushDispatchProofs`**, from the same assumptions; `DispatchAssumption` says that
scenarios give each thread a request or none, that the table is a sequence of
devices with different keys that have a length, of which there are finitely many,
and that the limit and the pool are not empty:

- `AnswersStayTrue` (`AnswersAreTrue`; `OutcomeIsTrue` is the part about the data of
  an answer): from `HandlerInv`, which adds that there
  are no goroutines and no answer before the handler gets to them, and that when
  it waits for its goroutines there is one for each user, and Huawei has answered
  for those it has (`Stages`).  `WhereNext` is the case distinction of the two
  handlers; what `FoundUsers` finds does not matter.
- `PoolStaysWhole` (`PoolIsWhole`): from `PoolInv`, which adds that the holders of
  clients are finitely many, so that `HolderStep` can count them one at a time.
- `NobodyIsEverPushedTwice`, `LimitAlwaysHolds`, `PushesStayWellFormed`: from
  `RequestInv`.  It says of every thread that its users are none or were found for
  its request, that its goroutines are those of its users, and that its parameters
  and kind are what its request comes to (`HoldsUsers`, `HoldsParams`); each of
  the three properties then is one of the functions below.
- Users.  `UserUnique` goes through its list with a recursive function.  That it
  has one for every list (`KeptExists`), that nobody it keeps is the same as one
  before in any of the three addresses
  (`UserUniqueIsDistinct`, `DistinctUsersDiffer`), and that whomever it leaves out is the same as
  one it keeps (`UserUniqueLeavesNobodyOut`) are proved by looking at the first
  number of the list at which it would be false: `SmallestOfNumbers`, from the
  library's minimal element of a well-founded order, stands in for the
  theorems of induction, whose parameter is an operator no installed prover can
  instantiate.  `FoundUsersAreDistinct` follows.
  `FoundUsersAreLimited` counts: BasePush cuts the list, and for the tool the
  users with a key are an order-preserving part of what was found by key, at most
  one for each of the limited keys, since keys are unique in the table.
- Parameters.  `KeepsBut` says which names an operator leaves alone;
  `CompletedParams` puts the steps of `ParamsNanAndDefault` together (an id, a
  valid category, something to show), `CollectedSound` follows a sound from where
  it is given through aliases, Markdown and the suffix, and `RingsHaveSounds` to
  what Huawei gets.
- `DispatchTypesHold` (`DispatchTypeOK`): from all of these together, the types of
  the token, and that shutdown counts no more clients than there are (`Lives`).

Every invariant and every safety property that a passing run checks is a theorem.
Only model-checked is every liveness property (`EveryRequestEnds`,
`RequestsAreAnswered`, `HungUpConnectionsEnd`, `PostsEnd`, `TasksSettle`,
`RequestsEnd`): fairness and `ENABLED` are outside the prover's reach.  The
properties that the code violates are for the model checker, too.

## 6. Not modelled, and why

- Positions, hosts, timestamps and formatting: no property is about them.
- Lists that name a channel twice: `SyncChannels` collapses them; `PttSubscribe`
  would subscribe twice and deliver each event twice.
- `subscriberLock`: its critical sections are single steps.
- Keepalive comments and deadlines of a stream that works: they change no state.
- The table of routes and the filter of paths with a dot, which serves an image;
  the protocol of MCP; configuration, pages and statistics: no state between
  requests, or no state the rest depends on.
- A multipart form, whose parts become parameters only if a middleware has parsed
  it before; the spelling of names and URLs; all but two of the categories.
- A table in MySQL, where a statement may also wait for a lock.
- `push.GetToken`, whose only caller is the page with the server's information.
- A server started without voice.
- The files in `voices/`, their download and the cleaner: nothing in the pipeline
  reads them, and no document says how long a recording can be fetched.
- The protocols of APNs and Huawei, SQLite beyond single statements and a unique
  index, JWT and the file system beyond names, truncation, partial writes and
  renames: external.

## 7. Plan

Done: registry, membership, streams, persistence, voice, access, devices,
parameters, the token of Huawei and dispatch, and all of their safety properties
as theorems.  Left, in this order:

1. The users' tokens in what persistence promises.
2. Reuse of a recording's name by a retried post, with the files of recordings,
   their readers and the cleaner.
3. Abstract specifications of the device store and of the streams, as
   `PttMembership` is one of the registry and `PttDelivery` of the voice pipeline.
