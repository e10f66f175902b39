# TLA+ models of clack-server

clack-server is a chat server in Go: clients hold a WebSocket to the gateway,
requests are handled against SQLite and an in-memory index, events are fanned out
to the other clients, attachments and avatars are uploaded over HTTP, and media of
embedded links is proxied through a disk cache. The repository has no tests and no
documents beside its comments. This directory holds models of the parts where
goroutines, locks, the disk and the database meet, the properties checked on them
with TLC, and proofs checked with TLAPS.

Run a model with `tlc -workers 2 -config X.cfg M`, the proofs of a component with
`tlapm CacheProofs.tla`, and so for each module named `*Proofs`. `PROJECT.json` lists every run, the source lines each
definition models, the hazards, the findings and the theorems.

## The system

| Component | State | Operations | Talks to |
|---|---|---|---|
| External-media cache (`common/cache`) | per URL: data file, metadata file (length, type, range list), `cacheLocks` | `ServeExternal` (hit, miss, bypass), `GetCacheWriter`, `UpdateCacheMetadata` | media route, embedder, origin servers, disk |
| Gateway (`chat/gateway.go`, `chat/relay.go`) | `connections` under an RWMutex; per connection a bounded queue, session, user, `seq`, `closing`, `writeMutex` | authentication, `Process`, `Relay`, `RelayByChannel`, user-list push | handlers, index, sockets |
| Index (`chat/index.go`) | copies of users, roles, channels; `UserInfos`; the user list, `Stale`, `Changes` | `AddUser`, `UpdateUser`, `*Role`, rebuild, `RepositionUser`, `PopAllChanges`, permissions | handlers, two goroutines of `StartGateway` |
| Handlers (`chat/handlers.go`) | none of their own | one per request type: a transaction, then the index, then an event | storage, index, relay |
| Upload slots (`gateway.go`, `handlers.go`, `storage/files.go`) | `pending`; files under `attachments/`, `avatars/` | parking a request, `HandleGatewayUpload`, the second halves | HTTP API, storage |
| Storage (`storage/database.go`, `transactions.go`) | the SQLite file, a pool of 16 connections, `dbPoolWait` | `OpenConnection`, `Start`, `Commit`, queries, `CloseDatabase` | every handler |
| Messages (`handlers.go`, `transactions.go`, `relay.go`) | tables of messages, embeds, mentions, reactions | send, edit, delete, react, pages, `TryEmbedURLs` | relay, embedder |
| Embedder (`chat/embed.go`) | none | fetch a page, choose a preview | cache, origin servers |
| Captcha (`chat/captcha.go`) | map of used responses | `hCaptchaVerify` | login, registration |
| Lifecycle (`main.go`) | context, wait group of subsystems | start, cancel, wait | all |
| HTTP server, limiter, ffmpeg sandbox, ingest, identifiers, sample data | - | I/O and conversions | - |

What is hard in it: several goroutines rewrite one metadata file while others read
the data file without a lock, and the process may die in between; events are fanned
out by concurrent goroutines that block on bounded queues under a shared lock; the
user list is maintained in two ways, one of them with a gap between reading and
storing; handlers commit to the database and then copy into the index on their own;
embeds are fetched after their message was stored, and stored after it may have changed
or gone; each event travels in a goroutine of its own, beside pages read at another
moment; requests are finished by uploads long after they were read; pooled connections carry
transactions that some paths leave open, and outlive the request in a goroutine;
shutdown waits for all of it.

## Modules

| Module | Models | Checked by |
|---|---|---|
| `CacheRanges` | `MergeRanges`, `GetCachedRange`, `UpdateCacheMetadata` on range lists | `CacheRanges.cfg` |
| `Cache` | one cache entry and the goroutines that use it | `CacheEntry.cfg` |
| `MediaCache` | what a cache entry promises its readers (abstract) | `CacheEntry.cfg`, as a property of `Cache` |
| `CacheRangesProofs` | the theorems about `CacheRanges` | `tlapm` |
| `CacheProofs` | the theorems about `Cache` and `MediaCache` | `tlapm` |
| `Gateway` (`MCGateway`) | connections, queues, relays, push, both mutexes | `Gateway.cfg`, `GatewayBlocks.cfg` |
| `Delivery` | what the gateway promises the clients it relays to (abstract) | `Gateway.cfg`, as a property of `Gateway` |
| `UserIndex` (`MCUserIndex`) | the index's users and roles, the list, rebuild and moves | `UserList.cfg`, `IndexLostStale.cfg` |
| `IndexSync` (`MCIndexSync`) | role and user-role handlers, permissions, ranks, and the copies into the index | `IndexSync.cfg` |
| `Uploads` (`MCUploads`) | sending and profile updates in two halves, slots, files, answers | `Uploads.cfg`, `UploadsOthers.cfg` |
| `Messages` (`MCMessages`) | messages, embeds, mentions, reactions, their events, pages and a client | `Messages.cfg` |
| `ConnPool` | pooled connections, transactions on them, embed goroutines, shutdown | `Pool.cfg`, `PoolPanics.cfg` |
| `ConnPoolProofs` | the theorems about `ConnPool` | `tlapm` |
| `GatewayProofs`, `IndexSyncProofs`, `UploadsProofs`, `MessagesProofs`, `UserIndexProofs` | the theorems about those components | `tlapm` |

Definitions keep the names of the functions they model. A definition whose comment
begins with "Mutant" (or that is named for what it leaves out, beside the original)
is a plausible bug, kept to show that a property notices it; nothing uses it.

### Cache

State: `file` and `claimed` are the sets of offsets that the data file holds and
that the metadata claims; `pc`, `at`, `upto`, `got`, ... are the locals of a
goroutine in `TryServeCached`, in `CacheMiss.Read`/`Close` or in a `CacheWriter`;
`lock` is the per-URL mutex, held between `BeginUpdate` (the file is opened with
truncation: the claims are gone) and `EndUpdate`. A request is `LookupHits` or
`LookupMisses`, then `ServeHit`... or `OriginReplies`, `Read`..., an update whenever
more than `FlushAfter` bytes are unsaved, `Close`. A preview is `GetCacheWriter`,
`Write`..., an update. `Crash` forgets the goroutines and keeps the files.
`UpdateCacheMetadata` takes any failure to open or decode the metadata for a file that does
not exist, starts an empty list and overwrites what was recorded (`cache.go:144-151`): that is
`BeginUpdateForgets`. It is one of the three steps that lose records, with a crash inside an
update and a failed encoding (`Forgets`).
`CacheMiss.Read` ignores the error of its write to the data file and counts the bytes
all the same, so on a disk that fails the metadata comes to claim bytes that are not
there, and a later hit serves them; `CacheWriter.Write` does check. The history
variable `lost` holds the bytes this happened to, and the properties say that nothing
else ever goes missing.

Assumed: the origin serves one version of the resource; a process crash keeps what
was written (no power failure); entries are independent, because file names and
locks are per URL.

`Cache` speaks of sets of offsets. `CacheRanges` justifies that: it runs the two
loops of the code on lists and compares them with the set operations, for every list
updates can produce (touching, nested, empty ranges) and for every request, open-ended
and inverted ones included: on six bytes in the run, on any number in the proofs. Of an
inverted request (`bytes=4-2`) two branches of `GetCachedRange` may apply to one range;
`Decide` is the chain the code is, of which the first applies. Sorting is an insertion
sort: `sort.Slice` leaves ranges with one `Start` in any order, and what the pass makes of
them is the same in each.

`MediaCache` is the same entry as its readers may think of it: `kept` bytes, `known`
(recorded) bytes and what each answer is still `serving`. It keeps bytes, records kept
bytes, serves recorded bytes, may lose records when it restarts and, if `MaySpoil` (the
disk may fail), at any time, when a record of other kept bytes may take their place. `Cache` implements it with `kept` = `file` and `lost`, `known` = the claims or,
while the list is being rewritten, what its writer will write back, and `serving` = what is left
of each hit: the lock, the truncated metadata file and the flushes are invisible.

### Gateway

A connection is in a `phase` (introduction, login, registered, closed); `queue` is
its channel, `taken` what its writer goroutine holds, `writing` who holds its
`writeMutex`. Each event is a goroutine that takes the read lock, visits the registered
connections in any order, checks for room (`RelayChecks`) and sends (`RelaySends`):
two steps, as in the code. `AddConnection` takes the lock for writing and, like Go's
RWMutex, holds off new readers while it waits. `RemoveConnection` is never called by
the code, so closed connections stay registered.

`Delivery` is the same gateway as its clients may think of it: the `members` that
registered, those that are `gone`, and for each a `line` of accepted events, of which the
first is received (`got`) or, once the client is gone, lost. `Line` maps to it: the event
the writer goroutine holds, then the queue. An event is accepted when it is sent to the
queue, and received when its write to the socket ends; taking it off the queue, visits,
locks, replies and pushes are stuttering.

### UserIndex

`UpdateUser` moves one user by a binary search (`Moved`, `MoveRange`); the other
operations set `stale`. The rebuild is two steps, `UpdateUserListRead` under the read
lock and `UpdateUserListStore` under the write lock, and any operation may come
between them. `Diff` and `MoveRange` are the ranges recorded for the push goroutine,
and a client hears of a change when its range `Overlaps` a recorded one.
`raced` is a history variable: an operation ran in the gap.

The properties leave out what the code does not do: members of a deleted hoisted role
keep it as their `Hoist` and are not displayed until they are updated (`DeleteRole`
recomputes no `UserInfo`), so `Fresh` compares with a rebuild from the cached infos,
not with the database; rows that only appear at the end of the view are recorded as an
empty range, which reaches no client; `RepositionUser` records nothing when it moves a
displayed user to a group that is not displayed, and a move from position -1 when it
brings one back. So `ChangesReachClients` is about rows that a client sees change place or
go, and leaves out what `Unrecorded` names: rebuilds that were overtaken, moves out of the
view, and for rows behind the new place, moves into it. A rebuild compares with the list as
it is then, so a client whose rows it leaves as they are may keep a row that went unrecorded. `sort.Search` is modelled as the binary search it is (`Halve`, `Search`), and
sorting as the one sequence that is in order (`InOrder`): that the two agree is proved.

### IndexSync

A handler's transaction is one step: SQLite serialises writers, and a transaction
whose snapshot is old fails and changes nothing. What it read back waits in
`pending` until a second step puts it in the index. `Granted`, `Overwritten` and
`Rank` are the permission and rank computations, on sets instead of bit masks.
`raced` and `dated` are histories that say which rows were copied while another copy
was under way, and which users' cached permissions are older than a role of theirs.
`NoRank` is the rank of who has no role, `math.MaxInt` in the code; positions are below it.

### Uploads

Each connection has a loop (`Process`, a handler, `Finalize`, `Answer`); HTTP uploads
run beside it (`HandleGatewayUpload` pops the slot, files are stored one by one,
`FinalizeUpload` commits, `AnswerUpload` writes to the connection). An upload may
break off at any file; `WriteFile` then removes the message's whole directory.
`Write` answers with the connection's current number, as the code does, whatever
number its caller has put in the event. `dropped` is a history of avatars whose upload
failed: the profile is stored with their stamp all the same.

### Messages

The four tables, as functions of the message (`messages`, `embeds`, `mentions`) and a
set (`reactions`, of one emoji). A handler's transaction is one step: those of
`HandleMessage*Request` begin with reads and fail if another commit overtakes them
before their first write, and `TryEmbedURLs` holds the write lock from its first row to
its commit, reading nothing before. Sending is two steps, since the ID is drawn first;
`TryEmbedURLs` runs in a slot of `Fetchers` from the commit that starts it to its own.
A text is its list of URLs and its list of mentions; `Page` gives the URL a page goes
by, which an edit compares with the text (`KeptEmbeds`, `AddedURLs`) and which may be
another page's, or none. Deleting a message cascades as in the schema, and a late fetch
then fails.

One client shows a channel: it asks for the latest page and for what precedes it, and
applies events to its copies. The client's program is not in the repository; `Apply` is
the plain reading of the five events. An event waits for its relay's goroutine and then in
the client's queue, from which the writer takes it (`Deliver`), unless the queue is full and it
is dropped for good (`Drop`). A page does not wait there: the handler writes it to the socket
itself (`MessagesResponse`), past the events that are queued. So events of one message that are
under way together may change places, a page may be written after an event that is newer, and
an event may never come: such a message is `unsure` until the client starts afresh, and
nothing is claimed of it. What is claimed (`ViewAgrees`) is that events suffice which arrive, do
not meet, and are not written between the reading and the writing of a page: every commit
announces what it changes, and an event that a page has passed by does no harm.
`raced` is a history of messages edited during a fetch, whose late embeds may belong to
the old text or double the new one's; it is cleared when an edit leaves no embeds and
nothing is being fetched. `ParseMessageContent` does not look for links that are repeated, and
`TryEmbedURLs` fetches and embeds each (`AtPlaces`: a repeated link may be fetched once with
success and once without): `repeated` is a history of messages a text of which did, and
`EmbedsOnce` leaves them out.

Three things the code does are visible in the model and in what the properties leave out:
a message may be stored with part of its mentions (`Accepted`), a page that goes by
another's URL counts as that page (`EmbedsOnce`), and a page around an anchor that is
gone contains an empty message (`GetMessagesAround` takes the anchor to exist). The
references of messages are set to NULL without an event, so the client's copies are
compared without them.

### ConnPool

A worker is one request loop. `OpenConnection` joins the wait group, `PoolGet` takes
a connection, `Start` begins, `Commit`/`Refuse`/`CommitAndEmbed` are the three ways
handlers end, `CloseConnection` puts the connection back. From the libraries the
model takes: `BEGIN` inside a transaction fails and `sqlitex.Transaction` panics;
`Pool.Put` does not look at open transactions; `Pool.Get` fails on a cancelled
context; `net/http` recovers a panic of a request goroutine and nobody recovers
`TryEmbedURLs`.

## What the runs show

Passing:

- **cache_ranges** - merging yields exactly the recorded bytes in separated ranges;
  a lookup is entirely cached or entirely uncached, and is the one the set operations
  give.
- **cache_entry** - a request and a preview on three bytes, flushing after every second
  byte, with crashes and disk errors: claims are in the file (`MetaSound`) and hits
  read such bytes (`HitSound`, together `BytesSound`), the ignored failures apart; updates
  lose nothing another goroutine recorded, where the metadata is read and written without
  errors and crashes (`NeverForgets`); whoever waits for the metadata
  lock gets it
  (`WaitersServed`); the entry is the abstract cache to its readers
  (`ImplementsMediaCache`).
- **gateway** - no event arrives twice (`NoDuplicates`) or where it should not
  (`OnlyEntitled`); logins complete and queues drain, although relays block on full
  queues under the lock; each client receives what was accepted for it in that order, with
  nothing left out while it stays (`ImplementsDelivery`).
- **user_list** - with every operation on two users and a role: a list that is not stale
  is up to date unless an operation fell into the gap, rebuilds record what they change,
  and nobody is ever listed twice (`ListWellFormed`). With three users and two hoisted
  roles: moving one user at a time gives the list a rebuild would give
  (`FreshUnlessRaced`), and a recorded range reaches the client whose rows a move within the
  view, or a rebuild that nothing overtook, changes (`ChangesReachClients`).
- **index_sync** - the index agrees with the database about every row that was not
  copied by two requests at once (`IndexAgrees`), and about permissions unless a role
  changed after they were computed (`PermissionsAgree`); giving and taking roles moves
  nobody past, or level with, the one who does it (`RanksKept`). Changing the position of a
  role, or deleting it, compares no ranks in the code and is not what the property is about.
- **uploads** - one message per slot (`SlotsOnce`); no stored message lacks a file
  (`AttachmentsStored`); the stamp in a profile names an avatar that is stored or whose
  upload failed (`AvatarsServed`; an upload without a file part, which the code takes for a
  success, counts as one that failed, so neither defect is excluded); answers carry the numbers they may carry
  (`AnswersInStep`); fields a request does not set are kept when updates do not overlap
  (`UnsetFieldsKept`).
- **messages** - two users send, reply, edit, delete and react, with fetches, relays,
  pages and crashes in between: no row outlives its message (`NoOrphans`); embeds and
  mentions follow the text through its edits (`RowsFollowContent`), unless an edit came
  during a fetch, and a link is embedded once (`EmbedsOnce`), unless one did or a text repeated
  a link; the client's copies are what is stored, but for messages whose events met another
  or a page, or were dropped (`ViewAgrees`); every page is the window of the channel next to its
  anchor (`PagesExact`).
- **pool** - no two request loops hold one connection (`NoSharing`; the goroutine of
  `TryEmbedURLs` uses one that its request has put back, which `pool_panics` shows); the pool is not closed under a
  request (`ClosedWhenUnused`); waiting for a connection ends unless a request panicked
  (`RequestsServed`), and so does the shutdown, unless one panicked or failed to get a
  connection after the cancellation: the last has joined `dbPoolWait` and never leaves
  it, so that `CloseDatabase` waits for ever (`ShutdownCompletes`).

Violations, each a disagreement between the code and a line of the repository (quoted
in `PROJECT.json` under "findings"):

- **gateway_blocks** - two relays pass the room check for one place; the second blocks
  on the send with `connectionsMutex` held, where the log says the event is dropped.
- **index_lost_stale** - a user who joins in the rebuild's gap stays unlisted, the mark
  that would cause another rebuild being cleared.
- **uploads_others** - an update of another user's profile is stored as one's own.
- **pool_panics** - a connection goes back to the pool with an open transaction, or is
  used by a goroutine after it has gone back; a later `BEGIN` fails.

### Bounds

- Cache: three bytes leave room for a claimed prefix, a hole and a claimed suffix; a
  request and a preview are the smallest set in which an update, a hit and a flush of
  another overlap. The theorems hold for any number.
- Gateway: `Cap` = 1 makes the queue full with one event; two events make two relays
  race for it, for the one client that may see them, while the other logs in and
  leaves. That a connection draws one session at most (`Sessions` 0..1) is not a bound but
  part of `TypeOK`, and proved.
- UserIndex: three users, two names, two roles and two positions give moves up, down, to
  the end and between groups; with every operation, two users and one role. One run has
  both sizes (`MCUserIndex`): the two kinds of states do not meet. `Backlog` = 1 bounds
  the recorded ranges, which are independent.
- IndexSync: two requests at once are what a race takes; two users because an actor
  differs from its target; two roles, one let into the channel and one kept out, and two
  rows for them. Users and requests are symmetric there, as are the uploads below.
- Uploads: three requests on one connection and two uploads at once let a retry race
  an upload and an upload overlap a later request; `MaxFiles` = 2 so that a failure
  can take an earlier file with it.
- Messages: four requests allow sending, two edits and a deletion or reaction, with two
  fetches at a time, one of which the later edit or the deletion overtakes. Links are for
  a message that is alone; up to three messages, in two channels, have a text without
  links (`MCMessages`): rows of different messages do not meet but in pages and
  references, for which texts do not matter. A page of one message makes the client page
  back over every boundary. One text has a link twice; with it there is one request less.
- ConnPool: three workers on one connection, so that two wait, and two workers on two
  in `PoolPanics`; one embed goroutine per worker.

### Fairness

Fairness is stated only where the scheduler or the runtime gives it. Goroutines that
can run do (weak fairness); Go's mutexes and channels serve every waiter in the end,
so waiting for one is strongly fair; polling goroutines poll for ever. Clients owe no
requests, and a write to a socket ends only if the client reads or the socket is
closed (`Stalled` names clients that need not). The origin owes no answer. The specifications checked
for safety alone have no fairness.

## Proofs

Every theorem is of the specification itself, for every value of its constants that its
assumption admits: any number of bytes, requests, previews, connections, events, users,
roles, messages, links, uploads, workers. The invariants were checked with TLC on the
component's run before they were proved. One theorem has a hypothesis of its own
(`UploadsAvatarsServed`, below).

### CacheRanges

`Inv` is inductive: `ranges` holds ranges whose `End` is at least `Start - 1` (`Rng`), every
range ends two before any later one starts (`Separated`), and together they are `bytes`.
`RangesSeparated` speaks of neighbours; the inductive form speaks of all pairs, which
for such ranges is the same. `MergeFacts` carries it: after the pass has looked at n ranges,
what it would return if it stopped is separated and covers those n, and the current range
starts no later than the next, since the list is sorted (`SortedFacts`). `MergedExactly`
and `MergedApart` follow.

`LookupFacts` says that the loop of `GetCachedRange` stops at the first range that decides
and that all before it end before both ends of the request; `Beside` and `Beyond` say which
bytes a separated list leaves out. `LookupsUniform` and `LookupsMatchSet` put them
together, for every request with integers for its ends. So `Cache`, which is written
with sets, is written with what the code computes.

### Cache

`CacheProofs` proves five theorems for any sets of requests and previews, any length
and any flush threshold, from `CacheAssumption` (the sets are disjoint, the length is
positive).

- `TypeCorrect`: `Spec => []TypeOK`. `TypeOK` is not inductive: that an update records
  offsets of the resource needs `InBounds` (a copy never runs past the end), so the
  invariant is `TypeInv == TypeOK /\ InBounds`.
- `CacheSound`: `Spec => []BytesSound`, that is `MetaSound /\ HitSound`. The strengthening is
  `ProgressSound`: whatever a goroutine counts as received is in the file or in `lost`,
  so whatever it records is. `Sound` is `MetaSound /\ ProgressSound /\ HitSound`; file
  and `lost` only grow, which carries `HitSound` through the steps of the others.
- `CacheNeverForgets`: `Spec => NeverForgets`, which exempts the three steps that do
  forget: a crash inside an update, metadata that cannot be read, and a failed encoding.
  It needs `LockSound`: at most
  one goroutine is between reading the list and writing it back, and what it is about to
  write includes what it read.
- `CacheRefines`: `Spec => ImplementsMediaCache`. From the conjunction of the three
  invariants, each step of `Cache` is a step of `MediaCache` under the mapping, or leaves
  it alone. `ProgressSound` gives that what an update records is kept, `LockSound` that
  what it writes back is what it has recorded since it took the lock.
- `MediaFaithful`: the abstract cache records and serves only what it keeps, which is what
  a reader relies on.

Each has one lemma per group of actions (client, writer, update, crash) and one step
per action under it.

### ConnPool

`ConnPoolProofs` proves, for any finite set of request loops and any pool
(`ConnPoolAssumption`), `PoolTypeCorrect`, `PoolNoSharing` and `PoolClosedWhenUnused`.
One invariant, `PoolInv`, carries all three. `HeldWhileHandling` says who holds a
connection, without which a connection that is put back might still be held by another.
`WaitCounts` says that `dbPoolWait` is at least the number of request loops that still
owe it a `Done` (it is larger once one has panicked): so it never goes below zero, and
when it is zero nobody holds a connection and the pool may be closed. Its steps rest on
the cardinality theorems of the library, which is why the request loops must be finite.

### Gateway

For any connections, events, fan-outs and room in the queues (`GatewayAssumption`):

- `GatewayTypeCorrect`. That a queue never overflows needs `Held`: a fan-out has a target
  exactly while it sends, a socket locked by the writer goroutine has an event, and a
  connection has drawn a session exactly if it has authenticated.
- `GatewayNoDuplicates`, `GatewayOnlyEntitled`, from `FanOutInv`. The count of copies is not
  inductive: an event that has been sent must not be visited again (`InStep`), and the
  connections still to be visited must be registered under one session each
  (`RegistryInv`), or a double login would have an event delivered twice. Queues and what
  was written hold no event twice, so counts of at most one become `Single`, which says
  where an event is in plain logic.
- `GatewayRefines`: `Spec => ImplementsDelivery`. `FanOutInv` says that what is sent was
  not accepted before and may be; that a client once gone stays gone needs one more fact,
  `Replying`: a connection's loop holds the socket only between a request and its answer,
  so no answer returns a closed connection to its loop. The lemmas about `Line`
  (`FrontBack`, `AppendBehind`) make queue and writer goroutine one sequence.

### IndexSync

For any users, roles, workers and positions (`IndexSyncAssumption`, and `NoneAssumption`:
the mark for "no copy" is no copy):

- `IndexSyncTypeCorrect`: inductive as it stands; it includes that nobody has a role in the
  database that does not exist.
- `IndexSyncAgrees`, from `AgreeInv`: a row whose last commit did not meet another's copy is
  on its way in one copy at most, that copy is what the database has, and without one the
  index has it. The lists of a user name only roles that were issued: otherwise a new role
  would make an old list say more than it did.
- `IndexSyncPermissionsAgree`, from that and `InfoInv`: the info of a user who is not `dated`
  is what would be computed now.
- `IndexSyncRanksKept`, an action property: from `TypeOK`, the checks of the handlers and
  that positions are below `NoRank`. Ranks are minima of sets of positions, so the proof is
  about what adding or taking away one element does to a minimum.

### Uploads

For any users, connections, uploaders, numbers of files and of requests
(`UploadsAssumption`):

- `UploadsTypeCorrect`, with `InFlight`: what is known of the requests with a loop, in a slot
  or with an upload. It is what makes "no profile has a stamp a client has made up" hold
  of the store.
- `UploadsSlotsOnce`, from `SlotInv`: a request is in one place only - with its loop, parked,
  with one live upload, or stored.
- `UploadsAttachmentsStored`, from `FileInv`: no two live uploads have one message ID and none
  that of a stored message, so a failing upload removes files of its own only.
- `UploadsAnswersInStep`, from `TypeInv`: it holds because `InFlight` ties the number of the
  loop's request to the connection's.
- `UploadsUnsetFieldsKept`, an action property, from `ReadInv`: the fields a request does not
  set are what it has read, in every place the request can be, unless the profile was
  stored since.
- `UploadsAvatarsServed`, from `AvatarInv`, where `Managers = {}`, as in the run. Without it
  the property is false: a manager who changes another's profile stores the other's stamp
  in the manager's own, where it names no file (this is the defect of `uploads_others`).

### Messages

For any users, channels, texts, links, fetchers and numbers of messages and requests
(`MessagesAssumption`). `Filter` (what `SelectSeq` does, by a set) is proved to keep order,
elements and injectivity (`FilterFacts`, `FilterKeeps`).

- `MessagesTypeCorrect`, with `PageInv`: a page under way begins with a message.
- `MessagesNoOrphans`: with `FreshInv`, that nothing refers to an ID that is drawn and not
  yet stored, and that no two requests store under one ID. Sending is two steps, so without
  it a reaction or a reference could precede its message.
- `MessagesRowsFollowContent` and `MessagesEmbedsOnce`, from `RowsInv`: a message no edit of
  which met a fetch has one fetch at most, of links of its text that have no embed
  (`OneFetch`); its embeds belong to its links (`Linked`) and, if no text of it repeated a
  link, no page that nothing else goes by is embedded twice (`Once`).
- `MessagesViewAgrees`, from `ViewInv`: for a message that is not `unsure`, whatever is under
  way leads from what the client has to the row that is stored, a page under way included
  (whichever is written first),
  and the same events change nothing about the row itself (`ViewOf`).
- `MessagesPagesExact`: from `TypeOK` alone, about the operators: `JoinAscending` and
  `PageIsWindow` say what a page is of any tables. They hold of any limit but zero; the property names three.

### UserIndex

For any finite sets of users and roles, any names and positions (`UserIndexAssumption`; the
IDs of users, of roles and of the two presence groups differ). `InvAlways` carries the
first three:

- `UserIndexTypeCorrect` and `UserIndexListWellFormed`, from `ListInv`: the list and what a
  rebuild has not stored yet are both `GoodList`s. That nobody is in the view twice is not
  inductive, since a move searches all groups, those not displayed included: the groups
  themselves must be disjoint, and the groups of the order distinct (`OrderFacts`).
- `UserIndexFresh`, from `FreshInv`: a list that is not stale is `Accurate`, every group
  having exactly its members in order, and so is what a rebuild has read, as long as nothing
  ran since. The argument needs that the binary search splits a sorted group (`SearchFacts`),
  that inserting there keeps it sorted (`InsertFacts`), and that there is one sorted sequence
  of a set of users, so that moving one and sorting all agree (`OrderExists`, `OrderUnique`,
  `InOrderFacts`).
- `UserIndexChangesReachClients`, an action property, from that and `DiffInv`: what a rebuild
  has computed is the difference to the list it replaces, as long as nothing ran since.
  Every changed row is in a maximal run of changed rows (`RunExists`, `DiffCovers`), and two
  views that are the same but for one user differ only between its two places (`MovedTaken`,
  `MoveCovers`); one who was in neither place before is the one who moved (`TakenRange`,
  `ReturnCovers`). Those lemmas hold for any range a client asks for; the property, which TLC
  evaluates, for those of `ClientRanges`.

### What is only model-checked

- Liveness (`WaitersServed`, `LoginsComplete`, `QueuesDrain`, `RequestsServed`,
  `ShutdownCompletes`): fairness is out of the prover's reach.
- The four expected violations.

Induction over numbers is not out of reach: the library's rule takes an operator, but the
set of numbers for which a statement holds does as well, with `WFMin` and the
well-founded order of the naturals (lemma `Induction` of `CacheRangesProofs`,
`MessagesProofs` and `UserIndexProofs`). That is how what a recursive function computes is
proved (`Filter`, `Sorted`, `MergeRanges`, `Search`, `MakeView`).

## Not modelled

Response headers and status codes of the media routes; SQL text and row decoding
beyond what the handlers' effects need; HTML and oEmbed parsing; ffmpeg and its
sandbox; the bandwidth limiter (a development aid in real time); regular expressions
of the message parser; sample data. The captcha's map of used responses is a set under a
mutex that one function reads and extends (what its refusal does to the transaction is in
`ConnPool`); start-up is a sequence of calls. The choice between an embed's video, image
and thumbnail is a local decision on what could be fetched. Snowflake identifiers are taken to be unique.
Growth without bound (connections and slots that are never removed) is listed as a
hazard and is not a property of a bounded instance.

## Plan

Done: `CacheRanges`, `Cache` with `MediaCache` and the proofs, `Gateway` with `Delivery`,
`UserIndex`, `IndexSync`, `Uploads`, `ConnPool` and its proofs, `Messages`, in that order of importance:
what persists and is served to everyone first, then delivery, then the index, then the
requests. An embedder that picks previews, the captcha and start-up were considered and
left out, for the reasons above.

Proved: every safety property and every action property of the passing runs, and the
refinements of `MediaCache` and `Delivery`.

Next: nothing of the safety properties is left to prove. What would say more is stronger
properties: a refinement of the user list by an atomic one that is always fresh, for the
rebuilds that nothing overtakes, and the client's copy of the list, so that
`ChangesReachClients` could say what a client ends up displaying.
