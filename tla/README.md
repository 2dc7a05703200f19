# AmbientProxy: TLA+ models, model checking and proofs

AmbientProxy lets players reach an Ambient game server that sits behind a NAT.
The game server ("Ambient server") opens a QUIC connection to the proxy and asks
for an allocation; the proxy binds a port for it, accepts players there, forwards
their streams and datagrams in both directions, and serves the game's assets over
HTTP from a cache that the Ambient server fills. The crate holds both ends: the
proxy (`src/src/server.rs`) and the client library used by the Ambient server
(`src/src/client.rs`).

The code is almost only concurrency: tokio tasks, `select!` loops, channels,
`Notify`, `Arc`/`Weak`, DashMaps. That is what the modules model. A step is what
a task does between two points where another thread can interleave: an await, or
the release of a lock. Bytes, wording and logging are left out.

## Inventory

| Component | State | Operations | What is hard |
|---|---|---|---|
| `ManagementServer` (server.rs:131-298) | `ProxyStore`, gauge of connections, event channel | accept and handshake, insert, `Stopped`, metrics tick, HTTP routes | tasks of a proxy run before it is listed; events in a queue; one loop awaits handshakes; Arcs held by HTTP handlers |
| `ProxyServer` (server.rs:319-839) | endpoint, `player_conns`, channels, start flag and `Notify` | allocation, players, streams and datagrams to players, `Disconnected`, shutdown, `Drop` | a select loop that awaits inside handlers; a player announced before it is listed; a flag and a `Notify` read one after the other |
| `PlayerConnection` (server.rs:846-976) | its two connections | forward streams and datagrams, report the end | awaits stream credit of the Ambient server while its player may leave |
| Asset cache (server.rs:664-736, 774-825, 978-1036) | `asset_store`, `total_assets_size` | HTTP `get_asset`, `StoreAsset` uploads, `/stats` | lost wakeups, deadlines racing answers, size counted apart from data, a proxy that goes while requests wait |
| Pre-caching (client.rs:438-610) | stack of directories, two flags | `allocate_endpoint`, `pre_cache_assets`, the task | flag tested by one task and cleared by another; lost notification; directories that cannot be read |
| `ProxiedConnection` (client.rs:105-136, 612-694) | a queue and a `Notify` per player | push by the loop, `accept_uni`, `accept_bi`, `read_datagram` | a wait that begins after the lock is released; dropped calls |
| `Client::start` (client.rs:283-407) | the client's loop | one branch per message and stream | feeds the three above; messages and streams are not ordered |
| framing (streams.rs, bytes.rs) | bytes read ahead by `FramedRead` | `IncomingStream`, `OutgoingStream`, `read_framed`, `write_framed`, `prefix`, `drop_prefix` | calls of `next` dropped halfway by a `select!`; limits |
| paths (paths.rs) | none | `path_to_key`, `load_asset_data` | a file must be found by the key it was stored under; links and `..` |
| ports (server.rs:345-390) | none | `create_proxy_endpoint` | 16-bit arithmetic; servers that try the same ports |
| telemetry, configuration, ids, `main`, client set-up | none that changes | set-up, conversions | nothing runs concurrently |

The parts talk over QUIC (messages on the first bi stream; streams with a
header; datagrams with a prefix) and, inside the proxy, over unbounded flume
channels (`Stopped`, `Disconnected`, messages in both directions) and shared
maps. The full list of hazards, line by line and with the properties that catch
them, is in `PROJECT.json`.

What has to be right, component by component:

- management: an event of a proxy is neither lost nor handled too early; a proxy
  that serves is not removed; a proxy whose connection is gone goes too;
- proxy and players: the same for players; a player the Ambient server was told
  of can be addressed by it; messages once and in order; whoever connects is
  served or turned away; the end of the Ambient server ends its players;
- assets: a request is answered once, with what the cache holds, and fails only
  after it missed; it is woken for its own asset; it ends; nobody keeps a dead proxy alive;
- pre-caching: one task at a time, none before the allocation, and it ends;
- proxied connections: in order, once each, no item left to sleeping readers alone; a
  stream comes out of the connection of the player that opened it, and it does come;
- client loop: no header is awaited for good, whatever players and application do;
- framing: what is read is what was written, and what follows a header stays whole;
- paths: what pre-caching stores is what a request would load, and is an asset;
- ports: every port of the range can be chosen and no other.

## Modules

| Module | Models | Checked by |
|---|---|---|
| `AssetService` | what the asset cache promises (abstract) | refined by `AssetStore` |
| `AssetStore` | `get_asset`, `Asset::store`, uploads, end of the allocation | `MCAssetStore` |
| `AssetStoreProofs` | theorems about `AssetStore` | TLAPS |
| `AssetTransfer` | the sizes of an asset: compression, announced length, limit | `MCFunctions` |
| `ManagementServer` | `ManagementServer::start` with the metrics tick, `ProxyStore`, the two tasks of a proxy, `Drop` | `MCManagementServer` |
| `ManagementServerProofs` | theorems about `ManagementServer` | TLAPS |
| `ProxyServer` | the loop of `ProxyServer::start`, the message task, `PlayerConnection` | `MCProxyServer` |
| `ProxyServerProofs` | theorems about `ProxyServer` | TLAPS |
| `PreCache` | pre-caching and the `Allocation` branch of the client's loop | `MCPreCache` |
| `PreCacheProofs` | theorems about `PreCache` | TLAPS |
| `PendingResources` | `QueuedResource` and the three accept loops | `MCPendingResources` |
| `PendingResourcesProofs` | theorems about `PendingResources` | TLAPS |
| `TunnelService` | what proxy and client library together promise of a player's streams (abstract) | refined by `Tunnel` |
| `Tunnel` | a stream's way from the player's task in the proxy through `Client::start` to the application | `MCTunnel` |
| `TunnelProofs` | theorems about `Tunnel` | TLAPS |
| `Framing` | headers, prefixes, and the stream of messages under cancelled reads | `MCFunctions` |
| `AssetPaths` | `path_to_key` and `load_asset_data` on a file system with links | `MCFunctions` |
| `PortSelection` | the ports that `create_proxy_endpoint` tries | `MCFunctions` |
| `FunctionProofs` | theorems about `Framing`, `AssetPaths`, `AssetTransfer`, `PortSelection` and what `MCFunctions` asks of them | TLAPS |
| `Induction` | lemmas: minimal elements, recursion over naturals, sums over finite sets | TLAPS, used by three of the others |

Definitions carry the names of the code where that is possible, and
`PROJECT.json` "map" gives the lines each stands for. Next to some actions there
is a variant whose comment begins with "Mutant:". It is no part of the
specification: it is the action with a plausible bug, put in the place of the
action to see that a property notices.

### AssetStore

One process per HTTP request (`reqPc`: `loop`, `grabbed`, `waiting`, `done`) and
one per `StoreAsset` stream (`upPc`). `loop` is the test of the `while`
(server.rs:782); `grabbed` is after the block that locks the entry (783-806):
the `Notify` has been cloned, the entry is unlocked, and no `Notified` future
exists yet; `waiting` is the `select!` (809-812). `woken[r]` says that a
`notify_waiters` has reached the future of `r`. An upload is `sent`, `reading`,
`holding` (the `Weak` was upgraded), `counted` (`total_assets_size` was raised,
717-719), `stored` or `failed`. An upload stands for its bytes; `Size[u]` is
their number. The proxy is alive while one of its Arcs is (`ProxyAlive`): in
`ProxyStore`, in its task, in a request, in an upload. Time is one event per
request, `Expire`, which may come at any moment after the request has looked
into the store: `assets_download_timeout` is a number of seconds (60 unless
configured), the first look comes microseconds after the deadline is computed.
A timeout configured as zero is outside of the model. The end of the start task,
`StartTaskEnds`, is a step without fairness here: whether it comes is a question
to `ManagementServer`.

### ManagementServer

One process for the loop of `ManagementServer::start`, and per Ambient server
the connection, the message task (`msgPc`, server.rs:393-427) and the task of
`ProxyServer::start` (`startPc`, 448-545). `check`, `unstarted` and `parked` are
the loop at 454-459, cut where the flag has been read and where the future
exists. `Referenced` collects the Arcs of a proxy; `DropProxy` runs when none is
left. The loop at 461 is two states: in `loop` it looks at the branches of its
select, the end of the connection among them; in `handling` one of its handlers
awaits a player's handshake or the opening of a stream to a player (599, 660,
758) and it sees nothing else. Of the players only what the metrics tick (219-229) adds up is kept:
`playerOf[p]` is the proxy that has `p` in its `player_conns`, and `clientGauge`
is what the last tick has set. A proxy whose loop has ended keeps its players in
the map, so the tick counts them until the `Stopped` event is handled.

### ProxyServer

The loop of `ProxyServer::start` handles one branch of its select at a time;
`loopPc` says where it is inside a handler, and only `select` lets a new branch
in. The handler of a player is cut at its awaits and where the player's task,
already spawned, can run: `handshake` (599), `announcing` (606), `announced`
(613), `spawned` (625-632, before the insert at 467). `opening` is the await of
`open_uni` or `open_bi` towards a player. `HasCredit` is QUIC's limit on
concurrent streams. Messages from the loop to the Ambient server go through
`outbox` and the message task to `received`; a player is `Known` once its
message was received. `handle_uni` and `handle_bi` agree on all that is
modelled, and a stream or datagram is an element of `Items`.

### PreCache

The application calls `ClientController` (`&mut self`: one call at a time); a
task per call that found none running; the client's loop in so far as it learns
of the allocation or ends with its connection: from then on `allocate_endpoint`
fails, as nobody receives its message (475-480), and no upload gets through.
`asked` is what was handed to `pre_cache_assets`. A directory holds a fixed set of entries, and directories form
a finite tree (`DirectoryTree`): an entry has the path of its directory and one
name more, and `file_type` follows no link. `read_dir` and
`next_entry` fail for directories in `Unreadable` only, so that a property can
say what happens when all can be read.

### PendingResources

One queue with its `Notify` and any number of readers, each in a call or between
two: it has never called, its last call was `served`, or was `dropped`.
`NotifyOne` and `Cancel` follow tokio's documented `Notify`: a permit, or the longest waiter; a dropped
future hands its wakeup on.

### Tunnel

The composition of three parts that the other modules have one by one, for
streams from players. The task of a player (server.rs:872-956) is in its
`select`, in `open_uni` or `open_bi` (`opening`, 927 and 945) or in
`write_framed` (`heading`). A stream that it opens goes to the end of `wire`:
QUIC numbers streams as they are opened, and the client accepts them in that
order, whoever's they are, as soon as anything of that stream or a later one has
come. The header of each arrives on its own (`HeaderArrives`): the loop of
`Client::start` takes the first stream of `wire` and awaits its header
(`reading`, client.rs:367 and 376), and everything else waits meanwhile. A
header that comes in parts is a stream that shows before it has `arrived`.
`ReadHeader` puts the stream in the queue of the player that the header names
(`pending`, client.rs:131), whether the application has been told of that player
(`known`) or not: messages overtake streams and streams messages. `streamLimit`
is how many streams the client's endpoint lets the proxy have open; a stream
counts from its opening until the application has released it. Streams are
numbered in the order in which players open them, which the client does not see.
Uni and bi streams have limits and ids of their own; the model has one kind. How
a player is listed is in `ProxyServer`, how a reader waits in `PendingResources`.

### Framing, AssetPaths, AssetTransfer, PortSelection

Pure functions and the properties they should have. Integers have widths that
are constants (`PortCount` values of a u16, `LengthCount` of a u32, `ByteCount`
and `CountBytes`), so that wrapping is seen on few values. `MCFunctions` asks for
one result in one step, for all inputs from its sets, so that each call is a
state of its own and the invariants speak about it. `Framing` also has a
specification of the first bi stream, where a `select!` drops the call of `next`
at any byte. What hashing and gzip yield, and which ports are free, is any value.
A path is the sequence of what stands between its slashes, a place in the file
system the sequence of names that leads to it; `Enter` says where one component
leads from a place, through a link or up, and `Follow` is empty where
`canonicalize` would fail. A name is a string, also one that is not UTF-8: it is
in `NotUtf8`, and `path_to_key` has no key for it (paths.rs:24-27). Every asset
with other names has one.

## Runs

Every run explores all states of its instance. "Violated" marks runs that show
the code to differ from what a comment or a doc string of the repository says;
the lines are quoted under `findings` in `PROJECT.json`.

| Run | Instance | Shows |
|---|---|---|
| `AssetStore` | 2 uploads of sizes 2 and 1, 2 keys of which one is not on disk, 2 requests; fair | `TypeOK`, `WakeupMeansAsset`, `SizeNeverUnderReported`, `RefinesAssetService`, `EveryRequestEnds`, `StoppedProxyReleased` |
| `AssetStoreWakeup` | the same | violated: `NoLostWakeup`. A request can sleep to its deadline beside its asset |
| `AssetStoreCount` | the same | violated: `CountExact`. `/stats` counts keys that were only asked for |
| `ManagementServer` | 2 Ambient servers, 1 HTTP handler, 1 player; fair and cooperative | `TypeOK`, `StoppedProxyWillBeRemoved`, `ConnectedProxyServes`, `ServedProxyDropped`, `PlayersGaugeSettles` |
| `ManagementServerUnused` | the same | violated: `UnusedConnectionRemoved`. A connection closed before its first message is listed and counted for good |
| `ManagementServerStarted` | the same | violated: `StartedIsNoticed`. The notification falls between test and wait, and the proxy never serves |
| `ProxyServer` | 2 players, 2 streams, 1 datagram, 1 stream at a time per player, 2 allocation requests; fair and cooperative | `TypeOK`, `DisconnectNotLost`, `AllocationThenPlayers`, `ConnectedPlayerIsKnown`, `DisconnectedPlayerForgotten`, `ConnectingPlayerSettled`, `ServerGonePlayersClosed` |
| `PreCache` | 2 directories (one in the other), 2 files, 3 tasks, 2 calls; fair | `TypeOK`, `OneTaskAtATime`, `NoUploadBeforeAllocation`, `UploadedAsOftenAsAsked`, `TaskEnds` |
| `PreCacheStranded` | the same, every directory readable | violated: `NoStrandedDirectory` |
| `PendingResources` | 3 readers, 3 items; fair | `TypeOK`, `SleepersNotLeftAlone`, `LoneReaderNotified`, `LoneReaderServed` |
| `Tunnel` | 2 players, 2 streams, a limit of 1 or 2 open streams; fair | `TypeOK`, `StreamsOfTheirPlayer`, `RefinesTunnelService`, `HeaderNeverAwaitedForGood`, `StreamReachesApplication` |
| `Functions` | 5 ports and 3 attempts; u32 of 8 values, limit 4, compression from 3; a small file system with links in and out of the assets and a name that is not UTF-8; bytes of 2 values, counts of 2 bytes, 3 messages | `PortsInRange`, `PortsOfOneProject`, `AssetsWhole`, `FilesFoundByKey`, `KeysKeepFiles`, `MessagesIntact`, `HeadersRead` |

Bounds. Two requests, players or servers are enough for one to be in the other's
way, and two uploads for a key to be stored twice; the two uploads have
different sizes so that the sum tells them apart. One stream at a time and two
streams let a player run out of credit; two streams under a limit of one let one
player's stream wait for another player's. Two allocation requests let the second
meet the first. Three tasks let a task start after two that ended, as there are
at most two calls after the allocation was requested and one that requests it.
Three readers let a wakeup be handed on from
a dropped call beside one that sleeps and one that is served, and three items
find them in any states. Three messages let one be
read whole, one in part and one not at all; a length of two bytes can break off
in the middle. A u32 of 8 values and transfers up to three times that wrap to
below and above the limit. `MaxRequests`, `MaxCalls`, `MaxMessages` and `Count`
are the only counters with a bound; the loops of the code have finitely many
states.

Two instances with liveness leave out part of what the environment may do, by a
constraint on actions that have no fairness, so that each of their behaviours is
one of the module. `FewActors` in `MCAssetStore`: either both requests are made
and one key is used, or one request is made and both keys are. `FewSent` in
`MCProxyServer`: the Ambient server sends a second `AllocateEndpoint` or up to
two streams and datagrams. The two violation runs of `AssetStore` have no such
constraint. No run uses symmetry.
`CHECK_DEADLOCK FALSE` is set everywhere because all these systems may stop: the
connections closed, every request answered, nobody left to call.

Fairness. Tasks that can run do run and timers fire (tokio's scheduler and
timers; the metrics tick is one), a handshake that makes no progress fails by
`IDLE_TIMEOUT`, a `select!` polls its branches from a random one on, so that no
ready branch is passed over for good, and QUIC delivers on an open connection
what was written to a stream. Weak fairness is enough where a branch, once ready,
stays so, or where finitely many players and streams can take the loop elsewhere
(`LoopEnds` of `ProxyServer`); `LoopEnds` and `HandleStopped` of `ManagementServer` and the end of a
player's task in `ProxyServer` are strongly fair, because these loops may leave
their select for a handler, or for one more stream, and come back to it.
`AllocateEndpoint` and other calls by applications have no fairness, nor has the
end of a connection or of the start task in `AssetStore`: `StoppedProxyReleased`
begins where that task has ended.

Nothing is assumed of players, of Ambient servers, of HTTP clients or of the
network, with exceptions that are named `Cooperation`:

- in `ProxyServer`, peers finish with streams in time and so give credit for new
  ones. Without it the loop, which awaits `open_uni` towards a player
  (server.rs:660, 758), may wait there as long as that player likes, and no other
  player is served. It is a premise of `DisconnectedPlayerForgotten`,
  `ConnectingPlayerSettled` and `ServerGonePlayersClosed`;
- in `ManagementServer`, the same of players, in its consequence: a handler of the
  loop returns. Without it the loop may be inside one for good when its
  connection closes, does not see that, and its proxy stays listed with its
  players; `ServedProxyDropped` and `PlayersGaugeSettles` need it. A start task
  that is parked before its loop (454-459) is not helped by it, and
  `ServedProxyDropped` is only about those that have come to their loop;
- in `Tunnel`, the application accepts what comes from the players it was told of
  and finishes with it; it is a premise of `StreamReachesApplication` alone.
  Without it the streams of one player that nobody reads use up the limit, and
  those of the others wait. `HeaderNeverAwaitedForGood` does not assume it.

## Proofs

TLAPS proves every invariant that a run checks, both refinements and the one
action property, for every value of the constants that satisfies the assumptions
in the modules. What stays with TLC is liveness. The argument of each module:

- `AssetStoreProofs`: `Typing` (`TypeOK`) and `Refinement` (`AssetStore`
  implements `AssetService`). `TypeOK`, which says that a request under way has its
  key and no answer, is not inductive. `IInv` adds that a request whose deadline has
  passed has missed, and that an upload under way has a key. The refinement maps
  each step to a step of `AssetService` or a stutter, and needs just that: a request
  that fails because its deadline passed must have missed before. `WakeupSound` proves `WakeupMeansAsset`; what it lacks to be
  inductive is that a request that has not begun has not asked (`WakeupInv`).
  `SizeReported` proves `SizeNeverUnderReported` from `SizeInv`: the total is
  exactly the sum of the uploads that have been counted, the store holds counted
  uploads only, and each in the entry of its own key. Hence no upload is held
  twice, and the sum over the store is one over some of the counted
  (`SumInjection`). That the total may be too high (an overwritten asset stays
  counted) is why it is no equality.
- `ManagementServerProofs`: `Typing`, `StoppedEvents`
  (`StoppedProxyWillBeRemoved`) and `OpenConnectionsServed`
  (`ConnectedProxyServes`). The invariant `ServerInv` reads, off the
  state of a proxy's start task, what holds of its connection, its event and the
  list: before it begins there is no trace of the proxy, while it runs the proxy
  is kept and no event is queued, after it the connection is closed and the proxy
  is kept only while its event is queued.
- `ProxyServerProofs`: `Typing`, `DisconnectedEvents` (`DisconnectNotLost`),
  `AnnouncedPlayers` (`ConnectedPlayerIsKnown`) and `MessageOrder`
  (`AllocationThenPlayers`). The invariant `IInv` follows a
  player through the channel: whoever the Ambient server has been told of, or
  will be, is listed, or has left, or is about to be listed by the handler that
  announced it (`PlayerInv`); a stream names a player the Ambient server was told
  of (`ItemInv`). A stream is refused only between two handlers, when nobody is
  about to be listed, so its player has left. `OrderInv` splits what was sent into
  what was received and what is queued, since a message that moves from one to the
  other changes neither order nor number; it adds that a player who is yet to be
  announced is in neither, and that without an endpoint nothing was sent.
- `PreCacheProofs`: `Typing`, `MutualExclusion` (`OneTaskAtATime`) and
  `AllocationFirst` (`NoUploadBeforeAllocation`), where the invariant adds that a
  task that works on the stack has seen the allocation. `UploadBound` proves
  `UploadedAsOftenAsAsked`. A count of uploads alone is not inductive: a directory
  on the stack will still become uploads. `PaidInv` counts, for each file, its
  uploads, the directories on the stack that are on the way to it (`WayTo`), and
  one if a task still has to see such a directory or the file itself: together
  they are at most the calls for a directory on that way. Reading a directory moves the payment on to one
  entry, because a file has one way from the root; only one task can hold it in
  hand, because of `MutualExclusion`.
- `PendingResourcesProofs`: `Typing`, `Sleepers` (`SleepersNotLeftAlone`) and
  `LoneReader` (`LoneReaderNotified`). The list of waiters holds each waiting
  reader once (`Waiters`), which the lemmas keep through every append and removal.
  The other two follow from `AttendedInv` and `PermitInv`: an item in the queue has
  a permit or a reader that attends to it, and a permit means that nobody waits.
  Waking hands the item to a reader that will look, waiting is only begun by a
  reader that found no permit, and a dropped call hands its wakeup on.
- `TunnelProofs`: `Typing`, `StreamOrigin` (`StreamsOfTheirPlayer`) and
  `Refinement` (`RefinesTunnelService`). `OriginInv` follows the sender of a stream
  through every place it passes: what a player offers, what its task carries, what
  a header says, and what stands in a queue are of one player. The refinement
  needs that a player's streams keep their order over five places, the queue, the
  loop's hands, the wire, the task's hands and what the player offers: `OrderInv`
  says that each is in order and wholly before the next, which also makes each
  stream stand in one place only, and `SentInv` that streams are opened in the
  order of their names. Then what the application accepts is the least of what is
  underway, and a step inside the tunnel changes nothing of that set; a stream
  goes missing only with a connection.
- `FunctionProofs`: the properties of `Functions`, each first for any argument
  (`PortChoice`, `PortsOfServers`, `WholeAssets`, `Headers`, `Datagrams`,
  `KeysOfPaths`, `KeysOfFiles`) and then of the specification that asks
  (`PortsFound`, `PortsShared`, `AssetsStored`, `HeadersFound`, `KeysKept`,
  `FilesFound`), whose questions are in the domain of these (`AskedInv`).
  A number of `CountBytes` bytes is read as it was put (`GetPut`), by induction on
  the bytes. Ports: the ports taken after `i` allocations are `i` of those tried
  as long as there are as many. Paths: along the components of a path, all places
  it leads to are places its key so far leads to, and the key so far has nothing
  to drop; along a file's own names, the only place is the prefix of the file,
  which is a directory and no link. `Messages` (`MessagesIntact`) is about the
  stream: `StreamInv` says that what the buffer and the wire hold is the
  concatenation of the counted messages that were sent and not returned, stated by
  a function from the number of messages to the bytes behind them, so that sending
  adds at one end and returning takes one away at the other, wherever the bytes
  are and whether or not a call of `next` is under way.
- `Induction`: the library's induction theorems take an operator as a parameter,
  which the provers cannot instantiate. `MinimalNatural` and `MinimalSubset` (from
  the library's `WFMin`) state induction as a fact about sets instead:
  a set of counterexamples that is not empty has a least member. From it come
  `AllNaturals`, `PassedOn`, the existence of recursive functions
  (`RecursiveFunction`) and what `FoldFunction` adds up (`SumOver`). The recursion
  that a theorem is about is therefore written as a recursive function.

The assumptions are those of the modules: sizes are naturals, the placeholders
for "none" are no members of the sets they complete, directories are no files,
bounds and widths are naturals and those that divide are not zero. The two about
files say what a file system is: `DirectoryTree` that the directories that
`read_dir` walks are a finite tree, `AssetPathsAssumption` that a file, a
directory and a link have a name in a directory and are three different things,
and that the assets path is a directory, as `canonicalize` left it
(client.rs:275). TLC evaluates all of them for its instances.

Only model-checked are the liveness properties, which need fairness and `ENABLED`
(`EveryRequestEnds`, `StoppedProxyReleased`, `ServedProxyDropped`,
`PlayersGaugeSettles`, `DisconnectedPlayerForgotten`, `ConnectingPlayerSettled`,
`ServerGonePlayersClosed`, `TaskEnds`, `LoneReaderServed`,
`HeaderNeverAwaitedForGood`, `StreamReachesApplication`), and the counterexamples
of the violation runs.

## Not modelled

- Set-up: configuration, certificates and TLS, building endpoints,
  `Builder` and `Client::connect` of the client library, `main`. These run once
  and in order, before anything else does.
- Datagrams from players to the Ambient server (server.rs:958-966): they change no
  state of the proxy, and in the client they are pushes to a queue, as streams are.
- What stream copies carry (`tokio::io::copy`), and the ends of single streams.
- The Prometheus families other than the gauge of players, and the tracing
  subscriber. The gauge of Ambient connections is set to the number of listed
  proxies whenever one comes or goes (server.rs:203-204, 214-215).
- The conversion of player ids to text. Player ids (128 random bits) and
  allocation ids (UUID v4) do not collide in the models.
- In the proxy, a header that the Ambient server writes in parts: `read_framed` at
  server.rs:646 and 748 is one step there. `Tunnel` has the same question on the
  client's side, where the writer is the proxy.
- Panics. A panic in the task of `ProxyServer::start` would end it without
  `Stopped`. `PortSelection` and `Framing` say for which inputs theirs come.
- The memory of `PendingResources`, which keeps the queue of each player for good.

Observations made while modelling that are no runs, as they repeat one above or
contradict no text of the repository:

- the pre-caching task tests `endpoint_allocated` and creates its `Notified`
  future (client.rs:541, 559) as the other two waits do, and can miss the
  allocation in the same way;
- `total_assets_size` counts a key that is stored twice twice (server.rs:719, and
  see `SizeNeverUnderReported`);
- of several readers of one player's streams one may sleep beside an item, as two
  pushes while nobody waits leave one permit (client.rs:114);
  `SleepersNotLeftAlone` says who then still comes to the item;
- an endpoint whose `local_addr` fails (server.rs:564) is kept and accepts players,
  and the Ambient server is never told of it;
- servers of one project at one address try the same `BIND_ATTEMPTS` ports, so no
  more of them than that can have an endpoint, however wide the range
  (server.rs:362, and see `PortsOfOneProject`);
- a range of all ports, or an empty one, makes the arithmetic at server.rs:361
  wrap or panic; `PortsInRange` is about the others;
- an upload that breaks off because the call was dropped ends its stream as a
  finished one does: a short asset, which goes uncompressed, is stored cut
  (client.rs:69, server.rs:690, and see `AssetsWhole`);
- the header of an upload holds the asset's key, and `read_framed` refuses headers
  beyond 1024 bytes: an asset with a longer path is refused without an answer.

## Plan

What is left, in this order:

1. Datagrams from players to the Ambient server in `Tunnel`, which may be lost or
   overtake each other, and headers in parts on the way to players.
2. The composition of `ManagementServer` with the assets of its proxies: what
   `/stats` and `assets_size` may show between two ticks.
3. `AssetStore` with a download timeout of zero.
