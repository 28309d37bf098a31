# Draw: a verification project

TLA+ specifications of Draw, a shared diagram canvas served by interchangeable
Go gateway nodes, with TLC configurations that check them on small instances
and TLAPS proofs. Source paths below are relative to the repository root.

## 1. The system

| Component | State | Operations | Talks to |
|---|---|---|---|
| Board registry, `internal/hub/hub.go` | `Hub.boards`: board -> set of clients, under `Hub.mu` | `add`, `remove`, `CountBoard` | the broadcaster's `BindBoard` / `UnbindBoard`, after unlocking |
| Connection, `internal/hub/client.go` | `Client.send` (a channel of 256), the socket | `ServeWS`, `readPump`, `writePump` | the registry, the recorder (replay), the fan-out |
| Fan-out, `hub.go`, `broadcaster.go` | none | `Publish`, `DeliverLocal` (drops for a full channel) | every client's `send`; then the recorder |
| Cross-node relay, `internal/hub/redis.go` | `refs`: board -> count under its own mutex; the PubSub's subscriptions | `Publish`, `BindBoard`, `UnbindBoard`, `receiveLoop` | Redis pub/sub, `DeliverLocal` of its hub |
| Memory op log, `internal/store/store.go` | `ops`, under a mutex | `Record`, `Catchup` | called by `readPump` and `ServeWS` |
| Shared op log, `internal/store/postgres.go` | a channel of 4096 events, the writer's batch, the table `board_ops` | `Record`, the `writer` goroutine, `Catchup` | Postgres |
| Board registry, `internal/store/boards.go` | `boards` (map or table) | create, delete, get, list | the op log's storage |
| GraphQL resolvers, `internal/gql/*.resolvers.go`, `federation.go` | the goroutines and WaitGroups of each request | queries, mutations, `_entities` | the registry |
| GraphQL runtime, `internal/gql/generated.go` | none | makes an answer of what the resolvers returned; introspection | the resolvers |
| Lobby, `web/src/components/Lobby.tsx`, `lib/gql.ts` | the list it shows, `busy` | load, create, delete (optimistic, with rollback) | GraphQL |
| Process start, `cmd/gateway/main.go` | none | chooses Redis or local fan-out, Postgres or memory | all of the above |
| Session, `web/src/lib/useDraw.ts` | the socket, `clientId`, `peers` | connect, reconnect, `onmessage`, expiry, senders | the gateway, the canvas |
| Canvas, `web/src/components/BoardCanvas.tsx` | the scene, selection, the gesture in progress, the text being edited | pointer, keyboard and text events; `applyAdd`, `applyErase`, `clear` | the session |
| PDF export, `web/src/lib/pdf.ts` | none | lay out one page around a JPEG | |

An edit goes from a canvas through its session to the `readPump` of one node,
which fans it out to the local clients, publishes it to the other nodes, and
then records it. A browser that connects is registered first, then told its id,
then sent the log, all through the channel that also takes live frames.

**Where it is hard.** Two locks guard one fact (which boards a node serves),
with the calls between them unlocked. The handler fills a bounded channel which
another goroutine may stop draining. Fan-out and record are two steps, and so
are registration and replay. A clear is two SQL statements behind a batching,
shedding queue, one per node on one table; a process can die between any two of
them. The browser holds references to objects across events while remote ops
replace them. A deletion is two statements that know nothing of the writer, the
page that asked for it does not wait for the answer, and a null deep in an answer
takes what is around it along. `PROJECT.json` lists these hazards with the lines where they bite.

**What makes each part correct.**

- Registry and bindings: counts and registry balance; no subscription without
  clients survives; a served board is subscribed (it is not always, 5.1).
- Connection: the replay arrives complete and in order; live frames may be lost
  but never repeated or reordered; ends of pumps and sockets come together; the
  handler returns (it does not always, 5.2).
- Op log: an op is never stored twice, a node's ops keep their order, what a
  clear wiped stays away, what was accepted is written in the end; replay is in
  order (across nodes it is not, 5.6).
- Relay: nobody hears a frame twice, from itself or out of its author's order;
  only Redis and a listener's own full channel lose frames; every frame is recorded
  once, by the node that read it.
- Registry: a deletion takes the drawing with it and looks like one step; an id is
  given once. GraphQL: every answer keeps the schema, whatever fails; entities come
  back in their slots; a request is answered.
- Lobby: its list tells the truth about its own deletions, unless two overlap (5.7).
- Board: everybody on it sees the same thing (not everybody does, 5.3).
- Canvas: what is on the board is what the peers were told, whatever gesture,
  edit or arrival came in between (a second finger and a drag in place break it, 5.4, 5.5).
- Session: one socket at a time, a lost one is replaced, and after that the
  browser shows what the log says, but for what it drew offline and what a drop or a
  race kept from it.

## 2. Modules

| Module | Models | Kind |
|---|---|---|
| `HubBinding` | `Hub.add/remove`, `BindBoard/UnbindBoard`, PubSub subscriptions | component |
| `Relay` | `RedisBroadcaster.Publish`, `receiveLoop`, Redis that fails, gateways that crash and boot; over `HubBinding` | composition |
| `HubProofs` | theorems about `HubBinding` and `Relay` | proofs |
| `Connection` | `ServeWS`, both pumps, `send`, `DeliverLocal` into it, the socket | component |
| `ConnectionProofs` | theorems about it | proofs |
| `Recorder` | what a recorder promises | abstract |
| `PostgresRecorder` | `Record`, the writer goroutine, `board_ops`, `Catchup`; refines `Recorder` | component |
| `PostgresRecorderProofs` | theorems about it | proofs |
| `BoardOps` | durable ops, what they do to a scene and what the log keeps | operators |
| `BoardOpsProofs` | lemmas about queues of ops, for the two modules of proofs that follow | proofs |
| `BoardSync` | browsers, `readPump`, fan-out, the memory log, joins | composition |
| `BoardSyncProofs` | theorems about it | proofs |
| `Canvas` | `BoardCanvas.tsx`: scene, gestures, selection, text editor | component |
| `CanvasProofs` | theorems about it | proofs |
| `Session` | `useDraw.ts`: sockets, timer, ids, peers, the scene kept across them | component |
| `SessionProofs` | theorems about it | proofs |
| `Directory` | what the control plane promises | abstract |
| `Registry` | `boards.go` in memory and in Postgres beside the recorder's writer; refines `Directory` | component |
| `Schema` | `schema.graphqls` and the federation sources; what resolvers return | operators |
| `GraphQL` | requests, resolvers, entity goroutines, what they return; over `Registry` | composition |
| `Lobby` | `Lobby.tsx` and `gql.ts`, beside another client; over `GraphQL` | composition |
| `LobbyProofs` | theorems about `Registry`, `GraphQL` and `Lobby` | proofs |
| `Executor` | `generated.go`: fields, required fields, lists, nulls | operators |
| `Contract` | answers on the wire: `Executor` over what the requests of `Lobby` returned, against `Schema` | composition |
| `MC*` | instances for TLC | |

In every component module one action is one critical section, one channel
operation, one SQL statement or one socket call of one goroutine; between two
of them any other goroutine may run. The operators whose comment begins with
"Slip" are variants of the definition that follows them, as a plausible mistake
would leave it; no specification uses them. They are there to show that the
properties can tell.

### HubBinding
`boards`, `refs`, `subscribed` are `Hub.boards`, `RedisBroadcaster.refs` and the
channels of the PubSub, for every node and board. `at` and `pc` say where the
goroutine of each connection is. `Add` and `Remove` are the two critical
sections of `hub.go`; they decide ("first", "last") and the goroutine carries
the decision to `BindBoard` or `UnbindBoard`, the critical sections of
`redis.go`, which decide again and leave `Subscribe` or `Unsubscribe` to be
called without a lock. A slot of `Clients` is reused after its connection ended,
so behaviours are endless. Redis' own failures to (un)subscribe, which are
logged and ignored, are left out.

### Relay
The actions of `HubBinding` are the joins and leaves here, so that a frame meets
every order of add, `BindBoard`, Subscribe, remove, `UnbindBoard` and Unsubscribe.
`pub[c]` is how far the `readPump` of `c` is in `Hub.Publish`: the clients of its
node have the frame (`PublishLocal`), then Redis has it (`PublishRelay`), then the
log (`Record`). `wire[n]` is what waits for the `receiveLoop` of `n`, with the tag
`encode` puts in front. Redis may refuse a publish, and the newest part of what
waits may be lost with the connection or with go-redis' channel (`Lose`); a
gateway may die at any moment (`Crash`) and start again (`Boot`). `DeliverLocal` skips
whichever clients have a full send channel; which ones is a choice, since `Connection`
has the channel in detail. `author`, `missed` (relayed or lost while a node could not
hear it) and `dropped` (skipped, for one client) are history; `author` forgets a
connection that ended, so that its slot can be another's.

### Connection
`handler` is the next statement of `ServeWS`, `writePump` and `readPump` the
state of those goroutines. The handler's sends block on the channel, those of
`DeliverLocal` drop. A write can fail at any moment (the deadline), and so can a
read; after the socket is down they must. `Catchup` returns any number of ops up
to a bound above the capacity of the channel.

### PostgresRecorder
`queue` is the channel, `batch` the writer's slices, `held` the clear it is
carrying out and `writer` the statement it executes next. `rows` is the table,
with the `bigserial` drawn when a batch is inserted. `Faults` chooses which of
INSERT, DELETE and the process may fail. `recorded` numbers the `Record` calls
and `wiped` remembers which clears were executed; both only serve the
properties.

### BoardSync
`scene` is each browser's board as a version per object; `uplink` and `inbox`
are the two directions of its socket; `pump` and `todo` are a `readPump` inside
`Publish`, half way through the members it serves. The drop for full channels is
left to `Connection`: here channels are as long as they need to be, so every
disagreement found comes from the order of steps alone. `editedBy` and `racy`
are history: who edited an object, and whether its last edit was being published
while the client joined.

### Canvas
`board` holds four versions of every object: the one in the scene, the one the
gesture holds a reference to, the one a peer has that applied every op sent so
far, and the latest anywhere. Two equal versions are the same JavaScript object,
so a change of the object in hand shows in the scene exactly if the scene still
has that object (`ChangeHand`); `applyAdd` puts another one in its place
(`Replace`). `action`, `target`, `moved`, `erased`, `selected` and `editing` are
the refs and state of the component. Where the pointer is and what it hits is a
choice (`\E`). A pointermove without displacement is an action of its own (`PointerMoveInPlace`): it
is no move to `applyMove`, yet it takes a connector off its shapes. `Overlaps` says
what may come in the middle of a gesture: keys and toolbar, a second pointer, ops of
other browsers. `torn` and `unbound` are history: objects that were replaced, erased or
let go of while a gesture held them, and connectors that were changed in place.

### Session
`ready` is the `readyState` of each socket in the order they were opened, `last`
the one in `wsRef`, `ended` the sockets whose effect closure has `closed = true`.
The cleanup and a further mount happen because of `StrictMode` (`main.tsx`) and
hot reload, which keep the refs and the scene. `up` and `down` are the frames under way.

The gateway has the steps of `client.go` and `hub.go` that a session can tell apart.
`ServeWS` upgrades (`Open`), adds the client (`Add`), and sends hello; then it reads the
log (`Catchup`) and sends it op by op (`SendNext`, from `sending`), while live frames go
into the same channel. A `readPump` takes a frame and fans it out (`Publish`), and
records it in another step (`Record`, from `pump`). It may go on reading a socket the
browser has left, with the next one already registered, and drop it later with what it
has not read (`Drop`). A fan-out may skip any client, since its channel may be full. Other
browsers are one `Peer` (`PeerEdit`, `PeerCursor`). The log is that of the memory
recorder; with Postgres an op is in the log only when its batch was flushed
(`PostgresRecorder`), which makes the window between fan-out and log longer.

`away` is history, the objects for which the log and the browser go apart by the code's
own choice: `unsent`, edited while nothing could be sent; `missed`, of an op that was
dropped for the browser or of a clear it could not hear; `raced`, edited again before an
earlier op about them had arrived everywhere, or of an op that was fanned out and not
yet recorded when the browser's replay was read, or fanned out into the replay.

### Registry
`listed` is the table or map of boards, in the order in which `ListBoards` would
return them; `rows` and `queue` are the op log and what the recorder's writer has
not inserted yet (`PostgresRecorder` has it in detail; clears do not matter here).
A statement has an outcome (`ok`) and, if that is an error, may have been executed
all the same. `gone` and `late` are history: boards some deletion reported gone,
and rows the writer inserted after that.

### Schema, Executor and Contract
`Schema` holds the types of `schema.graphqls`, of the federation sources embedded
in `generated.go`, and of introspection, and the values a resolver may return.
`Executor` is `generated.go`, transcribed separately: for each field the marshaller it calls
(`BoardFields` to `TypeRestFields`), for each object the fields whose null it
counts in `out.Invalids` (`BoardRequired` to `TypeRequired`), and what the
marshallers of objects, lists, `N...` and `O...` types make of a null or an
error. It is about 3 000 lines of one pattern, and the tables are what differs.
`Contract` puts them together: `Response` runs the executor over what the resolvers
of a request returned, `Conforms` says when an answer keeps the schema. That the two
agree, at every depth of an introspection query too, is `ResponseConforms`. What the
introspected values are does not come from this repository but from gqlgen's
introspection package over the schema gqlparser has read: `IntrospectionGet` and
`TypeGet` take them from `Schema` and are marked external, and no property says that
they describe it. `AnswerTells` says that nothing else is lost between a resolver and
the client, so that `Lobby` may look at what was returned. A failure that `GetBoard`
takes for an absent board (`boards.go:180`) is no failure to its resolver, and neither
to `Failed`: the client gets a null and no error.

### GraphQL
`doc[r]` is what request `r` asks, `done[r]` what its resolvers have returned so
far; `Todo` lets the fields of a query and the representations of `_entities` go
in any order and those of a mutation in theirs. `half` are the requests between the
two statements of `DeleteBoard`. `Answers` is the moment all WaitGroups are at
zero. `Result` is what the resolver of a root field returned then, an `_entities` list
with each entity in its slot; `Failed` says whether any error was reported. `steady` is
history: the boards that were registered ever since a request for entities began.

### Lobby
`pending[r]` is the promise the page waits for, with the list `del` remembered.
`Leave` is a navigation, which drops the promises and not the requests. `Lost` is a
`fetch` that rejects although the server goes on. Another client (another browser,
the playground, a router) asks for entities, introspection, several mutations in a
row and single lookups. `told` and `crossed` are history: deletions the page was
told succeeded, and deletions that overlapped.

## 3. Runs

| Run | Question | Bounds |
|---|---|---|
| `HubBinding` | balance, no leak, idle boards are dropped, deadlock | 4 connections, 2 nodes, 1 board: two goroutines of a node in their unlocked windows, others arriving |
| `HubBindingServed` | a served board is subscribed: **violated** | |
| `Relay` | no duplicate, echo or overtaking; losses only in Redis or at a full channel; stored once | 3 connections, 2 nodes, 1 board, 2 frames, all faults: author, a listener beside it and one on the other node; slots are reused, and frames of an earlier connection meet a later one |
| `Connection` | replay complete, live in order, the replay ends, pumps end together | buffer 2, replay up to 4, 3 live frames: the replay overfills the channel, and drops happen |
| `ConnectionReturns` | the handler returns: **violated** | the same |
| `PostgresRecorder` | FIFO per node, clears hold | 2 nodes, 2 boards, queue 2, batch 2, 5 records, all faults |
| `PostgresRecorderPromise` | refines `Recorder`, everything accepted is dealt with | 1 node, 2 boards, queue 3, 5 records, no faults |
| `BoardSync` | agreement object by object | 2 editors, 1 joiner, 2 objects, 3 edits |
| `BoardSyncJoin` | a joiner sees the same board: **violated** | 1 editor, 1 joiner, 1 object |
| `Canvas` | the peers have what the scene has | 1 object of each kind, 3 versions of each: one before, during and after a gesture |
| `Session` | one socket, the replay restores the board, it tries again | 2 sockets, 2 edits, 1 cursor message, 1 object: the first socket is refused, lost or cleaned up at any point, both sockets' `ServeWS` and `readPump` are at any of their steps, with two edits or an edit and a clear before, between or after |
| `Lobby` | deletions, answers, entities, the optimistic list, in `MCLobby` over `Contract` | 2 boards, 1 object, 2 requests at a time and in all, so that each may meet any other at every point between its steps; both backends; failing statements and lost answers. Queries of the other client, which change nothing, run one at a time |

The capacities 256, 4096 and 500 of the code are 2 or 3 here: what matters is that
a queue is empty, partly filled, full, and that the next element does not fit.
Runs whose bounded inputs run out (`MaxRecords`, `MaxEdits`, `MaxReplay`,
`MaxLive`, `MaxSockets`, `MaxFrames`, `MaxRequests`) do not check deadlock: stopping is
their normal end.

**Fairness.** Only goroutines that can always run are fair: the Go scheduler runs
every runnable goroutine, tickers fire, SQL statements and PubSub calls return,
and a read or write on a dead socket returns because of the deadlines set before
it (`client.go:91-93`, `117`, `126`). In the browser `setTimeout`
fires. Users, clients that stay or leave, and the
network are not fair. `Lobby` needs no fairness: `NoRequestHangs` says that a request
which is not answered yet can always take a step, and it has finitely many. It speaks of
resolvers that fail and of nothing else: `WaitGroup`s are not modelled, and neither are
panics, which the code recovers from.
`Relay` promises no delivery, because Redis does not.

## 4. Proofs

`HubProofs` proves of `HubBinding`, for any finite set of connections and any nodes
and boards, that `RefsBalanced`, `NoLeakedSubscription` and the type invariant hold in
every reachable state. None is inductive by itself. The invariant `IInv` adds:

- `Placed`, `Hosted`: a connection has a slot exactly while its goroutine runs,
  and is in `boards` of that slot exactly in the phases between `add` and `remove`;
- `OneBinder`: whoever adds itself to an empty board is its only one with a bind
  pending at that moment, so binds never exceed what the count can absorb;
- `SubscriptionBacked`: a positive count or a goroutine on its way backs every
  subscription.

The counting is done with `SizeStep` and `CountStep`, lemmas that say how the
cardinality of "connections of this slot at that phase" changes when one
connection moves.

Of `Relay` it proves `HeardOnceInOrder` and `StoredOnce` for any connections, nodes,
boards, faults and number of frames. The invariant `Relayed` says where a frame
can be at the same time:

- `Places`, `Shape`, `Numbered`, `Present`: who is on a board, that only frames that
  were sent are anywhere, and that authors and listeners are connected;
- `InboxOrder`, `WireOrder`: what was heard and what waits is in its author's order;
- `WireTags`: the tag of a frame is the node its author is on, which makes the skip
  in `receiveLoop` the right one;
- `HeardBeforeWire`: what `receiveLoop` will still deliver to a client comes after
  what that client has heard. Without the tag this is false at once: the clients of
  the author's own node have heard the frame that is on their wire;
- `BeforeRelay`: what is about to be relayed comes after what is on any wire or was
  heard on another node.

There is a lemma for each action; `ForgetStep` covers a client that leaves and a node
that crashes, `WireShrinks` frames that are lost, `Delivered` what a fan-out does to
the inboxes.

`LobbyProofs` proves of the control plane, for any boards, objects, failures and number
of requests at a time and in all: of the registry alone, `DeleteTakesTheDrawing` and that
it implements `Directory`; of `Lobby`, where all clients' requests run over it,
`StatementsInOrder`, that every behaviour is one of the registry (`RequestsAreInOrder`)
and so one of `Directory`, `EntitiesBySlot`, `DeletionsShowTruly` and the types. `Inv`,
the inductive invariant, has three layers:

- `Sound`, of the registry: rows belong to boards that have been registered, so that no
  new board finds any, and what a deleted board still has came late. The refinement maps
  a deletion's first statement, which takes the board out of the registry, to `Delete`,
  and everything that happens to the rows of an unregistered board to a stutter.
- `Requested`, of the requests. `Callable` and `Deletes` say what is asked for, and
  `Creates` that nobody else is to create the same board, nor has. `Halves` is why the
  second statement of a deletion is in order: the board of a request in `half` is not
  registered and will not be again. `Outcomes` ties what a goroutine returned to the
  representation it was started for, while `Steady` follows the boards that stay.
- `Paged`, of the page. `Waits` ties every promise to its request. `Rollback(r)` compares
  the list that deletion `r` would restore with the one shown: they differ by the board
  of `r` and by those in `crossed`, which must have every board whose deletion overlaps
  another. Nothing less is inductive: a rollback replaces the list by one that other
  deletions' lists were compared to.

One step per action keeps each layer; `KeepsReturn` stands for the five resolvers, which
differ in what they return. `StepInOrder` is where the layers meet: under `Requested`
every step is one of the registry or leaves it alone, and from that `RegistryGrows` gives
what the other two layers need of it. TLC checked the invariants first, `Requested` and
`Paged` also with three requests at a time.

`HubProofs` also proves the types of `Relay` (`Running`: nothing waits for a process that does
not run) and `HearsTheRest`. The invariant for the latter, `Following`, follows a frame
behind one that was heard: `RestHere` on the author's own node, where each client has
got it or was skipped, its channel being full (`Got` or `dropped`); `RestElsewhere` on
other nodes, where what was not heard is about to be relayed, on the wire, in `missed`
or dropped for that client; `RestOnWire` behind a frame that is still on the wire, since a client that hears that one must find the later ones behind it.

`ConnectionProofs` proves the types, `ReplayComplete` and `LiveInOrder` for channels of
any capacity and replays of any length. `Paying` says what the handler has sent of what
it owes: while the writer lives, the wire (received, being written, in the channel) and
the rest of the replay have exactly the frames owed, once and in order; once it is dead,
what has arrived are the first of them, and it never grows.

`PostgresRecorderProofs` proves the types, `FifoPerNode` and `ClearedStaysCleared` for
any nodes, boards, limits and faults, and that one node without faults implements
`Recorder`. `Logged` has the order of what waits at a node (`WaitInOrder`, `WaitApart`),
that it comes after what that node has in the table and after the clears that were
executed (`AfterRows`, `AfterWipes`), and that the table has no more rows than events
that have left the queues (`Counted`), which bounds the `bigserial`. The refinement maps
`Record` to the abstract step and everything the writer does to a stutter: `Applied(b)`
is the table followed by what waits, from the last clear on, and `AppliedIsKept` shows
that it is the ascending sequence of `Kept(b)`, a set of events which no step of the
writer changes. The proof needs one node because two nodes' events get their `seq` in
the order of flushes (5.6), and no faults because a failed INSERT loses its batch.

`SessionProofs` proves the types, `OneSocket` and `ReplayRestores`, for any objects and
any number of sockets, edits and cursors. `Flowing` is about the sockets, the timer, the
effect, the ids and (`Greeted`) how far `ServeWS` and the `readPump`s are. `Restoring`
says of every object o outside `away` where the op that decides it is:

- `Alone`: at most one op about o is on its way, up a socket or fanned out and not yet
  recorded;
- `Own`: if it is on the last socket, the scene shows it already, and nothing about o is
  on its way down or in the replay to come;
- `Arriving(o, log)`: if there is none, what is on its way down the open socket and then
  the replay to come, applied to the scene, leave of o what the log applied to nothing
  leaves (`Decides`); and o is in the log, or a clear on its way wipes it;
- `Arriving(o, Recorded(log, op))`: if it is fanned out, the same of the log it will be
  in. This is what the trace of 5.3 breaks, and why `raced` has to take in whatever is
  not recorded when a replay is read.

`ToReplay` is the log until `ServeWS` has read it, even while no socket is open, and then
what is left of the copy: that is why the whole log may be replayed over a scene that was
kept. `Rebuilt`, the board a log builds, is given by the last op about each object and
not by a fold, because induction over the log is out of the prover's reach; TLC compares the two for every log of up to three ops
(`RebuiltIsReplay` in `MCSession`). `Shows` and `Covered` say the same of a queue of
frames, with a lemma for a frame more at the end, one less or one more in front; those
of `Shows` are in `BoardOpsProofs`.

`BoardSyncProofs` proves the types and `UncontestedObjectsAgree`, for any objects,
browsers and number of edits. `UncontestedObjectsAgree` speaks of the moment when all
has arrived; `Kept(o)` says what that comes from while ops are under way. `Through`
chains three queues: applied one after the other to where they begin, they end at what
the author's scene shows of o. For an author alone on o there are three such chains:

- `InLog`: the log from nothing, the op being published, the author's uplink;
- `InBox`: to a browser on the board, its inbox, the op being published if it has still
  to get it, the uplink;
- `InReplay`: to one that joins, its inbox, what is left of the log it fetched, the
  uplink.

Each action moves an op from one queue of a chain to the next (`ThroughEnd`,
`ThroughHead`, `ThroughFirst`, `ThroughSecond`, `ThroughRecord`) or one chain to another:
`Catchup` makes `InReplay` from `InLog`, `StartReader` makes `InBox` from `InReplay`.
`Quietly` and `Fetching` are why that is possible outside `racy`: nothing about o is
published while somebody joins. Without them the invariant fails as `BoardSyncJoin`
does. An op about o that is published after the join takes o out of `racy`, and
`ThroughAnew` starts the chain again from that op: this is "corrected by the next
point" (`DECISIONS.md:21`). `Authored` keeps the ops of others away from o.

`CanvasProofs` proves the types and `ChangesAreRelayed`, for any objects, number of
changes and overlaps. What each operation on the board does to one object is a lemma
(`ChangeShownDoes`, `EraseDoes`, ...). `Whole(o)` is the invariant of an object that is
neither torn nor unbound in place:

- what a gesture holds of o is the object in the scene, so that pointerup, which sends
  what is in hand, sends what the scene shows;
- what no gesture holds, and nobody has begun, is as it was sent;
- so is the object of a drag that has not moved, which pointerup does not send.

`Holding` and `Drafted` say what a drag holds and that nobody has heard of a draft or
holds it. Most steps are `Steady`: they leave the gesture alone, and what was as sent
stays so (`SteadyStep`); the others start, move or end a gesture. `Settled` is why a
gesture may start from a board on which an editor was just committed.

Assumed: `Clients` is finite, `Nowhere` is neither a slot nor a connection, `Peer` is no
socket's id, `NoObject` no object, `NoId` no board's id, `Requests` are numbered from 1,
an object is of one kind, and the bounds are natural
numbers, those of the capacities positive. TLC checks these on every run. Model-checked
only:

- liveness (`DropsIdleBoard`, `EventuallyWritten`, `ReplayEnds`, `PumpsEndTogether`,
  `Reconnects`), which needs fairness, and `NoRequestHangs`, which needs ENABLED;
- the properties of `Contract` (`ResponseConforms`, `AnswerTells`), which go through the
  recursive operators of `Executor`;
- `RebuiltIsReplay`, which would need induction over the log.

## 5. What the checks show of the code

1. **A served board can be deaf** (`HubBindingServed`). The last client of a board
   leaves; its goroutine deletes the count and is about to call `Unsubscribe`. A
   new client binds and subscribes. The late `Unsubscribe` then cancels that
   subscription (`redis.go:98-99`), until the node's clients all leave.
2. **A handler can block for ever** (`ConnectionReturns`). If the writer dies
   during the replay, the channel fills and `ServeWS` never returns; the client
   stays registered (`client.go:75-77`).
3. **A joiner can miss an op** (`BoardSyncJoin`): fanned out before it was added,
   recorded after it read the log (`hub.go:104-107`).

The next ones have no run; the properties step around them.

4. **A drag in place unbinds a connector.** `applyMove` notes a move only
   if the pointer has left its starting point, and takes a connector's `from` and `to`
   away in any case: pressing on a bound connector and releasing it after a pointermove
   without displacement leaves it unbound here and bound at the peers, until it is
   changed again (`BoardCanvas.tsx:615`, `625-626`, `685`). `ChangesAreRelayed` excepts
   it as `unbound`.
5. **A second finger loses a drag.** Pointer events are not told apart:
   another finger that grabs another object takes the place of the first drag in
   `move.current`, and one that pans in `action.current`; what the first finger dragged
   is never sent (`BoardCanvas.tsx:503-507`, `527-530`, `676-704`). `ChangesAreRelayed`
   excepts such objects as `torn`.
6. **Replay order follows flushes.** An erase recorded on one node can precede the
   add it erases, recorded earlier on another (`postgres.go:103-106`, against
   `hub.go:26`): each node's writer draws its `seq` values when it flushes.
   `FifoPerNode` asks for the order of one node's ops only.
7. **Overlapping deletions in the lobby.** Each `del` remembers the list as it was
   and restores it when it fails: a deletion that succeeded meanwhile comes back, and
   the one that failed may disappear, depending on which began first
   (`Lobby.tsx:50`, `56`). `DeletionsShowTruly` excepts them as `crossed`.
8. **Ops outlive their board.** What is in the writer's queue when `deleteBoard`
   answers true is inserted afterwards, and browsers on the board draw on
   (`boards.go:144-150`, against `schema.graphqls:30`). They are `late` in
   `DeleteTakesTheDrawing`, and no board shows them: ids are not given again.
9. **The memory backend knows no activity.** It never sets `lastActiveAt` and lists
   boards by creation (`boards.go:99-109`), where `schema.graphqls:16` and `22` speak
   of drawing and activity. `Info` and `listed` follow the code.

`Session` also has behaviours its properties step around, and none of them forbids: an
edit made while no socket is open is applied to the canvas and dropped by `send`
(`useDraw.ts:121-124`), and the replay does not remove it; a clear missed while away
empties the log, so nothing in the replay removes the old objects; a replay that is read
while an op of the lost socket is fanned out and not yet recorded brings an older
version over the newer one the browser has kept (3, met by a single author); a cursor of
the previous socket can come back under the previous id (`useDraw.ts:74`, `87`), and the
browser shows itself as a peer until it expires. The first three are the exceptions
`unsent`, `missed` and `raced` of `ReplayRestores`.

Concurrent edits of one object by two browsers need not converge; the repository
says so and plans it (`ARCHITECTURE.md:62-63`), and no property here asks for it.

## 6. Not modelled

- Geometry, hit tests and PDF layout (`BoardCanvas.tsx`, `lib/pdf.ts`): pure functions
  of floating-point coordinates and of bytes. What they decide (which object a pointer
  hits) is a choice in `Canvas`.
- The look of the client: toolbar, presence list, status pill, themes.
- In `generated.go`: complexity limits, which no extension switches on; the type
  `Entity`, declared for the resolvers' interface and reached by no query, with its
  marshaller and the one of `federation__Policy` and `federation__Scope`; deferred
  fragments. Parsing and validation of requests are gqlgen's. `models_gen.go` is data.
- `playground.go` (one static page), and of `main.go` the flags, the static files,
  `healthz` and the node's name.
- The text of a board id: slug and random suffix. `Fresh` assumes that `rand.Read`
  does not repeat four bytes for one title.
- `loadtest` and the deployment manifests: drivers around the gateway.
- Redis' failures to subscribe or unsubscribe, which are logged and ignored, and the
  creation of the Postgres schema.

## 7. What is left to do

1. A board across nodes: `Relay` with browsers and `PostgresRecorder`, including a
   clear that is shed.
