# A TLA+ model of CueProxy

CueProxy is the stateless HTTP and WebSocket gateway of the Cue job queue.
This directory models one proxy instance: how jobs get from producers to the
leader of the Cue cluster and the verdicts back, how jobs get from the leader to
consumers and the acks back, how consumers are let in, and how the proxy is
configured, finds, reaches and follows the leader. TLC checks the models on small instances; TLAPS proves every
safety property of the passing runs for every instance. Paths are relative to `src/`.

## The system

| Component | State it keeps | Operations | Module |
|---|---|---|---|
| Producer handlers, `internal/api/api.go` | one response channel per request, `reqIDCounter` | `withLeaderCheck`, `AddTopicHandler`, `AddJobHandler` | `ProducerPath`, which implements `ProducerPromise` |
| Job batching, `internal/cluster/job_buffer.go`, `tasks.go` | per topic: `apiInputCh`, `store`, `bufferedCount`, `waitingMap`, `responseInputCh`; shared: `jobsRequestCounter`, `sendJobsCh` | `handleAddJobsRequest`, `buffer`, `drain`, `dispatchResponse`, `handleSendJobs` | `ProducerPath` |
| Response routing, `internal/cluster/process.go` | `requestMap`, `requestIdToTopic` | `handleResponse` | `ProducerPath` |
| Leader tracking, `internal/cluster/process.go` | `cueTopology`, `currentLeader`, `leaderAvailable` | `handleHeartbeat`, `evaluateLeadership` | `Leadership`, which implements `LeaderRegister` |
| Router and dispatcher, `internal/api/router.go` | per topic: consumers, queue, dispatcher, saturation flag | `AddConsumer`, `RemoveConsumer`, `EnqueueJobs`, `GetNextConsumer`, `dispatchLoop`, `BuildHeartbeatReport` | `Router` |
| Consumer connection, `internal/api/consumer.go`, `api.go` | `LastSentID`, `LastDeliveryAckID`, `writeCh`, the maps `consumers` and `consumersByUUID` | `WebSocketHandler`, `StartWriteLoop`, `OnJobSent`, `UpdateDeliveryAck` | `Session`, `Router`, `DoneBatch` |
| Authentication, `internal/api/auth.go` | `tokens` | `loadTokens`, `watchFile`, `ValidateRole` | `Auth` |
| Done batching, `internal/cluster/tasks.go` | `doneCmdBatchBuffer` | `handleDoneRequest`, `flushAllTopics`, `flushTopic` | `DoneBatch` |
| Discovery and connections, `internal/cluster/discovery.go`, `tasks.go`, `quic.go` | `discovery`, `sendConns`, `recvConns`, `discoveryMu` | `updateDiscovery`, `syncConnectionsTask`, the dials | `Connections` |
| QUIC sends, `internal/cluster/quic.go` | none | `sendToLeader`, `sendRequestByNodeID` | send steps of `ProducerPath`, `DoneBatch` |
| Configuration, `internal/config/config.go`, `cmd/proxy/main.go` | the configuration | `DefaultConfig`, `LoadConfig`, `Validate`, `buildConfig` | `Config` |
| Start and shutdown, `internal/app/run.go`, `internal/cluster/agent.go` | two contexts | `RunProxy`, `Run`, `Close` | start: `Config`, `Connections`; shutdown: `DoneBatch` |
| Heartbeat reports, TLS, metrics, test harness | | | not modelled |

How they interact:

* Handlers and WebSocket connections send to `producerCh`; `requestReceiverTask`
  takes from it and hands jobs to the `JobBuffer` of their topic, topics to the
  leader, and acks to `doneCmdBatchBuffer`.
* Every `JobBuffer` pushes its batches into `sendJobsCh`; `sendJobsHandler` is the
  only goroutine that sends them.
* Messages from the leader arrive on one stream each and are handled by one
  goroutine each, so responses, outbound jobs and heartbeats are handled in any
  order. Responses go to `handleResponse`, jobs to `EnqueueJobs`, heartbeats to
  `handleHeartbeat`.
* `handleHeartbeat` sets `leaderAvailable`, which lets producers in and lets
  `sendToLeader` send.
* `evaluateLeadership` and `syncPeers` refresh the list of peers, from which
  `syncConnectionsTask` keeps the connections.
* `main` builds the configuration from file, defaults and flags, which decides where the
  list of peers comes from.
* A WebSocket is let in by the table of tokens, which a watcher reloads when the auth file
  changes. Its handler puts the consumer into the maps and the router, starts the
  write loop, and takes it out again when the client is gone.
* `RunProxy` ends with a signal: it stops the HTTP server, closes the agent and returns,
  without waiting for the WebSockets or the agent's goroutines.

What is hard about it: two ID spaces share one kind of response; batches mix the
jobs of producers who must not hear each other's verdicts; sends are retried
after ambiguous failures; handlers give up while their requests travel on; a
dispatcher checks and takes slots in separate critical sections while acks come
in; topics vanish and come back under running dispatchers; heartbeats overtake
each other; several channels are bounded and some sends block; the auth file changes while
it is read; a client comes back before its old connection is cleaned up; the process ends
under the last flush. `PROJECT.json`
lists each of these hazards at its line, with the properties that would notice.

## The modules

Each component module has the state as variables, one action per step of the
code between two points where another goroutine can interfere, `Next`,
`Fairness`, `Spec`, and its properties. `MC...` modules add the workloads TLC needs;
`...Proofs` modules hold the theorems. `LeaderRegister` and `ProducerPromise` are abstract
specifications, without any code of their own. A definition with a suffix, such as
`Emptied_Forgotten`, is a wrong variant of the definition it is named after;
no specification uses it. Putting it in place of the original makes TLC report
the property that watches over that line, which shows that the property is not
true by the shape of the model.

**ProducerPath.** A request goes `idle` → `sending` → `waiting` → its answer
(`http`). `Submit` takes the request ID before the send, as Go evaluates it.
`Enqueue`/`EnqueueTimeout` and `Reply`/`Timeout`/`HandlerShutdown` are the branches
of the two selects. `ReceiveJobs` is `handleAddJobsRequest` whole: its channel
operations do not block. `Drain` and `PushBatch` are the two halves of `drain`,
split before the blocking send. `Buffer` with a full `store` is a send that never ends,
since the goroutine that sends is the one that empties it. A batch is a record in the history `batches`; its
index is its request ID, which is what `jobsRequestCounter` does.
`handleResponse` is three actions: `RouteToTopicCaller`, or `LookUpBatch` and later
`ForwardResponse`, since it gives up the lock in between. A send succeeds
(`TopicSendOk`, `SendBatchOk`), fails (`TopicSendErr`, `SendBatchErr`), and in
either case an attempt may have been delivered before (`AttemptDelivered`). The
leader is external: it may answer any message it got, with any verdict, up to
`MaxAnswers` different ones. A response carries, besides what is on the wire, the
`origin` of the request it answers; the code's actions look at the ID alone, except
that "proxy" as an origin stands for the error text of a response that the proxy
made up itself.

**Leadership.** A heartbeat is handled in one step, under `topologyMu`, which has
four outcomes: `Confirm`, `LoseQuorum`, `JustRefresh`, `NodeUnavailable`. The
cluster is external: at most one leader per term, nodes that learn of terms one by
one and tell the truth about the term they are in. `LastSeen` is reduced to whether
the entry is over five seconds old.

**Router.** One topic. Each time it is created it gets a new generation, with its
own channel and its own dispatcher, because the code makes a new channel and the
old dispatcher may still run. `dispatchLoop` is a small state machine (`pc`):
`top`, `pick`, `check`, `take`, `write`. `RemoveConsumer` of the last consumer holds
`r.mu` through `DrainCheck` and `DrainReceive`. `EnqueueJobs` reads the channel under the
lock and uses it after. Consumers acknowledge any delivery they have received, in any
order; a consumer that acknowledges what it never got is not modelled. The scan
of `GetNextConsumer` is one step.

**DoneBatch.** The acks of consumers on their way to the leader, with the read loops, the
receiver and the flusher as separate goroutines, failed sends, and the shutdown: `phase`
is how far `RunProxy` has got (`serving`, `stopping`, `closing`, `closed`, `exited`). A read loop
that waits for a message when the context is cancelled handles one more. Sends fail once the
connections are closed, and nothing moves after the exit.

**Connections.** `updateDiscovery` in its three stages, the rounds of
`syncConnectionsTask`, and one dialling goroutine per peer. `discoveryMu` is a variable
because one path leaves it locked. `updateDiscovery` has two callers, both for HTTP discovery only: `SyncPeers`,
and `TopologyChanges`, which is `evaluateLeadership` when it confirms a leader with other voters. When that
happens is left open here, which allows more than the code does. The initial states
are the configurations and lists of `Config` with which `main` and `RunProxy` start.

**Config.** Pure operators: which configurations `LoadConfig` accepts, what `buildConfig` makes of them with
the flags, and with which of them the proxy starts. A path or a host is reduced to whether
one is given. `Connections` extends it.

**Auth.** The table of tokens and `watchFile`. The file system is external: a save renames another
file into place or truncates the file and writes it again, a file may be unreadable, and a
watch may be there or not, or end with the file it watched. `loadTokens` is two actions,
`Load` and `Install`. `missed` is a history variable: the last change came when nothing watched.

**Session.** Extends `Auth`. `WebSocketHandler` as a state machine (`pc`), from the check of the token
to `Close`, one step per critical section or channel operation; the write loop of each
consumer; and a dispatcher that sends jobs to routed consumers with free slots.
The connection is shared by handler and writer, so that a client that leaves is noticed
by either first.

**LeaderRegister.** What the rest of the proxy relies on: a register that holds the
winner of an election and moves to later ones only. `Leadership` implements it
with `chosen <- elected`, the noted leader and term for the register, and `leaderAvailable` for the
flag; with fairness it also implements `LiveSpec`.

**ProducerPromise.** What a producer is promised: a request is answered once; success
and refusal are the leader's words about that request; a request turned away
is never judged, so it can be submitted again. `ProducerPath` implements it, with the
answers a leader has given as `accepted` and `refused`, and the HTTP outcome as `status`.

**QueueLemmas.** What the proofs need of channels: `Contents`, `Positions` and `Distinct` of a
sequence, and lemmas on what appending to a queue, taking from it and handing over between two
queues does to them. No code of its own; `DoneBatchProofs`, `ProducerPathProofs` and `RouterProofs`
extend it.

## What is checked

Runs that pass:

| Run | Instance | What it shows |
|---|---|---|
| `producer_jobs` | 2 job requests, 1 topic, 1-slot channels, 2 answers per batch | every producer reads the verdict on its own jobs (`SuccessIsTrue`, `RefusalIsTrue`); no request is in two places or two batches (`InOnePlace`); "busy" and 503 mean dropped (`BusyMeansDropped`); `drain` does not wait (`DrainNeverBlocks`); callers that wait have a way back (`WaitingBatchIsRoutable`); `ProducerPromise` is kept (`KeepsPromise`) |
| `producer_mixed` | 1 job and 1 topic request, shutdown, counters apart | answers are matched with the right request: `ProducerPromise` is kept, through a shutdown too |
| `producer_live` | 2 topics on one `sendJobsCh` of 1 slot | queued requests get batched, and batches that were answered or could not be sent are dispatched to their callers |
| `leadership_safety` | 3 nodes, 3 terms, 2 heartbeats under way, 1 disruption | only elected leaders are followed (`LeaderIsElected`), a new term is noted only when a majority of the known voters' number has reached it (`ConfirmedByQuorum`), and `LeaderRegister` is implemented: the noted leader never goes back |
| `leadership_live` | 2 nodes, 2 terms, 2 disruptions | the proxy catches up with the newest term and stays there, which is `LeaderRegister` with its liveness |
| `router` | 2 consumers of which one may leave, 2 generations, 3 jobs in 2 messages, one of them not marshallable, queue of 2, `writeCh` of 1 | in-flight bound, order of deliveries, no job twice, no slots lost, queued jobs are served |
| `done` | 3 acks, 2 topics, 2 consumers, 2 failures, shutdown | no duplicates; before the exit acks are lost in one place only; the last flush sends all it found; without a shutdown all others arrive |
| `connections` | 2 nodes, 7 configurations and 6 command lines, 2 changes of the list, 2 faults | connections follow the list; a static list stays; the lock leaks only with HTTP discovery and at start; all peers end up connected; the settings in use are valid |
| `sessions` | a client that connects twice with one UUID, 1 job, `writeCh` of 1, 1 save of the auth file | tables out of date are about to be reloaded (`StaleMeansReloadDue`, `TableCatchesUp`), nobody is let in otherwise (`AdmittedByFile`); clients that are gone leave the router (`GoneConsumerIsRemoved`) and the map (`UuidEntryIsLive`); those that stay read "accepted" (`AcceptedArrives`) |

Runs where the code does something else than its comments, tests or docs say (the
quoted lines are in `PROJECT.json`, `findings`):

| Run | Property violated | In short |
|---|---|---|
| `producer_clash` | `RequestMapTakesOtherCommandsOnly` | the two ID counters start at the same number; a batch's answer is taken for a topic's |
| `leadership_availability` | `UnavailableIsTemporary` | `leaderAvailable` never comes back under the same leader and term |
| `router_removal` | `RemovalReturns` | drain and dispatcher compete for the last job; `r.mu` stays locked |

The models show more behaviours a reader of the code may not expect. They have no run of
their own; the properties above are stated so that they except exactly these cases.

* *A batch is routed by the topic of its first job* (`tasks.go:264`). The jobs of
  `producer_jobs` name the topic of their payload. With
  `JobTopicOf <- MCOtherTopicOf`, `WaitingBatchIsRoutable` fails.
* *An empty 200 at shutdown* (`api.go:327`). `AddJobHandler` returns without an answer
  when the context is cancelled, which is a 200. The model has it as the outcome
  `empty200`, which `SuccessIsTrue` does not count as a success.
* *A quorum of one* (`process.go:135`). The list of voters is empty at start, so the first
  leader is taken on one node's word. It is the elected one all the same.
* *Two dispatchers* (`router.go:247`). A topic that is created again before its old
  dispatcher has looked at its context has two of them, and the old one picks its
  consumer by topic name: both may take the same last slot, swap two deliveries, or
  drop more of them than there are slots. The history variable `overlapped` marks these
  behaviours; `InflightBound`, `SeqInOrder` and `NoSlotLeak` except them.
* *Jobs that cannot be marshalled keep their slots* (`router.go:289`). `NoSlotLeak`
  speaks of consumers before the first such job is taken. With one consumer and
  `BadJobs = {j1, j2}` both its slots are gone for good.
* *Acks of a failed send are dropped if others came in* (`tasks.go:381`):
  `LostOnlyWhenOvertaken` says that this is the only way to lose one.
* *Acks are lost at the exit* (`tasks.go:322`, `run.go:111`): those that come after the last copy, and all
  that the last flush has not sent when the process ends, since nothing waits for it.
* *A lock that is never given back* (`tasks.go:78`): the `continue` of a round without peers keeps
  `discoveryMu`. With HTTP discovery, which starts without peers ("syncPeers will populate",
  `main.go:107`), the first round may come before the first list, and then no list is ever installed.
  `LeakOnlyBeforeFirstFetch` says that it happens in no other case, and `PeersGetConnected`
  excepts it.
* *Flags after validation* (`main.go:149`). The default of `-discovery-kind`, "static", overrules the
  file. `-discovery-kind http` without a host, or `-api-key` alone, start a proxy that `Validate` would refuse.
* *A change of the auth file before the watch* (`auth.go:104`) is not noticed; a file read between
  truncating and writing installs an empty table until the next event.
* *"accepted" may block for ever* (`api.go:405`), if `max_inflights` is above the 256 slots of
  `writeCh` and the write loop has ended: then the consumer is never removed.
  With `MaxInflights = 2` and `MaxJobs = 2` in `Session.cfg`, `GoneConsumerIsRemoved` fails.
* *Write loops outlive their connections* (`consumer.go:96`): `Close` ends neither `writeCh` nor the
  context the loop waits for.

### Bounds

The bounds are chosen so that each limit is reached. With one-slot channels,
two requests fill `producerCh`, `apiInputCh` and `sendJobsCh` in turn; with two slots in
`store` they share a batch or get one each. Two answers to a batch are what it takes for a late or contradicting
one. `ApiIdBase` is the number of IDs the API has given out before: 10 keeps the
counters apart, 0 lets them meet. Three nodes are the least with a majority that is
not everyone; liveness uses two, for the size of the graph. A `writeCh` smaller than
`MaxInflights` makes `DropJob` happen, a queue smaller than the number of jobs
makes `RejectOne` happen. Two generations of the topic are what it takes for a dispatcher
or a queue to outlive its topic; the consumer that stays is the one that liveness
is about. Nodes are symmetric in `leadership_safety`, which checks no liveness.
`RespCap` is larger than the number of answers, so a full
`responseInputCh` is not explored: the loss of an answer there would be a
violation of `WaitingBatchIsRoutable` that the code accepts ("channel full, drop or
log"). Likewise the runs give `store` room for all requests, since
a full one stops the JobBuffer for good and `QueuedIsBatched` with it.
The configurations of `connections` are the defaults and variations of one field each, those that
`Validate` refuses among them. In `sessions` the second connection comes when the first client
is gone, which is before its handler has noticed; `WriteCap` equals `MaxInflights`, the tightest
case in which the code is right; and one save, of either kind, is enough for every step of the
watcher, a truncated file giving two events. (With `MaxSaves = 2`, so that a readable version may follow an
unreadable one, the run passes too, in over four minutes.) The two requests of `producer_jobs`
are symmetric, which is sound as it checks no liveness: `KeepsPromise` has no fairness.

Deadlock checking is off where the system really comes to rest: all requests
answered, all jobs delivered, or, in `Connections`, the leaked lock.

### Fairness

Weak fairness of a goroutine says that the Go scheduler runs it when it can run,
that its tickers tick and its sends and dials end within their deadlines. In
`ProducerPath` it is stated only while the context is not cancelled, and for the
goroutine as a whole, so nothing is assumed of which ready case a select takes; nothing
is assumed of producers or of the leader. `Router` adds that consumers acknowledge
what they receive, and `Leadership` that live nodes learn of the newest term and go
on sending; sending is strongly fair since the bound on heartbeats under way may
disable it again and again. In `Connections`, `SyncPeers` is fair, being driven by a ticker, and
`TopologyChanges` is not. In `Session` the watcher, the handlers and the write loops run, and
somebody who truncates the auth file also writes it; no client has to come, speak or leave.
In `DoneBatch` no step of the shutdown is fair. Faults are bounded and never fair.

## What is proved

All theorems hold for every value of the constants under the `ASSUME`s of the
component modules (capacities and limits are positive, model values that mean
"none" are not members of the sets; a cluster is finite; the topology and workload functions have their
types). All proofs are checked to the last leaf.

* **LeadershipProofs**: `LeadershipTypes`, `FollowsElectedLeader`,
  `NeverGoesBack`, `FollowsQuorum`. That the noted leader is the elected one is
  not inductive: a heartbeat under way could carry anything. The invariant adds that the
  elections so far are recorded (`ElectionsSoFar`) and that heartbeats under way tell the
  truth about their term (`WireIsTruthful`). `NeverGoesBack` follows: within a term there
  is one leader, so the branch for another leader of the same term is never taken.
  Quorums play no part in it, which is why the small quorum at the start does no harm here.
  `FollowsQuorum` is about them. It adds that senders have reached the terms they speak of, on the
  wire and in `NodeHeartbeats` (`HeardFrom`), so that the entries that agree map one to one to nodes
  in the new term. It counts against the voters the proxy knows, none at the start, and like the code it
  counts nodes whether they vote or not.
  `ImplementsLeaderRegister` is the refinement: initial states map to initial states, and under
  the same invariant every step maps to a step of the register or to a stutter.
* **ProducerPathProofs**: `ProducerTypes`, `DrainsWithoutBlocking`. The types need
  `bufferedCount = Len(store)`, since `drain` indexes the store by the count, and that
  answers come from messages the leader has got (`KnownAtLeader`).
  `RequestInOnePlace`, `BusyIsDropped`: a count of places is not what a step keeps. The
  invariant `PlaceInv` says that no queue has duplicates and nothing is in two of them
  (`QueuesApart`), that a batch has nothing in common with queues and other batches
  (`BatchesApart`), and that a request turned away, or whose `respCh` already holds "busy", is
  nowhere (`TurnedAwayIsNowhere`); `PlacesCount` derives the counts.
  `WaitingStaysRoutable`: callers wait in the buffer of the topic that the first job of their batch
  names (`WaitingIsOwn`), and so does every entry of `requestIdToTopic` and every
  `handleResponse` that has read one and given up the lock (`EntriesAreOwn`). It assumes
  what the code takes for granted: `JobsNameTheirTopic`, without which
  the property fails (see above), and `RoomForResponses`, that no
  `responseInputCh` fills up, since the code drops the response then. It does not need `NoIdClash`: a clash
  misleads a topic's producer, not the batch.
* **ProducerTruthProofs**: `SuccessIsTheLeaders`, `RefusalIsTheLeaders`. The
  invariant `TruthInv` follows a verdict all the way: messages at the leader come from
  batches and topic requests (`MessagesHaveOrigin`), responses under way, being handled
  or queued are answers the leader gave (`WayBackIsTrue`), what is queued or batched was
  submitted (`WayOutIsSubmitted`), and what is in a `respCh` or has been read is the
  verdict on that request (`RepliesAreTrue`). The two theorems assume `NoIdClash`, that
  the ID of a topic request is never the ID of a batch, which
  `producer_clash` shows the code does not ensure. `RefusalIsTheLeaders` assumes that the
  hash has no collisions among the jobs at hand; success does not need it.
  `ImplementsProducerPromise` is the refinement, under both assumptions. `TruthInv` makes the
  steps of a handler's answer steps of the promise. The other half, that the leader
  never judges a request that was not submitted or was turned away, comes from `PlaceInv` for jobs
  and, for topics, from IDs being given out once and before they are sent (`IdsAreGivenOut`) and from
  topics never being answered "busy" (`TopicsAreNotTurnedAway`).
* **RouterProofs**: `RouterTypes`, `InflightsAreBounded`. The bound is not inductive since
  the check and the send are apart: `SlotIsFree` says that the slot seen by the check is
  still there, which acks keep and only a second dispatcher could break, and
  `OneDispatcher` that there is no second one unless `overlapped`.
  `DeliveriesAreInOrder`: the ID is taken in one step and written in a later one; `HandIsNext` says that
  the delivery in hand has the last ID and all written before it smaller ones, `AckIsBehind` that no ack is
  ahead of what is still in `writeCh`.
  `JobGoesToOneConsumer`: messages, channels, hands and consumers hold no job in
  common (`HoldersApart`) and none twice (`HeldOnce`); this needs no `OneDispatcher`, as a
  channel gives each job to one of its readers.
  `SlotsAreNotLost`: a consumer without a free slot has, or is about to get, a delivery whose
  ack frees one (`SlotComesBack`): a delivery is dropped only at a full `writeCh`, what is in `writeCh` is not
  acknowledged, and an ack frees all slots up to its ID. The last two assume `JobsSentOnce`, that no job is in the workload
  twice: the proxy does not look for duplicates, and what the leader sends twice is delivered twice.
* **DoneBatchProofs**: `DoneTypeCorrect`, `AckIsInOnePlace`, `LastFlushCompletes`,
  `AckLostOnlyWhenOvertaken`, from one invariant, `AckInv`. An ack is batched and sent under its own topic, which
  `flushAllTopics` knows (`ByTopic`); before it is queued it is nowhere (`NotQueued`); the queues have nothing in
  common (`Apart`), which the add-back after a failed send keeps, as the copy is given up in the same step. For the last flush: what it found is with the leader, being sent, or in a topic
  still to be flushed (`DueIsOnItsWay`).
* **SessionProofs**: `StaleTableIsReloaded`, `AdmissionFollowsFile`, `SessionTypes`,
  `UuidEntryStaysLive`. For the authenticator, `AuthInv`: what `loadTokens` has read and not
  yet installed is also the file, or there is another event (`LoadedIsFresh`), and events come only to a
  `watchFile` that runs (`WatchIsRead`), so that the reload does come. For the handlers, `SessionInv`: an
  entry of `consumersByUUID` is a registered consumer with that UUID (`EntryIsOwn`); the cleanup of
  an older connection may remove a newer one's entry, but none is left that leads nowhere.
* **ConnectionsProofs**: `ConnectionTypes`, `ConnectedToPeersOnly`,
  `LeakIsAtStartOnly`, `SettingsAreValid`, `StaticStaysStatic`. The invariant adds that dials under way are for peers of the round
  (`DialersAreOfRound`), that with static discovery `updateDiscovery` is never called (`StaticNeverAsks`), and that a list
  once filled stays filled (`ListStaysFilled`). The settings
  are those of lemma `BuiltConfig`, for every file and command line.

Every inductive invariant was checked with TLC on the instances above before it was proved.

Only model-checked: the liveness properties, which are out of the prover's reach
(`QueuedIsBatched`, `AnsweredBatchIsDispatched`, `IsLiveRegister`, `QueuedIsServed`,
`QueuedAckArrives`, `PeersGetConnected`, `TableCatchesUp`, `GoneConsumerIsRemoved`,
`AcceptedArrives`), and the three runs that end in a violation.

## What is not modelled

* Decoding and validation of request bodies: they end a request
  before it has changed any state.
* Read limits and deadlines of WebSockets (`ws_read_timeout_sec` is used as a number of
  nanoseconds, `api.go:361`: a matter of units, and there is no time in the model).
* The contents of heartbeat reports, and the score-0 report after a rejection: they
  are sent and forgotten, and no state of the proxy depends on them.
* The HTTP server itself. `RunProxy` logs its failure and goes on.
* The order of the shutdown across all components at once. `DoneBatch` has all its
  phases. `ProducerPath` has one context, after whose end every step remains
  possible and none certain. `Session` has none.
* Several topics at one router: `Router` and `Session` have one, while `r.mu` is shared by all. After
  the hang that `router_removal` shows, the consumers of other topics are neither served nor removed.
* Data that a stream still buffers when `Close` comes: in `DoneBatch` a send that returned nil has
  reached the leader.
* Data races on Go maps (`mainChans`, `sendConns`), whose outcome is a crash of the process.
* Wrap-around of the 32-bit IDs, certificates and peer identities (crypto libraries), framing, and
  metrics, which nothing reads back.
* The test harness, which is not part of the proxy.

## Plan

All components that keep state of their own are modelled, and each invariant, action property and
safety refinement of the passing runs is a theorem. What is left:

1. The safety half of the liveness properties: what a wait depends on never goes away. For example, that
   a queued job always has a dispatcher, and a queued request a JobBuffer.
2. An abstract specification of the consumer side, as `ProducerPromise` is of the producer side.
