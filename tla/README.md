# Packetia SFU: a TLA+ verification project

Packetia is a C++17 conferencing server: a selective forwarding unit (SFU) with
WebSocket signalling, WebRTC transport, a control plane that binds rooms to SFU
nodes, and older RTSP/RTMP/SIP front ends. Three programs are built from one
tree: `Packetia` (everything in one process), `PacketiaControl` (control plane)
and `PacketiaSfu` (media node). This directory holds TLA+ models of the parts
where concurrency, loss and timing make the code hard to test, the TLC runs that
check them on small instances, and TLAPS proofs for the parts that matter at
every size. Paths below are relative to the repository root.

Contents: [inventory](#inventory), [modules](#modules-and-how-they-correspond-to-the-code),
[runs](#runs), [fairness](#fairness), [proofs](#proofs), [a divergence](#a-divergence-between-documentation-and-code),
[limits](#what-the-models-leave-out), [plan](#plan).

## Inventory

How the parts interact. A browser opens a WebSocket. `network/websocket` hands
frames to `server/signaling/WsSignalGateway`, which runs on the network executor
together with `SignalSessionCoordinator`. Each connection has a `SignalSession`
with two `utils/BoundedChannel`s (requests, responses) that share one
`ChannelBudget`. A request is posted to the executor of the room's owner, where
`RoomSignalHandler` keeps memberships, media sessions and reconnect windows and
drives `Room/`, `media/` and `protocol/WebRtc`. The result is posted back to the
network executor. In a cluster a join carries a token issued by the control
plane (`service/Cluster/Coordinator`, `service/meeting`), and a node keeps its
right to admit by heartbeats (`server/cluster/NodeClient`), over plain HTTP.

| Component | State | Operations | What makes it correct |
|---|---|---|---|
| `utils/BoundedChannel.h` | queue, parked messages, gate, `scheduled`, own account, shared budget | Send, Close, Cancel, ResetGate, Schedule, Pump, completion callback | one consumer, no lost wakeup, exact accounts, gate order |
| `SignalSession`, `SignalSessionCoordinator`, `WsSignalGateway` | one entry per connection: admission phase, deadline, generation | Open, Receive, Finish, Confirm, Expire, Closed, Tick, Stop | each admission is confirmed or undone once; nothing orphaned |
| `RoomSignalHandler`, `RoomOwner` | memberships, participant index, reconnect deadlines, media sessions, capacity, assignments | join, resume, create session, leave, reject, close, expire, kick, stop, retire | tables agree, capacity exact, a known participant survives a broken socket |
| Node lease: `NodeLease`, `NodeClient`, `Coordinator` | holder and expiry (control plane), deadline (process) | register, heartbeat, renew, revoke, stop | the two sides never disagree in the dangerous direction; fencing |
| Room binding: `Coordinator`, `NodeClient`, `RoomAdmissionService`, `RoomAdminService` | binding, assignment id, reservation; tokens; active and retired assignments | admit, join, leave, retire, report, release, reclaim, end | a room runs in one place; stale tokens refused; ending completes |
| `Rtsp/RtpPacketReorderQueue.h` | expected number, held packets, resync run | input, tick, drain, reset | order, exact loss account, no stall, correct unwrapping |
| `Rtsp/Rtp/NackRequester` | missing packets with ages and retries, round-trip time | arrival, process, update of the round-trip time | requested while missing only, each request has time to be answered, given up in time |
| `Room/`, with the media sessions of `RoomSignalHandler` | participants, publications, subscriptions, notified revisions | join, leave, publish, unpublish, subscribe, tick, reconcile, notify | indices follow every removal; clients learn of every change |
| `media/core`, `media/endpoint`, `media/frame` | stream registry, open routes; per-frame dispatch | register, remove, subscribe, stop; dispatch | routes are exactly the living subscriptions |
| `media/quality` | estimators, packet history, transport sequence numbers | feedback, pacing | history bounded, numbers unique |
| `utils` executors: `ShardedWorkerPool` with `WorkerService`, `TaskScheduler`, `EventLoop` | queues, running flags, pools by name | post, run, replace, destroy, shutdown | an accepted task runs or is dropped by policy, in order per key; shutdown returns |
| `service/core/ServiceManager` | ordered services | start, roll back, stop | a failing start stops exactly the started ones |
| `protocol/turn` | sessions with a response cache, allocations, permissions, channels | allocate, refresh, bind, relay, prune | a request takes effect once while its response is kept; relaying only under a grant in force |
| `protocol/ice` | candidate checklist | check, nominate | one selected pair |
| Recording, transcoding, mixing, AI | bounded frame queues around codecs | enqueue, drop, drain, stop | drop policy, clean stop |
| `Common/memory`, `CallbackEmitter` | free lists, reference counts, listeners | allocate, release, emit | no double release |
| Parsers and formats (SDP, STUN, RTCP, RTSP, RTMP, SIP, HTTP, JSON), codecs, configuration, logging, monitoring | none or local | encode, decode | outside a model checker's interest |

The hard behaviours are: a network thread and a room thread that exchange posts
which may be refused; sockets that break at any point of an admission; deadlines
that race the answer they wait for; HTTP requests that are delayed, lost or
answered too late, between two clocks; a room that can be ended from three
sides; a registry that other threads change in the middle of a tick; pools that
are replaced while their handlers post; retransmitted requests that meet expired
lifetimes; sequence numbers that wrap. `PROJECT.json` lists each as a hazard at the
line where it bites, with the properties that would catch it.

## Modules and how they correspond to the code

| Module | Models | Notes |
|---|---|---|
| `BoundedChannel` | `utils/BoundedChannel.h` | several channels on one budget |
| `BoundedChannelProofs` | | theorems on the above |
| `SignalAdmission` | `server/signaling/` | composes gateway, coordinator, sessions, room owner and two executors |
| `SignalAdmissionProofs` | | theorems on the above |
| `NodeLease` | `service/Cluster/NodeLease.h`, `NodeClient`, `Coordinator` | one node id, successive processes |
| `NodeLeaseProofs` | | theorems on the above |
| `RoomBinding` | `Coordinator`, `NodeClient`, `RoomSignalHandler` (assignments), `service/meeting` | one room, several processes |
| `RoomPlacement` | what the above promises | abstract specification, implemented by `RoomBinding` |
| `RoomBindingProofs` | | theorems on the two above |
| `RoomTracks` | `Room/Room.cpp`, `Room/Participant.cpp`, `RoomSignalHandler` (media sessions, tick, notifications), `media/endpoint/SfuEndpoint`, `media/core/MediaStreamRegistry` | composes one room, its endpoints and the registry |
| `RoomTracksProofs` | | theorems on the above |
| `RtpReorderQueue` | `Rtsp/RtpPacketReorderQueue.h` | one audio source |
| `NackRequester` | `Rtsp/Rtp/NackRequester.cpp`, as the video receiver drives it | one video stream |
| `RtpReceiveProofs` | | theorems on the two above |
| `ShardedWorkerPool` | `utils/ShardedWorkerPool.cpp`, `WorkerService` | the pools under one name |
| `ShardedWorkerPoolProofs` | | theorems on the above |
| `TurnServer` | `protocol/turn/TurnServer.cpp` | several clients on one server |
| `TurnServerProofs` | | theorems on the above |
| `MC*` | | constants and symmetry for TLC |

Operators named like a neighbour with a suffix (`ReturnQueuedOnly`,
`ExtendedSameCycle`, ...) are mutants: plausible slips of the operator they stand
next to. No specification uses them. For every property of every run there is one
that TLC must catch, which shows that the property depends on the code.

**BoundedChannel.** Every action is one `lock_guard` block or one call made
outside the lock. `posting` counts threads that left the lock with
`schedule = true`; `posted` the Pump tasks in the executor; `at`, `item` and
`batch` are the local variables of the running Pump, so that Close, Cancel, more
sends and completions can fall between any two of its blocks. Completions run on
any thread, before or after `async_consume` returns, more than once. Posts may be
refused and consumers may throw. An allocation failure inside Send is not
modelled.

**SignalAdmission.** `tasks` is the room owner's queue and `front` the network
executor's. `entry` holds the coordinator's flags; `member`, `index`, `suspended`
and `media` are the handler's four tables; `participants` and `mediaCount` are
`RoomCapacity`. `known` is a ghost: the participants whose credentials reached
the client. Any post may be refused, any armed deadline may be found expired, and
a socket may break between any two steps. A deadline is therefore not a clock but
the permission to expire. Overflow stands for a full request or response channel;
what a channel does inside is the subject of `BoundedChannel`. The response
channel appears here as a FIFO, which is what `OneDuty` and `GateFirst` provide.

**NodeLease.** Time is in ticks of the process's clock; the control plane sees
only `second`, the start of its current whole second. Requests and replies lie in
sets and are taken at any later time or lost; a request whose sender timed out
can still be handled. `Stop` is possible at any time, with a request outstanding too,
because it also stands for a crash of the process; `NodeClient::Stop` itself, which joins
the thread that waits for the reply, is one case of it.

**RoomBinding.** A process is a (node, instance) pair and never comes back.
Whether its lease is live is free, which over-approximates the lease;
`NodeLease` shows that both sides agree on it. Assign and token issue are one
action (`RoomAdmissionService::Admit`). Validation of a token (network thread) and
the join it leads to (room owner) are one action too: the time a request spends
between the two executors is neglected against the unit of 30 s, and the
interleavings of the two threads are the subject of `SignalAdmission`. `retired` carries, besides what the code keeps, the
time of the retirement, so that the environment assumption `MaxReleaseDelay`
(below) can be stated.

**RtpReorderQueue.** The state is the queue's members. The two loops of the code
are written in closed form: skipping gaps goes in sequence order, so
`FlushExpired` ends right behind the run of packets that contains the last
expired one. Each packet carries its true index as a ghost, and the queue sees
the index modulo `Cycle`; properties compare the two. The source is assumed to
stay within half a cycle of the expected packet, as RTP itself assumes
(`Plausible`); beyond that no receiver can tell ahead from behind.

**RoomPlacement** knows a room's life (open, closing, ended), its home (process and
assignment id), how many homes were made, and which homes have guests. No tokens,
clocks, leases or messages. `RoomBinding` maps its binding record to the home, the
meeting row to the life and the rooms with participants to the guests; a retirement,
a lost message or a token is a stuttering step. It says that a home is fresh, is given
up only when empty, and that nobody is ever anywhere else.

**RoomTracks.** `room` is a record of what the owner thread and the registry keep, with
the code's redundancy: `published`, `byTrack` and `byPart` are `Room`'s three indices,
`own` and `sublist` each `Participant`'s own lists, `tracks` and `wants` what a media
session remembers to undo, `open` the routes between endpoints, `core` the tracks the
registry holds. They are separate because the code updates them separately; a request
runs to its end on the owner thread and so is one action. The tick is several
(`TickStart`, one `Reconcile` per session, `TickReconciled`, `TickExpire`,
`NotifyTrackChanges`), because other threads change the registry in between:
`CoreRemoveTrack` and `CoreRemoveStreams` close under the lock, and `PublishEvent` sets
the dirty flag later, possibly after the tick has taken it. A notification may find the
client's queue full. Revisions are only compared, so they appear as the set `fresh` of
members whose notified revision is current and the flag `ever`.

**NackRequester.** `missing` is `missing_packets_`, by sequence number; each entry also
carries the distance of its packet back from the newest one, as a ghost, and times are
kept as ages. An arrival is the whole handler of the video receiver: a pass over the
list, the packet, and another pass. Passes at the same time follow each other in the
code and are part of the action.

**ShardedWorkerPool.** `post` is one action, since it keeps the pool's lifecycle mutex
and the shard's mutex from its first check to its last write; the lookup of the pool by
name is an action before it, so that a thread may post to a pool that has been
replaced. `shutdown` marks the pool, stops the shards one by one, and joins the workers
outside the lock. Handlers post to their own pool while it is being stopped.

**TurnServer.** One action per datagram: a request (with the cache of responses, the
admission limits and the method's effect), data from a client by indication or channel,
data from a peer on a relay socket, and the prune timer. Pruning forgets cached responses
from the oldest on, up to the first that is still kept, as `Prune` pops them from the front
of its queue; a response that finds the cache full pushes the oldest out. Clients send as
many transactions as they like, and `age` bounds how late a copy of a request may arrive.
A peer's datagram is read from the socket of an allocation that is there, perhaps run out
and not yet pruned: `UdpServer::Stop` closes a relay socket in the same step in which its
allocation goes, so nothing is read from an old one. `since` counts, up to
`MaxCached`, the other responses given to a request's client since the request last
took effect, and `done` names the request that took effect in the last step; both are
history and decide nothing.

## Runs

On two workers each run takes between a few seconds and two and a half minutes and
reaches between 3·10^4 and 1.5·10^6 distinct states.

| Run | Checks | Instance, and why it is enough |
|---|---|---|
| `channel` | `TypeOK`, `OneDuty`, `NoLostWakeup`, `MessageAccount`, `BudgetAccount`, `GateFirst`, `Drained` | a gated synchronous and an asynchronous channel on one budget, three messages with all three deliveries and two sizes. Limits of 2 messages for each channel and for the budget, and of 2 and 3 bytes, are below what is sent, and the batch limit is 2, so that full channels, a full budget and used-up batches all occur (42 thousand states) |
| `admission` | `TypeOK`, `CapacityExact`, `TablesAgree`, `NoOrphan`, `RollbackSparesKnown`, `Recoverable` | two subjects and two places over two connections, three requests: join, lose the socket, resume on the other connection and fail or leave there, with every refusal. With two places a second member exists beside the first; all six are proved for any limit, and the run below has one place (938 thousand states) |
| `admission_live` | `ClosedIsDetached`, `PendingSettles` | two requests on two connections, one place, so that a join is refused when the room is full; no symmetry |
| `lease` | `TypeOK`, `LeaseAgreement`, `FencedForever` | two processes, two ticks a second, a lease of 2 s and a margin of 1 s, 9 ticks: room for a grant, a renewal, an expiry and a takeover |
| `binding` | `TypeOK`, `HostedIsBound`, `RetirementCoversTokens`, `ImplementsPlacement` | two processes, two assignments, units of 30 s: tokens live 2, retirements 4, reservations 3; releases handled within 2 |
| `binding_late_release` | `RetirementCoversTokens` is violated | the same without the limit on releases, see below |
| `binding_live` | `EndCompletes` | a horizon of 2 units is enough since ending does not wait for time |
| `reorder` | `TypeOK`, `OutputAccount`, `TrueIndex`, `NoStall`, `InOrder` | a cycle of 12 numbers and ten packets across its end; a window of 4 and a cache of 2 leave room for overfull queues, for packets behind different gaps, and for resynchronisation runs of 2 between the window and half the cycle |
| `pool` | `TypeOK`, `NothingLost`, `KeyOrder`, `ShutdownReturns` | a first pool that drops heads and a second that drops tails, two shards, queues of 2 jobs and 2 bytes; three jobs of one key, one posted by the handler of another and one that fills a queue alone, so that both limits and both policies act during a shutdown (177 thousand states) |
| `tracks` | `IndicesAgree`, `RoutesMatch`, `ViewCurrent`, `GoneTracksUnpublished` | a publisher with two tracks and a subscriber whose knowledge is followed; one other thread at a time between a registry change and its event. Two tracks are needed for a session that loses one and keeps one. The first three are proved for any size (98 thousand states) |
| `nack` | `OnlyMissing`, `AnswerAwaited` | a cycle of 10 numbers, gaps up to 3 with packets up to 4 ahead (so that a gap can be too long to request), a list of 2, one request per pass, 2 retries, age 5, round-trip times 0 (unknown), 1 and 3 (508 thousand states) |
| `turn` | `EffectOnce`, `RelayedByGrant` | an allocation, a deletion, a refresh and a channel binding of one client, an allocation of a second client that competes for the only session; two peers behind one address; lifetimes of 1 to 3 units in the order of the code's; a cache of 2, so that the four transactions of the first client push one another out and its Allocate can be carried out twice (490 thousand states) |

What they show. The channel never has two consumers, never forgets to wake its
consumer, and returns every byte of the shared budget once, whatever is closed,
refused or thrown. The admission protocol undoes what no client knows of and
keeps what a client can resume; every membership has somebody responsible for
ending it. A process that admits is the one on record; a replaced one never comes
back. Participants are only ever at the process on record. The reorder queue
emits each number or counts it lost exactly once and never lets a packet wait
beyond its deadline. A pool that was asked to drain runs everything it accepted,
in order per key, and its shutdown cannot be blocked by its own handlers. A room's
five records of who publishes and who receives never part, frames flow exactly
where they say, and a connected client ends up with the current list although
notifications are lost and events come late. A packet is requested only while it
is missing, across the wrap. A retransmitted TURN request takes effect once unless its
client got a cache full of other responses in between, and
nothing is relayed for an allocation, permission or channel that has run out.

What `EffectOnce` does not say: that a request never takes effect twice. The code keeps 8
responses per client (`TurnServer.cpp:624`), whatever their outcome. After an Allocate, a
Refresh with lifetime 0 and seven or more other requests within the 40 s, a late copy of the
Allocate is not recognised and makes another allocation. The run contains such
behaviours, and the property says exactly when they are possible: not before the client
was given as many newer responses as the cache holds. Nothing in the repository claims more; its
tests ask that an exact retransmission be served from the cache
(`protocol/turn/test/test_TurnServer.cpp:427` and `:714`) with fewer requests between.

What `AnswerAwaited` does not say: a packet that has never been requested may be
given up when the round-trip time is known to exceed what is left of its age.
`RelayedByGrant` follows the code in that data sent through a bound channel needs
no live permission, while data coming from the peer does.

Two observations, both about a connection that the room has ended (kick, end of the
meeting) while a second request of its client is already queued. `Recoverable` has an
exception, because the code has: if that request is a join, it creates a
participant whose credentials no client ever receives. It is left suspended until
`reconnect_timeout` removes it, and a join of the same subject is refused until
then. `RollbackSparesKnown` has the same exception for a resume: when the first join
was never confirmed, its rollback is queued behind the resume and removes the
participant that was resumed, whose credentials the client had. Capacity and tables
stay exact in both. The second was found by the proof: the invariant was not
inductive, and the run with two places shows why.

Deadlock is checked for the channel, the reorder queue, the NACK requester and the
TURN server, where some call or the clock is always possible. The other systems may stop: clients stop asking, the bounded
clock ends, a process stops.

## Fairness

Weak fairness is assumed for what a thread does next by itself, and for nothing
that a client decides.

- Channel: a thread that has left the lock reaches its post, the executor runs
  what was posted (`TaskScheduler` and `EventLoop` run until stopped), callbacks
  return and complete. A post need not succeed.
- Admission: the network executor, the room executor and the 100 ms timer
  (`WsSignalGateway::Tick`, `RoomSignalHandler::Tick`) keep running, and a socket
  that is draining or closing gets closed. A single post may be refused;
  only a cleanup retried for ever by Tick is accepted once.
- Binding: the heartbeat thread keeps running and works through each reply. A
  release is sent again with every heartbeat until acknowledged, so strong
  fairness on its handling says only that not every copy is lost.
- Pool: a worker with something to do does it and its handler returns; a thread
  inside `shutdown`, or between the two locks of a post, goes on; a handler that
  is to post does so. Nobody has to create, replace or destroy a pool.
- Tracks: the owner's tick keeps running, and a thread that closed something in
  the registry reaches the publication of its event. Requests are left to clients.

## Proofs

Checked by TLAPS for every value of the constants that satisfies the named
`ASSUME`s.

`BoundedChannelProofs`, from `ChannelAssumption`: `ChannelTypeCorrect`,
`SingleConsumer` (`OneDuty`), `WakeupNeverLost` (`NoLostWakeup`),
`AccountExact` (`MessageAccount`) and `NotificationsBehindGate` (`GateFirst`), and from
`FiniteAssumption` (finitely many channels) as well `BudgetExact` (`BudgetAccount`), for
any number of channels, messages and any limits. The properties are not inductive alone. `IndInv` adds, per channel, that
an open channel with queued items is scheduled (with `OneDuty` this gives the
wakeup), and that the frame of a running Pump is coherent: the item it took is a
message, it is pending or completed while `async_consume` runs, and the batch
counter is below its limit while an item is consumed. A step touches the local
state of one channel only (`Untouched`), so there is one lemma per group of
actions about that channel: send, stop, handover of the duty, take, consume,
throw, complete. For the gate, `GateInv` extends the order to what is still queued: a
deferred message is behind one that opens the gate, consumed or queued, and an open gate
of a channel that accepts has such a message. For the budget, lemmas on `SizeOf` and
`SumOver` say what the sum over a queue and over the channels becomes when one message or
one channel changes.

Two theorems of that module are about the delivery itself and have no run of their own.
`AtMostOnce` (`ConsumedOnce`): a message is given to one consumer at most once, and is then
neither queued nor parked. `FirstInFirstOut` (`NoOvertaking`, an action property): what is
ahead in the line of a channel, consumed and then queued, is consumed first. Both follow from
`OnceInv`: a message is in at most one place of at most one channel, and in none before it
is accepted. The lemmas `AppendOnce`, `JoinOnce` and `TailOnce` say what the three list
operations of `Send` and `Pump` do to places and order.

`NodeLeaseProofs`, from `SecondAssumption`, `LeaseAssumption`,
`MarginAssumption` (the margin is at least one second and at most the lease),
`NoneAssumption`: `LeaseTypeCorrect`, `LeaseNeverSplit` (`LeaseAgreement`),
`ReplacedStaysOut` (`FencedForever`). The inductive invariant says that the
control plane's second lags the clock by less than a second (`ClockInv`), that no
recorded lease exceeds one granted now and requests start in the past
(`GrantInv`), and that every lease a process holds, or will hold when a reply on
its way arrives, ends before the expiry on record for that very process
(`BackedInv`). The margin is what makes a grant keep `BackedInv`
(`GrantOutlasts`); the code's margin of two seconds satisfies the assumption with
a second to spare, which covers clocks read a little apart.

`RoomTracksProofs`, from no assumption at all: `IndicesStayAgreed` (`IndicesAgree`),
`RoutesStayMatched` (`RoutesMatch`) and `ViewStaysCurrent` (`ViewCurrent`), for any
participants, tracks, owners and clients, and any number of other threads. The indices
are not inductive alone: when a media session goes, the code undoes what the session
remembers, not what the room records. `Backed` therefore says that every
subscription is among some session's wants, every published track among some session's
tracks, and that only publishing sessions have tracks. `Known` strengthens `ViewCurrent`
in two ways: a client outside the room has seen nothing, and before the first track every
list sent was empty, which is what lets a resuming client count as notified in such a
room. `IInv` is their conjunction. Each request and each part of the tick has a lemma;
the four removals (a media session, a membership, an unpublished track, a registry entry)
have lemmas about the record they return (`RemoveMediaGood`, `LeaveGood`, `UnpublishGood`,
`CoreStep`), and `MovedKnown` shows once for all that a change of tracks with a new revision
keeps `Known`.

`RoomBindingProofs`, from the `ASSUME`s of `RoomBinding`: `BindingTypeCorrect`
(`TypeOK`), and from `HoldCovers` as well: `HostedAtHome` (`HostedIsBound`),
`RetirementCovers` (`RetirementCoversTokens`) and `PlacementImplemented`
(`ImplementsPlacement`). `HoldCovers` says that a retirement record lasts at least as
long as a release may take plus the life of a token, which with the durations of the
code is 60 s + 60 s <= 120 s; without it the statement is false, as
`binding_late_release` shows. `HostedIsBound` is not inductive: a token lets a
process take participants in, so one has to know which tokens exist. The inductive
invariant says that an assignment id belongs to one process, in whichever row, token,
record or message it is named (`NameInv`), that a process only runs the assignment on
record, which it has not retired (`ActiveInv`), that a token is for the assignment on
record or for one its process has retired, and does not outlive an acknowledged record
(`TokenInv`), that an acknowledged retirement is of a room that was released
(`RecordInv`), and that a release which can still change the record was preceded by a
retirement (`ReleaseInv`). For the refinement, the mapped initial state is initial, and
each step maps to a step of `RoomPlacement` or to none; `GuestsAtHome` says that the
guests are where the home is, which is what the abstract steps ask for.

`SignalAdmissionProofs`, from `NoneAssumption` and `LimitAssumption`: `AdmissionTypeCorrect`
(`TypeOK`), `CapacityIsExact` (`CapacityExact`), `TablesInAgreement` (`TablesAgree`),
`NobodyOrphaned` (`NoOrphan`), `RollbackSparesTheKnown` (`RollbackSparesKnown`) and
`SuspendedAreRecoverable` (`Recoverable`), for any number of connections, subjects and
requests and any limit. All follow from `ProtocolInvariant`. Its room part (`RoomInv`)
stands alone: the tables agree and the counters count them. The rest ties the two executors
together, because what is true of a connection depends on what lies in the queues
between them: a connection has at most one request under way, as a task or as a result
(`OneRequest`); a task or a result on its way fits the state of its connection
(`TaskOK`, `ResultOK`, `InitialOK`); and for each connection, its life, what its client
has heard, what the coordinator decided and what is queued to end it fit together
(`LifeOK`, `HeardOK`, `VerdictOK`, `OrphanOK`). The steps of the network executor share one
argument: they leave the room and the other connections alone (`OthersKept`,
`FrontFrame`). The steps of the room owner share another: they move members and append
an answer (`RoomMoves`, `RoomConclude`).

`ShardedWorkerPoolProofs`, from `PoolAssumption`: `PoolTypeCorrect` (`TypeOK`),
`NothingIsLost` (`NothingLost`) and `KeysInOrder` (`KeyOrder`), for any pools, shards, jobs,
keys and limits, under both policies. The inductive invariant `IInv` says that what is queued
is queued once, where it belongs (`QueueInv`), that the byte counter is its sum and both
limits are kept (`BoundInv`); that a worker has left only a stopped shard with nothing queued
(`WorkerInv`); that a job is where its status says, and was dropped only by a pool that may
(`JobInv`); that a pool accepts a job once (`AcceptInv`); and that of two jobs of a shard the
one accepted later is queued behind the other and starts when that one is over
(`OrderInv`, with `Follows`). `OverflowFits` shows that what `drop head` removes makes
room for the new job. There is one lemma per step of a thread.

`RtpReceiveProofs`, on the reorder queue, from `CycleAssumption`, `WindowAssumption`, `TimeAssumption`,
`ResyncAssumption` and `BoundAssumption`: `ReorderTypeCorrect` (`TypeOK`),
`OutputAccounted` (`OutputAccount`), `UnwrapsRight` (`TrueIndex`), `NeverStalls` (`NoStall`)
and the action property `LeavesInOrder` (`InOrder`), for any even cycle (the code's is 65536),
window, cache and timeout. The proof starts from lemmas on numbers modulo the cycle: a number
within half a cycle of the expected one unwraps to the index it came from. `Core` then says of
a queue that its fields are typed, that a held packet is expected or later, within the window, in
the place of its index (`HeldRight`), that the output and the losses fill the range from the
first number to the expected one (`OutRight`), and that a resynchronisation run is in the past
and not yet long enough (`MarksRight`). `Waiting` says that the expected packet is not among
the held ones, `Alive` that none of these has waited too long. The order comes from a relation between two
queues: `Grows` says that what is new in the output is the packet that was expected before
or a later one. Each operation of the queue has a lemma that it keeps these (`AdvanceRight`,
`EmitRight`, `HoldRight`, `JumpRight`, `FlushExpiredRight`, `AcceptRight`), and each action
one that cites them.

`RtpReceiveProofs`, on the NACK requester, from `NackAssumption` (the module extends both;
the two components share no state and no name): `OnlyMissingRequested` (`OnlyMissing`) and
`AnswersAwaited` (`AnswerAwaited`), for any space of sequence numbers, gap, list, batch,
ages, retries and round-trip times. Neither property is inductive. `AnswerAwaited` is
about entries that are given up, so something must hold of them while they are on the list:
`Timely` says that an entry was requested since it was found, at most `MaxRetries` times,
and that the round-trip time of its last request still fitted before it becomes too old.
`RequestIs` shows this when the request is made, because `TooLate` was false then, and it
stays true as time passes, since the age and the time since the request grow together; when
the entry does become too old, the answer had its time. `OnlyMissing` needs that distances move
back with the newest packet (`MovesBack`), for which `PlusIs`, `AheadIs` and `BehindIs` turn
sums modulo the space into linear arithmetic, that a skipped packet was never received
(`FreshIs`), and, for the length of the list, a count of what has room (`RoomIs`,
`SkippedFit`). `NackInv` has the two parts: `ListInv` on the list, `PassInv` on what the last pass gave up
and left.

`TurnServerProofs`, from `TurnAssumption`: `TakesEffectOnce` (`EffectOnce`) and
`GrantsRespected` (`RelayedByGrant`), for any clients, requests, peers, limits and lifetimes
(an idle session must stay as long as its cache: 60 s against 40 s in the code), with no
limit on what clients send. A copy can be carried out only if its response is not found, and
a response is lost in three ways: it was forgotten, its session was removed as idle, or newer
responses pushed it out. `CacheRight` excludes the first two while a copy can arrive: the age
of a request and what is left of its response add up to at least the life of the cache, and a
session has not been idle longer than any repeatable request in its cache is old. `Recalled`
accounts for the third: the response to a request that took effect lies in the cache with no
more responses behind it than `since` counts (`Behind`), or `since` has reached the size of
the cache. A response that is added moves the others by one place and counts one more for
each of them, so the one that drops out at the front has counted to the end (`CachedIs`,
`StoreRight`). `Remembered` says the same of clients whose session is gone. `RelayedByGrant` rests on pruning before every datagram
(`PruneRight`) and on channels and peers staying one to one (`OneToOne`).

Sums and numbers. Statements that need induction over numbers (sums over a queue or over
channels, runs of packets, counting) take it from the library's theorem that `<` is well
founded on the naturals: a counterexample would have a least one.

Only model-checked: what is temporal under fairness (`Drained`, `ClosedIsDetached`,
`PendingSettles`, `EndCompletes`, `ShutdownReturns`, `GoneTracksUnpublished`), which is out
of the prover's reach. Every safety invariant and action property that a passing run
checks is also proved.

## A divergence between documentation and code

`docs/reference.md:541` and the comment at
`server/signaling/RoomSignalHandler.cpp:861` say that the record of a retired
assignment covers the 60 s tokens not yet used. The code keeps the record for
120 s counted from the retirement. The control plane, however, issues tokens for
the assignment until it handles the release. As long as that happens within 60 s
of the retirement the statement holds (`binding`, with `MaxReleaseDelay` 2 units).
If the release is handled later, a token issued just before it outlives the
record: `binding_late_release` finds the behaviour. The
participants-in-one-place property `HostedIsBound` is therefore also checked
under that limit.

## What the models leave out

- One room and one room owner. The owner is a hash of the room name, and rooms
  share only capacity, which is a constant here.
- The single-threaded deployment, in which both executors are one and results
  are emitted directly, is not modelled on its own.
- Token contents and signatures: a token is a verified record. Choice among live
  nodes by load and node capacity: any live node may be chosen.
- SDP negotiation, renegotiation, permissions and frames: a media session exists, and
  in `RoomTracks` has tracks. Closed routes that wait to be pruned, and the empty set
  that stays in `track_subscribers_` after the last unsubscription, are left out, since
  no operation distinguishes them from nothing.
- In the stream registry, `DetachConsumer` and the pausing of tracks and consumers
  (`SetTrackPaused`, `SetConsumerPaused`): a consumer leaves in `RoomTracks` with its
  subscription or its track, and a paused route counts as open.
- The reconciliation of one session reads the registry once in the model; the code's
  several lookups for one session are taken together.
- The NACK requester's stream does not advance by half the sequence space while a
  packet is waited for, and its clock does not go back. `ClearUpTo` and `Reset`, which
  only tests call, the failure callback and the statistics are left out.
- Copies of a TURN request arrive only within the lifetime of the cache (40 s in the code,
  below the 60 s for which an idle session stays); a later one cannot be recognised. A failed
  memory allocation between an effect and the caching of its response is left out. `Start`, `Stop`,
  parsing, nonces and the limit on 401 responses are left out too, and
  a permission is exercised through the one that a channel binding installs.
- A pool that fails to start half its workers, one that is started again after a
  shutdown, metrics, and any order between jobs of an old and of a new pool, which the
  code does not promise.
- Frame dispatch, the SDP and codec layers, and the estimators of the send path.
- `ServiceManager`: start, rollback and stop are sequential loops called from one thread
  and covered by unit tests; a model would only repeat them.
- Clock drift between control plane and node, and steps of the wall clock.
- Counters that do not enter the account of the reorder queue's output, and
  packets more than half a cycle away.
- Everything listed as `not_modelled` in `PROJECT.json`, with the reason.

Bounds: `MaxRequests`, `MaxTime`, `MaxInFlight`, `MaxAssignments`, `MaxMembers`,
`MinIndex`, `MaxIndex`, `MaxAhead`, `Pools`, `MaxUnsent`, `MaxGeneration` appear only in guards and inputs and stand for nothing in
the code.

## Plan

Done: channel, admission, lease, binding, reorder; then the abstract placement of a
room and its refinement, the worker pool, the tracks of a room, the NACK requester and
the TURN server; proofs for the channel, the lease, the tracks, the binding with its
refinement, admission, the worker pool, the reorder queue, the NACK requester and the
TURN server.

Left, in the order in which it seems worth doing:

1. Frame routing: `EncodedFrameRouter` and the downlink tracks against callbacks that
   run while a route is being closed; transport sequence numbers and packet history of
   the send path.
2. The ICE checklist; the frame queues of recording, transcoding and mixing.
