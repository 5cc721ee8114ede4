# TLA+ models of the eth2_libp2p peer lifecycle

This directory holds TLA+ models of the peer lifecycle core of
`src/`: the peer database, the peer manager, the swarm callbacks that gate and
report connections, and the service glue that consumes the manager's events.
They are checked with TLC. `PROJECT.json` lists the components, the runs, the
mutants that show each checked property can fail, the map from every
definition to the source lines it translates, the findings and the hazards.

## The system

| Part | Source | State it keeps | Operations |
|---|---|---|---|
| PeerDB | `src/peer_manager/peerdb.rs` | `peers` (PeerInfo per peer: connection status with `since`, score, trusted flag, seen IPs, directions, `min_ttl`), `disconnected_peers`, `BannedPeersCount` (total and per IP) | `update_connection_state` (one transition per `NewConnectionState`), `shrink_to_fit`, `report_peer`, `update_scores`, `cleanup_dialing_peers`, `inject_disconnect`, `notify_disconnecting`, `set_trusted_peer`/`unset_trusted_peer`, `ban_status`, `should_dial`, `update_min_ttl`, `extend_peers_on_subnet`, `good_peers_on_subnet` |
| Peer score | `score.rs`, `peer_info.rs` (not in this repository) | a float score and its state (Healthy, ForcedDisconnect, Banned) | `apply_peer_action_to_score`, `score_update` (decay) |
| PeerManager | `src/peer_manager/mod.rs` | `events` queue, `peers_to_dial`, `temporary_banned_peers` (LRU), `trusted_peers`, ping/status timers, `sync_committee_subnets` | `heartbeat`, `report_peer`/`goodbye_peer`, `handle_ban_operation`, `peers_discovered`, `dial_peer`, `disconnect_peer`, `inject_disconnect`, `prune_excess_peers`, `maintain_peer_count`, `add_sync_subnet`, `maintain_sync_committee_peers` |
| Swarm behaviour | `src/peer_manager/network_behaviour.rs`, and the `connection_limits` behaviour built in `Network::new` | none of its own | `poll` (returns one event, else pops one dial), connection gating (`handle_pending_inbound_connection`, `handle_established_*`), `on_connection_established`, `on_connection_closed`, `on_dial_failure` |
| Service | `src/service/mod.rs` | discovery's ban list, the application's view, `local_metadata` | `inject_pm_event`, `inject_rpc_event`, `dial_trusted_peer`, `remove_trusted_peer`, `discover_subnet_peers`, `dial_cached_enrs_in_subnet`, `update_enr_subnet`, `update_metadata_bitfields` |
| Local ENR | `src/discovery/enr.rs` | the ENR file on disk | `use_or_load_enr`, `save_enr_to_disk` |
| Rate limiter | `src/rpc/rate_limiter.rs` | GCRA buckets per peer and protocol | `allows`, `prune` |

How they interact: the PeerDB is shared behind a lock and changed only through
its methods. The manager calls them from the swarm callbacks, from the
heartbeat, and from the reports of RPC, gossip and sync. Every change the
network must see goes into the manager's `events` queue. `poll` hands one
event per call to the service, and only with an empty queue does it pop a
peer from `peers_to_dial` and start a dial. The service turns `Banned` and
`UnBanned` into discovery bans, `DisconnectPeer` into a goodbye and
`DiscoverSubnetPeers` into `discover_subnet_peers`. A validator duty reaches a
peer as a `min_ttl`: from a subnet query's results (`peers_discovered`) or
from `discover_subnet_peers` for the peers already connected on the subnet.
The connection checks waive the peer limits for it, and the prune must keep
it. The swarm
reports connections back: established, closed, dial failures.

What is hard here:
- the interleaving of swarm callbacks with the heartbeat and the reports, such
  as a dial failing after an inbound connection of the same peer;
- counters (`disconnected_peers`, `BannedPeersCount`) that must track the
  statuses through every transition and eviction;
- events that reach discovery in queue order, one of them removing others
  (`events.retain`);
- the three-pass prune with its outbound, trusted, duty and sync-committee
  guards, and its nondeterministic tie-breaks;
- restarts and crashes with a persisted ENR and metadata sequence number,
  and what a peer that cached our metadata sees after them;
- u64 time arithmetic in the rate limiter, which saturates at its limits.

## Modules

- `PeerDB.tla`: the PeerDB as pure operators on a record `db`. `info[p]` is
  the PeerInfo abstracted to its status, `to_ban` flag, connection directions,
  score, trusted flag and IPs. `since` is the order of the status timestamps.
  `ToConnected` ... `ToUnbanned` are the arms of `update_connection_state`.
  `UpdateConnectionState` adds the entry insertion and the Fatal action of a
  ban. `ShrinkToFit` is the two eviction loops, as RECURSIVE operators.
  `ReportPeer`, `UpdateScores`, `CleanupDialingPeers` and `InjectDisconnect`
  are the public operations. Each returns what the code returns: the
  `BanOperation`, or the purged or unbanned peers with their IPs.
  `UpdateMinTtl` and `ExtendPeersOnSubnet` set the duty flag `info[p].duty`.
  It stands for a `min_ttl` still in the future. `UpdateMinTtl` inserts an
  unknown peer as Unknown, as `entry().or_default()` does.
- `Pruning.tla`: `prune_excess_peers` as the operator `PruneSets(s)`. It takes
  a snapshot of the connected peers and returns the set of all prune sets the
  code can compute. The set can have more than one element because three
  choices break ties nondeterministically: the worst-peer order, the largest
  subnet and the shuffled candidates. `PrunePass` is the `prune_peers!`
  macro. `Pass3` is the subnet loop, with its outbound and sync-committee
  candidate checks.
- `MCPruning.tla`: checks `PruneSets` over every snapshot of two or three connected
  peers: scores, directions, duties and subnets.
- `RpcErrors.tla`: the table of `handle_rpc_error` as the operator
  `RpcErrorAction(err, protocol, direction)`. It returns the PeerAction
  reported, or `NoReport` for the arms that return early.
- `PeerManager.tla`: composes PeerDB, Pruning and RpcErrors with the manager,
  the swarm and the service. The variables are:
  - `m`: the manager's db, events, peers_to_dial, temporary bans and trusted
    set, the live `sync_committee_subnets` entries (`syncSubnets`), and the three timer sets `inbound_ping_peers`, `outbound_ping_peers`
    and `status_peers` (`inboundPing`, `outboundPing`, `statusPeers`). A peer
    in a set has a timer armed;
  - `conn`: the swarm connection of each peer;
  - `dialing`: the dials in flight;
  - `appConnected`, `discBanned`, `discBannedIps`: what the service passed on;
  - `goodbye`: the peers the service sent a Goodbye (`eth2_rpc.shutdown`) on a
    live connection that has not closed yet.

  The peer-count limits (`max_peers`, `target_outbound_peers`, ...) are the
  f32 operators of `F32Sizing`, so they are what the code computes. So are
  the caps of the libp2p `connection_limits` behaviour (`ConnectionLimits`):
  - established incoming: `ceil(t * 0.9)`;
  - established outgoing: `ceil(t * 1.1)`;
  - total: `ceil(t * 1.3)`;
  - one connection per peer.

  The swarm consults them before the peer manager. An outbound denial is a
  dial failure, and an inbound one changes nothing.

  Each action is one callback or call, run to completion, as it is under the
  PeerDB write lock and the single-threaded swarm poll:
  - `Heartbeat`;
  - `DeliverEvent`: the `poll` that returns an event, then `inject_pm_event`;
  - `PollDial`: the `poll` that pops a dial;
  - `DialFails`, `DialConnects`, `Inbound` and `ConnectionClosed`;
  - `GoodbyeClosed`: the RPC handler closes a connection it sent a Goodbye
    on. Its effect is `on_connection_closed` (`CloseConnection`), like a
    remote close;
  - `Report`: the reports of gossip and sync;
  - `HandleRpcError`: `inject_rpc_event` handing an RPC error to
    `handle_rpc_error`. An inbound error of a peer that is not connected is
    dropped;
  - `Discovered`: `peers_discovered`. Results that came with a `min_ttl`
    may take the priority slots up to `max_priority_peers`, and get
    `update_min_ttl` before `dial_peer`. It ends with
    `maintain_peer_count(to_dial)` unless the query found peers but none to
    dial, so an empty result also asks for another query;
  - `DiscoverSubnetPeersCall`: the application calls
    `discover_subnet_peers` for one subnet, with or without a `min_ttl`.
    `DeliverEvent` runs the same operator (`DiscoverSubnets`) for a
    `DiscoverSubnetPeers` event. A subnet with a `min_ttl` extends the
    duties of the connected peers on it and, if it is a sync subnet, calls
    `add_sync_subnet`. A subnet short of `target_subnet_peers` good peers
    dials the cached ENRs on it. Discovery's cache is outside this
    repository, so its content is a choice;
  - `DutyExpires`: time passes a peer's `min_ttl`;
  - `AddTrusted` and `RemoveTrusted`;
  - `PingTimerFires` and `StatusTimerFires`: `poll` drains an expired timer,
    re-arms it and pushes a Ping or Status event. The constant `TimerEvents`
    enables these two and the next two. `DutyEvents` enables the duty
    actions;
  - `PingRequest`: a Ping request of a Connected peer reaches
    `ping_request`. It re-arms the timer of the connection's direction and
    asks for the peer's metadata, which stays unknown in this model;
  - `PeerStatusd`: a Status request or response reaches `peer_statusd` on a
    live connection.

  `InjectPeerConnection` arms a ping timer by direction and the status
  timer. A Disconnect score result removes only the ping timers
  (`StopPings`). `inject_disconnect` removes all three (`RemoveTimers`).

  Time is abstracted to choices: the heartbeat picks the dials that timed out,
  the scores that decayed, the temporary bans that expired and the sync
  subnet entries that expired. `maintain_sync_committee_peers` runs between
  the score update and the prune, as in `heartbeat`.
- `MCPeerManager.tla`: the constants for the runs and the properties.
- `F32Sizing.tla`: IEEE-754 binary32 arithmetic on non-negative values. A
  value is `[m, e]`, meaning m * 2^e. Each operation computes exactly, then
  rounds to 24 bits, to nearest with ties to even. On top of this are the
  sizing functions of `mod.rs` 395-425: the f32 factor constants, their f32
  sums, and `ceil(target as f32 * factor)`.
- `MCF32Sizing.tla`: checks the sizing functions against the exact
  `ceil(target * factor)` of spec 4.2.1, for every target in 1..100.
- `EnrPersistence.tla`: the node across process starts.
  - `UseOrLoadEnr` is `use_or_load_enr` with `compare_enr`: adopt the file,
    or take seq + 1, or refuse at `u64::MAX`.
  - `BootSaveCreate`/`BootSaveWrite` and `RunSaveCreate`/`RunSaveWrite` are
    `save_enr_to_disk`, split at `File::create`, which truncates the file.
  - `LoadMetadata` is `load_or_build_metadata`.
  - `UpdateEnrSubnet` is `update_enr_subnet`, through discovery's update.
  - `UpdateMetadataBitfields` is `update_metadata_bitfields`, one
    synchronous handler on the service task: seq + 1 and the ENR's
    bitfields, served from then on, then `save_metadata_to_disk`
    (the operator `SaveMetadataToDisk`), whose failure is only logged.
  - `Stop` and `Crash` end the process.

  A remote peer running the same code is modelled too:
  - `PingRequest` and `PongResponse` are its `ping_request` and
    `pong_response`;
  - `AnswerMetaData` is our `inject_rpc_event` answering METADATA;
  - `MetaDataResponse(r)` is its `meta_data_response`;
  - `PeerForgets` is its `shrink_to_fit` dropping our entry while we are
    down.

  `enrHist` and `metaHist` are history variables of everything ever served.
- `MCEnrPersistence.tla`: the properties of the ENR model. The constants are
  in each cfg.
- `GcraSpec.tla`: the abstract rate limiter. Every peer has a bucket from the
  start, with nothing to add or prune.
- `RateLimiter.tla`: `Limiter::from_quota`, `Limiter::allows` and
  `Limiter::prune`, with saturating u64 arithmetic over two limiters. One of
  them is a light-client limiter, which `RPCRateLimiter::prune` never visits.
- `MCRateLimiter.tla`: the quotas, `BurstBound`, and the refinement mapping
  to `GcraSpec`. An absent entry maps to a full bucket (`due = now`). A
  present entry maps to `max(tat, now)`.

## Runs

| Run | Expect | What it shows |
|---|---|---|
| `prune_guards` | pass | The prune never takes the outbound-only peers below `target_outbound_peers`, never prunes a trusted peer, and leaves at least `MIN_SYNC_COMMITTEE_PEERS` on a sync committee it thins. This holds for every snapshot and tie-break. 602,904 states. |
| `pm_duty` | violation | `HeartbeatKeepsDutyPeers` fails in 8 states. p1 connects inbound. A subnet query returns p1 with a `min_ttl`, so `update_min_ttl` gives it a future duty. p2 is dialed and connects outbound. The heartbeat's subnet pass then disconnects p1, although spec 4.2.2 says a peer with a future `min_ttl` is never pruned. Passes 1 and 2 skip duty peers; the subnet pass does not. |
| `pm_core` | pass | `disconnected_peers` and `BannedPeersCount` (total and per IP) always equal the peers they count, and no peer is Connected without a connection. This holds under every interleaving of two peers, RPC errors included. The timers are armed and removed by connects and disconnects. They do not expire here, and no Ping or Status traffic is modelled (`TimerEvents = FALSE`). Nothing then reads the timer sets, so the run's `VIEW TimerFreeView` leaves them out of the state. `ShrinkRestoresBound`: every close and failed dial, which end in `inject_disconnect`, leaves at most `MAX_DC_PEERS` non-trusted Disconnected peers. Timed-out dials may exceed the bound in between. Validator duties are off (`DutyEvents = FALSE`); with them this instance has 4.5 million states. 332,070 states, under 2 minutes. |
| `pm_trusted` | pass | `dial_trusted_peer` and `remove_trusted_peer` at any time, with the disconnected counter still exact. `DisconnectingResolves` is checked under `FairSpec`: a peer disconnected over a live connection always ends with the connection closed and the peer Disconnected, Banned or evicted. This assumes the handler closes what it said Goodbye on. The timers expire here. `TimersOnlyForLiveConnections`: no ping or status timer outlives the connection it was armed for. `ConnectedPeersPolled`: every Connected peer has its status timer and the ping timer of its direction. Validator duties are on here. `NoOrphanUnknownPeers`: every non-trusted Unknown peer, such as one `update_min_ttl` inserted, waits in `peers_to_dial`. 153,103 states. |
| `pm_banned_count` | violation | `remove_trusted_peer` on a Banned peer leaves the banned count raised. |
| `pm_dial_failure` | violation | A late dial failure marks a peer with a live inbound connection Banned. |
| `pm_disc_ban` | violation | A Banned peer reconnects without an `UnBanned`, so discovery keeps banning it. |
| `enr_restarts` | pass | Without crashes, the served ENR and metadata seqs never go back and never name two records. A peer that pings us eventually holds our current metadata, although responses are reordered. 3,362 states. |
| `enr_faults` | pass | With crashes and failed writes, every start still has an ENR of its own config and default bitfields. About 2.6 million states. |
| `f32_sizing` | violation | The f32 sizing differs from the spec's `ceil(target * factor)`. At `target_peers = 10`, `max_priority_peers` is 14, not 13: (1.0 + 0.1) + 0.2 rounds above 1.3. It also differs for `target_outbound_peers` at 50 (16, not 15) and `max_outbound_dialing_peers` at 25 (31, not 30). |
| `meta_save_fail` | violation | No crashes, but file writes may fail. `update_metadata_bitfields` serves the new seq, `save_metadata_to_disk` fails and only logs, and after a clean stop the next start loads the older file and serves a lower seq. The spec says the seq is monotonic across restarts and the metadata is persisted, then advertised. |
| `rl_gcra` | pass | `Limiter` with pruning implements `GcraSpec`. The tokens allowed over any window never exceed the window plus one `replenish_all_every`. 453,303 states, about 2 minutes. |

Each violation is a finding in `PROJECT.json`. A finding gives the source
line and what the code does against what the spec or the comment says. Each
property of a passing run has a mutant in `PROJECT.json`: a plausible bug in
a mapped definition that makes TLC report the property violated.

Some violations are recorded as hazards in `PROJECT.json`, with notes, not
as runs:
- `shrink_to_fit` counting trusted peers;
- `cleanup_dialing_peers` exceeding `MAX_DC_PEERS`;
- the temporary ban that gating never reads;
- the ENR served before it is saved (`enr.rs:119`). With crashes enabled,
  `EnrSeqMonotonic` is violated within 98 states. Discovery serves the new
  record from its own task before `save_enr_to_disk` returns: the same
  serve-before-persist order that `meta_save_fail` shows for the metadata;
- `remove_trusted_peer` on a peer with no connection (`service/mod.rs:1273`).
  The peer is left Disconnecting for good: no handler receives the Goodbye,
  `dial_peer` refuses Disconnecting peers, and `shrink_to_fit` never evicts
  them. With `DisconnectingResolves` stated without its live-connection
  premise, TLC finds this in 6 states.

Two disagreements were not made into runs:
- Spec 4.2.3 says light-client protocols are never penalised.
  `handle_rpc_error` returns early only for their rate limits and timeouts.
  An invalid-data or I/O error on a light-client stream is still reported
  (Fatal and HighToleranceError). The table is the operator `RpcErrorAction`
  that `HandleRpcError` applies; no run states the spec's rule against it.
- Spec 4.2.4 says newer metadata is adopted. `meta_data_response` stores any
  response, on purpose (the comment at `mod.rs:710`).
  `MetadataEventuallyCurrent` shows the view still converges without crashes.
  With `FailEnabled = TRUE` the same property is violated. After a failed
  metadata save and a restart the peer holds a higher seq than we serve,
  and it does not ask again.

## Bounds and why they are enough

- PeerManager uses two peers on one IP and `target_peers = 1`.
  - This gives `max_peers = 2`, and the second connection is an excess to
    prune. The `connection_limits` caps are 1 established incoming, 2
    outgoing and 2 in total. So two peers are connected only as one inbound
    and one outbound.
  - At target 1, `max_priority_peers` equals `max_peers`, so the priority
    slots of a duty peer add no connection here. They differ from target 4
    on, which takes six connected peers and is beyond this instance. Spec
    section 6 says a priority inbound handshake is accepted up to
    `max_priority_peers`. That claim is recorded as a hazard at
    `service/mod.rs:450`: the incoming cap of `connection_limits` can refuse
    it first.
  - `TargetSubnetPeers` is scaled to 1. `pm_trusted` keeps the sync subnet
    set empty: with one sync subnet it grows from 153,000 to 363,000 states
    and takes 2 minutes. `pm_duty` has one sync subnet c1 that both peers
    are on, with `MIN_SYNC_COMMITTEE_PEERS = 1`. The subnet pass may then
    thin c1 to one peer.
  - `MAX_DC_PEERS` and `MAX_BANNED_PEERS` are scaled to 1. An IP is banned
    once two banned peers share it. So both eviction loops of
    `shrink_to_fit`, the IP ban and the per-IP counts are reached.
  - The scores are -2..1: Fatal and Banned at -2, ForcedDisconnect at -1,
    Healthy at 0, and 1 for Score::Max.
  - Every non-fatal action lowers the score by one, so a peer walks through
    every score state. The four PeerActions of `handle_rpc_error` therefore
    reach the same states as the two of `Report`.
- The event queue and `peers_to_dial` are bounded by `MaxQueue = 1` and
  `MaxDial = 1`. An action that would push is disabled until the queue is
  drained. This keeps the state space finite, and it still lets the events
  interleave with every callback. A second run uses one trusted peer and a
  queue of two.
- The prune model uses three peers, one of them trusted, two attestation
  subnets and one sync committee, with `MIN_SYNC_COMMITTEE_PEERS` scaled to 1.
  That is enough for every pass to choose between candidates and for every
  guard to fire.
- EnrPersistence uses two configs, two bitfield values and `MaxSeq = 3` for
  `u64::MAX`, with four starts (`MaxBoots`).
  - This reaches a subnet update, an adoption, a seq + 1 on a config change,
    and the `checked_add` refusal.
  - Up to two METADATA requests are in flight (`MaxInFlight`), so two
    responses can be delivered in either order.
  - The runs stop at the bound on starts or at a refused startup, so
    deadlock is not checked (`CHECK_DEADLOCK FALSE`).
- F32Sizing checks targets 1..100. TLC's integers are 32 bits, so the
  exact products must stay below 2^31, and targets up to 100 do. A Python
  check against IEEE float32 up to 1000 finds the same divergences, the
  first at 10.
- RateLimiter uses one peer and two protocols.
  - The quotas are 2 tokens per 4 ns and 2 per 5 ns: one divides evenly, and
    one truncates `t = tau / max_tokens`.
  - Time runs to 5 and the u64 limit is 31. Request sizes of 1, 2 and 31
    reach the TooLarge answer and the saturating multiply.

## Fairness

`enr_restarts` uses `FairSpec`, which puts weak fairness on four actions of
the peer and the swarm:
- the peer's `PingRequest` and `PongResponse`: pings are driven by the
  `inbound_ping_peers` and `outbound_ping_peers` timers, which `poll`
  re-arms each time they fire;
- `AnswerMetaData`;
- delivery of a response.

The node's own actions, restarts and updates are not fair: the property must
hold whatever the operator does.

`pm_trusted` uses PeerManager's `FairSpec`, with weak fairness on
`DeliverEvent` and `PollDial`. The swarm polls the behaviour whenever it can
make progress. Each `poll` returns a queued event, or with none left pops
`peers_to_dial`. The RPC handler that sends the Goodbye and closes the
connection is not in this repository. That it closes every connection it
said Goodbye on is the hypothesis `GoodbyeHonoured` of the property, not a
fairness condition. The connection is still closed by the modelled action
`GoodbyeClosed`, and it runs `on_connection_closed` in full. Reports, dials,
discovery and the remote side are not fair. The other runs check safety
only.

## Not modelled

- `pong_response` and `meta_data_response` on our side, which only ask for
  or store a peer's metadata. Also the sync-state gate of the status
  timers, which is a nondeterministic choice to fire or not.
- Identify, gossipsub score
  blending, and the custody-subnet computation of `meta_data_response`. No
  modelled property reads their state.
- `client.rs` (agent-string parsing), `rpc/outbound.rs` (codec framing) and
  `types/grandine.rs` (aliases): they have no state to model. The client
  kind parsed from the agent string feeds only metrics and logs, and the
  spec gives no reference format to check the parser against.
- Discovery's own subnet query and its ENR cache, which are outside this
  repository. Their results are the `Discovered` action, and the cache
  content is a nondeterministic choice. `discovery().started` is taken as
  true.
- Gossipsub scores: every peer counts as a good gossipsub peer in
  `good_peers_on_subnet`. Each peer's long-lived subnets are constants.
- `utils`, discovery and the RPC behaviour are not in this repository. The
  parts the models need are spec_modelled: `load_or_build_metadata`,
  `save_metadata_to_disk`, `update_enr_bitfield`, and the RPC's seq number.

## Plan

Done so far:
- the ENR and metadata persistence model;
- the GCRA rate limiter;
- the RPC error table and the metadata exchange;
- the f32 sizing;
- liveness of a disconnect over a live connection;
- the ping and status timers;
- the libp2p connection limits in front of the connection checks;
- the shrink bound after every `inject_disconnect`;
- validator duties: `min_ttl`, the sync-committee entries and
  `discover_subnet_peers`, with the duty-prune divergence shown in the
  composed model (`pm_duty`). The pure prune model no longer carries it.

The IP form of `DiscoveryBanAgrees` was tried and is violated. The hazard
list records this under `mod.rs:304`.

Next:
1. The gossipsub subscriptions of the service (`subscribe`,
   `unsubscribe`, the fork-topic switch). The globals are updated before
   gossipsub and are not rolled back on an error.
2. The sync-committee entries are reached only by `pm_duty`, a violation
   run, at the sizes a pass run can afford. A smaller composition, the
   heartbeat and discover_subnet_peers over one peer without the timers,
   would check them in a pass run.
3. The run limit forces trade-offs. Merge runs where one configuration can
   serve two questions, so that the dropped violations can come back.
