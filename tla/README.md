# TLA+ models of the ns-2 OSPF multi-topology routing engine

This directory holds TLA+ specifications of the OSPF-like routing engine in
`src/ns-allinone-2.35/ns-2.35/ospf/`, together with the TLC configurations
that check them. `PROJECT.json` is the machine-readable index: it lists the
components, the runs, the mutants, the map from every TLA+ definition to the
C++ lines it translates, the findings and the hazards.

## The system

One `OspfRouting` object (`ospf.cc`, `ospf.h`) runs per simulated router. It is
driven by the ns-2 agent `rtProtoOSPF` (`rtProtoOSPF.cc`), which delivers
packets (`recv` -> `receiveMessage`) and calls `sendHellos` every hello
interval. Inside one router:

| Part | Code | Role |
|---|---|---|
| Neighbour state machine | `OspfNeighbourMap`, `OspfRouting::*Event` | DOWN, ATTEMPT, INIT, TWO_WAY, EX_START, EXCHANGE, LOADING, FULL per peer |
| DD exchange | `receiveDD`, `rolesDistributed`, `isSlave`/`isMaster`, `processPacket`, `sendDD`/`getDdPkt` | master/slave negotiation and the database summary |
| Request/update/ack and flooding | `receiveRequest`, `receiveUpdate`, `receiveAck`, `sendFlooding`, `sendLSAToAdyacents`, `changeRouterLSAState` | loading missing LSAs, reliable flooding |
| Link-state database | `OspfTopoMap` | LSAs per originating router; freshness compare `lookupLSA` |
| Retransmission manager | `OspfRetransmissionManager`, `OspfUnackPeer` | one pending DD (`DdSeq_`), one pending request (`ReqSeq_`), pending updates per origin (`UpdateMap_`); `ackTimer_`, `updateTimer_` |
| Inactivity manager | `OspfInactivityManager` | dead-interval timer per peer; expiry runs `inactivityTimerEvent` |
| Aging manager | `LsAgingManager`, `ageLSA` | LSA age, refresh, MaxAge |
| Message store | `OspfMessageCenter` | a process-wide singleton: packets carry only a message id, and the receiver looks the body up by that id |
| Route computer | `_computeRoutes`, `OspfPaths` | multi-topology Dijkstra |

The routers interact only through messages. A hello carries a pointer to the
sender's live neighbour list, so the receiver sees that list as it is when the
hello is read, not as it was when it was sent. Every other message body is
fixed when the message is created.

## Modules

### `OspfAdjacency.tla`: adjacency, exchange, flooding, retransmission, inactivity

This module models a set of routers `Router` joined by point-to-point links
`Peers`.

**State**

| Variable | Models |
|---|---|
| `nbr[<<r, n>>]` | r's `OspfNeighbour` record for n: state, master/slave bit, DD sequence number, summary header list, retransmission list, request list |
| `rxmt[<<r, n>>]` | r's `OspfUnackPeer` for n: pending DD with its sequence number, pending request, pending update per origin, and whether each of the two timers is armed |
| `inact[<<r, n>>]` | the inactivity timer is armed |
| `nbrList[r]`, `adjList[r]` | `neighbourIdList` and `adyacentsIdList` |
| `db[r][o]` | r's instance of o's router LSA: sequence number and the set of up links |
| `chan[<<s, d>>]` | the FIFO queue of the link from s to d |
| `hello[<<s, d>>]` | a hello from s to d is in flight |
| `lost`, `downs` | fault counters |
| `costs` | link-cost changes signalled so far |

**Actions.** Each action is one event the ns-2 scheduler delivers to one
router. It runs the whole C++ handler to completion, as the simulator does.

- Receiving: `RecvHello`, `RecvDD`, `RecvRequest`, `RecvUpdate`, `RecvAck`.
- Timers: `SendHellos`, `AckTimerExpiry`, `UpdateTimerExpiry`, `InactivityExpiry`.
- Tcl agent: `LinkCostChange`, which is `rtProtoOSPF::intfChanged` followed
  by `linkStateChanged` (the operator `LinkStateChanged`).
  - `intfChanged` rebuilds the router's link list from `get-links-status`
    and never sets a link's state, so every link is `LS_STATUS_UP`.
  - `linkStateChanged` writes the new LSA through `linkStateListAdvPtr_`,
    which points at the database's own list, and then calls
    `OspfTopoMap::update` (the operator `TopoUpdate`). That function
    re-installs the STORED list with the next sequence number and never
    appends a link only the new list has. Because of the aliasing, the
    stored list already is the new one, so the new list is installed.
  - It then sends the LSA to every adjacent neighbour.
- Environment: `LoseMessage`.

**How a handler is modelled.** A handler works on a record `Ctx(r)`, which
holds one router's view: its neighbour records, its retransmission-manager
entries, its lists, its database and its outgoing messages. `Commit` writes
that record back. Every function the handler calls is an operator from view
to view, named after the C++ function and applied in the code's order. Those
operators include:

- the events `HelloReceivedEvent` ... `InactivityTimerEvent`;
- the senders `SendDD`, `SendRequest`, `SendUpdate`, `SendAck`;
- the manager operations `MessageOut`, `RxDDIn`, `RxUpdateIn`, `RxAckIn`, `CancelTimer`, `ResendMessages`;
- `SendFlooding`, `ChangeRouterLSAState`;
- the record and list helpers `AddLSARetrans`, `DelLSARetrans`,
  `LookupLSAReq`, `DelLSARequest`, `DelAllLists`, `AddNeighbourToList`,
  `AddAdyacentToList` and their `Del` forms, `IsTwoWayConectivity` and
  `InactivityMessageIn`;
- the database operations `DelLSA`, `InsertLinkState` and `TopoUpdate`.

A trailing step such as the `sendDD` at the end of `NegDoneEvent`, or the LSA
re-origination inside `inactivityTimerEvent`, is therefore part of the same
action. The loop of `receiveUpdate` is the recursive `UpdateLoop`, with an
early exit when `BadLSReqEvent` returns.

**Data abstraction.**
- An LSA is `[adv, seq, up]`. Its router-links list is reduced to the set of
  links that are up.
- Headers compare by sequence number only, because ages are not modelled.
- Message ids are replaced by the messages themselves.
- The value of `NOW` that starts a DD sequence (`incDDseq`) is drawn from
  `DDSeqStart`.

**Faults.**
- `LoseMessage` drops one queued message whose type is in `LossTypes`, at most
  `MaxLoss` times. This stands for a drop-tail queue or for the message store
  recycling an entry before it is read, after which `receiveMessage` gets
  NULL and ignores the packet.
- `InactivityExpiry` fires at most `MaxDown` times. It stands for a run of
  lost hellos.
- `LinkCostChange` happens at most `MaxCost` times. It is a change of
  environment, not a fault, and has no fairness.
- A retransmission timer (`OSPF_TIMEOUT_FACTOR` times the one-way delay)
  normally fires only once both directions of its link are empty. With
  `EarlyTimeout` it may fire at any time, which models a delay estimate that
  is too short.

### `NeighbourFSM.tla`: the neighbour state machine the spec promises

This is an abstract specification written from spec section 4.2, not from the
code. For every ordered pair `<<r, n>>` it keeps r's state for n (`st`) and
whether r still has LSAs to request from n (`pending`). `Trans` lists the
spec's transitions:

- start;
- HelloReceived, TwoWayReceived, OneWayReceived;
- Negotiation;
- SeqNumberMismatch and BadLSReq;
- ExchangeDone, which goes to FULL or LOADING depending on `pending`;
- LoadingDone;
- InactivityTimerExpired;
- the request-list changes allowed in EXCHANGE and LOADING.

One C++ handler can raise several events in a row. For example,
`receiveHello` raises HelloReceived and then TwoWayReceived, taking a
neighbour from ATTEMPT to EX_START. So a step moves each pair by a chain of
at most `MaxEvents` (3) transitions, and one step may move several pairs
(`sendHellos` starts every DOWN neighbour).

`OspfAdjacency` instantiates it as `NSM`, mapping `st` to `nbr[p].st` and
`pending` to `nbr[p].req # {}`. The property `RefinesNeighbourFSM ==
NSM!Spec` is checked by the `adjacency_safety` run.

### `MC_OspfAdjacency.tla`

This module gives the topologies and the state bounds used by the runs.

- Two routers, `MCRouter`/`MCPeers`.
- Three routers in a line 1 - 2 - 3, `LineRouter`/`LinePeers`.
- `StateBound`, a TLC CONSTRAINT with these bounds:

| Bound | Value |
|---|---|
| Messages queued per link (`MaxChan`) | 3 |
| DD sequence number (`MaxDDSeq`) | 4 |
| LSA sequence number (`MaxLsaSeq`) | 2 |
| Retransmission-list length (`MaxRtx`) | 2 |

Router ids are naturals, because the code compares them. No symmetry set is
used for the same reason.

### `RouteComputer.tla`: `_computeRoutes`

`_computeRoutes` (`ospf.cc` 3709-3877) is a step machine here. Each iteration
of its loops is one action:

| Action | Code |
|---|---|
| `StartTopology` | the per-topology reset and the install of the own LSA |
| `ExamineLink` | one link of the newly installed node: `path_cost`, `lookupCost`, `insertNextHopList` into the tentatives |
| `EndLinks` | the end of the link loop |
| `PopPath` | one `popShortestPath`, and its `insertPath` unless the destination is already cheaper |
| `EndTopology` | moving on to the next `mtId` |

The variables are the C++ locals: `paths`, `tent`, `mtid`, `newNodeId`, the
link list `lsl` with index `k`, and `path_cost`. `path_cost` keeps its value
from link to link, as the C++ local does; its first value is drawn from
`UninitCost`. The `OspfPaths` and `OspfPathsTentative` methods are operators:
`LookupCost`, `InsertPath`, `InsertNextHopList`, `AppendUnique`,
`FindMinEqualPaths` and `PopShortestPath`.

The database `lsdb` is a constant input, chosen in `Init` from `Databases`.
It gives each router an LSA with a MaxAge flag and a list of links, each with
an up bit and a metric per topology (or none).

The reference result is computed by enumeration. `PathsTo` lists every simple
path, `ShortestPaths` keeps the ones of least cost, and `RouteOK` compares the
cost and the set of first hops with the `paths` table.

`Init` is `lsdb \in Databases /\ Begin`. `Begin` sets the locals as
`_computeRoutes` starts.

`MC_RouteComputer.tla` builds the database families:

- `MixedInit`, the initial predicate of `MixedSpec` used by the
  `route_computer` run, enumerates two `MixedFamilies` directly:
  - every graph on four routers with one metric (1 or 2) shared by both
    topologies;
  - every graph on routers 1..3 with a metric per topology and links that
    may be DOWN.
  In both, each router other than `Self` has an LSA that is absent, at
  MaxAge or current.

  This is the same set of databases that `Init` would pick from a constant
  `Databases`. As a constant set of about 22,000 databases, though, TLC
  would spend a minute building it before checking starts.
- `PartialDatabases`: routers 1..3, with links that may not carry
  topology 1. This is the constant `Databases` of the `route_partial` run.

### `LsaCompare.tla`: headers and their freshness order

This module holds the age arithmetic, `OspfTopoMap::lookupLSA` as the
operator `LookupLSA`, and, as the reference, the order of spec section 8 as
`SpecCompare`. It has constants only.

The two orders differ on some pairs:

- `lookupLSA` tests the age gap one way only;
- it calls two MaxAge headers NEWER rather than EQUALS.

The property `UpdatesClassifiedAsSpec` (run `lsa_faults`) checks that no
update received between two neighbours falls into one of these pairs.

### `LsaLifecycle.tla`: ages, refresh, MaxAge, re-origination

This module extends `LsaCompare`. It models the life of router `Orig`'s LSA, as held by `Orig` and by
one FULL neighbour `Peer`.

**State.**

| Variable | Models |
|---|---|
| `db[r]` | r's copy of the LSA: a sequence number and an age |
| `armed` | the `LsAgingManager` timer is scheduled for the LSA at r |
| `ticked` | the routers whose timer has fired in the current second |
| `chan` | one FIFO per direction |
| `rtx` | the retransmission lists |
| `changes` | re-originations so far |
| `linkUp` | the link still delivers |

**Ages.** An age is a double in the code: whole aging seconds plus one
InfTransDelay (a fraction of a second) per flooding hop. In the model an age
is `[n, d]`: n ticks and d delays. The constants `MaxAge` 12,
`RefreshTime` 6 and `MaxAgeDiff` 3 are 3600, 1800 and 900 seconds divided
by 300. A smaller scale (4, 2, 1) distorts the behaviour: the refresh happens
one tick after the age reaches `RefreshTime`, and the two routers' timers run
out of phase, so the scaled gaps must leave room for both.

**Actions.**

| Action | Code |
|---|---|
| `Tick(r)` | `LsAgingManager::ageLSA` calling `OspfRouting::ageLSA` (`AgeLSA`): increment, refresh with flooding, flush at MaxAge or keep it while it is on the retransmission list of a neighbour still in `neighbourIdList` (`HeldForRetransmission`) |
| `NextSecond` | the simulator's clock: the end of a simulated second, when every armed timer has fired (no code of its own) |
| `Originate` | `changeRouterLSAState` after a link change: a new instance with the next sequence number, flooded |
| `Recv(s, d)` | `receiveMessage` of an update (`ReceiveUpdate`: NoExist/Newer install, ack and flood; Equals implicit ack; Older bounce) or of an ack (`ReceiveAck`) |
| `Fail` | the link stops delivering and both inactivity timers fire (`inactivityTimerEvent`, `changeRouterLSAState(.., DOWN)`): `Orig` re-originates its LSA with the next sequence number and sends it to no one, and `Peer` cancels the aging timer of its copy (`LsAgingManager::cancelTimer`); the retransmission lists stay, as `delAllLists` leaves a non-empty list |

**Initial state.** `Orig` has just originated its LSA at a time drawn from
`0 .. RefreshTime`. The update to `Peer` is in flight, and the LSA is on
`Orig`'s retransmission list.

**`MC_LsaLifecycle.tla`** bounds ages to one tick past `MaxAge` (the point
where an unflushed LSA shows), queues to 3 messages and retransmission lists
to 2 entries. `WrapSeq` is 5. The sequence number never gets that high, so
the wraparound branch of `receiveUpdate` is never taken in these runs.

### `MessageStore.tla`: `OspfMessageCenter`

This module models the process-wide store of message bodies. A packet on a
link carries only the message type and id, and the receiver looks the body
up by both.

**State.**

| Variable | Models |
|---|---|
| `cur[t]` | `current_<t>_id` |
| `store[t]` | `<t>_messages`: a function from id to body |
| `net` | headers sent and not yet received |
| `hist[t]` | the id handed out by each `newMessage` of type t; auxiliary, read only by the properties |
| `resent` | retransmissions so far |
| `aborted` | `ls_error` has ended the program |

A body is the number of the `newMessage` call that made it. That is all the
properties need to tell bodies apart.

**Operators and actions.**

- `NextId` is the counter step: back to `LS_INVALID_MESSAGE_ID` at the
  threshold, then incremented.
- `Recycle` is `erase(begin())` at `max_size`.
- `Insert` is the insert of a new entry. `Collides` is the case where the
  new id is still stored after the recycling: `newMessage` takes the
  insert's `end()` as a failure and `ls_error` aborts the program, so
  `Send` then only sets `aborted`, and nothing happens afterwards.
- `NewMessage` is `newMessage`, made of the three above.
- `Send` is a sender calling `newMessage` and `sendMessage`.
- `Receive` is `receiveMessage`: a missing id is ignored, and an Ack's
  entry is deleted (`DeleteMessage`).
- `Resend` is `resendMessages` sending an id it recorded earlier again.

The threshold `Wrap` is scaled down from 2^31-2 to 3. `MaxSize` is 2, so
both the wrap and the recycling happen within five messages, and the
sixth update meets its still stored id and aborts.

## Properties and runs

There are 12 runs: 6 that must pass and 6 that must find a violation.

| Run | Cfg | Expect | Checks |
|---|---|---|---|
| `adjacency_safety` | `MC_OspfAdjacency.cfg` | pass | `TypeOK`, `MasterSlaveConsistent`, `SyncWhenQuiet`, `RefinesNeighbourFSM` |
| `line_flooding` | `MC_OspfAdjacency_line.cfg` | pass | `SyncAllWhenQuiet`, `Converges` under `FairSpec` |
| `loss_recovery` | `MC_OspfAdjacency_lossrecovery.cfg` | pass | `Converges` under `FairSpec` |
| `route_computer` | `MC_RouteComputer.cfg` | pass | `TypeOK`, `RoutesCorrect`, `Terminates` |
| `lsa_faults` | `MC_LsaLifecycle_faults.cfg` | pass | `TypeOK`, `UpdatesClassifiedAsSpec`, `InstallsOnlyNewer`, `FaultFreeOwnLsaCurrent`, `FaultFreeNoLsaBeyondMaxAge` |
| `message_store` | `MessageStore.cfg` | pass | `TypeOK`, `RecentKept` |
| `lost_dd` | `MC_OspfAdjacency_lostdd.cfg` | violation | `Converges` under `FairSpec` |
| `stale_ack` | `MC_OspfAdjacency_staleack.cfg` | violation | `SyncWhenQuiet` |
| `link_revived` | `MC_OspfAdjacency_revive.cfg` | violation | `LinkUpOnlyOnHello` |
| `route_partial` | `MC_RouteComputer_partial.cfg` | violation | `RoutesCorrect` |
| `refresh_seq` | `MC_LsaLifecycle_refresh.cfg` | violation | `OwnLsaCurrent` |
| `maxage_flush` | `MC_LsaLifecycle_flush.cfg` | violation | `NoLsaBeyondMaxAge` |

### Adjacency properties

- **`MasterSlaveConsistent`**: when both ends of a link are in EXCHANGE or
  above, exactly one of them is master. A violation would take two crossing
  initial DDs, a negotiation and possibly a teardown and a renegotiation.
- **`SyncWhenQuiet`**: when both ends are FULL, nothing is in flight and both
  retransmission lists are empty, the two databases are equal. The DD
  exchange, the request list and the flooding exist together to make this
  hold.
- **`SyncAllWhenQuiet`**: on the line, when every adjacency is FULL and quiet,
  all three databases are equal. The end routers learn each other's LSAs only
  through router 2, by its summary or by its `sendFlooding`.
- **`RefinesNeighbourFSM`**: every change that a handler makes to a
  neighbour's state and request list is a chain of transitions of the spec's
  state machine. It rules out a skipped state, a regression the spec does not
  allow, and FULL entered or held while LSAs are still requested.
- **`Converges`**: eventually every adjacency is FULL for good, and the two
  ends hold the same database. On the line this includes the case where
  `sendFlooding` empties a LOADING neighbour's request list with an LSA
  from the third router (`ospf.cc:2708`). LOADING then ends only when the
  request retransmission draws another update from that neighbour.
- **`LinkUpOnlyOnHello`** (action property): a router's own LSA starts
  listing a link to n as up only in a step after which n is in its
  neighbour list, i.e. only on a hello from n (spec 4.2).

### Route properties

- **`RoutesCorrect`**: when `_computeRoutes` returns, each topology has, for
  each destination, the least cost and exactly the first hops of all
  least-cost simple paths, each listed once.
- **`Terminates`**: the popping loop ends.

### LSA properties

- **`OwnLsaCurrent`**: the originator never holds its own LSA older than
  `RefreshTime`.
- **`NoLsaBeyondMaxAge`**: no copy ages past `MaxAge`.
- **`InstallsOnlyNewer`**: a received instance replaces a copy only when
  the order of spec section 8 (`SpecCompare`) calls it newer.
- **`FaultFreeOwnLsaCurrent`**, **`FaultFreeNoLsaBeyondMaxAge`**: the two
  properties above, in every behaviour before the first re-origination (and
  for the second, while the link works). Past that point the code breaks
  them; see the `refresh_seq` and `maxage_flush` findings.
- **`UpdatesClassifiedAsSpec`**: every update that `receiveUpdate` takes off
  a link is classified against the receiver's copy as `SpecCompare` would
  classify it. This holds even though the two orders differ on some pairs:
  ages advance only while nothing is in flight, so in a two-router exchange
  no update meets its copy in one of those cases.

### Message-store properties

- **`TypeOK`** includes that every id handed out lies in 1 .. threshold and
  that no store holds more than `max_size` entries. This is checked through
  the wrap.
- **`RecentKept`**: until a type's counter wraps, the last `max_size`
  messages of that type are all stored, each under its own id with its own
  body (spec 3: oldest entries are recycled).

### Fault budgets and bounds

- **`adjacency_safety`**: two routers, `MaxLoss = 1` (any message type),
  `MaxDown = 1`, `EarlyTimeout = TRUE`. 964,610 distinct states in about
  1.5 minutes. The loss and the expiry can happen at any point of the
  exchange, and early timeouts duplicate DDs, requests and updates.
- **`line_flooding`**: three routers, `MaxLoss = 1` (a request, update or
  ack), `EarlyTimeout = FALSE`, under `FairSpec`. 161,184 distinct states
  in about two minutes. A lost DD is left out because it is already known
  to stall the adjacency (`lost_dd`). `adjacency_safety` covers a lost DD
  for the safety properties on two routers.
- **`loss_recovery`**: one lost request, update or ack, and one link-cost
  change at any point. The loss can hit the re-originated LSA's update or its
  ack, and the change can come during any state of the exchange.
- **`route_computer`**: 431,679 distinct states in under a minute. Every
  database shape of the families above is an initial state.
- **`lsa_faults`**: one re-origination (`MaxChange = 1`) and a link that may
  fail. This is enough for a refresh to cross a re-origination and for the
  bounce of `receiveUpdate`'s OLDER branch. The origination time varies over
  `0 .. RefreshTime`, so both timer phases occur before the first change.
- **`message_store`**: updates and acks, a store of 2 entries, a threshold
  of 3, six messages per type and two resends. This is 43,118 distinct
  states. The run covers recycling before the wrap, the wrap itself, a
  resend of an evicted id, and the abort of `newMessage` when a reissued
  update id is still stored.
- **`stale_ack`**, **`link_revived`**: two routers, one cost change. For
  `stale_ack`, add one lost update and early timeouts. For `link_revived`,
  add one inactivity expiry.

### Fairness

`FairSpec` assumes what the ns-2 scheduler does: it runs every event it has
queued. A packet on a link is delivered, a scheduled timer fires, and the
Tcl agent's hello timer calls `sendHellos` periodically.

- `SendHellos` is weakly fair for each router.
- For each link, `LinkDelivers` says that a link which is not empty
  infinitely often has its head taken by the receiver infinitely often. A
  loss does not count as taken. This is weak fairness of the link's
  receives: a link is FIFO, and the receive of its head is enabled exactly
  when the link is not empty.
- `HelloDelivered` says the same of a Hello in flight.
- The two retransmission timers of a neighbour are weakly fair together,
  which is weaker than fairness of each.

The link and Hello conditions are stated on the channel and the Hello flag,
rather than as `WF` of the receive actions. This is the same assumption, but
TLC then does not re-evaluate whole handlers on every transition. With `WF`
of each receive, the three-router check took about ten minutes instead of
two.

`LoseMessage` and `InactivityExpiry` are faults and have no fairness. Their
budgets make them finite, so `Converges` means "after the last fault".

`RouteComputer` is a single sequential function, so `WF_vars(Next)` is
justified there.

### Mutants

Every property of a passing run is also checked against a plausible bug in
the operator it depends on. TLC must report a violation for each of these:

- `IsSlave` without the id comparison;
- `ProcessPacket` requesting only missing LSAs, not newer ones;
- `ExchangeDoneEvent` going to FULL without looking at the request list;
- `SendFlooding` sending only to FULL neighbours;
- `MessageOut` storing an update without scheduling `updateTimer_`;
- `ResendMessages` resending the pending DD entry instead of its message;
- `PopShortestPath` keeping an emptied entry;
- `PopShortestPath` never erasing an entry;
- `ExamineLink` using topology 0's metric for every topology;
- `AgeLSA` refreshing one tick late;
- `AgeLSA` with a negative initial sequence number;
- `LookupLSA` comparing sequence numbers only (it breaks both
  `FaultFreeNoLsaBeyondMaxAge` and `UpdatesClassifiedAsSpec`);
- `LookupLSA` with the sequence comparison swapped;
- `NextId` reset only once it has passed the threshold;
- `Recycle` one entry early.

## Findings

1. **DDs in EX_START and slave DDs are never retransmitted (`ospf.cc:1929`).**
   `sendDD` arms the retransmission timer only for a master whose neighbour
   is not in EX_START. In run `lost_dd`, router 2's initial DD is lost, and
   both routers then stay EX_START masters forever. A lost slave reply
   likewise leaves the master in EXCHANGE for good. The spec says DDs are
   resent until acknowledged.
2. **An acknowledgement of an old instance cancels the new one
   (`ospf.cc:2757`).** `receiveAck` matches the retransmission list by LSA
   key, not by instance. In run `stale_ack`, a link-cost change re-originates
   router 1's LSA while an early retransmission of the previous instance is
   still being acknowledged. The update carrying the new instance is lost.
   The second acknowledgement of the old instance then removes the new
   instance from the list, and `messageIn(ACK)` forgets the pending update.
   The two routers end FULL and quiet with different databases.
3. **A cost change revives a dead link (`rtProtoOSPF.cc:265`).**
   `intfChanged` builds every link with the `RouterLinkState` default,
   `LS_STATUS_UP`. In run `link_revived`, the inactivity timer marks the link
   to router 1 down. A cost change then re-advertises that link as up,
   although no hello has come from router 1. Spec 4.2 says the link stays
   Down.
4. **`path_cost` carries over between links (`ospf.cc:3801`).** A link with
   no `MTLink` for topology i keeps the previous link's cost. For the first
   link, the cost is uninitialised. The link's far end then gets a topology-i
   route through a link that does not carry i (run `route_partial`).
5. **The refresh resets the sequence number (`ospf.cc:3479`).** `ageLSA`
   builds the refreshed instance in a fresh local whose sequence number is
   assigned from itself, so it is 0. The spec (4.4) asks for an incremented
   sequence number. After one re-origination, the neighbour bounces its newer
   copy back and the originator installs it. That copy carries a flooding
   delay in its age, so the originator never refreshes it again (run
   `refresh_seq`).
6. **MaxAge is never hit exactly (`ospf.cc:3506`).** `ageLSA` flushes only
   when `LSage_ == MAX_AGE`. A flooded copy's age includes a fractional
   InfTransDelay. With the link up, the refresh bug of finding 5 makes the
   originator install the neighbour's bounced copy, aged 7 ticks plus one
   delay; neither the refresh test nor the MaxAge test ever matches that
   age, and the originator's own LSA ages past MaxAge for good (run
   `maxage_flush`).

### Recorded as hazards

These problems are recorded in `PROJECT.json` as hazards with a note, not as
runs.

- **`resendMessages` drops the update timer (`ospf.cc:1047`).**
  - When `updateTimer_` fires while a request is pending, `resendMessages`
    resends the request, reschedules `ackTimer_` and returns.
  - The pending updates are not resent, and `updateTimer_` is never
    scheduled again.
  - TLC finds `Converges` violated in this configuration: `MaxLoss = 2`
    (requests, updates or acks), `MaxCost = 1`, `EarlyTimeout = FALSE`.
    The cost change comes just after LOADING, and the re-originated update is
    lost.
  - `loss_recovery`, with one loss, passes.
- **`delAllLists` keeps the retransmission list (`ospf.cc:1499`).**
  - It erases that list only when the list is already empty.
  - After an inactivity expiry, the neighbour is DOWN with unacknowledged
    LSAs still queued.
  - `SyncWhenQuiet` shows that this does no lasting harm between two
    routers.
- **`lookupLSA` differs from the spec's order (`ospf.cc:486`).** See
  `LsaCompare` above.
- **Message ids wrap (`ospf.cc:661`).**
  - After the wrap, `erase(begin())` evicts the newest message.
  - Without its guard, `RecentKept` fails right after the wrap.
  - An id reissued while it is still stored makes the insert fail, and
    `ls_error` aborts the simulation (`ospf.cc:713`). `message_store`
    reaches that state. In the code, that takes 2^31-2 messages of one
    type.

`PROJECT.json` lists every hazard, with the properties that would catch it
or a note saying why none does.

## Not modelled

- **Liveness with early timeouts or cost changes on three routers.** A
  3-router line with one cost change exceeds 2.5 million states in three
  minutes even for safety alone. Liveness is checked on two routers with a
  cost change (`loss_recovery`) and on the line without one
  (`line_flooding`), both without early timeouts.
- **Link metrics.** The LSA keeps only the set of up links. So the metric
  copying in `OspfTopoMap::update`'s per-link loop is left out; the rest of
  `update` is `TopoUpdate`. `RouteComputer` takes metrics from its input
  database.
- **`updateRoutingTable`** (`ospf.cc:357`). It only decides whether
  `receiveUpdate` calls `computeRoutes`, which changes no protocol state.
  It writes `=` for `==` in its age and length tests, assigning into local
  header copies. So it returns true for every newer instance whose age is
  not MAX_AGE (and in practice for every one), and its metric comparison is
  dead code. This errs on the safe side: routes are recomputed more often,
  never less. It is recorded as a hazard.
- **`interfaceChanged`.** It re-reads the peer list from Tcl; the models
  take the peers as a constant.
- **Evicted ids in the adjacency model.** In `OspfAdjacency`, a store
  eviction before the first read is `LoseMessage`. The repeated loss of every
  resend of an evicted id is shown only by `MessageStore`.
- **The `ls.h` containers.** `linkstate/ls.h` is not in the repository. The
  `LsMap`/`LsList` behaviour is taken as that of `std::map`/`std::list`,
  except that an insert of a present key is taken to fail, as
  `newMessage`'s own test of the result says.
- **The rest of the packet header (`hdr-ospf.h`).** `MessageStore`'s
  `Header` and `GetOspfHeader` model the `type_` and `msgId_` a receiver
  uses. `version_`, `packet_len_`, `router_id_` and `area_id_` are never read
  on receipt.
- **Tcl glue, tracing and route installation.** These are I/O.
- **The sequence-number wraparound branch of `receiveUpdate`.** It is in
  `LsaLifecycle`, but the bounded runs never reach it.
