# TLA+ models of the desktop client's daemon connection

This directory holds TLA+ models of the UI side of the desktop VPN client in
`src/`. That client drives a privileged daemon over a local TCP connection
carrying newline-terminated JSON. Each module is translated from the source
named in `PROJECT.json` ("map"). Each `.cfg` file is one TLC run.

## 1. Inventory

### Components

| Component | Source | State it keeps | Operations |
|---|---|---|---|
| Frame codec | `daemon-client/index.js` 510-542 (`onDataReceived`), 143-172 (`toJson`), 195 | `receivedBuffer` (the unterminated tail) | decode a chunk (`toString`), split on `\n`, pass frames to `processResponse`; serialise a request |
| Waiter registry | index.js 49-56, 174-254, 477-507 | `requestNo`, `waiters[]`, one timer per waiter | `send`, `addWaiter`, `sendRecv`, response timeout, the waiter loop of `processResponse` |
| Numeric bridge | index.js 143-172 (`toJson`) | none (counters local to a call) | BigInt → `"<n>#bigint"` → bare numeral; fails when more patterns are stripped than were inserted |
| Session machine | index.js 548-714 (`ConnectToDaemon`) | `socket`, `daemonConnectionState`, `daemonIsOldVersionError`, `_onDaemonExitingCallback` | destroy the old socket, read the port file, connect, Hello handshake, server-list wait, `close`/`error` handlers |
| Dispatcher / projection | index.js 287-475; `store/module-vpn-state.js`; `store/index.js` | the Vuex store: `vpnState.connectionState`, `pauseState`, `firewallState`, `servers`, `location`, settings epoch, DNS abilities | one branch per response command |
| Control flows | index.js 1000-1027 (PingServers), 1039-1219 (Connect/Disconnect), 1221-1294 (Pause/Resume/EnableFirewall), 851-998 (GeoLookup) | `pingServersPromise`, `connectionRequestId`, `isFirewallEnabledBeforePause`, `_geoLookupLastRequestId` | the user-level operations with their single-flight and cancellation rules |
| Server catalogue, GeoLookup | `module-vpn-state.js` 194-202, 276-348, 468-565; index.js 272-280, 373-449, 851-870 | `servers.data`, `serversHashed`, per-server `ping` | `updateServers` (keeps pings), `updateServersPings`, the `fastestServer` getter |
| Trusted Wi-Fi | `trusted-wifi.js`; index.js 450-455, 664-677 | `lastProcessedRule` | `processWifiChange` on each Wi-Fi mutation: apply the trust rule by calling Connect/Disconnect/EnableFirewall/Resume; `IsCanAutoConnectForCurrentSSID` for the auto-connect on launch |
| App updater | `src/app-updater/index.js` | timers only | periodic update check (out of the core, spec 1) |
| Port-file path, config | `helpers/main_platform.js`, `config.js` | constants | platform-dependent paths (pure I/O) |
| Diagnostics (Sentry) | `sentry/sentry.js` | Sentry enable flag | report submission (out of the core, spec 1) |
| Browser extension | `other/chrome-extension/*.js` | its own websocket, chrome storage | badge/icon UI (out of the core, spec 1) |

### How the components interact

Everything runs on Node's single-threaded event loop. Nothing runs in
parallel, but any `await`, timer or socket callback lets other work run in
between. The steps involved are:

- socket `data` events;
- the timers of `addWaiter`;
- `setTimeout(…, 0)` continuations (GeoLookup requests, auto-connect, Wi-Fi rules);
- the continuations of awaited `sendRecv` calls.

The control flows call `sendRecv` or `send`. These register a waiter and
write one JSON line on the module-level `socket`.

`onDataReceived` cuts the stream into frames and calls `processResponse` on
each frame without awaiting it. `processResponse` first projects the frame
into the store. It then settles the waiters the frame matches:

- by `Idx`, or
- by the command lists of the waiters.

Because `processResponse` is `async`, three of its branches can be suspended
before the waiter loop runs. While a branch is suspended, later frames are
processed:

- `ConnectedResp` while paused (`await ApplyPauseConnection()`);
- `DisconnectedResp` with `firewallDeactivateOnDisconnect` (`await EnableFirewall(false)`);
- `SetAlternateDNSResp` with an error (a message box).

The store is shared with the renderer through shared mutations. The
trusted-Wi-Fi rules subscribe to store mutations and call back into the
control flows.

### What is hard here

- **Interleavings of awaits.** Pause and Resume can interleave: each checks
  `pauseState`, awaits the daemon, and then writes `pauseState` and the
  firewall. Connect awaits `PingServers` and is cancelled by comparing
  `connectionRequestId`. The Wi-Fi rules run Disconnect, then EnableFirewall,
  then Connect, one after another with awaits in between.
- **Stale closures over module state.** The `close` and `error` handlers of
  a socket write the module variable `socket`, whichever socket is current at
  that moment. A handshake continuation keeps running after its socket died.
- **Crash and reconnect.** `receivedBuffer`, `waiters` and `requestNo`
  survive `ConnectToDaemon`. Bytes and answers that were in flight are lost.
- **Timeouts racing late answers.** Each waiter has its own timer (10 s,
  11 s, 25 s, or 3 min by default). The timer can fire before a late answer
  arrives.
- **Encoding.** Each chunk is decoded as UTF-8 on its own. BigInts go
  through a string sentinel.

### What makes each component correct

- **Frame codec.** The frames passed on are exactly the frames written, on
  this connection, whatever the chunking (reassembly invariance).
- **Numeric bridge.** A request is either written as exactly the intended
  JSON, BigInts as bare numerals, or refused with a throw, and it is refused
  only when a string field would have been corrupted.
- **Waiter registry.**
  - A promise is settled only by an answer meant for it.
  - A frame releases every waiter whose command list names it.
  - A settled waiter is deregistered.
  - Indices are never reused.
- **Session.**
  - The state is Connected only with an open socket.
  - At most one connection is live, and it is the one that `socket` refers to.
  - A failed handshake tears the connection down.
  - Every attempt is answered.
- **Control flows.**
  - A superseded Connect is never transmitted.
  - There is at most one ping sweep, and callers share its result.
  - When quiet, the client's pause state agrees with the daemon's.
  - A superseded GeoLookup never writes the location.
- **Server catalogue.**
  - Pings survive a refresh for servers that still exist.
  - `fastestServer` returns the minimum ping, or else the nearest server, or
    else the first eligible one, skipping the exclude list.

- **Trusted Wi-Fi.** Once network changes are processed, the client is in
  the state that the current network's rule asks for, and
  `lastProcessedRule` records exactly the rule that was applied.

## 2. Modules

| Module | Models | Composition |
|---|---|---|
| `AbstractRpc` | what `sendRecv` promises its callers: promises numbered in call order, each settled once and eventually | the abstract specification that `WaiterRegistry` implements |
| `WaiterRegistry`, `MC_WaiterRegistry` | the waiter registry, with the daemon as a FIFO environment | stands alone; `ControlFlows` assumes its semantics in abstract form (an awaited request completes or fails; its 10 s timeout is not modelled there) |
| `FrameCodec` | `onDataReceived` | composed with `NumericBridge` in `MC_Wire` |
| `NumericBridge`, `MC_Wire` | `toJson` and its use by `send` | `MC_Wire` composes the two directions of the wire: the daemon writes frames only after it has read the client's Hello, which carries the BigInt secret (index.js 591-613) |
| `Session` | `ConnectToDaemon` | stands alone |
| `ControlFlows` | Connect, Disconnect, Pause, Resume, EnableFirewall, PingServers, and the processResponse branches they wait on | the daemon is an environment with its own VPN, pause and firewall state |
| `ServerCatalogue`, `MC_ServerCatalogue` | the server store, `fastestServer`, GeoLookup and the responses that schedule it | shares `connectionState` with the dispatcher branches it contains |
| `TrustedWifi`, `MC_TrustedWifi` | `processWifiChange`, `applyTrustRule`, the auto-connect timer | the daemon-client calls it makes are abstracted to their effect on the client state |

Each map entry in `PROJECT.json` names the source lines that a definition
translates.

### WaiterRegistry (`WaiterRegistry.tla`, `MC_WaiterRegistry.tla`)

State:

- `requestNo`;
- `waiters`, a sequence of `[id, responseNo, list]` in array order;
- `promise[id]`, the state of the promise that `addWaiter` returned;
- `outbox` and `inbox`, the two directions of the socket;
- bounds.

Actions:

- Client:
  - `SendRecv` and `Send`;
  - `AddWaiter`, the bare server-list waiter;
  - `ResponseTimeout`.
- `ProcessResponse`, the waiter loop. It is the RECURSIVE `ScanWaiters`, and
  it keeps the code's splice and step back.
- `Reconnect`: the socket is replaced.
- Daemon:
  - `DaemonReply`: the reply or ErrorResp, in request order;
  - `DaemonNotify`.

Each frame carries a ghost `for` field naming the request it answers.

Run `waiters` (pass) checks three properties:

- `SettledByOwnAnswer`: a promise is settled only by the answer to its own
  request, or by its timer.
- The action property `ListWaitersReleased`.
- `RpcSpec`: `WaiterRegistry` implements `AbstractRpc` (below).

The bounds are 2 requests, 3 waiters (the third is the bare server-list
waiter), 1 notification and 1 reconnect. Within them, three cases happen:

- a reconnect separates a waiter from its reply;
- two waiters sit next to each other on the same command;
- an ErrorResp, a timeout and a late answer all occur.

A third request adds no new case: each case needs at most two requests. It
only makes the liveness part of `RpcSpec` take minutes rather than seconds.

**Refinement.** `AbstractRpc` has a single variable, `calls`. It is the
sequence of promise states in the order `addWaiter` created them.

- `Call` appends a pending promise.
- `Settle(ids, o)` settles a non-empty set of pending promises, all with one
  outcome. A set is needed because one `processResponse` loop can resolve a
  list waiter and an `Idx` waiter on the same frame.
- Its `Spec` asks weak fairness of settling each promise.

`WaiterRegistry` instantiates it with the refinement mapping
`calls <- [id \in DOMAIN promise |-> promise[id].st]`. So every step of the
registry must be a `Call`, a `Settle` or a stutter. This means:

- No settled promise changes state again. A late answer, a second timer, or
  an answer that reaches a rejected waiter still in the array (line 486)
  must all leave it alone.
- Every pending promise is eventually settled.

The liveness half holds because of the per-waiter timer in `addWaiter`
(lines 206-220). `WaiterRegistry.Spec` assumes weak fairness of each
waiter's timer, `TimerFires(id)`. It assumes nothing of the daemon: a lost
request and a request whose reply went to a replaced socket both still end.
The mutant `AddWaiterToUnregistered` creates the promise but does not push
the waiter. It leaves that promise pending forever, and TLC reports
`RpcSpec` violated.

The module also states `SettledWaiterDeregistered`. An ErrorResp rejects the
waiter, but the `continue` at line 486 leaves it in the array until its
timer fires (3 min by default). This is listed as a hazard and not run,
because the stale waiter only delays its own deregistration.

### FrameCodec (`FrameCodec.tla`)

The characters are "A" (one byte) and "U" (two bytes).

- `Decode` models `Buffer.toString`, including U+FFFD for broken sequences.
- `Split` models `split("\n")`.
- `DataReceived(k)` delivers the next k bytes as one chunk, for every k.

Runs:

- `wire` (pass, module `MC_Wire`): `ReassemblyInvariance` and, for the
  outbound side, `BridgeExact` (see NumericBridge below). Payloads are ASCII,
  frames have up to 3 characters, there are 3 frames, and every chunking is
  explored.
- `framing_utf8` (violation): a two-byte character cut between two chunks
  decodes to two U+FFFD characters.

`receivedBuffer` is not cleared when the connection is replaced. A partial
frame of the old connection is then glued to the first frame of the new one.
With the constant `CloseMidFrame = TRUE`, TLC violates `ReassemblyInvariance`
after one reconnect. This is recorded as a hazard that the property covers.
The `wire` run keeps the constant FALSE so that it checks chunking alone.

### NumericBridge (`NumericBridge.tla`, `MC_Wire.tla`)

`toJson` (index.js 143-170) is modelled character by character.

- The alphabet is small. "1" is a digit, "-" a minus sign, "Q" the double
  quote, "S" the backslash, and "x" any other character. "B" stands for the
  seven characters `#bigint`. A match needs all seven in a row, so they can
  be one symbol.
- `Quote` is `JSON.stringify` of a string, which escapes `"` and `\`.
- `Replacer` turns a BigInt into `"<digits>#bigint"`. `intCount` counts the
  BigInts.
- `Stringify` serialises a request object; `Serialized` is the call with the replacer.
- `MatchAt` and `RegexReplace` are the global replace of
  `/"(-?\d+)#bigint"/`. It takes leftmost, non-overlapping matches and counts
  them (`repCount`).
- `ToJson` throws when `repCount > intCount`.
- `Send(req)` is send's call of `toJson` followed by `socket.write`.

`Intended` is the reference encoding: BigInts as bare numerals and strings
intact. The auxiliary variable `sendResult` records how the text `send`
wrote compares with it.

`BridgeExact` (spec 4.3 and 8) says that `toJson` either writes exactly the
intended JSON or throws. It also says that it throws only when the post-pass
would have corrupted a string. The tricky input is a string that contains
`"1#bigint`: its escaped quote lets a match start inside the string. TLC
checks it over every request of up to two fields: the Hello's BigInt secret
(one or two digits) and at most one string of up to 3 characters over the
whole alphabet, in either order: 1301 requests. The property holds: a match
can only end at a closing quote, so a colliding string always adds a match,
and it never hides the match of a BigInt.

Without the count check (`ToJsonUnchecked`, the mutant), the run writes
corrupted JSON silently.

`sendRecv` registers its waiter before it calls `send`. What a throw leaves
behind there is listed as a hazard (index.js:252).

### Session (`Session.tla`)

Attempt a creates socket a. The state is:

- `pc[a]`, where attempt a is;
- `sock[s]`, the life of socket s;
- the module variable `socket`;
- `daemonConnectionState`;
- `daemonIsOldVersionError`.

`IoPhase` encodes Node's loop order: the `close` of a destroyed socket comes
before any I/O event of another socket.

`Overlapping` controls whether a second call may start before the first one
settles. It is TRUE in `session` and `session_connected_after_close`, and
FALSE in `session_stale_socket`.

Runs:

- `session` (pass, 2 attempts): the liveness property `HandshakeEnds`.
- `session_stale_socket` (violation): `LiveConnectionReferenced`. The calls
  run one after the other. A destroyed socket's `close` handler runs after
  the new socket has been assigned, and nulls it.
  With `Overlapping = TRUE` the same property also fails through two
  overlapping calls, which leave two sockets connecting (hazard at line 553).
- `session_connected_after_close` (violation): `ConnectedHasSocket`. The
  socket errors during the server-list wait, yet the handshake continuation
  still sets Connected.

`HelloResp` is the HelloResp branch of `processResponse` (lines 315-320)
together with the Hello waiter it releases. For an outdated daemon the branch
returns at line 319, before the waiter loop. The Hello waiter is therefore
left pending (`pc = "hello_unreleased"`), and only its 10 s timer ends it,
through `HelloFailed`. The continuation's unsupported-version disconnect
(lines 639-647) only runs after the waiter resolves, and by then
`daemonIsOldVersionError` is FALSE. So that branch is never taken, and the
model leaves it out. An outdated daemon's handshake therefore never gets
past the Hello; no property restates that, since it is the guard of
`HelloResp` itself.

Two simplifications of the source:

- `ErrorEvent` is the socket's `error` handler together with the `close`
  event Node emits after it. Both null `socket` and set Disconnected.
- Only `ConnectToDaemon` is modelled as starting a socket. The `new
  net.Socket()` at module load is never connected, so `Init` has `socket`
  null.

A Hello that times out or gets an ErrorResp rejects the attempt but leaves
the socket open and the state Connecting. Every handshake with an outdated
daemon ends this way, whereas spec 4.4 step 6 says the client disconnects.
This is stated as `FailedAttemptReleasesSocket`. TLC violates it in four
steps, and it is recorded as a hazard that no run checks.

### ControlFlows (`ControlFlows.tla`)

Every call is a record in `flows` with the label where it is suspended.
`connectionRequestId`, `pingOwner` (`pingServersPromise`) and
`isFirewallEnabledBeforePause` are module variables. The daemon takes
requests in FIFO order. The VPN store mutations the branches commit are
operators: `SetConnState` (`connectionState`), `ConnectionInfo` and
`Disconnected`.

With the fastest-server policy, Connect awaits `PingServers` only when the
`fastestServer` getter returns null. Missing pings are not enough: without
them the getter falls back to the nearest or first applicable server. It is
null only when no active server lies outside `serversFastestExcludeList`.
The server list is not modelled here (`ServerCatalogue` models it), so
`noFastest` is chosen in `Init` and never changes. The request waiters'
10 s timeouts are not modelled: the daemon answers every request.

Runs (3 user calls and 1 spontaneous daemon event):

- `controlflows` (pass), which checks three properties:
  - `ConnectCallsOrdered`: Connect and Disconnect requests reach the daemon
    in call order.
  - `PingSingleFlight`: at most one ping sweep is outstanding.
  - `CallsReturn`: every call that suspends returns. This covers four
    cases: a Disconnect released by a DisconnectedResp whose projection
    first awaits the firewall; PingServers callers that joined a sweep in
    progress; the firewall steps of Pause and Resume; and the
    `processResponse` branches that await.
- `controlflows_pause_race` (violation): `PauseStateAgrees`.
  `ApplyPauseConnection`'s `finally` sets Paused after a Connect has resumed
  the daemon.
- `controlflows_ping_failure` (violation): `ConnStateAgrees`. A superseded
  Connect's catch marks the client DISCONNECTED while the newer tunnel is up.
  The superseded Connect awaited the sweep, so it needs a null
  `fastestServer`.

### ServerCatalogue (`ServerCatalogue.tla`, `MC_ServerCatalogue.tla`)

State:

- `servers`, a sequence of `[gateway, flag, hosts, ping]`;
- the exclude list `skip`;
- the connection state;
- the GeoLookup state: `location`, `locationIPv6`, `lastRealLocation`, the
  two requesting flags, `_geoLookupLastRequestId`, and pending
  `requestGeoLookupAsync` timers.

The store operations are operators:

- `UpdateServers`, with `HashByFlag` and `CopySvrsDataFromOld` (a FoldLeft);
- `UpdateServersPings`, where `PingFor` takes the first host with a result;
- `FastestServer`: `PingLoop` is RECURSIVE, and `NearestLoop` reads
  `servers[i]` as the code does.

Actions:

- `ServersArrive` and `PingsArrive`;
- `SetExcludeList`, which is spec-modelled because the settings module is
  not under `src/`;
- the store mutations `location` and `locationIPv6` (`store/index.js`
  lines 237-252), as `LocationMutation` and `LocationIPv6Mutation`.
  `GeoLookup` commits both with null, in the code's order.
- the dispatcher branches `VpnStateResp`, `ConnectedResp`,
  `DisconnectedResp` and `KillSwitchStatusResp`;
- `RequestGeoLookup` and `GeoLookup`.

The model has three servers on two flags, with one server that has two hosts,
two server lists and pings in {0,1,2}. It keeps a ghost `last`, which records
the latest list or sweep.

Runs:

- `catalogue` (pass), which checks three properties:
  - `FastestNotExcluded`: `fastestServer` never returns an excluded server.
  - `FastestByPing`: it returns a least positive ping when there is one.
  - `PingResultsApplied`: a sweep sets exactly the pings it reports.
- `catalogue_pings_lost` (violation): `PingsPreserved`. `updateServers`
  hashes by `flag` (line 530) but looks up by `gateway` (line 543). A refresh
  therefore drops every ping.

One more property is stated but not run, and it is a hazard:

- `GeoLookupSettles`: it fails at once, because `GeoLookup` never issues the
  requests (lines 867-869 are commented out).

### TrustedWifi (`TrustedWifi.tla`, `MC_TrustedWifi.tla`)

State:

- the settings (`wifi`), drawn from `WifiConfigs`;
- `currentWiFiInfo`;
- `lastProcessedRule`;
- pending processWifiChange `timers`;
- suspended `runs`;
- `client`: connection, pause, firewall, persistent mode, and
  `isFirewallEnabledBeforePause`;
- the launch timer.

A run's `Plan` is the list of calls of `applyTrustRule` (or the
insecure-network Connect). `Advance` executes the synchronous code up to the
next await:

- `Guard` holds the tests in front of each call;
- `Sync` is the part of each daemon-client call before its await;
- a throwing `EnableFirewall(true)` ends the run.

The daemon's answer to an awaited call always succeeds in `Complete`. An
ErrorResp or a 10 s timeout of Disconnect, KillSwitchSetEnabled or Connect
would throw out of `applyTrustRule`. That would leave the rest of the plan
undone and `lastProcessedRule` unwritten. This is not modelled.

`SettingsWifi` is a user edit of the settings. The store subscription
(lines 29-35) reacts to a `settings/wifi` commit as it does to
`currentWiFiInfo`: it puts `processWifiChange` on a timer.

`RunResumes` completes the awaited call (`Complete`) and advances.
`Proceed` writes `lastProcessedRule` only when the plan finishes.

`MC_TrustedWifi` has two networks and four settings:

- trusted control with s1 trusted and the default untrusted;
- s1 listed twice, the first entry winning, with no default;
- control off, with connect on insecure networks;
- nothing listed and the default trusted.

All 16 start states of the client are included (64 initial states with the four settings).

Run `trustedwifi` (pass, 3 network changes or settings edits) checks two
properties:

- `QuietAgrees`: when nothing is pending, the client matches the rule of the
  current network. The exception is a client with
  `firewallDeactivateOnDisconnect`. For it, a tunnel that drops or fails to
  connect runs `DisconnectedResp` (`OnDisconnectedResp`), which turns the
  firewall off (lines 398-400; a no-op in persistent mode). Nothing runs
  the rule again. Without this exception TLC violates the property in four
  steps, and it is recorded as a hazard.
- `RuleRecorded`: `lastProcessedRule` holds that network and its rule.

Three choices give the cases this run excludes. TLC finds each one
violated. They are recorded as hazards and not run.

- `Overlap = TRUE` lets a network change arrive while a run is suspended.
  The older run then finishes last and records the old SSID, so
  `RuleRecorded` fails.
- `AutoConnectOnLaunch = TRUE` exposes `IsCanAutoConnectForCurrentSSID`,
  which ignores `defaultTrustStatusTrusted`. On an unlisted network whose
  default is trusted, the client auto-connects against the rule, so
  `QuietAgrees` fails.
- A settings value that gives a network the same trust status with other
  actions. The skip test (lines 108-114) says in its comment that it skips
  "for same network with the same actions", but it compares only the SSID
  and the trust status. With Strict and a copy of it without
  `trustedDisableFirewall`, TLC violates `QuietAgrees` in four steps:
  1. s1 is joined;
  2. the trusted rule is applied;
  3. the user turns the action on;
  4. `processWifiChange` skips the rule, and the firewall stays on.

  The four settings values of `MC_TrustedWifi` contain no such pair.

## 3. Fairness

- `WaiterRegistry` assumes weak fairness of each waiter's response timer
  (`TimerFires(id)`). The event loop runs a `setTimeout` callback once it is
  due, and `addWaiter` arms one for every waiter. Nothing is assumed of the
  daemon. `RpcSpec` needs this fairness.
- `Session` assumes weak fairness for the things the event loop does run:
  - I/O callbacks (`close`, `error`);
  - the timers;
  - the continuation after the port file is read;
  - the completion of a TCP connect.

  Nothing is assumed of the daemon or of the caller.
- `ControlFlows` assumes weak fairness for three things:
  - processing frames, because the event loop runs every data callback;
  - serving requests and finishing ping sweeps, because the daemon is a
    cooperating black box (spec 1).

  Nothing forces the user to call anything, or the tunnel to drop.
- `ServerCatalogue` assumes weak fairness of the `requestGeoLookupAsync`
  timer. This fairness is needed only by `GeoLookupSettles`.
- `TrustedWifi` checks only invariants, so it needs no fairness.

## 4. Bounds and deadlock

Every model bounds its counters with named constants (`MaxCalls`,
`MaxUpdates`, `MaxChanges`, ...). The bounds are chosen so that the cases the
properties are about actually happen within them: overlapping calls, a
reconnect, a refresh after a sweep, and a network change after a rule.

A state where nothing is pending is a real resting state of the client, an
idle event loop. So the runs set `CHECK_DEADLOCK FALSE`.

## 5. Not modelled, and why

- **Out of the core (spec 1).** The app updater, Sentry, the browser
  extension, and the platform paths are pure I/O or UI.
- **A throwing `send` inside `sendRecv`.** The waiter stays registered
  (hazard at index.js:252). `WaiterRegistry` assumes `send` succeeds.
- **The inbound direction of the numeric bridge.** There is none: responses
  are read with plain `JSON.parse` (index.js:288).
- **`doGeoLookup`.** Nothing calls it: the two calls in `GeoLookup` (lines
  867-869) are commented out.
- **Account flows** (Login, Logout, AccountStatus, SessionStatus) **and DNS
  flows** (SetDNS, SetUserPreferences, the anti-tracker setters). Each one is
  a single `sendRecv` followed by store commits. The waiter semantics they
  rely on are checked in `WaiterRegistry`. The two races they do add are
  listed as hazards and not run:
  - Logout restores `isExpectedAccountToBeLoggedIn` after a timeout that
    raced a late answer (line 763).
  - A failed SetAlternateDNSResp awaits a message box before the waiter loop
    (line 419).

  Checking them needs a model of its own and a run of its own. Whether two
  account calls can overlap depends on UI code outside `src/`.
- **Split tunnelling and the other setters.** Examples are
  `SplitTunnelAddApp`, `KillSwitchSet*` and `SetAutoconnectOnLaunch`. Each is
  one `sendRecv` plus process spawning or settings I/O, with no client state
  that a property could relate.
- **Projection branches that only copy fields.** These are ConfigParamsResp,
  AccountStatusResp, SplitTunnelStatus and DnsPredefinedConfigsResp.
- **JSON payloads.** They are abstracted to their command and `Idx`.
- **Nested awaits in Trusted Wi-Fi.** `ResumeConnection` awaits
  `EnableFirewall(true)` inside itself. `TrustedWifi` completes the two as
  one step.
- **User pause while a trust rule runs.** `TrustedWifi` has no user pause.
  Pause races are the subject of `ControlFlows`.
