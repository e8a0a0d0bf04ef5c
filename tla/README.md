# A TLA+ model of the ioBroker adapter for Bosch Smart Home cameras

The adapter (`src/src/main.ts` and `src/src/lib/`) is one Node process. It logs in to
Bosch's cloud, mirrors the cameras' state into ioBroker data points, carries out what
users write to those data points, and serves each camera's RTSP stream through a local
TLS proxy. Node runs one callback at a time, so nothing here is a data race; what is
hard is that nearly every handler is `async` and every `await` lets any other handler
run.

This project models that behaviour in TLA+, model-checks it on small instances with TLC
and proves its safety properties, and one refinement, with TLAPS for every instance.
Line numbers refer to `src/src/main.ts` unless another file is named.

## Inventory

| Component | State | Operations | Interacts with |
|---|---|---|---|
| Stream lifecycle (1264-1481, 2418-2591, 2900-2971) | `_liveSessions`, `_tlsProxies`, `_sessionRemote`, `_stickyProxyPort`, `_sessionWatchdogs`, `_livestreamEnabled`, `_streamQuality`, `_snapshotIdleTimers`, `stream_url` | `ensureLiveSession`, `upsertSession`, `_teardownStream`, `_armSnapshotIdleTeardown`, `handleLivestreamToggle`, `handleStreamQualityChange`, `handleSnapshotTrigger` | live session API, TLS proxy, watchdog |
| Session watchdog (`lib/session_watchdog.ts`) | `_running`, `_timer`, `_session` | `start`, `stop`, `_arm`, `_renew` | calls back `openSession`, `onRenew`, `onError` of the stream lifecycle |
| Live session API (`lib/live_session.ts`) | none here; the session is Bosch's | PUT and DELETE `/connection` | Bosch cloud |
| TLS proxy (`lib/tls_proxy.ts`) | `server`, `activeSockets`, `failCount`, `firstFailAt` | `startTlsProxy`, a connection's events, breaker, `stop` | stream lifecycle; RTSP authentication, one per connection |
| RTSP authentication (`lib/rtsp_auth.ts`, `digest.ts`) | `mode`, `clientBuf`, `remoteBuf`, `pendingFirstRequest`, the challenge | `data` of either socket, `setImmediate` | TLS proxy |
| Login and tokens (1151-1248, 1547-1655, 1670-1840, `lib/auth.ts`) | access and refresh token, refresh timer, secrets in the adapter's configuration | login by pasted redirect, refresh loop, migration of secrets, `resetLogin` | everything that calls the cloud |
| State synchronisation (358-364, 1957-2208, 2693) | `_stateCache`, the data points and their ack flags | `upsertState`, `onStateChange`, the 30 s poll | users, the Bosch app |
| Lights, wallwasher, siren (2325-2403, 2726-2880, `lib/alarm_light.ts`) | `_lightingCache` | one to three PUTs per write | state synchronisation |
| Events and motion (1850-1940, 2222-2310, 2606-2690, 2982-2998) | `_lastSeenEventId`, `_motionActiveTimers`, `_eventPollTimer`, `motion_active` | `fetchAndProcessEvents`, `onFcmEvent`, `triggerSyntheticMotion`, `_startEventPolling` | FCM listener, snapshots |
| FCM listener (`lib/fcm.ts`) | registration, socket, `info.fcm_active` | `start` in iOS, then Android mode; push, close; `stop` | events |
| Reachability (3027-3057) | failure counters | `markCameraReachability` | snapshots |
| Discovery, snapshot fetch, object tree | none | one request each; objects from literals | start-up |
| Adapter lifecycle (1670-1947, 3066-3150) | all of the above | `onReady`, `onUnload` | everything |

What makes a component correct, in one line each:

- *Streams*: at most one proxy, one watchdog and one session per camera, all of them
  known to the adapter; a stream that is off costs no quota for longer than the idle
  window; a stream that is on is renewed and not disturbed by snapshots; what is
  published works.
- *Watchdog*: one renewal at a time, none after `stop`, and never a registered watchdog
  that will not renew.
- *Proxy and authenticator*: no client waits for ever; after `stop` or the breaker
  nothing listens.
- *Tokens*: while the adapter says it is connected, a refresh is ahead; a login that was
  reset stays reset.
- *State*: what a data point shows is what the cloud last said or the user last asked
  for, and a change made in the app reaches it.
- *Lights*: the published state is that of the camera also when one of several requests
  failed; overlapping writes are not lost.
- *Events*: an event is reported, and not twice; `motion_active` goes off again; the
  status says how events are received, and some way to receive them is in use.

`PROJECT.json` lists the hazards of this code, each with its line.

## What is modelled

### `StreamSession`: the stream lifecycle and the watchdog of one camera

Every map involved is keyed by camera and no handler touches another camera's entry, so
the module models one camera and a map entry is a variable (`None` when absent). A
handler under way is an element of `Tasks`; its record in `task` holds the await it is
suspended at (`pc`) and the locals that live across it. A step is the code between two
awaits.

| Code | Model |
|---|---|
| `ensureLiveSession` | `Entering` (cache test, quality), `CloudOpens`, `SessionOpened`, `ArmWatchdog`, `OpenFails` |
| `upsertSession` | `SessionOpened` (hot reuse or not), `ProxySwapped`, `ProxyStarted`, `ProxyStartFails`, `PublishUrl` |
| `SessionWatchdog` | `RenewFires`, then the steps of `upsertSession` as `onRenew`, `RenewDone` (`_arm`), `RenewFails` (`stop`, `onError`), `StopWatchdog` |
| `_teardownStream` | `BeginTeardown`, `ProxyStopped` (when `StopReturns`), `CloudCloses` or `DeleteLost`, `SessionClosed` |
| `handleSnapshotTrigger` | `SnapshotTrigger`, `SnapshotFetching`, `SnapshotDone` (the `finally` block) |
| `_armSnapshotIdleTeardown`, `_cancelSnapshotIdleTeardown` | `idleTimer`, `IdleFires`, `CancelIdle` |
| `handleLivestreamToggle` | `LivestreamOn`, `LivestreamStarted`, `LivestreamOff` |
| `handleStreamQualityChange` | `QualityChange`, `QualityClosed` |
| the breaker of `startTlsProxy` | `BreakerOpens` |
| connections that outlive a tripped breaker (external) | `lingering`, `ConnectionsEnd` |
| a session ended by Bosch or the camera (external; 1268, 2438, 2509) | `SessionEnds` |

Abstractions:

- *Time.* A timer that is armed may fire at any later moment, and a cached session may
  reach `SESSION_TTL_MS` at any moment (`SessionAges`). Hence the model has every
  behaviour of every choice of the three durations. It cannot say what the comment at
  222-227 claims about two of them being equal.
- *Requests.* A PUT or DELETE has two steps, Bosch serving it and the answer arriving,
  so that two requests can be served in one order and answered in the other. `Faults`
  says what can go wrong: a PUT refused or its answer lost, a DELETE lost, no port to
  bind, the breaker. A missing access token looks like a refused PUT or a lost DELETE.
  `adrift` is history: the session open at Bosch is one whose answer or whose DELETE was
  lost.
- *The end of a session.* Whatever Bosch holds open may end by itself at any moment
  (`SessionEnds`), which is also what follows a refused renewal: nobody tells the
  adapter, and the cached session stays as it is.
- *Connections.* A proxy's connections are `TlsProxy`'s. Here is only what a teardown
  sees of them: a breaker that trips while others are open puts its proxy into
  `lingering`, and `stop()` of a lingering proxy does not return before they have ended.
- *Names.* A session is a value of `Sessions`, and so is the proxy started with its
  credentials and the watchdog created for it. A name nothing refers to any more is
  given out again, so the behaviours are unbounded with a handful of names. When none is
  left the PUT is refused, which is what Bosch does at its quota (444).
- *URLs.* `stream_url` and `stream_url_sub` are always written together and are one
  variable, the proxy whose address is shown; their text is left out.
- *Left out.* Ports, the picture itself, restart and unload of the adapter, and errors
  of the ioBroker database itself.

### `TokenLifecycle`: login, tokens and their renewal

Three handlers can be under way at once and write the same data points: `onReady`
(`"boot"`), the refresh loop (`"renewal"`) and `resetLogin` (`"reset"`). A handler's
record holds the await it is suspended at and, in `todo`, the writes it has still to
make before it gets there, each a step of its own (`Write`). `stored` is what survives a
restart: the data points `info.*` and `redirect_url` in the instance's configuration.
`Stop` ends the process between any two steps; it stands for a crash, for the host, and
for ioBroker restarting an instance whose configuration changed, which
`handleRedirectPaste` itself causes by clearing `redirect_url`.

| Code | Model |
|---|---|
| `onReady` to 1681 | `Start` |
| `loadStoredTokens`, 1682-1729 | `Load`, `SilentRefresh`, `SilentRefreshFails`, `NoTokens` |
| `showLoginUrl` | `ShowLoginUrl` |
| `handleRedirectPaste`, `exchangeCode` | `RedeemCode` (Bosch), `LoggedIn`, `LoginFails` |
| discovery, 1777-1812 | `Discovered`, `DiscoveryRejected`, `RetryRefresh`, `DiscoveryFails` |
| `saveTokens` | `Save` |
| `scheduleTokenRefresh` | `ArmRefresh`, `RenewalFires`, `Renewed`, `Rearm`, `RenewalFails`, `RenewalRejected` |
| `resetLogin` | `ResetLogin`, `ResetDone` |

Abstractions: a login (an offline session at Keycloak) names both its tokens, and a
refresh token stays good until its login is revoked, so that tokens of one login need
not be told apart. An authorization code is named by the verifier it belongs to.
`pkce_state` goes with the verifier and is never compared by the code. Encryption of the
secrets and `_migrateLegacySecrets` are left out: what is written is what is read; so is
`upsertState`'s comparison with its cache, which never suppresses a write of new tokens.
`loadStoredTokens` reads its data points in one step. Faults are named by the request
they concern (`Faults`).

### `StateSync`: data points, their cache, the poll and the lights

One camera, since every data point and cache entry is keyed by camera. `cloud` is what
Bosch holds, `dp` the data points with their acknowledgement, `cache` is `_stateCache`
and `lighting` `_lightingCache`. A user's write starts a handler in `command`, a tick of
the interval one in `poll`; a request of a handler takes effect at Bosch (`Accept`)
before its answer is handled, and so does a request whose answer is lost (`Lose`, which
may also mean that it never arrived).

| Code | Model |
|---|---|
| `onStateChange` for privacy, siren and lights | `UserWrites`, `Ack`, `Fail` |
| `handlePrivacyToggle`, `handleSirenToggle`, `setPanicAlarm` | `Send`, `NoToken`, then `Accept`, `Refuse` or `Lose` |
| `handleFrontLightToggle`, `handleWallwasherToggle`, `handleLightToggle` | `ReadOther` (`OtherIsOn`), `FrontOn`, `WallOn` |
| `_applyLightingState` | `Send` (`Requests`: two on Gen2, one on Gen1), `SetFront`, `SetWall`, `SetCombined` |
| `handleWallwasherUpdate`, `buildWallwasherUpdate`, `putLightingState` | `Body`, `Send`, `Ack` (which stores the answer in `lighting`) |
| `_startStatePolling`, `fetchCameras` | `Tick`, `CamerasAnswered`, `PollFails` |
| `_pollSingleCameraState` | `ReadPrivacy`, `MirrorPrivacy`, `LightingAnswered`, `ReadLights`, `MirrorLights` |
| `upsertState` | `Upsert` |

Abstractions: the top and bottom LEDs, which the adapter always writes together, are one
light; the brightness of the poll is then that light's. White balance is the colour
`""`, and colours are spelled as the adapter spells them (written in lower case, one is
acknowledged as written and corrected by the poll). Levels are `0..MaxLevel`, one more
than that being a brightness out of range. What `enabled: true` does at Bosch is
external: the model takes full brightness. The answer of a full-body PUT is the body.
The camera list always has the camera and its privacy mode, a Gen2 camera has lights,
and the generation does not change. Left out: `_sirenState`, which nothing reads; the
snapshot that follows a switch (`StreamSession`); the rotation flag; a request still
under way when the adapter restarts. A handler one of whose two Gen2 requests threw
stays under way until the other is answered, so that its late effect is that of a
command that overlaps the next.

Data points outlive the adapter and its caches do not: at the start `dp` shows any of
the camera states in `Starts`, as an earlier run left them, or the defaults, whatever
Bosch holds by then.

Four history values serve the properties only: `writer` (who wrote a data point last),
`frontSeen`, a command's `alone` and `synced`, a poll's `quiet`.

### `RtspSession` and `RtspAuth`: what the proxy promises a recorder, and how it does it

`RtspSession` is the promise of the header of `rtsp_auth.ts`: a session with a camera
that asks for no credentials. What the client sends reaches the camera once and in
order, each request is answered once, and the client hears all the camera says, in
order, and nothing else. It knows nothing of chunks, buffers, challenges or modes.

`RtspAuth` is `attachRtspAuthHandler` for one connection, between a client and a camera.
TCP keeps bytes in order and cuts them anywhere, so the four directions are sequences of
*units*, the pieces the code tells apart: the start line of a message, its blank line
with the headers before it, and bytes that are no message. A chunk is any number of
units; a chunk that ends inside a unit is, to the code, one that ends before it. A step
reads one chunk and handles it to the end, as the `data` handlers do.

| Code | Model |
|---|---|
| `findRtspMessageEnd`, `hasAuthorizationHeader`, `parseResponseStatus`, `injectAuthHeader` | operators of the same names on units |
| `clientSocket.on("data")` by mode | `ClientPassed`, `ClientHeldBack`, `ClientIncomplete`, `ClientDetected`, `ClientInjected` |
| `processClientBuffer` | `Injected` (written), `Incomplete` (kept) |
| `remoteSocket.on("data")` by mode and answer | `RemotePassed`, `RemoteIncomplete`, `RemoteChallenges`, `RemoteUnusable`, `RemoteAnswers`, `RemoteUnchallenged` |
| `setImmediate` after the 401 | `immediate`, which allows one empty chunk |
| client and camera (external) | `ClientSendsRequest`, `ClientSendsData`, `CameraAnswers`, `CameraTakesData`, `CameraPushes` |

There are two kinds of clients (with credentials or without) and four of cameras: one
that takes the proxy's Digest, one that asks for it and refuses it, one that asks for
something else, and one that answers `OPTIONS` to anyone. The camera that refuses is
what becomes of a good one when its session has been renewed: a hot-reused proxy goes on
with the credentials it was started with (1358-1370, 1512-1525).

*The refinement.* `Session == INSTANCE RtspSession WITH accepts <- Accepts, heard <-
Heard`: `accepts` is a function of the kinds of client and camera, `heard` is what was
written to the client, cut into whole answers and frames; `sent`, `taken` and `said` are
history variables at the two ends. The first request sent without credentials is *taken*
only when it comes again with them. Every step of `RtspAuth` is then a step of
`RtspSession` or a stutter (`ImplementsSession`), and under the fairness below
`RtspSession`'s fairness holds as well (`NothingHeldBack`): all that is sent arrives and
all that is said is heard.

Left out: the text of a request, hence the Digest itself, its counters (`nc` is always
1), and a body of a 401 (the code would put it before the next answer); header parsing
is what it finds.

### `TlsProxy`: the server, its connections and its breaker

One proxy and the connections that exist at once. A connection's two sockets are one
state: `connecting`, `open`, or `dying` between `destroy()` and its close events. The
clock counts in parts of the window.

| Code | Model |
|---|---|
| `server.listen`, its errors | `Listen` |
| the `createServer` callback | `ClientConnects` |
| `secureConnect` | `SecureConnect` |
| `end`, `close`, client `error`, `teardown` | `EitherEnds`, `Teardown` |
| remote `error`, the breaker | `RemoteError` |
| `stop()` and the callback of `server.close` | `Stop`, `StopReturns`, `SocketsClosed` |

Left out: what flows over a connection (`RtspAuth`), ports and addresses, and an error
of the server after it listens, which the code only logs. `StreamSession` uses the proxy
as `ProxyStarted`, `ProxyStopped` and `BreakerOpens`; that `ProxyStopped` comes at all
is `StopEnds`. It need not come after the breaker has tripped with connections still
open, which is `lingering` in `StreamSession`.

### `EventFlow`: how an event gets into the data points

One camera, from Step 5 of `onReady` on. Events are numbered in the order in which they
happen. A handler under way is one of `Handlers`, with the await it is suspended at.

| Code | Model |
|---|---|
| `FcmListener.start` (`_tryStart` for iOS, then Android) and what follows it | `Registered`, `RegisteredWithCbs`, `Connected`, `ModeFails` (up to the status) |
| the `close` handler of the push client | `SocketCloses` |
| `_onPush`, the `push` and event listeners of `onReady` | `Push` |
| `_startEventPolling` | `FallBack`, `PollTick` |
| `fetchAndProcessEvents` | `Served` (Bosch), `See` (comparison and note), `FetchFails` |
| `onFcmEvent`, `triggerSyntheticMotion` | `SyntheticMotion`, `WriteType`, `WriteActive`, `Arm` |
| `_motionActiveTimers` | `MotionTimerFires` |
| events at Bosch (external) | `EventHappens` |

A timer may fire at any time. A typed push brings its event along, besides the wake-up
every push is. `Init` has any `info.fcm_active` and `motion_active` a previous run left.
History: `reported` (by fetches), `outrun` (an older event was reported after a newer
one), `leftOver` (`motion_active` is on since before the start).

Left out: the texts and types of events, the snapshot after an event (`StreamSession`),
`stop()` of the listener, which only `onUnload` calls, the stored credentials of FCM,
and the status `error`. The code writes that one on an `error` event (1905), which the
listener never emits, and on an `FcmCbsRegistrationError` out of `start()` (1922), which
`_tryStart` (`fcm.ts` 517) catches like every other error.

### Runs

Each MC module only adds what its configurations name: symmetry sets and small sets of
values. The runs of `StreamSession`:

| Run | Instance | Question |
|---|---|---|
| `overlap` | 2 tasks, 3 sessions, every stimulus, refused PUTs | is a registered watchdog ever dead, does one ever renew twice at once? |
| `snapshots` | 2 tasks, 4 sessions, 2 addresses, snapshots and idle timers, every fault | does an overlap leave anything open that no idle timer will close? |
| `sequential` | 1 task, 4 sessions, 2 addresses, every stimulus, refused PUTs, lost answers and DELETEs, the breaker, fairness | is anything leaked, forgotten, stale or never given back when handlers do not overlap? |

Those of `TokenLifecycle`:

| Run | Instance | Question |
|---|---|---|
| `token_restarts` | 3 logins, 3 verifiers, everything the environment does, failing discovery and renewals | does a stop between any two writes, a reset or a revoked login ever lose a login, its renewal or the verifier of a login URL? |

Those of `StateSync`, each with one poll at a time (a tick that overlaps the previous
one needs a request of over 30 s; the proofs allow any number of polls):

| Run | Instance | Question |
|---|---|---|
| `state_settles` | 1 command to any data point, 1 change by the app, 1 fault, three levels, a camera with a dimmed spotlight, whose data points show this or their defaults, fairness | does a command acknowledge what is so and leave the other light alone, do failures show, does the mirror settle? |
| `state_lights` | 2 overlapping commands to the spotlight and the brightness, 1 change of the spotlight by the app, all on or all off, data points likewise | does the poll correct what it wrote; does an update switch on a spotlight that was off? |
| `state_v_frozen` | 1 command to privacy, 1 change of it by the app | see below |

Those of `RtspAuth`, `TlsProxy` and `EventFlow`:

| Run | Instance | Question |
|---|---|---|
| `rtsp_session` | both clients, all cameras, 4 messages, 3 requests ahead, 2 frames, fairness | is the session `RtspSession` promises implemented, and nothing held back? |
| `rtsp_v_interleaved` | 1 client without credentials that sends data, 3 messages | see below |
| `proxy_breaker` | 3 connections, a burst of 2 within 1 tick, 3 failures, 4 instants, fairness | does the breaker trip on bursts only, does `stop` know and end what is open? |
| `events_flow` | 2 handlers, 2 events, 1 failing request, fairness | are events reported, and once; is motion timed; is the status true? |
| `events_v_deaf` | 1 handler, 1 event | see below |

The bounds: two overlapping handlers are enough for every conflict between a handler's
state before an await and another's effect on it; a third only repeats one of the two. A
task can refer to three names and the maps to five, and the names that are still
referred to are rarely distinct; three or four names let old, current and new sessions
exist side by side, and running out is itself a case. One command and one change by the
app bring every pair of user, app and poll into every order; two commands to the lights
are one that reads, or builds on, what the other is about to change. Three logins are
one stored, one in memory and one just redeemed; three verifiers one shown, one in the
user's hands and one new. Four messages are the first request, which is sent twice, one
held back during the dance, one injected after it and one that may share a chunk with
either; two frames are one in the chunk of an answer and one on its own. Three
connections are two that fail together and one that is open meanwhile; three failures,
against a burst of two, let two fall outside the window and the third into it. Two
handlers are two fetches whose answers cross, two events the older and the newer. Two
addresses are needed for a camera that moved. One task is not a trivial instance:
timers, renewals, faults and requests still come in every order, only not in the middle
of each other.

*Fairness.* `WF(Progress(t))`: a handler under way resumes, because every await ends:
HTTP requests have timeouts, and `server.close` calls back when no connection is open.
Where one is, behind a tripped breaker, `Progress(t)` is disabled and nothing is owed.
`SF(IdleFires(t))`: an armed timer fires; strong, because the task that would run it is
taken and released by other handlers in the model, though not in Node. Nothing is
assumed of users, of the cloud, of connections or of the session's age. In `StateSync`,
`WF` of each command and of each poll: handlers resume, and `setInterval` keeps firing.
Faults are bounded by `MaxFaults`, so in the end requests are answered; without that no
mirror settles. In `RtspAuth`, `WF` of the proxy's reading on each side, which is what
sockets do, and of the camera's answers, since without an answer there is nothing to
hear; the client may fall silent. In `TlsProxy`, `WF` of the close events of destroyed
sockets and of the callback of a server that has none left; no camera or client need end
its connection. In `EventFlow`, `WF` of a handler under way, and `SF` of `Push` and
`PollTick`: a push or a tick always finds a handler in Node, and lacks one in the model
only while others hold its slots. Bosch may stay silent. *Deadlock* is checked except in
the runs of `RtspAuth` and `TlsProxy`, where the bounded client has said everything and
where a stopped proxy does nothing more.

### What the runs show

*Streams.* They hold: `RegisteredWatchdogAlive`, `WatchdogSingleFlight` with overlaps;
`OffMeansTimerPending` for overlapping snapshots under every fault; without overlaps
also that no proxy or watchdog is leaked, the cached session has the preferred quality,
no session is open at Bosch that the adapter has forgotten (`NoForgottenSession`; except
one whose PUT was not answered or whose DELETE was lost), `stream_url` names the proxy
in the map, a watchdog never outlives its stream (`WatchedMeansStreaming`), no idle
timer threatens a livestream, and everything is given back once the livestream stays off
(`EventuallyReleased`). That last one excepts a handler that waits in `stop()` for the
connections of a proxy whose breaker has tripped (2531): as long as a player keeps one
open, the session stays cached and open.

The converse of `NoForgottenSession` does not hold: a session ended by the camera or by
Bosch, or expired after a refused renewal, stays cached, and `ensureLiveSession` hands
it out until it is `SESSION_TTL_MS` old. The comment at 1266 names that bound as the
safety net it is. With the livestream on nothing replaces such a session before the next
snapshot or renewal; after a refused renewal its watchdog is gone.

These claims of comments do not hold, and no run checks them; the code does what the
model does. `handleSnapshotTrigger` captures whether the livestream is on before it
fetches the picture and arms the idle timer by that value afterwards, so that a
livestream switched on meanwhile is torn down when the timer fires; the comment at
2577-2582 describes this very accident as excluded. Switched off while the PUT of the
switch-on is under way, the livestream's session, proxy and watchdog are installed after
the teardown and stay, renewed for ever, against the comment at 201-206. And
`upsertSession` reuses a proxy whose breaker has closed its server socket ("same
upstream + alive proxy", 1355), so the session is never rebuilt as `tls_proxy.ts` 224
expects.

The same interleavings have other ends, which is why some properties are checked for
handlers that do not overlap only. Two snapshots at once start two proxies and one
handle is lost (1427). A renewal under way when its watchdog is stopped still installs
its session (`session_watchdog.ts` 179). A renewal that fails after its watchdog was
replaced removes the new one's entry (1323). A session opened while a teardown awaits
its DELETE is forgotten (2553). Switched off and on again within one teardown, a
livestream is on without a session (1273). A quality change during a PUT is not seen by
it (2433). After a failed start the flag stays set, and the next write of true does
nothing (2572).

*Tokens.* They hold: a connected adapter has a refresh ahead of it (`RefreshAhead`); the
login it works with is the one a restart finds (`LoginSurvivesRestart`); the login URL
shown belongs to the stored verifier (`LoginUrlIsCurrent`) and a code obtained from it
meets that verifier however often the adapter restarts in between
(`CodeMeetsItsVerifier`); and with no failed request at start-up nobody is sent to the
browser while the stored refresh token is good (`NoNeedlessLogin`). At start-up an
outage or a network error is treated like a rejected refresh token, although
`AuthServerOutageError` exists to tell them apart: the adapter shows a login URL and
stays there (hence "no failed request"). `resetLogin` neither stops the refresh loop nor
`onReady`, so a `saveTokens` under way stores tokens again behind it.

Other things the model shows. With `exchangeFails` in `Faults`, `CodeMeetsItsVerifier`
fails: every failed exchange clears the verifier (1757), so pasting the same redirect
URL again, as the message at 1630 advises, cannot work; for the same reason the comment
at 1543 is too strong. `auth_error` is overwritten by `awaiting_login` at once
(1756-1761). A login rejected while the adapter runs (1234) yields no login URL before a
restart, unlike README.md:202 says. After `DiscoveryFails` the adapter stays up and
tries nothing again. Stopped between the last writes of a login, the adapter keeps
showing a login URL (1652) after it has connected.

*Data points.* They hold: what a command that runs alone acknowledges is what the camera
has, in all three lights' data points (`SoloCommandAgrees`); a command that failed
writes nothing (`FailureIsVisible`) and every command ends (`CommandsEnd`); switching
one light leaves the other on or off as it was if its data point was true, and a
wallwasher update leaves the spotlight's level too (`OtherLightUntouched`); such an
update switches the spotlight on only if a poll has seen it on (`OnlySeenFrontReturns`),
though not necessarily lately; and a poll that nothing disturbs corrects every data
point no command has written since the poll did (`PollMirrorsItsOwn`), so that these
settle (`MirrorSettles`). It fails:

- `state_v_frozen`: without that exception. `upsertState` compares with its cache (359),
  an acknowledgement (2202) does not update it. The shortest trace has the poll inside
  the command; a sequential one is: the poll writes ON, the user switches OFF, the app
  ON again. The poll sees the difference on every tick (2016) and writes nothing. This
  is forum report #84538, which the poll was made for (156), in another order.

`alone`, `synced` and the count of accepted requests in the properties are where the
code promises less than its comments. If Bosch refuses one of the two Gen2 requests both
lights are acknowledged as asked (2824). On Gen1, switching the wallwasher takes a
dimmed spotlight to full brightness, `frontLightIntensity: 1.0` (2834) going out
whenever the spotlight is on, where the comment at 2751 says "keep front spotlight
untouched"; no run checks the level. A light switch does not touch `_lightingCache`,
so a wallwasher update before the next poll sends the spotlight's old level back; two
overlapping updates build on the same cache and the first is lost (2373). The first
update after a start is built from the default body, which switches a spotlight off that
was on. A brightness out of range is clamped for the camera and acknowledged as written.
That a siren falls silent by itself is never seen: Bosch has no request for it (842).

*RTSP.* `ImplementsSession` holds for both kinds of clients and all cameras through
every way of cutting the bytes and of running ahead, as long as a client without
credentials sends requests only, and `NothingHeldBack` for every
camera that asks each request for credentials. It does not for one that answers the
first request without a challenge: the mode stays `AUTH_NEED` (252-257 of
`rtsp_auth.ts`) and the client's next requests stay in `clientBuf` for ever.
`AuthorizedOnceChallenged` holds for clients that send requests only.

- `rtsp_v_interleaved`: an RTCP report that a client without credentials sends between
  two requests stays in `clientBuf`, and the next request goes out glued to it, raw and
  without `Authorization` (137 of `rtsp_auth.ts`).

*Proxy.* `TracksTheAlive`, `OnlyBurstsTrip` and `StopEnds` hold, the last two with what
the code adds to its comments: the breaker also counts errors of connections that were
up, while its log speaks of "connect failures"; `firstFailAt` stays at the first
failure, so that failures spread wider than the window keep the breaker from tripping
until a connection succeeds; and tripping clears `activeSockets`, so that `stop` no
longer destroys the connections that are still open but waits for them, and
`_teardownStream` and `onUnload` with it. `StopEnds` therefore excepts a proxy whose
breaker has tripped.

*Events.* They hold: fetches report an event once however they overlap (`ReportedOnce`),
except when an older event is reported after a newer one, which then comes a second
time; `motion_active` is timed (`ActiveIsTimed`), except where a previous run left it
on: the timers die with the process and nothing resets it at the start; once
registration is over the status is true (`StatusIsTrue`); while the adapter polls, the
newest event is reported (`PollingReports`); and a push has its event, or a newer one,
reported unless a request fails (`PushReports`), for nothing asks again before the next
push.

- `events_v_deaf`: when the push socket closes after a good start nothing receives
  events any more. Polling starts only if registration failed, and no watchdog restarts
  the listener (1911; `fcm.ts` 500).

Not errors of a property, but seen in the model: events between two fetches are lost,
for only the newest is looked at; a typed push reports its event and the fetch it wakes
up does so again; after a restart the last event is reported anew, `_lastSeenEventId`
being in memory; a motion timer that fires between the write of `motion_active` and its
re-arming switches it off at once; "registered" says `healthy` before the socket is up;
and an iOS client that failed to connect says `disconnected` when its socket closes,
even if the Android client works by then.

### What is proved

`StreamSessionProofs` proves, for every number of handlers, sessions and addresses,
every set of stimuli and every set of faults, from the three assumptions on the
constants alone:

- `TypeCorrect`: `TypeOK` is an invariant.
- `RegisteredAlive` and `SingleFlight`: the two watchdog properties.

Neither watchdog property is inductive. A task that arms a watchdog names it after its
session, and nothing in the properties says that this name is new. `WatchdogInv` adds
`OwnSession`: from the moment Bosch hands out a session until its task has passed
`ArmWatchdog`, no other task, no running watchdog and no renewal carries its name; and
`TaskOK`, which ties `kind` to `pc`. The step that needs `OwnSession` is `ArmWatchdog`;
the step that establishes it is `CloudOpens`, from the definition of `Unused`. The proof
has one lemma per kind of step, and groups the steps that only move on (`GoesOn`), that
begin or end (`BeginsOrEnds`) and that leave the watchdogs alone (`LeavesAlone`).
`WatchdogInv` was checked by TLC before it was proved.

`TokenLifecycleProofs` proves `RefreshIsAhead`, that is `RefreshAhead`, for every number
of logins and verifiers, everything the environment may do and every set of faults, from
`NoneIsNoName` alone. It is not inductive: nothing in it says that a reset or a renewal
that fails cannot say "connected", or that the timer is not armed twice. `TokenInv` adds
`BootOK` (from discovery on there is a refresh token in memory), `LoopOK` (the loop is
idle until `ArmRefresh`, and when it ends its last write is still ahead) and
`OnlyBootConnects` (no other handler ever writes TRUE to `info.connection`). The steps
of `onReady` before `ArmRefresh` share one lemma (`BootMoves`); the writes have another
(`WriteInv`), which is where `OnlyBootConnects` is needed.

`StateSyncProofs` proves `TypeOK`, whose content is that what is sent to Bosch is in
range and what is cached belongs to its data point, and `PollMirrorsItsOwn`, for every
number of commands and polls, every `MaxLevel`, every set of colours and every bound,
from the assumptions on the constants. The latter needs `SyncInv`: `CacheInv` (a data
point that the poll wrote last has the value that is in the cache, so that skipping the
write is harmless exactly there) and `QuietInv` (while a poll that nothing disturbed is
under way no command is, what Bosch told any poll is still so, and a data point that the
poll read as true is true). The step that needs `CacheInv` is `Upsert`; `UpsertCache`
says of it that afterwards each value it was given is in the data point unless a user's
command wrote it last.

`TlsProxyProofs` proves `TypeOK`, `TracksTheAlive` and `OnlyBurstsTrip` for every set of
connections, threshold and window, from `BurstAssumption`. The first two are inductive.
The third needs `SinceFirst`: no failure counted is older than `firstFailAt`, so that if
the first is within the window, the last `MAX_BURST` are (`BurstStep`; that there are so
many is `FS_Interval`).

`EventFlowProofs` proves `TypeOK`, `StatusIsTrue`, `ActiveIsTimed` and `ReportedOnce`
for every number of handlers, events and failing requests, from `BoundsAssumption`.
`StatusIsTrue` is inductive. So is `ActiveIsTimed`, by the lemma `ActiveStays`: only
`Arm` takes a handler out of `active`, and it arms the timer. `ReportedOnce` needs
`SeenInv`: as long as no older event was reported after a newer one, no event beyond
`lastSeen` has been reported, so that what differs from `lastSeen` is new. `SeenInv` and
`SinceFirst` were checked by TLC before they were proved.

`TokenDurabilityProofs` proves `TypeOK`, `LoginSurvivesRestart`, `LoginUrlIsCurrent`,
`CodeMeetsItsVerifier` and `NoNeedlessLogin` for every number of logins and verifiers
and every set of faults, the last two without `exchangeFails` and without `silentFails`
(why, see above). `DurableInv` extends `TokenInv`.
Its idea is `Will(k, x)`: data point `k` is `x`, or the last write the boot still owes
it is `x`. The boot goes on only when its writes are made, so that what it *will* have
written is what its next step reads, whatever is stopped before that; `TokensKept`,
`UrlKept` and `RedirectKept` say in these terms what a restart finds, and `BootWrites`
and `OtherWrites` that nobody else's pending write contradicts it. The lemmas about
`Lacks`, `Only` and `Lasts` (what a sequence of writes does to one data point) carry the
rest, `WillStays` being the one for `Write`.

`StateSyncProofs` also proves the properties of commands. `FailureIsVisible` needs that
what is being acknowledged was accepted in part (`AcceptedInv`); `OnlySeenFrontReturns`
that every lighting state in the cache, in a poll's hands or in a request under way has
the spotlight off unless a poll has seen it on (`SeenInv`). `SoloCommandAgrees` and
`OtherLightUntouched` share an invariant of a command while it runs alone (`SoloInv`):
as many of its requests as were accepted are in force at Bosch, one is missing if one
was lost (`Granted`), the data points acknowledged so far have their values (`Set`), and
if the adapter knew the other light truly it still does (`Known`).

`StreamSoloProofs` proves the properties of streams that hold because handlers do not
meet, under that hypothesis. `SnapshotsAreTimed` and `SnapshotsLeaveNoWatchdog` are
about any number of overlapping handlers, all of them snapshots and idle teardowns
(`Kinds \subseteq {"snapshot", "idle"}`), under every fault: `GivenBack` says that what
is held has its timer pending, a snapshot that will arm it, or a teardown that is about
to give it back. The theorems whose names begin with `Solo` are about one handler at a
time (`Tasks = {h}`) of any kind. `SoloInv` says, await by await, who may be there
(`Shape`), what that says of the livestream flag, the proxies, the watchdog, the quality
and the timer. `NoForgottenSession` (`SoloForgetsNothing`) holds under every fault:
`Known` says that what Bosch holds is the cached session, the one whose answer is on its
way to the handler, one a request about which was lost, or, while a teardown is about to
forget it, none. `UrlNamesMappedProxy` and `WatchedMeansStreaming` also assume that a
port can be bound (`Shown`: after a start that failed, `stream_url` stays as it was).
The hypotheses are those of the runs `snapshots` and `sequential`, and each is needed:
with overlaps it is as described above, and without a port to bind TLC finds a violation
for a single handler. `NextSteps` sums up each step by its effect on the handler and the
maps, so that the invariants are checked against these effects only.

`RtspAuthProofs` proves, for any number of requests, answers and frames, however the
client and camera run ahead and however the bytes are cut:

- `TypeCorrect`, without a hypothesis.
- `AllRequestsAuthorized`: `AuthorizedOnceChallenged`, for clients that send data only
  with credentials of their own (`"plain" \notin DataFrom`; `rtsp_v_interleaved` shows
  why). The invariant is `Flow`: before the bytes are piped, all the proxy has from a
  client without credentials and all that is on its way are whole requests, so that
  `findRtspMessageEnd` never finds the end of one behind something else; a client with
  credentials has sent nothing without them.
- `ProxyImplementsSession`: `ImplementsSession`, under the same hypothesis. `Dialogue`
  relates the wires to what the ends have said and heard. What is on its way to the
  camera (`Upward`) are the units of the messages after those taken up to those sent, in
  order and unaltered but for headers (`UpInv`, from `Linked` and `Genuine`), where
  during the challenge the first request, held in `pending`, counts as on its way. What
  is on its way to the client, with what it has received, are the messages said, none of
  them a challenge (`DownInv`, from `Tells`). `Dance` says where the first request and
  the challenge are in each mode, `Heads` who has written the `Authorization` headers
  under way, `Granted` that every answer is the one this client and camera lead to.
  `ClientForwards` and `CameraForwards` show that reading, keeping, injecting and
  replaying leave `Upward` and `Downward` alone, so that the proxy's steps stutter; a
  step of either end is then one of `RtspSession`.

So every safety property of the passing runs, and the refinement, is a theorem. An
action property's theorem is `Spec => P`, from an invariant and the effect of each step
that `P` is about. Model-checked and not proved are the liveness properties, which are
out of the prover's reach: `EventuallyReleased`, `CommandsEnd`, `MirrorSettles`,
`NothingHeldBack`, `StopEnds`, `PollingReports` and `PushReports`.

## Plan

1. `StreamSession` and its proofs, with overlaps and without (done).
2. `TokenLifecycle` and the proofs of its properties (done).
3. `StateSync` with the lights, and the proofs of its safety properties (done).
4. `EventFlow`: FCM, event polling, deduplication, motion timers, and the proofs of its
   invariants (done).
5. `TlsProxy` with its proofs, `RtspSession` and `RtspAuth` with the refinement and its
   proof (done).
6. A contract of a stream (off, on, given back) that `StreamSession` with one task
   implements, with a refinement mapping; a timed model of the snapshot window.
7. `AdapterLifecycle`: `onUnload` with handlers under way, restart.

Theorems worth proving next: the contract of item 6; that snapshots may overlap in
`NoOrphanProxy` if none finds the map empty, which would say how little serialisation
`upsertSession` needs; that several commands to different data points keep
`SoloCommandAgrees`, whose hypothesis `alone` is stronger than needed.

## Not modelled

Reachability (a counter, a threshold and one data point; its input, the outcome of a
snapshot, is `StreamSession`'s), `onUnload` with handlers under way (planned), `stop()`
and the stored credentials of the FCM listener, the migration of plaintext secrets, the
rotation flag, parsing and formatting (`digest.ts`, the JSON answers, URLs), the object
tree, which is created from literals, admin pages, and `login.ts` and `rcp.ts`, which
the adapter does not call.
