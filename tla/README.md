# A TLA+ model of GOAMP

GOAMP is a desktop music player: a TypeScript frontend (`src/src`) in a Tauri
window with a Rust backend (`src/src-tauri/src`), a Go sidecar `goamp-node`
(`src/goamp-node`) that keeps the account, the peer-to-peer archive and plugins,
and a relay `goamp-relay` that the devices of one account share. Frontend and
backend talk over Tauri commands, backend and sidecar over HTTP on localhost,
sidecar and relay over HTTP, and sidecars among each other over libp2p.

This directory models the parts of it where several actors work on shared state,
checks them with TLC on small instances and proves the most important properties
with TLAPS for every size.

## Inventory

| component | code | state | operations | hard behaviour | correct when |
|---|---|---|---|---|---|
| Device manifest | `goamp-node/api/account_handlers.go`, `relay/server.go`, `relay/store.go`, `sync/client.go`, `commands/account.rs` | manifest per account (version, devices, revoked) in the relay; sub-keys in the OS keychains | create, recover, revoke, list, forget | fetch-edit-push by several devices at once; two-step handler; 10 s timeout; restart of the relay | no device and no revocation gets lost; the account keeps a device; who contends makes progress |
| Relay: session, commands, snapshots | `relay/session_handlers.go`, `relay/server.go`, `relay/store.go`, `RemoteService.ts` | newest session, command queue, last 3 snapshots, per account | put/get session, post/pull commands, put/get state | authorization in two steps while manifests change; pollers; lost answers; equal versions | revoked devices locked out; a command arrives once and in order; reads are fresh |
| Track content | `sdk/archive`, `sdk/node/content_protocol.go`, `sdk/node/dht.go`, `api/content_handlers.go` | files, usage counters, provider records | provide, get, serve, restart | no lock; files written in place; quota checked before the write; crash | usage and quota right; a peer gets a whole file |
| User state | `userstate/` | stamped maps: likes, settings, playlists | set, merge, encrypt | merge order, equal stamps, deletions | merge is a join |
| Keys, mnemonic, quiz, signing | `account/`, `relay/signer.go` | none | derive, sign, verify | (cryptography) | – |
| P2P node, catalog, taste profiles | `sdk/node`, `sdk/catalog`, `sdk/profiles` | profile store, subscriptions | publish, receive, list | gossip arrives late, twice, out of order | newest profile wins, store bounded |
| Plugins | `sdk/plugin` | plugin processes | load, health check, call, stop | a process dies while it is called | no process leaks |
| Node API, WebSocket hub | `api/server.go`, `api/websocket.go` | connected clients | serve, broadcast | a slow client under the lock | every live client gets each event |
| Autoplay | `features/autoplay` | pool of seeds, seen set, switch, circuit breaker, verdicts; parts of it in localStorage | refill, rate, toggle, react to player events | awaits between check and use; partial saves; restarts | the queue keeps its account and holds no track twice; after switching off at most one batch comes; the last verdict stands |
| Scrobbling | `features/scrobble`, `scrobble/ScrobbleSettings.ts`, `scrobble.rs` | timer, start time, accounts and switches; queue table with attempts | start, tick, scrobble, connect, leave, queue, flush | await before the timer is set; two flushes; crash between send and delete; a logout that crosses a login | a play is scrobbled once; no queued listen gets lost; switches match accounts |
| History, track ids, aggregation | `features/history`, `history.rs`, `track_id.rs`, `aggregator.rs` | listens | record, resolve, aggregate | start time read after an await | a listen has its own start time |
| Audio cache and protocol | `commands/youtube.rs`, `audio_protocol.rs` | files in the cache, CACHING set, URL cache | extract, cache in background, serve a range, seed | a file exists before it is whole; two downloads of one file | what is served is whole; ranges right |
| Recommendation, mood, taste, sybil, survey | `recommend.rs`, `mood_engine.rs`, `taste_profile.rs`, `sybil.rs`, `survey.rs`, `track_features.rs` | tables | score, select | floating point | – |
| Radio, charts | `radio/RadioPanel.ts`, `radio.rs`, `charts.rs` | what plays, the poll, stored stations; one flag for all stream readers, one cache | play, stop, poll, render views, store stations; fetch charts | readers that outlive their stop; answers in any order; intervals | one station in the cache; the panel tells the truth; one poll |
| Database, playlists, feature flags | `playlists/PlaylistPanel.ts`, `settings/FeatureFlagsPanel.ts`, `db/mod.rs`, `commands/playlists.rs`, `feature_flags.rs` | tables; what the panels show of them; the flag cache | edit, select, restore, delete; toggle | operations that overlap; half-failed toggles; positions after removals | a panel at rest shows the backend |
| Frontend core | `core/`, `player/PlayerStore.ts`, `services/` | listeners, player state | start, emit, destroy | a module fails to start | the rest works |
| User interface | `youtube/SearchOverlay.ts`, `settings/AudioDevicePanel.ts`, `webamp/goamp-menu.ts`, `webamp/window-layer.ts`, other panels | results and their copy in localStorage; output device per media element; menu, copies of preferences | search, page, restore; switch, restore device; seed, keep on top | late and reordered answers; devices that disappear; calls nobody awaits | lists match queries; the sound goes where chosen; choices hold |
| Desktop shell | `lib.rs`, `tray.rs`, media keys | – | – | – | – |

## Modules

| module | what it is |
|---|---|
| `ManifestRegister` | abstract: the account's manifest as one register, changed one device at a time |
| `DeviceManifest` | the sidecars' fetch-edit-push calls and the relay's `putManifest`; implements `ManifestRegister` |
| `RelayRestart` | `DeviceManifest` with restarts of the relay's process |
| `DeviceManifest_proofs` | theorems of `DeviceManifest` and `RelayRestart` |
| `RelaySession` | the other requests to the relay; EXTENDS `ManifestRegister`, so the manifest changes atomically under it |
| `CommandMailbox` | abstract: commands are taken in order, and handed to a device, or dropped, in blocks of consecutive ones; `RelaySession` implements it |
| `RelaySession_proofs` | its theorems: authorization and session, commands, storage, refinement |
| `ContentNetwork` | nodes that store, announce, serve, fetch and cache tracks |
| `ContentNetwork_proofs` | its theorems, and lemmas about sums over finite sets |
| `Autoplay`, `AutoplayFeedback` | the infinite playlist; verdicts, the prompt to rate, the card |
| `Listening` | the player's events, the scrobbling feature, the listening history |
| `ScrobbleQueue`, `ScrobbleSettings` | the backend's queue of scrobbles; the accounts |
| `SearchOverlay`, `PlaylistPanel`, `RadioPanel` | three panels with the part of the backend each talks to |
| `AudioDevice`, `GoampMenu`, `FeatureFlags` | output device; menu, seeding and the window's layer; flags |
| `Features_proofs` | theorems of `Autoplay`, `AutoplayFeedback`, `Listening`, `ScrobbleQueue` and `ScrobbleSettings` |
| `Panels_proofs` | theorems of `SearchOverlay`, `AudioDevice`, `GoampMenu`, `FeatureFlags` and `PlaylistPanel` |
| `RadioPanel_proofs` | theorems of `RadioPanel` |
| `Frontend_proofs` | what is proved of the parts holds of `MCFrontend` |
| `TaskLists` | lemmas about lists of calls under way: one is taken out, put in, or changed |
| `MCFrontend` | all parts of the desktop program, each in a scene of its own |
| `MC*` | symmetry sets and data for TLC |

### DeviceManifest

State: `relay` is `MemStore.manifests[account_pub]` (version 0 = none),
`keychain` the sub-keys that installations hold, `pc`/`call`/`waiting` one
call of a sidecar each with the request it pushes and whether its caller still
waits. One account is modelled because every handler touches only the maps'
entries of its own account.

`StartRecover` and `StartRevoke` are `handleAccountRecover` and
`handleAccountRevoke` up to the push; the fetched manifest stays in the call as
`base`. `RelayAuthorize` and `RelayStore` are the two halves of `putManifest`,
which reads the old manifest under one lock and stores under another. `Return`
hands the answer over (`account_recover` saves the new sub-key only then);
`GiveUp` is the Tauri backend's 10 s timeout, a lost answer, or a keychain that
refuses, `LoseRequest` a push that does not reach the relay. `PushFirst` is the
unsigned push of manifest v1: in the repository only the test
`sync/e2e_test.go:27` makes it, `handleAccountCreate` returns the manifest
without pushing it. `account_forget` is `ForgetAccount`; an installation that
recovers over an older sub-key forgets that one.

The faulty variants beside the definitions (`\* faulty variant`) are plausible
mistakes: each property has one that breaks it.

### RelaySession

`req`/`phase` follow each request through the relay: signed and sent, `IsRevoked`
passed, `IsActive` passed, served. `AuthorizeActive` and the operation are steps
of their own, so the manifest (`ChangeManifest`, an action of
`ManifestRegister`) and other requests come between. Tauri commands are
synchronous, so an installation waits for one answer at a time (`Busy`), goes on
after `GiveUp`, and the relay may still serve the old request later. `given` is
what `startPoller` handed to `onCommand`. Every device with a poller drains the
queue, controllers too, although the design has only the active device pull.

`CommandMailbox` says what queue and pollers promise together, without requests and
answers: what a device is handed at once are consecutive commands, behind all it was
handed before and in nobody else's hands. `Mailbox` instantiates it with the accepted
commands as `posted`, `given` as `handed` and `lost` as `dropped`; a pull that was
answered but not yet handed over is still pending in it, so draining the queue is a
stutter and the handler of the answer, or its loss, the step.

### ContentNetwork

`disk` is the archive directory of each node, a file the sequence of its bytes.
`LocalArchive.Store` is split at every point where another goroutine may run:
`CheckQuota` (stat, `newUsed`, quota), `OpenTruncated`, `Write` (byte by byte at
the call's own offset), `WriteFails` (disk full), `Account`. `GetContent` is
`LookLocal`, `FindProviders`, `FetchContent` for one provider after the other,
and a store of what came. A read of a file is one step: reading in pieces could
only add answers that mix two encodings of one track, about which nothing is
claimed. `Restart` is a crash at any moment: calls and provider records are gone
(`Announce` uses `broadcast=false`), files stay, `scan` measures them.

`health` is history: `calm` as long as no stores overlapped on the node and none
was cut short by a full disk, `rescanned` when a restart came after that.

### The desktop program

In the frontend a handler runs to its next `await` without interruption, so an
action is one such stretch: the handler up to the await, then what follows the
answer. The modules keep the calls under way in a variable of their own (`refill`,
`asking`, `asked`, `tasks`, `calls`, `switches`, `orders`, `toggles`, `requests`),
from which any call may be answered next, or fail. Where the backend keeps what
the answer reports, its variables are part of the module and its half of the
call is a step of its own whenever something may come between. A restart of the
program resets what lives in memory and keeps localStorage and the backend.

Where the code has no lock, overlapping calls do leave a panel wrong until it is
rendered again. A variable of history (`crossed`, `overlapped`, `disturbed`,
`trouble`, `doubtful`, ...) records whether that has happened since the last fresh
start, and the property that a panel tells the truth is stated for the rest, with
what is excused in its own comment; such a property does not say that the overlap
it excuses is harmless. What holds whatever overlaps is stated without it
(`OnePoller`, `QueueAccount`, `NoneVanishes`, the first part of
`SoundGoesWhereChosen` and of `SwitchesMatchAccounts`).

- `Autoplay`: `refill` is the await at which the one `maybeRefill` is
  (`PoolAnswered`, `MixAnswered`, `Resolved`, `Probed`); `MaybeRefill` is its
  beginning, called by the handlers of the player's events and of the switch.
  `Batches` is `takeBatch` for every order of the pool. `appended` mirrors what is
  ahead, `storage` what `persistQueue` kept of it, `list`/`pos` what Webamp has.
- `AutoplayFeedback`: `Key` is `onKey` (L, D, N), `TrackChanges` the handlers of
  TRACK_END and TRACK_START (inference from skipping, the prompt every
  `NudgeEvery` tracks). A save stores up to three entries, of which each that grows
  may fail (`Save`). `verdict` is the history of what the user, or inference, last said.
- `Listening`: `TrackChange` is the renderer's handler with what both features do
  in it. `StatusAnswered` is the end of `onTrackStart`, where a timer is set while
  another may run: `timers` are the intervals that run, `timer` is the one the
  feature could clear. `ListenResolved` is the end of the history's TRACK_END.
- `ScrobbleQueue`: a listen's `command` follows `lastfm_scrobble` or
  `listenbrainz_scrobble` through sending, the service's acceptance, the answer and
  `queue_add`. Rows have ids that are never used again (`AUTOINCREMENT`);
  `flushing[f]` are the rows that a running `scrobble_flush_queue` has read and not
  yet answered, taken by their ids, `flushTook[f]` says that the service took the
  one it is at, `RowsAfter` is the DELETE, or the UPDATE of attempts. The service
  may take a listen without the answer arriving, writes to the database may fail
  (their results are ignored), the process may end anywhere. `doubtful` are the
  listens for which an answer got lost, or which two flushes sent at once.
- `ScrobbleSettings`: connecting and leaving an account as chains of requests;
  `credentials` is the backend's side, `switchedOn` the two localStorage switches.
  The program may end between the two (`RestartSettings`).
- `SearchOverlay`: a list of results is known by its query and its number of pages.
  Requests are answered in any order, and each answer replaces the list. The overlay's
  three localStorage entries are `lastQuery`, `lastResults`, `lastSource`; each `setItem`
  may throw, and what its handler had done by then stays, so list and copy may differ.
- `PlaylistPanel`: an operation is a task, the sequence of backend calls it still
  makes; `here` says whether the element it will fill is still on the page.
  `SelectUnstored` is a click whose `setItem` throws.
- `RadioPanel`: views, tabs, favourites and custom stations; play, stop and poll;
  and `RadioStreamState`: `onAir` is the flag `active`, `streams` the readers.
  `radio_play` lowers the flag (`ClickPlay`), sleeps 200 ms, names the station
  (`StationNamed`), and raises the flag when its proxy runs (`StreamStarts`). A stop is
  the click, `radio_stop` and the render afterwards (`ClickStop`, `RadioStops`,
  `Stopped`), so it may come between the steps of a play. A reader whose stream
  delivers nothing in the 200 ms never sees the flag lowered (`looked`) and goes on, a
  behaviour of the code that `OneStation` excludes in its own words. The old content
  stays on the page until the segments of what plays are there.
- `AudioDevice`: `setSinkId` of one media element after the other, by a click or by
  the timer that restores the stored device 2 s after the start, while devices are
  plugged in and out. A switch may stop half-way (`ElementStays`), its choice may not be
  storable (`Switched`), the list of devices may not come (`DevicesListed`); `trouble`
  keeps which of this happened.
- `GoampMenu`: the calls of the menu, which nobody awaits; agreement to seeding as
  a history (`consent`).
- `FeatureFlags`: the panel, the backend's table and the cache behind
  `isFeatureEnabled`.

These parts share no variable, so whatever one does is seen without the others
moving. `MCFrontend` therefore composes them as scenes: the variable `scene` says
which part acts, the others stay in their first state. One run then explores the
sum of their state spaces instead of the product. The radio has two scenes,
because what plays and the stored lists share only the panel's content: in one,
stations of a genre are played while the other tabs stay shut; in the other every
tab is used and the lists are edited while nothing plays. So has the search: in one,
requests overlap and fail; in the other results are played and queued while requests
come one after another.

Met while modelling, and modelled as they are: a deleted playlist's id stays in
`goamp_last_playlist_id` (opening then restores nothing); a scrobble made without
an account is not queued; a flush without an account uses up attempts; a probe of
the streaming protocol that succeeded is not repeated; a stream that breaks leaves
the flag up. Met, and outside the models: `PlaylistFeature.ts:57` reads
`goamp:last_playlist_id`, which nobody writes (the panel writes
`goamp_last_playlist_id`); `feature-flags-service.ts` and `SettingsService.ts` keep
separate caches of the same flags. Left out, too: `persistQueue` (and `appendTracks`)
may throw, `AutoplayFeature.ts:312-316`; and `archive.New` ignores an error of `ReadDir`
(nothing is counted) and skips a file whose `Info` fails (`archive.go:38-41`, `:46`),
after which usage is too low until the next start. In `ContentNetwork` a node can
read its own directory.

## What the runs check

| run | question | instance | result |
|---|---|---|---|
| `manifest` | are devices, revocations and signatures safe under overlapping updates, timeouts and losses; is it a register? | 3 sub-keys, 2 calls, lossy | holds, 203 000 states |
| `manifest_live` | does somebody win? | 3 sub-keys, 2 calls, no losses, fair | holds |
| `manifest_retry` | does the loser retry, as the design says, where a retry would succeed? | 3 sub-keys, 2 calls, fair | violated (finding) |
| `relay_restart` | does a revocation survive a restart? | 2 sub-keys | violated (finding) |
| `remote_control` | commands once, in order, accounted for, delivered | 2 devices that poll, 2 commands, 2 requests, lossy, fair | holds, 114 000 states |
| `command_lost` | is a failed pull repaired by the next tick, as the comment says? | 1 device, 1 command | violated (finding) |
| `relay_storage` | revoked locked out, one writer per version, fresh reads | 2 devices, session versions 1..2, 2 snapshots, retention 1 | holds, 1.9 million states |
| `content` | usage, quota, what is served, providers | 2 nodes, 2 tracks, 3 files of 1 or 2 bytes, quota 3, 3 calls, 1 restart | holds, 425 000 states |
| `quota_overrun` | does the archive stay within its quota? | 1 node, 2 calls | violated (finding) |
| `partial_fetch` | does a peer get exactly the bytes stored? | 2 nodes, 3 calls | violated (finding) |
| `frontend` | do the parts of the desktop program stay consistent under late, reordered, overlapping and failing calls, and restarts? | 11 parts in 13 scenes | holds, 988 000 states |
| `listen_start` | do the listens of one player stay apart? | 2 plays, 1 service | violated (finding) |

The properties of `frontend`:

| part | property | says |
|---|---|---|
| autoplay | `QueueAccount` | estimate, mirror and stored queue agree; with the batch under way they stay within `QUEUE_SIZE` |
| | `QueuedOnce` | no track is appended twice, nor can be |
| | `OneLateBatch` | after switching off, or after the breaker, at most the refill under way still appends |
| feedback | `ManualWins` | each song has the verdict given last, also when saves fail and after restarts |
| | `NudgeAsksUnrated` | the prompt asks only about unrated tracks |
| listening | `ScrobbledOnce` | intervals that nothing clears do not scrobble a play twice |
| scrobble queue | `QueueDelivers` | no queued listen vanishes; a listen is sent twice only where nobody could know better |
| accounts | `SwitchesMatchAccounts` | Last.fm is switched on only with a session; at rest switches, badges and accounts agree |
| search | `ListAnswersQuery` | once everything is answered the list belongs to the query that further pages are asked with, however requests overlapped, unless an answer to an earlier query came last, or the last search failed, was cut off or not stored |
| playlists | `PanelShowsBackend` | a panel at rest shows the backend's playlists and the selected one's tracks |
| radio | `OneStation` | only one station is read into the cache, the one named if one is, whatever stops come between the steps of a play; two plays at once and a reader that slept are excused |
| | `OnAirIsTrue`, `TabShowsItsList` | the panel at rest says what plays, and shows what its tab names |
| | `OnePoller` | the polls of the title do not pile up |
| devices | `SoundGoesWhereChosen` | the row marked is the device stored; a switch that stopped half-way is not stored as done; if none did, every element plays on the stored device |
| menu | `ChoicesHold` | seeding happens only with consent, the window is on top as stored |
| flags | `BoxesShowFlags` | boxes, cache and table agree at rest |

### Bounds, and why they suffice

- `SubKey`: three, so that a third device joins while two others revoke each
  other; with two calls in progress every pair of updates overlaps in every way.
  A sub-key is added and revoked at most once, so versions are bounded by
  themselves. The proofs hold for any number.
- `Request`: two under way. A request that its caller gave up still occupies a
  slot, so "late answer while the next request runs" happens.
- `MaxSession`, `MaxBlob`: two versions and two snapshots with a retention of 1
  (the code's is 3) make a snapshot push an older one out.
- `Lossy`: switches timeouts and losses; off only for `SomeUpdateWins`, where a
  push that never arrives proves nothing, and for runs that need none.
- `Size`, `Quota`: d1 and d2 are two encodings of one track (1 and 2 bytes), e1
  (2 bytes) is another track; two files fit in 3 bytes only if d1 is one of them,
  so quota, overwriting with a smaller and with a greater file, and partial
  files all occur.
- `MaxCalls`, `MaxRestarts`: bounds on how many calls are made and on crashes;
  three calls give overlapping stores and one more after the crash. When they
  are used up the nodes are idle, so deadlock is not checked in these runs.

- Autoplay: three tracks of two artists with `MaxPerArtist` 1 make the quota skip
  seeds; `QueueSize` 2 with `LowWatermark` 2 lets a refill begin with one track ahead or
  none, so it finds room for one or for two, and the track ahead may start or be
  replaced while the refill runs; `PoolMin` 2 and `MaxCopies` 2 give pools that need the mix, and that hold a
  seed twice; `RapidStarts` 1 trips the breaker at the second quick start;
  `MaxBlocked` 1 only bounds how many tracks are blocked at once.
- Feedback: `Song` 2 and `NudgeEvery` 2, so that counting passes from one song to
  the other. Listening: `MaxPlays` 2, `MaxTime` 2, `Threshold` 1, one service
  (services are independent of each other): two starts overlap, and the first
  interval may outlive its play. The proof holds for any of these.
- `MaxAsked`, `MaxTasks`, `MaxCalls`, `MaxSwitches`, `MaxToggles`, `MaxRequests` 2:
  two calls under way overtake each other in every way; a third adds orders of the
  same kind. `MaxOrders` 3, because the menu starts with two.
- `Query` 2, one of them an album, `MaxPages` 2; `Playlist` 2, `MaxEdits` 1: stale
  and fresh content differ after one edit, and a wrong playlist from a right one.
- `Station` 2 (symmetric), `MaxStored` 1: a favourite or a custom station, not both.
- `Device` 2 (the default and another), `Elements` 2: a switch can stop half-way.
- `Flag` 2; `Listen` 2, `MaxAttempts` 2 (code: 10), `FlushLimit` 2 (code: 50), `MaxFlushes` 2: two
  flushes read the same rows and finish in any order.

Deadlock is not checked in `frontend` and `listen_start`: once the bounded numbers are used
up a part may stop. The desktop program waits for its user anyway.

### Fairness

`FairSpec` (`DeviceManifest`): weak fairness of the relay's steps and of `Return`:
`net/http` runs a handler to its end, and both requests of a sidecar have
timeouts. Nothing makes a device start a call.

`FairSessionSpec` (`RelaySession`): the same for handlers and answers, and strong
fairness of the pull of each running poller and of its arrival at the relay: the
1 s `setInterval` queues a pull behind other requests of the same installation,
so it is enabled again and again, not continuously; and the network does not
lose every pull. `CommandArrives` assumes in its own text that some polling device
stays active.

## What is proved

All invariants that the passing runs check are theorems for every value of the
constants that the modules' assumptions allow: constants are of their types, what is
counted is finite, a name for "none" is not one of the things it is compared with.
`Refinement` and `MailboxRefinement` prove that the two protocols implement their
abstract specifications. With few exceptions the property alone is not inductive;
the invariant that is, and why, follows.

`DeviceManifest_proofs`: `TypeCorrect`, `KeepsADevice`, `DropsNoDevice`,
`RevocationIsFinal`, `SignatureStillCounts`, `RefusedWhenOvertaken`, and
`Refinement` (the protocol implements `ManifestRegister`). Whether a push may
replace the manifest depends on what the call fetched earlier. `IInv` adds
`BaseIsOld`: a call's fetched manifest has a version of at most the relay's, and if
the versions are equal it is the relay's manifest. A push has the fetched version
plus 1, the store takes only greater versions, so what is accepted was made from
the very manifest it replaces (`AcceptedWasCurrent`), and each acceptance is a step
of the register (`AcceptanceIsRegisterStep`), from which the rest follows
(`RegisterStep`). `RelaySession` uses the register's actions; `Refinement` is what
justifies that.

What survives a restart of the relay (`RelayRestart`): of these invariants only
`TypeOK` and `AccountKeepsADevice` (`RestartsKeepADevice`). Fetched manifests may then be newer
than the relay's, so `BaseIsOld` is gone; what remains is that every push on its
own brings a well formed manifest of generated sub-keys (`Sound`). The others are
lost with the manifest: TLC finds a counterexample to each of them, and
`relay_restart` is the one that contradicts the documentation.

`RelaySession_proofs`, in four parts.

- `RInv`: `RevokedIsLockedOut`, because the revoked list only grows, and the relay looks
  there first, so a signer on it when the request was made is refused (`LateOK`).
  `OneWriter`: every accepted write is at most the session's version, and the one
  that equals it is the session (`WritersOK`).
- `CInv`: `CommandsAreInOnePlace`, `CommandsComeInOrder`, `CommandsAreGivenOnce`. Queue,
  answers under way, what devices were handed and what got lost divide the
  accepted commands (`PlaceOK`). What left the queue was accepted before what is in
  it, and what a device was handed before what is on the way to it (`OrderOK`). The
  latter holds only because an installation waits for one request at a time
  (`OneWaits`): with two pulls under way the later answer might come first.
- `SInv`, on top of both: `ReadsNeverGoBack`, `SessionTypeCorrect`. The greatest version
  written so far is the session's, the last snapshot kept is the last uploaded
  (`KeptOK`), and what the caller knew when a read began is not newer than that
  (`FloorOK`). That snapshots are numbered within their bound needs the uploads under
  way counted (`RoomOK`), hence finitely many requests.
- `MailboxRefinement`, on top of `CInv`: what waits in the relay's queue is the end of
  what was accepted, and what a pull carries is a block of it (`BlocksOK`), because a
  pull takes the whole queue and commands join at its end. So the handler of an
  answer is a `HandOver`, the loss of one a `Drop`, an accepted command a `Post`, and
  every other step stutters (`MailboxStep`).

`ContentNetwork_proofs`: `ContentTypeCorrect`, `UsageIsExact`, `QuotaIsKeptInCalm`,
`ProvidersHoldTheTrack`, `AnswersAreBeginnings`, from `CNInv`. The counters are wrong
while a store is under way, so the invariant keeps books (`Ledger`): a node at which
no stores overlapped has at most one, without one its counters are those of the
directory, and otherwise `Booked` says how far they are apart at each phase of that
store. `UsageIsExact` reads this without a store, `QuotaIsKeptInCalm` at the phases
that write. `Contents` says that files and what calls carry are beginnings of the
one encoding there is, so that caches of caches hold such beginnings as well;
`Provided` that who announces a track has opened a file for it. Usage is a sum over
the files of a directory. The library's induction on finite sets takes an
operator, which the provers cannot instantiate, so that sums behave as they
should when a file is added or changed is derived from the fold's recursion and a
least counterexample.

`Features_proofs`, autoplay. `OnlyOneLateBatch`: after the first late batch no refill is under way,
and none begins before autoplay is on and whole again (`LateInv`); appending ends
the only refill there is. `QueueIsAccountedFor`: a batch is cut to the room at the
moment it is taken, and until it is appended the estimate can only fall.
`NoTrackTwice`: a batch is taken from what has not been seen, and is seen from then
on, so queue, mirror, stored queue and batch never meet. Both follow from `QueueInv`,
which rests on the fact that `SetToSeq` lists a finite set without repetition.
`LastVerdictStands`, `PromptIsWarranted`: a rated song has exactly one mark, the one
history has, so a new verdict replaces exactly that one; a prompt is taken away by
every step that rates the song or goes on. `AutoplayTypeCorrect`,
`FeedbackTypeCorrect` need no more than a batch that takes from the pool only what is in it
(`PoolTyped`), and a breaker that keeps the last `RapidStarts` + 1 starts.

`Features_proofs`, scrobbling.

- `NeverScrobbledTwice`: the flag `scrobbled` is up whenever the play under way has
  been sent, and every interval looks at it (`SentOnce`).
- `QueueLosesNothing`, from `QInv`. A listen has one row at most, and a row goes only
  when a flush is at the row with its id and the service took that row's listen. As
  ids are not used again, what the flush deletes is still the row it had read, even
  if others deleted or retried it meanwhile (`RowsOK`, `FlushesOK`). A listen that is
  not doubtful is in the hands of one flush at most; once it is taken that flush is
  at it, or its row is gone (`OnceOK`). "The row it is at" is the one with the least
  id, which exists because `<` is well-founded on the naturals.
- `SwitchesAreTrue`, from `SettingsOK`: unless calls crossed there is at most one
  request, and `Meanwhile` says for each of its steps which of switches, badges and
  accounts may disagree until its answer. That Last.fm is on only with a session
  holds also when they cross; it needs that every request is `Honest`: no logout
  of Last.fm exists, and whoever reports being connected is. A restart between the
  backend's answer and the switch is the one that may leave them apart, and counts as
  crossed.
- `ListeningTypeCorrect`: plays are numbered up to their bound, and what plays has
  begun (`ListeningInv`). `SettingsTypeCorrect` is inductive.
- `ScrobbleQueueTypeCorrect`: the database numbers rows without end, yet an id is at
  most the number of listens that were queued, because a listen is queued once
  (`QueueCounts`; hence the assumption that the listens are finitely many). And no row
  is tried too often: its attempts and the flushes that have read it and not answered
  it yet are together at most `MaxAttempts` + `MaxFlushes`; a flush moves one unit
  from the second number to the first.

`Panels_proofs`, `RadioPanel_proofs`. What a panel shows is wrong while calls are under way
that will correct it, or contradict it. All these invariants have the same form:
unless history says that calls overlapped or failed, at most one call of a kind
is under way; if there is none, panel and backend agree; if there is one, what it
is still going to write is the only thing that may be wrong (the *promise* of that
call). A step that starts a call has to establish its promise, the answer to use
it up.

| theorem | invariant | the promise |
|---|---|---|
| `SearchTypeCorrect`, `ListBelongsToQuery` | `SearchInOrder` | list and copy belong to the queries kept beside them (`KeptAnswers`), or the search for the stored query is still under way |
| `SoundFollowsChoice` | `DeviceInOrder` | `HalfWay`: the elements moved so far have the new device; `SwitchPromise`: until a click has moved the last one, that one is on the stored device |
| `MenuChoicesHold` | `SeedInOrder`, `WindowInOrder` | the order brings backend and window to the choice; seeding is ordered only after consent |
| `FlagsShown` | `BoxesInOrder`, `CacheInOrder` | what is listed is the table, or the one flag being set |
| `PlaylistsShown` | `PanelInOrder` | `SoleTask`: each plan of calls refreshes what its edit makes stale; a selection has two tasks (`Selection`) |
| `PollsDoNotPileUp` | inductive with the types | – |
| `OneStationIsRead` | `PlayInOrder`, `OneSource` | `PlayPromise`: while a play waits the flag is down and no reader has seen that yet; once it has named its station no reader is left and the cache is empty |
| `PanelAndBackendAgree` | `AirInOrder` | `AirPromise`: what the call will find in panel and backend, a stop between its click and the backend included |
| `TabIsTrue` | `ViewInOrder` | `ViewPromise`: the tab lit is that of the render under way, whatever it replaces |

Two of the kinds overlap by design (`MenuChoicesHold`: the menu starts with orders
of both kinds; radio: one poll may come while a list is rendered), so "the only
one of its kind" (`Sole`) is a notion of its own. `TaskLists` proves how it changes
when a list of calls gets one more, loses one, or one of them goes on.

`Frontend_proofs`. A behaviour of `MCFrontend` is a behaviour of every part's own
specification (`PartsBehave`): in its scene a part takes its own steps, in the others
it stutters. So `FrontendTypeCorrect`, and `FrontendKeepsPromises`, the seventeen other
invariants of the run `frontend`, follow from the parts' theorems.

### Only model-checked

- `SomeUpdateWins`, `CommandArrives`: liveness under fairness is out of the prover's
  reach. The two refinements are of safety only: the abstract specifications state
  no fairness.
- The runs with findings show counterexamples, which TLC finds.

## Findings

1. A device that loses against a concurrent manifest update gets a 502 and nobody
   retries, although the design says it "fetches latest, rebases, retries"
   (`manifest_retry`). In the trace a device revokes another one while a third joins;
   the retry would succeed.
2. `MemStore` is in memory, so after a restart of the relay the first manifest
   is accepted again and a revoked device is active in it (`relay_restart`).
3. The command queue is cleared before the answer arrives: a lost answer loses
   commands, "next tick retries" does not hold (`command_lost`).
4. Overlapping stores exceed the archive's quota (`quota_overrun`), after which
   the usage counter is wrong until the next start.
5. A file is rewritten in place while it is served: a peer may get, and cache, its
   beginning (`partial_fetch`).
6. `HistoryFeature.ts:45` reads the start time of the listen that ended after an
   await, when the next track has overwritten it: the listen is recorded with its
   successor's start, and `sybil.rs:73` counts such rows as "overlapping listens"
   (`listen_start`).

## Not modelled, and why

- Cryptography: a signature identifies its signer; the 30 s clock window of
  `signer.go` and key derivation are left out.
- Contents of sessions, commands, snapshots: the relay does not look into them,
  except for the session's version. Malformed requests are refused before they
  change anything.
- Mapping of HTTP status codes to messages; logging; layout; parsing of web pages.
- Generated code (`proto/`), the repository's own verification harness, pure I/O
  (configuration, SQLite migrations, tray, media keys).
- Floating-point scores (mood, recommendation) are out of TLC's reach.
- Panels that only display what the backend computes (`GenrePanel`,
  recommendation and peer panels, charts, visualizer, the recommendation part of
  the settings), submenus, dragging and drawing. `goamp-menu.ts:97-136`, the submenu
  of seeding scopes, is taken away by the mousedown before its click arrives.
- Of the radio: parsing of ICY metadata, the proxy server, saving segments.
- Of the history: track ids and aggregation.
- The rest of the inventory is planned.

## Plan

Done:

1. `ManifestRegister`, `DeviceManifest`, `RelayRestart`, proofs.
2. `RelaySession`, `CommandMailbox`, proofs of all invariants and of the refinement.
3. `ContentNetwork`, proofs of all its invariants.
4. `Autoplay`, `AutoplayFeedback`, proofs.
5. `Listening`, `ScrobbleQueue`, `ScrobbleSettings`, proofs.
6. The panels: `SearchOverlay`, `PlaylistPanel`, `RadioPanel`, `AudioDevice`,
   `GoampMenu`, `FeatureFlags`, proofs; `MCFrontend`, in which all parts' theorems hold.

Left, in this order:

7. `TrackCache` (extract, background cache, range server, seeding), composed with
   `ContentNetwork`'s archive.
8. `UserState` (last-writer-wins merge as a join: commutative without equal stamps,
   associative, idempotent), `AudioRange`, quiz, playlist positions, track ids: pure
   operators checked against reference definitions over bounded inputs in one run.
9. Gossip and profile store, plugin loader, WebSocket hub, `GoampCore`.

Every invariant checked so far is proved; what remains to be proved comes with those
modules.
