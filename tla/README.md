# Verification of open-PicPak

open-PicPak replaces the cloud of a battery-powered e-paper frame: an ESP32-C3
firmware that wakes, polls, draws and sleeps; a Go backend (device ingest, C2
command channel, FaaS rendering, playlists, OTA rollout, admin API) on
PostgreSQL; a Bun render worker; a web UI; and a terminal tool, `picpak-ops`.
This directory holds TLA+ models of its core, the TLC runs that check them on
small instances and TLAPS proofs for every instance.

## 1. Inventory

| Part | State | Operations | Hard because | Correct when |
|---|---|---|---|---|
| C2 command queue (`commandstore`, `ingestcore/c2.go`, firmware `cmd.c`) | `command_queue`, `device_c2_cursor`; device NVS `c2_seq` | Enqueue, EnqueuePlaylistRefresh, handleC2, c2LongPoll, c2_poll | enqueues of several requests are not serialised, polls are lost or late, resets between running and acking | commands run in order, none is skipped, a re-run only after a lost ack, keys are released |
| C2 session (`c2rekey.go`, `c2auth.go`, `auth/`, `cmd.c`, `c2key.c`) | `device_auth`, `c2_nonce`; RTC-RAM secret and counter; device key | challenge, re-key, HOTP poll, register, bond, delete | duplicated and late requests, two handlers at once, RTC-RAM kept or lost | no poll is accepted twice, a nonce opens one session, a session belongs to the key on file |
| C2 wakeups (`c2notify.go`, trigger of 0006) | one LISTEN connection, the current broadcast channel | NOTIFY, listenLoop, broadcast, wait | insert between query and select, reconnects | a held poll is woken by its command |
| Recovery guard (`guard.c`, `guard_core.h`, `main.c`) | NVS `guard/*` | boot check, stable task, deep sleep, GUARD commands | resets between NVS commits, saturation at 255 | loops are caught, safe mode is never entered undeservedly |
| Log reassembly (`logingest.go`, `server.go`) | `device_log_cursor`, `device_log_fragment`, `logs` | reassembleLog in the telemetry transaction | lost acks, overruns, reboots, late pushes | acknowledged implies stored, dense seqs, forward cursor |
| Device registry (`devicestore`) | `devices`, `device_auth` | register, delete, list | registration decides from an unlocked read | parts of C2Channel and C2Session |
| FaaS supervisor, worker, egress (`faascore`, `faas-egress`) | last-good frames, hot cache, single flights, slots, proxy credentials | render, schedule, webhook, warm | cancellation, timeouts, shared flights, edits under a render | a current frame or the last good one, one render per variant |
| Playlists (`playliststore`, `plrender`, `playlist_http.go`) | items, bindings, rotation cursor, variant cache | bind, edit, resolve cursor, GC | frame requests race rebinds and edits; bindings live in two tables | one source per device, one advance per window |
| Image store (`imgstore`) | `image` rows, blob files | put, delete, sweep | row and file are not one transaction | a row has its blob, orphans go |
| Rollout (`rollout`, `rolloutadmin`, `otaticket`) | firmware rows and blobs, targets, channels, tickets | register, upsert, delete, poll, download | three queries without a snapshot, tickets outlive targets | the most specific active target, for no longer than a ticket |
| Secrets (`secrets`) | sealed rows, keys of each process | put, delete, sweep, restart | replicas with different keys | a rotation loses nothing |
| Live events (`events.go`, `logquery`) | subscribers, mailboxes, loop flag, high-waters | subscribe, tick, broadcast, tail, page | loop stop races subscribe, commits out of order | a subscriber is served, no row twice |
| Admin auth (`adminhttp`, token and operator CLIs) | sessions, tokens, keys, basic cache, buckets, slots | login, mint, rotate, revoke, limit | caches against revocation, reads in two queries | a revoked credential ends in time |
| Templates (`template*_http.go`) | rows, previews, slot, applied functions and commands | edit, seed, preview, apply | renders race edits, applies fail half-way | a preview is what its ETag says, one effect per apply |
| Firmware low battery and presentation (`lowbatt*`, `main.c`, `present_core.h`) | RTC lock, fingerprint, panel | wake, decide, render, present | resets inside a refresh | the panel is what the device believes |
| Firmware store (`store*.h`, `wifi_store.c`) | key files, staging files, migration flag | set, delete, migrate | power loss between two file operations | atomic replace |
| picpak-ops | serial sessions, flash jobs, panes, config, host workers, log ring, OTA and fleet snapshots | connect, flash, abort, reload, poll, filter, pin | goroutines and messages overtake each other | what is shown is real, one flash per host |

How they interact. The device reaches the backend over HTTP only: `/pp` carries
telemetry and the log ride-along (LogIngest), `/pp/c2` the poll (C2Channel),
authenticated by a session (C2Session) and held by the hub (C2Notify); frames
come from a playlist (Playlists, VariantCache) or a function (Render), whichever
is bound. An edit of a playlist warms its variants and then enqueues a refresh
command. Operators come in through AdminAuth and RateLimit; picpak-ops talks to
the database, to ssh hosts and to the serial port itself. Backend
requests share state through PostgreSQL only, at READ COMMITTED with the row
locks each statement takes; the models take one transaction as one step where
its locks cover it, and several steps where they do not. On the device, NVS
survives resets, RTC-RAM survives some of them, the rest is lost.

PROJECT.json lists every part, the hazards with their lines, and the map from
definitions to code.

## 2. Modules

| Module | Models | State and actions |
|---|---|---|
| `C2Channel` | enqueue to ack, end to end | database (`nextSeq`, `queue`, `cursor`, `known`, `bonded`), running requests (`enq`, `req`, `late`, `hold`, `resp`), device (`session`, `pc`, `cur`, `c2seq`). Enqueue is four steps (check, draw of the identity value, commit or conflict, read-back) because nothing locks them together; handleC2 is one transaction; c2_poll is poll, run, persist with failures and a reset at every point |
| `C2Session` | authentication of the poll | keys, nonces, secrets and OTPs are tokens; handleC2Rekey is a read and a locked write, because `FOR UPDATE OF a` re-reads `device_auth` but not the joined `c2_nonce`; Register is a read and a write |
| `C2Notify` | wakeup of held polls | a channel is the number of the broadcast that closes it; listenLoop acquires, listens, waits, broadcasts, fails |
| `LogIngest` | log stream | the transaction of reassembleLog against a device with a ring; the firmware does not send offsets at this commit, so how the device pushes and takes acks is external. Both frame forms (`?bc&off`, explicit base) and both networks (in order, or with late pushes) are initial states of one model |
| `LogReconstruct` | the viewer's span merge | on top of LogIngest: the fragments of a boot in the order of the sort, merged one after another by a recursive function, compared with the bytes stored |
| `SseHub` | live events | roster poll, diff, fan-out into bounded mailboxes, the loop's start and stop, snapshot of a new stream |
| `LogView` | `logquery` | transactions that commit out of order, the forward tail, backward pages |
| `ImageStore` | image library | put (stat, row, write, heal), delete (row, unlink), sweep (list, info, unlink), crashes and failed writes |
| `VariantCache` | packed playlist images | single flight step by step, GC, warmer, LISTEN connection, refresh |
| `Render` | function frames | sync, timer and webhook functions, hot cache, shared and last-good frames, worker calls, proxy credentials, fan-outs, edits and deletions |
| `Playlists` | what a device shows | both binding tables, managed playlists, items, cursor; each handler is a check and a write, each frame request a read and a write |
| `Panel` | abstract specification of `Playlists` | one register per device: what it shows |
| `AdminAuth` | who may ask | sessions, Basic with cache and slots, tokens, operator keys, streams and their re-check, CLI rotation |
| `RateLimit` | token buckets with LRU | look, pay, evict, refill |
| `Rollout` | firmware rollouts | register, blob, targets, channel, three-query resolve, ticket, download |
| `Secrets` | sealed box with key rotation | environment, replicas, put, delete, sweep and its failures |
| `Templates` | template store | edit, seed, preview render and cache, apply of functions, scripts and presets |
| `Browse` | keyset pages | images, playlists, items under inserts, deletions and reorders |
| `Policies` | pure algorithms | wake time, health verdict, egress decision, substitution, rotation order, thumbnail box; each against a reference definition. One variable holds the function and its input: TLC takes it from probes (`PolInit`), the proofs from all inputs (`PolSpec`) |
| `BootGuard` | boot-loop guard | one action per NVS commit; `Reset` and `Flash` at any point |
| `Wake` | low-battery gate and presentation gate | a wake is reading, decision, render, present, sleep; resets at every phase, RTC kept or lost |
| `KvStore` | the store of named values | stage, write, sync, rename as steps; power loss at each; credential migration |
| `Console` | serial sessions | child processes, exit messages, backoffs, parked lines, release |
| `Flash` | flash controller and pane | a goroutine per job: semaphore, host lock, validate, stage, confirm, run, deferred calls; retry, abort, close |
| `WriteGuard` | write set | artifacts, offsets, NVS range check, files rebuilt meanwhile |
| `Shell` | tabs, focus, hot reload | spawn, close, focus; watcher, load, re-arm |
| `Hosts` | host registry | worker per host, poll slots, failures, panes adopting the stream |
| `LogTail` | log pane and its store | prime, poll, backfill, filter, clear, ring, redraw |
| `OpsOta` | OTA pane | snapshot, commands and their results, writers of rows and blobs, prediction |
| `FleetPane` | telemetry pane | polls, selection, detail |
| `Lru` | external: `container/list` as the bounded caches use it | front insertion, move to front, eviction at the cap; used by AdminAuth and RateLimit |
| `UiLoop` | external: whether the UI library runs a batch inside an addressed message | one initial choice, used by OpsOta and FleetPane |
| `C2ChannelProofs` | proofs about C2Channel | |
| `UplinkProofs` | proofs about C2Session, LogIngest, LogReconstruct | |
| `PushProofs` | proofs about C2Notify, SseHub, LogView | |
| `FirmwareProofs` | proofs about BootGuard, KvStore, Wake, WriteGuard | |
| `PlaylistsProofs` | proofs about Playlists, and that it implements Panel; Browse, Policies | |
| `ContentProofs` | proofs about ImageStore, VariantCache, Render | |
| `AdminProofs` | proofs about Secrets, Rollout, AdminAuth, RateLimit, Templates | |
| `OpsProofs` | proofs about Flash, OpsOta, FleetPane, Console, Shell, Hosts, LogTail | |
| `MCC2Channel` | an instance of C2Channel | |
| `MCUplink` | C2Session, LogIngest with LogReconstruct | |
| `MCPush` | C2Notify, SseHub, LogView | |
| `MCContent` | ImageStore, VariantCache, Render | |
| `MCAdmin` | Playlists (with Panel), AdminAuth, RateLimit, Rollout, Secrets, Templates, Browse, Policies | |
| `MCOps` | BootGuard, Wake, KvStore, Console, Flash, WriteGuard, Shell, Hosts, LogTail, OpsOta, FleetPane | |

The modules an MC module puts together share no state the models keep. A
behaviour therefore exercises one of them, chosen by `part` in the initial
state, and TLC explores each without the product.

The three C2 modules are views of one channel, each abstracting the others:
C2Channel reduces the session to "the backend holds the device's secret"
(`authed`) and lets a held poll look at any time; C2Session leaves the queue
out; C2Notify keeps only the number of commands a device has not seen.
Playlists, VariantCache and C2Channel meet in the refresh: Playlists models the
edit, VariantCache the notification up to EnqueuePlaylistRefresh, C2Channel the
command from there on.

`Panel` is the abstract specification worth stating: whatever handlers, cascades
and frame requests overlap, a device has one source of frames, and each step of
the detailed system sets or clears it as a whole. `RefinesPanel` is
`Playlists => Panel` under the mapping that reads the two binding tables as one
register.

Definitions introduced by "Mutant of" are plausible bugs: each property is known
to fail when the definition after it is replaced by its mutant. A property that
is a conjunction of named parts has a mutant for each part.

## 3. Runs

| Run | Bounds | Shows |
|---|---|---|
| `c2_safety` | 1 device, 1 key, 1 enqueuer, 3 seqs; 1.65 M states | CursorBacked, RerunOnlyIfBroken, NoSilentSkip, KeyHeldOnlyWhilePending, AckForward |
| `c2_live` | 2 seqs | Delivered: every queued command is eventually acknowledged |
| `uplink` | 1 registrar, 1 re-key handler, 2 keys, nonces, secrets, 3 counters; 2 boots of 3 bytes, ring and frame 2, 1 late push; 0.24 M states | SingleUse, SessionMatches, LogReadable, EverythingAcked |
| `push_safety` | 2 held polls, 2 commands each; 2 streams, mailbox 1, 1 roster change; 2 instants and ranks, batch 1; 0.25 M states | NoLostWakeup, WokenByCommand, HubSound, StreamIsServed, RowsExact |
| `content` | 1 hash, 2 uploaders, 1 deleter, 1 fault; 2 requests and a warmer, 2 events; 2 serials, 2 versions, 1 job and the scheduler; 0.35 M states | ImagesKept, VariantsSound, FramesSound, ContentProgress |
| `admin` | 2 devices, 2 playlists, 2 items; 2 requests, 2 keys, cache and slots 1; burst 2, 1 bucket; 2 channels and versions; 2 replicas, 3 keys; pages of 2 over 3 rows; 1.72 M states | TablesAgree, RefinesPanel, AccessSound, RatesBounded, RolloutSound, SecretsSurvive, TemplatesSound, WalkComplete, PoliciesExact |
| `ops` | 2 builds, counter saturating at 4, thresholds 0, 1, 2, 3, 7; 2 ports on one host, 2 at a time, 1 automatic retry; 2 console runs and reconnects; 2 hosts; ring 2, 3 log rows; 1 device and 2 versions; NVS of 2 blocks in 4; 1.54 M states | LoopCaught, SafeModeEarned, WakesSound, StoreSurvives, ConsoleSound, FlashSound, WritesSafe, ShellSound, HostsSound, TailSound, OtaSound, PollsSound |
| `c2_skip` | 2 enqueuers | **violated**: NoSilentSkip |
| `session_replay` | 2 re-key handlers | **violated**: NoReplay |
| `guard_inherit` | threshold 2 | **violated**: OwnLoopOnly |
| `auth_stream` | 1 user, 2 requests, one stream | **violated**: ReauthEndsOnlyRevoked |
| `pane_load` | the OTA pane's first load, with fairness | **violated**: FirstLoadArrives |

Why the bounds are enough. Three seqs give a served, a pending and a drawn
command at once, a duplicate of a key and a fleet command between two own ones;
devices meet only through fleet rows, which carry no per-device state, so one
device shows every interleaving of the cursor logic (the theorems hold for any
number). Two nonces and secrets give an old and a new handshake, three counters
a replay inside and a jump across the window. A ring of 2 with 3 bytes
overruns, exceeds the cap and has multi-byte payloads. A mailbox of one is full
after one frame; two streams are one that stays and one that races the loop's
end. Two uploaders of the same bytes, a deleter and the sweep are all the actors
that meet at a blob; more hashes are independent. Two callers and a warmer are a
leader, a follower and a late arrival of a flight. Two versions and two serials
are an old and a new frame of the own and of another device. In `admin` every
two-step handler has a second actor that can overtake it, every cache and table
has a capacity of one or two, so that it is full, and time runs past every
lifetime. A counter saturating at 4 with thresholds on both sides of it has the
cases of 255. Two ports on one host with two slots make the host lock and the
semaphore differ; a retry and an abort overlap the first job's deferred calls. A
log ring of 2 with 3 rows trims, pages of 1 split an instant. `Policies` takes
its probes around every boundary of its inputs (midnight, equal hours, ceilings
below the floor, ratios that round to zero). Deadlock is checked in the C2Channel
and guard runs; elsewhere the bounds on boots, keys, time or operations end the
behaviour.

Fairness. `C2Channel`: a device that is idle polls at its next wake (WF); a
request ends by an answer or by the socket timeout (WF); and SF on the arrival
of a request, on running what was served, on noticing a failure and on writing
the ack: the link and the power may fail again and again, not for ever. The
backend's work inside a request needs no fairness of its own, nor does any
operator. `C2Notify`: WF on the goroutines only; neither the deadline nor a
reconnect is assumed to happen, so the wakeup is the command's doing.
`LogIngest`: WF on pushing, SF on arrival and on the ack. `SseHub`: WF on the
loop and the handlers, which are goroutines, and SF on the roster poll, which a
failing query may defer but not for ever. `content`: WF on the steps of the
sweep, uploads, callers, warmer, listener, renders and scheduler, all goroutines
that run on; SF on the ageing of a file, because the clock advances whatever
else happens. `pane_load`: WF on commands, messages and ticks of the UI loop.

## 4. Findings

1. **A command can be skipped** (`c2_skip`). The seq is drawn before the commit;
   of two overlapping enqueues the higher can become visible first, be served
   and acked, and the cursor passes the lower for ever
   (`commandstore.go:64`, `c2.go:86`).
2. **A nonce opens two sessions when two copies of a re-key request overlap**
   (`session_replay`): the second install resets the replay counter of a session
   in use (`c2rekey.go:105`).
3. **A new build can inherit the old build's loop** (`guard_inherit`): a reset
   between two NVS commits of its first boot (`guard.c:81`).
4. **A stream can end although its credential is good** (`auth_stream`): the
   route admits every carrier, but the periodic re-check knows operator keys
   only, so the stream of a session, token or Basic login ends at its first tick
   (`events.go:523`).
5. **The OTA pane's first load is lost** (`pane_load`): a batch inside an
   addressed message is not run by the UI library, and the busy flag stays set
   (`app/router.go:46`).

Observations, visible in the models and not made a run.

* C2: a `*` command's idempotency key is never released (MarkApplied matches one
  serial); a device deleted between the check and the insert of Enqueue leaves a
  command for nobody; Enqueue returns an error when the row it ran into is acked
  before it is read back; a playlist refresh is folded into one the device has
  just run; a script that never returns is served for ever, because the ack is
  persisted after the run (`cmd.c:368`; the constant `Poison` of C2Channel, empty
  in the runs, stands for such scripts); two overlapping first registrations can
  leave a session of the losing key (the reason for one registrar); a
  notification sent while the LISTEN connection reconnects is never made up for
  (the exception `deaf` in C2Notify).
* Logs: the delta cap measures the distance to the cursor, which grows while acks
  are lost, so it can refuse legitimate logs (`logingest.go:113`, the exception
  `skipped`); LOG CLEAR restarts the offsets without a new boot, and later pushes
  are taken for duplicates (`console.c:248`); `start_off` of a fragment pushed
  after a lost ack is the cursor although the payload begins earlier, so "each
  byte exactly once" (`logquery.go:263`) fails, and the overlap branch meant for it
  never skips a byte, because the spans [start_off, end_off) tile the stream; the tail's "no loss"
  (`logquery.go:378`) fails for a row that commits after a younger one.
* Events: a subscribe between the loop's last look and its deferred flag reset is
  served by nobody until another connects (`events.go:267`, `raced`); a roster
  row changed and changed back around a snapshot stays wrong in that client
  (`events.go:242`).
* Device: threshold 0 sends the boot after GUARD CLEAR to safe mode; a garbage
  reading while locked leaves the lock, and later low-power wakes sleep under a
  live-looking picture (`lowbatt_core.h:66`); a full RTC store leaves the charge
  screen undrawn; at ARM 4250 the hysteresis is zero (`lowbatt.c:45`); the
  keep-online cycle and the charge screen present after a failed render although
  `present_core.h` calls its gate mode-independent; a migration repeated after a
  reset brings back a credential deleted in between.
* Content: a last-good frame written after the device's deletion brings an orphan
  row back, and a bind overtaken by a deletion leaves a ghost binding
  (`devicestore.go:201`); function renders are not single-flighted
  (`buildframe.go:256`); a leader's disconnect fails all followers of its flight;
  credentials of a crashed backend stay at the egress proxy; an edit whose handler
  dies before NotifyPlaylistChanged triggers no refresh; removeItem notifies the
  playlist of the path, not the item's; a CONNECT tunnel ends only when both
  directions end.
* Admin: rotating a key races its disabling and mints a live successor; rotating
  an expiring key again can extend it; an audit failure answers 500 although the
  mint or revocation is committed; re-enabling an account revives its sessions; a
  failed blob write leaves a firmware row whose retry is refused; ResolveTarget's
  three queries are no snapshot; a replica not restarted after a key rotation
  writes secrets that are lost once the previous key is dropped (`late`);
  re-applying an edited template while its old command is pending answers 200 with
  the old script; changed preview fixtures stay under the same ETag; a MaxWake
  below 60 s is exceeded by the floor; a walk of items under a reorder may repeat
  or skip.
* Console: exit messages carry no run, so a late one ends the next session; a
  release during a backoff is ignored and the timer re-opens the port; a pending
  reconnect cannot be cancelled.
* Flash: aborting a target that waits for its host is a no-op; host locks are per
  controller; a killed esptool is reported as a hash failure; the first batch's
  end is shown while a retry runs; sizes are taken once, a file that grows later
  escapes the NVS check, and GuardFromConfig checks nothing when the offset is bad.
* Shell and hosts: each reload abandons a watcher; a watcher that cannot start is
  re-armed in a hot loop; a change between reload and re-arm is lost; a second
  hosts pane takes the stream from the first; Stop does not end runs of callers'
  contexts.
* Log tail: a batch or more of rows at one instant stalls it; a page ending inside
  an instant loses rows (`cut`); after a clear, a backfill puts pages from before the
  ring's old front into the emptied view, and the rows between are missing (`wiped`); rows of two devices with equal keys are one
  (`Twin`); a full request channel drops a filter change; after a failed re-prime
  the old filter's lines stay.
* OTA and fleet: one busy flag for loads and writes; a stale load overwrites a
  newer one; the late artifact scan lands in a newer form; unpin resets the state;
  placeBlob overwrites a blob before the insert is refused; a serial named by a
  spawn after the first answer is not polled until the next poll.

## 5. Proofs

All theorems are safety properties proved for every value of the constants. Each
rests on an inductive invariant that stands in the component's module, next to
its properties, and that TLC has checked on an instance before it was proved;
the lemmas show that `Init` establishes it and that every action keeps it.

* `C2ChannelProofs`: TypeCorrect; CursorIsBacked, RerunsAreExplained and
  AckMovesForward from `ChannelInv`: per device at most one of request, held
  handler and response is live, its ack equals the persisted one, and what may
  be served is newer. CursorBacked alone is not inductive: it needs that no
  request, current or late, carries more than `c2seq`, and RerunOnlyIfBroken
  that every served seq exceeds it. NoCommandIsSkipped assumes enqueues do not
  overlap and rests on `OneEnqueuerInv`: no committed row is above `Settled`,
  no cursor-like value is either, and every row up to each of them has been run;
  `c2_skip` shows the assumption is needed. KeysAreReleased needs no such
  assumption: the transaction that moves the cursor also releases the keys it
  passed.
* `UplinkProofs`. C2Session: SessionTypeCorrect and BackendNotAhead
  unconditionally (the device increments before it sends, so every poll in
  flight is at or below its counter); SessionBelongsToKey for one registrar, and
  with it SessionFitsDevice; NoncesAreSingleUse and PollsAreNotReplayed for one
  re-key handler, and with them NothingIsUsedTwice. `session_replay` shows that
  the last assumption is needed. LogIngest: LogsAreKept. That acknowledged bytes are stored follows only with
  `IngestInv`: a push in flight starts at an acknowledged byte or fills the ring,
  no row is beyond the cursor (so a push that moves it is never taken for a
  duplicate), and an ack in flight covers stored bytes only. LogReconstruct:
  LogsAreReadable, the rebuild included. `TilesInv` says that the spans of the rows
  that have a start_off never overlap; with it each of these fragments begins, in
  the order of the sort, where the one before it ended or beyond, so the merge takes
  each payload whole.
* `PushProofs`. C2Notify: NoWakeupIsLost for any number of polls; inductive with
  "no handler holds a channel newer than the current one". SseHub:
  StreamsAreSound from `HubInv`: a frame that waits, in the loop or as the last
  of its device in a mailbox, carries what the loop sent last, so a client that
  drains its mailbox arrives there. LogView: RowsAreExact from `LogInv` (no key twice,
  the tail's mark is the last row sent, a reader's cursor is below what it was shown
  and above what it was not); that a page is the next rows in key order follows from
  its recursion, by the least length at which it would not be.
* `FirmwareProofs`. BootGuard: EveryLoopIsCaught and SafeModeIsEarned for every
  threshold and saturation value; the invariants tie the histories `streak` and
  `unstable` to the persisted count. KvStore: StoreSurvivesPowerLoss; only the
  running set has a staged file, and the migration flag follows the credential.
  Wake: WakesAreSound; a locked gate lets only the charge screen through, and
  settings change only while RTC memory is empty. WriteGuard: WritesAreSafe from
  `WgInv`: the sort leaves the write set ascending with every entry in it, and what
  is written was checked against the NVS and is what the files hold, unless a size
  was unknown or a file changed.
* `PlaylistsProofs`: TablesAlwaysAgree from `PlInv` (what the rows of the two
  binding tables say of each other, what a handler carries past its checks, how
  far a rotation may have come), and PlaylistsImplementPanel: under the mapping
  that reads the tables as one register, `PlInit` implies Panel's `Init`, and
  every handler, cascade and frame request is one step of Panel or a stutter.
  Browse: WalksAreComplete from `BrInv` (what was shown is not above the cursor, what
  stayed and was not shown is); ranks in the list's order are a bijection onto its
  positions, so a page of any length is the next rows. Policies: PoliciesAreExact,
  for every input and not the probes only: wake times by clamping and arithmetic
  modulo a day, the verdict case by case, the egress decision by the first resolved
  address that is not denied, substitution name by name, the rotation by ranks of a
  strict order, thumbnails by lemmas about integer division. ProbesAreInputs ties
  the two: what TLC enumerates is among the inputs.
* `ContentProofs`. ImageStore: ImagesAreKept (`ImgInv`: what an upload and a
  sweep have seen of the file is still true of it, or its age protects it).
  VariantCache: VariantsAreSound (`VcInv`: each call in flight has one leader,
  followers wait for a live call, the warmer's phase against the refresh).
  Render: FramesAreSound (`RdInv`: every cached, shared and last-good frame is of
  the serial it is filed under and no newer than the function).
* `AdminProofs`. Secrets: SecretsAlwaysSurvive (`SecInv`: the order of keys, under
  which a row can be, what a sweep has left). Rollout: RolloutsAreSound (`RolInv`:
  what each query of a poll saw was in effect since the poll began). AdminAuth:
  AccessIsSound (`AuthInv`: what a request in each phase knows, how old a cache
  entry and a stream's last re-check are, who holds a slot). RateLimit:
  RatesAreBounded (`RlInv`: tokens missing from a bucket are the failures since it
  was made). Templates: TemplatesAreSound (`TplInv`: what a render under way will
  be filed under, who holds the slot, which function an apply has made).
* `OpsProofs`. Flash: FlashesAreSound (`FlInv`: who holds each host lock and each
  slot of the semaphore, and that the cancel registered for a row is its job's).
  OpsOta: OtaIsSound (`OtInv`: version 0 is never registered, so the pane's
  prediction and the backend's decision read the same rows; the busy flag is a
  command outstanding). FleetPane: PollsAreSound (`TpInv`: at most one poll is
  out, and with none out the detail is the selection's). Console: ConsolesAreSound
  (`ConInv`: a session shown up has a child or an exit on its way, the messages of
  a run end with its exit, typed lines are numbered apart). Shell: ShellIsSound
  (`ShInv`: no pane is in two tabs, and whatever a reload or the file calls valid
  is). Hosts: HostsAreSound (`HoInv`: out of the short gap between counting a
  failure and writing the store, the store has what the worker found; a message
  that waits while the worker does is the poll the store has, so the pane that
  handles it last ends up with the store's row). LogTail: TailsAreSound (`LtInv`: the
  ring lists rows read since the last prime in order of time, cursor and dedup set
  say what was read, every row between the first page and the cursor was, and what
  was read is in the ring, before it, or cleared); a batch is a fold, followed by
  the least index at which it would leave that invariant.

Assumptions on constants are the ASSUMEs of the modules, evaluated by the runs:
bounds are naturals; a sentinel (the fleet serial, no key, no serial, absent, half
written, version 0) is none of the values it stands apart from; callers and
warmers are different goroutines; the default threshold is one of the thresholds;
capacities, bursts, page sizes and `Parallel` are at least one, as the code clamps
them; the mailbox has a size; there is an artifact to write; `Page` and `PollBatch`
of the log pane are naturals, its `RingLines` is any integer, clamped as in the code.

Recursive functions and sorted sequences are proved about without the library's
induction theorems, whose operator parameters no installed prover can instantiate:
every set of naturals that is not empty has a least member (LeastNumber, from the
well-foundedness of strict inclusion on finite sets), so a claim that fails for
some k fails for a first one.

Only model-checked is liveness (Delivered, WokenByCommand, StreamIsServed,
EverythingAcked, ContentProgress): there is no fairness in this prover. Every other
property of a passing run is stated by a theorem.

The types of C2Channel and C2Session are proved and not checked again by a run.

## 6. What is left out

Not modelled, because nothing is left of it once data is abstracted or because
it is outside this repository's logic: cryptography (signatures, sealed boxes and
OTPs are unforgeable tokens), script texts and payload bytes, HTTP framing,
Wi-Fi, the panel driver and drawing, the packing and dithering of images, the
Bun render worker (external to Render, which models its answers), the web UI,
text layout, and the build, configuration parser and connection pool of
picpak-ops. The firmware's OTA update has no caller at this commit
(`ota_update_if_changed`), so there is no behaviour to model; the console's OTA
diagnostics only print.

Abstractions worth knowing: in C2Channel a device has at most one abandoned poll
in flight besides the current one; LogIngest leaves out malformed frames
(skipped without effect) and the OTA snapshot row; Render's frames are pairs of
serial and version; Playlists' images and functions are tokens; times are ticks.

## 7. Plan

The plan is carried out: every component it named is modelled, and every safety
property a passing run checks is a theorem. A refinement mapping of C2Channel's
`authed` onto C2Session was considered and left out: `authed` changes only where
C2Session models the change step by step (register, delete, re-key), and what
C2Channel relies on in between, that a poll is accepted only once and only for the
session of the key on file, is NothingIsUsedTwice and SessionFitsDevice.

What would come next, should the firmware start to send log offsets: its push and
its use of the ack in place of the external ones of LogIngest, and LOG CLEAR, which
restarts the offsets within a boot.
