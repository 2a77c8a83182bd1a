# JellyFreedom, specified

TLA+ models of the orchestrator (`src/cmd/orchestrator`, `src/internal/store` and the
packages around them) and of the scripts that update it and keep its tunnel, the TLC runs
that check them on small instances, and TLAPS proofs of their safety for every instance.

JellyFreedom searches indexers for a release of a title, has TorrServer load it,
writes a `.strm` file for Jellyfin whose address is an identity and not a
torrent, and picks the torrent again each time that address is played. It is one
Go process over one SQLite database with a single connection. So **an SQL
statement or a call of TorrServer is one atomic step, and nothing longer is**:
handlers, the queue worker, background tasks and detached goroutines interleave
between any two of them. Every model here takes its steps at that grain.

## 1. Inventory

### Parts, their state and their operations

| Part | State | Operations | Where |
|---|---|---|---|
| Request queue | `queue` rows under a partial unique index | request, re-pick, season request, subscription enqueue, cancel, delete, clear, startup repair | `main.go:1044-1243`, `store.go:1670-1745, 2144-2287, 795-856` |
| Queue worker | one goroutine with a copy of a row | claim, progress, resolve, write library, finish or fail | `main.go:3239-3382` |
| Resolve-at-Play | handlers, `resolveGroup`, `resolveCooldown` | fast path, cooldown, queue for the lock, recheck, resolve, stream | `main.go:1381-1587`, `serve.go:120-232` |
| Pre-warming | `preWarmCancels`, detached goroutines | register, look up, load or resolve, keep hot, `cancelWarm` | `main.go:3654-3780` |
| TorrServer's cache | torrents loaded in another process | add, drop, list, idle timeout; whoever drops decides by himself | `main.go:3496-3623, 1786-1832, 4104-4134`, `webhook.go` |
| Library | `items` rows, `.strm` files, for pasted pages `web_sources` rows | add, replace, delete, mark stale, health check with a cursor, provider ingest | `store.go:1151-1207`, `main.go:3985-4092, 2800-2990` |
| Web sources | `web_sources` rows, cached media URLs, extraction budget | preview, add, delete, resolve, play | `websources.go` |
| Task registry | one status per task | schedule, run now | `internal/api/tasks.go` |
| Self-restart | pending flag | request, trigger, exit code | `internal/api/selfrestart.go` |
| Limiters | failures per address and name; hits per address | allow, fail, succeed | `internal/api/ratelimit.go`, `serve.go:236-280` |
| Accounts | users, sessions | setup, login, password change, delete | `internal/api/auth.go`, `store.go` |
| Visibility | library grants, private items | `Viewer` predicate of every listing | `store.go:1513-1640` |
| Play tokens | HMAC key, enforcement flag, tokens in files | startup migration, rotation, check | `playtoken.go`, `rotatekey.go` |
| Subscriptions | followed seasons | periodic enqueue of aired episodes | `main.go:4140-4270` |
| Namespace proxy | SOCKS5 connections | handshake, dial, relay | `internal/netnsproxy` |
| Picker | none: a function of the indexer's answer | score, reject, preselect, diagnose | `internal/picker`, `diagnosis.go` |
| Choice of a file | none: a function of a torrent's list | file of an episode, index for `/play` | `internal/torrserver/client.go:280-420` |
| Updater | `VERSION`, `CHANNEL`, the binary, a systemd unit, a cached check | check, apply, `--update`, switch channel | `internal/update`, `release/` |
| Tunnel | WireGuard configs, the namespace's interface and route, the watchdog's status file | upload, activate, bounce, watch, restart TorrServer | `main.go:2337-2515`, `vpntorrent/` |
| HTTP clients, web interface, settings, installer | | | `internal/{indexer,tmdb,jellyfin}`, `web/`, `release/install.sh` |

### Who talks to whom

- Handlers and the worker share only the database. The worker **copies** a row and
  writes the copy back; `/play`, the health check and pre-warming do the same
  with library rows. Every such copy may be stale when it is written.
- `/play`, the worker, pre-warming, removals, the webhook and orphan cleanup share
  TorrServer. Nobody owns a torrent and nothing counts its users; a season pack
  is one torrent behind many rows.
- `/play` requests of one title share `resolveGroup`'s mutex and the cooldown.
- A stop cancels the root context and drains HTTP; it waits for neither worker
  nor tasks (`main.go:2612`). TorrServer survives it.
- The dashboard starts two root helpers: one that bounces the tunnel, which a watchdog
  bounces as well, and one that updates, in a unit that outlives the service it restarts.
  Files are all they tell one another.

### What is hard, and what makes each part correct

The full list, with lines, is `hazards` in `PROJECT.json`. In short:

- **Queue**: check-then-act across statements, the worker's stale copy, a crash
  between claim and finish. Correct when a requester has one request in flight
  per title, none is lost or worked on twice, settled ones stay settled, and
  each is settled in the end.
- **/play**: waiters that give up while a goroutine of theirs still waits for the
  mutex. Correct when one attempt per title runs at a time and no abandoned
  waiter leaves the title locked.
- **Pre-warming**: a registry keyed by episode and shared by goroutines that
  outlive their entries. Correct when one goroutine at a time warms an episode,
  the player ends it, and no entry outlives its goroutine.
- **Cache**: look-then-drop by six parties. Correct when nothing whose add was answered is
  leaked, nothing orphaned stays, and the webhook spares who watches.
- **Library**: an entry is a file and one or two rows, three writes that nothing makes
  one; each has a rollback of its own, and stale copies are written back over removals.
  Correct when an entry is whole or not there once nobody is at work on it, an item that
  moves leaves nothing behind, and a link is never lost before its entry.
- **Health check**: a run gets through a few dozen rows and may be cut off. Correct when
  every row is looked at again.
- **Web sources**: `resolveGroup` again, now with a second queue inside the first:
  the holder of a link's lock waits for one of three extraction slots, which the
  dashboard's previews and adds take without any lock; a refused URL makes a player
  resolve again past cache and cooldown. Correct when one player at a time
  resolves a link, a failure is served back and not repeated, no slot is lost
  and a removed link stays removed.
- **Tasks and restart**: a status is all that keeps a schedule and a manual run apart; a
  restart depends on the exit code and on the unit's policy. Correct when one goroutine
  at a time runs a task and an accepted restart comes back.
- **Play tokens**: refusing unsigned URLs before every file is signed stops the library;
  files may be unwritable and starts cut short. Correct when the file of every row plays.
- **Login limiter**: attempts overlap between asking and reporting, buckets age. Correct
  when offenders wait and nobody else does.
- **Accounts**: requests read a row, spend time and write the row back. Correct when an
  admin remains, sessions end with their password, and an id is never inherited.
- **Tunnel**: activations, the watchdog and the port forwarder do not know of one
  another. Correct when a config that works ends in a tunnel that works, and a leak in
  no TorrServer.
- **Updater**: cut off anywhere, asked for twice, on changing channels, several nightlies
  a day. Correct when it never goes back behind what `VERSION` says and does what the
  dashboard offered; the check asks GitHub once.
- **Picker and files**: rules stated twice, in two orders, and read with different settings
  over different lists. Correct when each reader gets the best of what its rules allow, a
  diagnosis has a reason against all that counts, and the file played is the episode.

## 2. Modules

| Module | Models | Extends |
|---|---|---|
| `RequestQueue` | the `queue` table, handlers, worker, stop and restart | |
| `SingleFlight` | abstract: what `resolveGroup` promises, one holder per key | |
| `ResolveGroup` | `resolveGroup.lock` with its detached goroutines | |
| `ResolveAtPlay` | `playHandler` over `ResolveGroup` | `ResolveGroup` |
| `PreWarm` | `maybePreWarm`, `preWarmNext`, `cancelWarm` | |
| `TorrentCache` | who loads and drops torrents | |
| `WebPlay` | `webPlayer`: play, resolve, inspect; the dashboard's use of them | `ResolveGroup` |
| `Library` | every writer of rows, files and links | |
| `HealthCheck` | the check's cursor, runs and searches | |
| `TaskRegistry` | schedule, manual run, self-restart, systemd's answer | |
| `PlayTokens` | key, marker, migration and sweep of a start, rotation | |
| `Limits` | the login limiter and its handlers | |
| `Tunnel` | configs, activation, watchdog, port forwarder | |
| `Picker` | `Score`, `RejectedBy` and the readers of their results | |
| `PackFiles` | `EpisodeFileIndex`, `resolveFileIndex` | |
| `Accounts` | users, sessions, grants and the requests about them | |
| `Updater` | order of versions, offer, `Apply`, the script | |
| `UpdateCheck` | the cached check and its lock | |
| `Background` | `PreWarm` with, as instances, `HealthCheck`, `TaskRegistry`, `PlayTokens`, `Limits`, `Tunnel`, `Picker` and `PackFiles`: one set of names, the assumptions on their constants, `AllTypeOK` | `PreWarm` |
| `Administration` | `Accounts` with, as instances, `Updater` and `UpdateCheck`: the same, and the order of semver | `Accounts` |
| `*_proofs` | theorems and proofs of `RequestQueue`, `ResolveAtPlay`, `TorrentCache`, `WebPlay`, `Library`, `Background` and `Administration`; `ResolveGroup_proofs` has the lemmas both its users need | the module of that name and `TLAPS` |
| `MC*` | model values, symmetry, suites | the module of that name, see below |

Three of the `MC` modules are **suites**: `MCPlayback` (`ResolveAtPlay`, with `RequestQueue`),
`MCHandlers` (`Administration`) and `MCBackground` (`Background`).
Their components share no state and are not composed: `part` chooses
which of them a behaviour is of, the others keep an initial state, and the properties
are those of the modules. In `MCRequestQueue`, `part` chooses between handlers that
overlap and crashes with faults, and in `MCLibrary` which two identities a behaviour is of.

A handler, goroutine or task is a record with a program counter (`pc` or `at`)
and the values it has read; an action is one statement or call together with the
pure code up to the next one. Names follow the source: `NextPending`,
`EnsureLoaded` (inside `TryCached`), `CountReadyByHashExcept`, `cancelWarm`
(`Play`, `Return`) and so on; `map` in `PROJECT.json` has the lines.

**RequestQueue.** `queue[i]` is a row by its id; `Clashes` is the index
`idx_queue_active_identity`. `POST /request` is nine actions from `RequestStart`
to `Respond`; a season request or subscription is one iteration of its loop. The
worker's `Claim` is apart from `NextPending` because they are two statements.
`Stop`, `Exit` and `Restart` are the context's cancel, the end of the process at
any step (a crash, too) and startup with its repair of the table: rows in flight for one
requester and title collapse onto the oldest, finished ones onto the newest of their
status, and what was interrupted is pending again. A behaviour begins before the first
start, on a new database or on any table an older version without the index may have
left (`nextId` rows of it). `SettledRows` is about done, failed and cancelled rows; the
one it leaves open is named in it (`Overtaken`): cancelled between the two statements of
`NextPending`, with the worker's copy in hand.

**ResolveAtPlay.** `resolveGroup.lock` starts a goroutine that locks a mutex and
sends on a channel, and a caller that gives up starts a second one that gives the
mutex back: `mutex` and `call` are the two halves. `release()` is deferred, so it
is part of `StreamEnds` and not of `Resolved`. `SingleFlight` says what the
group is for, and `ResolveGroup` implements it with `holder` and `asking` read off
`mutex` and `call`; the goroutines' steps stutter.

**PreWarm.** `preWarmCancels[e]` names the goroutine whose context the entry
cancels; `Register` is the locked look-and-write; `Return` is the deferred
`cancelWarm`, which asks for the episode.

**TorrentCache.** `proc` is a worker or a `/play` request with the candidate it
holds; `remover`, `hook` and `cleaner` are the three that look before they drop,
one step per question. `Drop` may fail, and so may an add: `AddFails` is the error after
TorrServer has accepted the torrent, and the resolve ends without knowing what to drop.
Two history variables serve properties: `trial`, torrents loaded only to be tried by an
add that was answered, and `spared`, who has watched since a
webhook call began. Rows change under everybody's feet (`LibraryChanges`), because
the health check and ingest write them whole.

**WebPlay.** `Request` to `PlayEnds` are `webPlayer.play`, `resolve` and `inspect` from
the top, and `Refused` sends a request through them once more with `force`. The
same `ResolveGroup` is used, but here `release()` is deferred in `resolve` and so
belongs to whatever ends the resolve (`CacheHitAgain`, `Blocked`, `Keep`,
`ResolveFailed`), not to the stream. An extraction that ends badly is "failed" or
"hungup"; the code cannot tell the two apart, a player who hangs up can. The
dashboard's handlers are `Paste` to `AddLink`, `Remove` to `Invalidate`, and `Status` with
`Version`, the one yt-dlp process without a slot; the `.strm`
and the library row they also write are left to `Library`.

**Library.** `row[q]` is the identity of the `items` row with path `q`, `file[q]` the identity
in the play URL of the file there, `links` the pages of `web_sources`: three stores. `run[h]`
is a handler with what it has left to do: an add goes `Write`, `Link` (pasted pages), `Record`
and `Discard` of the paths it superseded, with the rollback of each failure
(`WriteFails`, `RecordFails`); a removal `Unlink`, `Delete`, `Forget`; a copy is read
(`ReadCopy`) and written back later. `Stop` ends them all. Two ghosts name what the code makes
up for nowhere: `excused`, paths and identities that two handlers were busy with at once or a
fault has hit, and `raced`, identities that a removal and another handler of it (an add, or a
write-back of the health check) were busy with at once.

**HealthCheck.** `Begin` reads the rows and puts those behind the cursor first
(`rotateAfter`), `Look` saves the cursor or fails to, `Revive` and `Expire` write back the
copy, `End` and `Cut` end the run.

**TaskRegistry.** A goroutine is the schedule's or one of `RunNow`'s; `Call` is `runTask`'s
locked look at the status. `Request`, `Trigger` and `Exit` are the restart, whose exit code
`Revive`, systemd, holds against the unit's policy.

**PlayTokens.** A start is `LoadKey`, `ReadMarker`, a `MigrateRow` for each row, `Migrated`
(which decides on enforcement), a `SweepFile` for each file and `Started`; a file may be
unwritable at each, `Rotate` and `Stop` may come between any two, and so may the worker's
`AddEntry`, since the worker is started first (`main.go:195`).

**Limits.** `Attempt` asks for address and name and begins the comparison, `Wrong` and `Right`
report. Buckets age with `now`, and every call sweeps (`Swept`).

**Tunnel.** `Activate` to `RestartTorr` are the handler's calls of the root helper with
their rollback, where `vpn-up` may fail or be cut off with the browser's request
(`UpCutOff`); `Watch` is the watchdog's check of the tunnel, one step per command, the
status file included. Servers and routes change by themselves.

**Picker, PackFiles.** Operators (`Score`, `RejectedBy`, `EpisodeFileIndex`) over small
vocabularies; their actions only make the input longer by one release or file, so that
every answer up to the bound is a state. The picker has two readers that differ: `scored`
is the dialog's list, of the whole answer (`found`) under the global settings and without a
running time (`DialogsConfig`); `candidates` is the worker's, under the settings of the
library (`PickerFor`) and with the running time if it is known (`WorkersConfig`), narrowed
to the releases that name the episode (`Narrowed`), of a second answer (`packs`) if the
first is empty. `OnePick` says what each gets, and that the two agree where settings and
answer do not differ. The picker's loops are recursive functions
(`Sorted`, a stable insertion sort; `Keep`, the candidates up to the limit), which the
proofs unfold.

**Accounts.** `run[h]` is a request with the row it has read (`copy`); what it does is the
name of its next step. Requests are let in by their session when they begin and never
again. Two ghosts: `excused` marks an account to which something out of date was done
(`Late`), and `unpurged` one with which a former password lives on: a login checked before the
change and recorded after it, a `Patch` that writes the row it read before back, a purge that
failed or was cut off.

**Updater, UpdateCheck.** Versions are compared as `semver.go` does, with identifiers of a
pre-release as pairs and the metadata of a nightly as its day and commit. The script is
`Download`, `Judge`, `InstallBinary`, `InstallVersion`, `InstallRest`, `RestartService`;
`Aborted` ends it anywhere. `Apply` and `Launched` are the dashboard's side. `UpdateCheck`
is the cache, with its lock and the second look behind it.

### What abstraction leaves out

Releases, hashes and identities are model values: parsing, scoring, file
selection and formatting choose *which* value, never what is done with it. An
external answer (indexer, TMDB, TorrServer, Jellyfin) is any answer or an error.
Time is the freedom of a timeout to fire. Text, progress and posters are not
modelled.

## 3. Runs

| Run | Question | Instance | Result |
|---|---|---|---|
| `queue_rows` | one row in flight, rows held, answers right, settled rows settled, none lost? | 1 title, 2 rows; 2 handlers of an admin on a new database without faults; or one of 2 users at a time with 1 crash, 1 fault, on any table an older version left | holds |
| `handlers` | is there always an admin, do sessions end with their password, is nothing inherited; do updates only go forward and keep the offer's word; is GitHub asked once? | 2 names, cookies, requests, ids and passwords; 9 published versions; 2 pages, 1 refresh, 6 ticks | holds |
| `playback` | one attempt at a time, `SingleFlight` implemented, waiters served, requests settled, also behind others? | 3 calls, 1 title, 2 releases; a queue of one user who asks again and again, with 1 crash; a queue of two users in flight at once, with re-picks without end; fairness | holds |
| `web` | one resolve, none in cooldown, no slot lost, removed stays removed, all answered? | 2 requests, 1 link, 2 dashboard handlers, 1 slot, fairness | holds |
| `torrents` | is what was tried dropped, and does the webhook spare viewers? | worker, viewer, webhook, 2 titles, 2 torrents | holds |
| `orphans` | do orphans go, across crash and failures? | worker, viewer, removal, cleanup, 2 titles, 1 torrent, 1 crash, fairness | holds |
| `library` | are entries whole, one for each item, with their link? | 2 paths; two of a title, an item and a link; 2 handlers, 1 fault | holds |
| `background` | pre-warming, health check, tasks and restart, tokens, limiter, tunnel, picker, files: does each do what section 1 asks of it? | 3 loops over 2 episodes; 3 rows, 2 a run; 2 tasks, 2 manual runs; 2 entries, 3 keys; 2 addresses, 1 name, 5 ticks; 2 configs, 1 activation with leaks or 2 that overlap without; 6 releases, answers of 3, 3 global settings, or one with a library's own, running time known or not; 10 kinds of files, torrents of 3; fairness | holds |
| `queue_repick` | is a re-pick honoured? | 1 handler, 2 releases | **violated** |
| `web_hungup` | does hanging up leave the cooldown alone? | 2 requests, 1 link, 1 dashboard handler, 1 slot | **violated** |
| `library_rollback` | does a rollback remove only what no row points to? | 2 paths, 2 items, 1 handler, 1 fault | **violated** |
| `watchdog_latch` | does TorrServer come back after a leak? | 2 configs, 1 activation | **violated** |

**Why the bounds are enough.** Titles in the queue meet nowhere but in front of the worker
(the index and every statement name one identity, a requester's of a title), where two
requesters' rows of one title do as well, so one is enough; two rows let one finish while
another is in flight, and two handlers and a worker are all pairs that can race. What
waits behind the single worker is seen with two rows in flight from the start: two users
ask for the same title, each has a row of his own, and re-picks of either may never end.
Three `/play` requests are a holder, a waiter and one who gives up. Three pre-warm
goroutines are one cancelled, its successor and a rival. Two titles on one torrent are a
season pack; a second torrent is what a row can be superseded by. One crash is enough
because startup forgets everything but the tables. Links share nothing but the slots, and
the dashboard's handlers contend for those: so one link, two players (a holder and one who
queues; each takes either part, again and again), and one slot, so that it is full. Two
paths are where an entry moves from and to, and two identities, of any two kinds, are what
a path can be disputed between. Two rows a run of three are a run that ends before the
list does, and a list that begins behind the cursor and wraps. A schedule and two manual
runs of two tasks are a clash and a bystander; three keys are one in the files, one in
memory and one in the database. A burst of 1 puts the backoff within reach, five ticks let
a bucket age out and be sowed again. Two accounts are the one who acts and the one acted
upon, in turn, and two requests are one who reads and one who writes in between. The nine
versions are a release, a local build and two nightlies of one day after it, two
candidates whose numbers sort otherwise as text, a nightly of their release before its
tag, the release, and a nightly after it. The releases are told apart by one rule of the
picker each, and three of them suffice for a first, a second and one rejected. Where two
activations of the tunnel overlap, servers only stop to answer and nothing leaks, which
keeps their product with the watchdog small; everything else of the tunnel is seen with
one. `MaxRows`, `MaxCrashes`, `MaxFaults`, `MaxId`, `MaxKeys`, `MaxTime`, `MaxFailures`,
`MaxAccounts`, `MaxPasswords`, `MaxForced` and `Most` cap what the code does not.

**Symmetry** is declared where the permuted values differ in nothing but their
name and no liveness is checked (handlers and releases in `queue_rows`, torrents in `torrents`,
paths and handlers in `library`, names, cookies, handlers and pages in `handlers`).

`queue_rows` and the runs of a single module leave their type invariants to the proofs;
the suites check those of their modules together (`AllTypeOK`), as well as proving them.

### What the violated runs show

- `queue_repick`. A re-pick that arrives while the worker resolves the row puts
  it back to 'pending' (`store.go:1711`); the worker's next write of its copy makes
  it 'processing' and then 'done'. The user's choice is lost without a trace.
- `web_hungup`. "A client that hung up mid-resolve ... must not put a working entry into
  cooldown" (`websources.go:244`): the test for it is `context.Canceled`, but
  `Client.Inspect` turns the error of the process its context killed into
  `ErrExtractionFailed` (`ytdlp.go:222-229`). The next player within the minute is
  turned away from a link that works.
- `library_rollback`. "Roll the .strm back, but ONLY if we just created it" (`main.go:2879`):
  whether it did is asked of the row of the same *identity*, while the path comes from
  title and year. Two items of one name share a path, and the failed registration of
  the second removes the file of the first. A pasted link asks the same
  (`websources.go:803`), and the worker removes the file unasked (`main.go:3350`).
- `watchdog_latch`. "Once the tunnel is genuinely anonymous again the stack comes back on
  its own" (`watchdog.sh:101`): that TorrServer was stopped for a leak is remembered in
  the status file, and a check that finds the tunnel down writes over it (161, 183).
  TorrServer then stays stopped behind a tunnel that works.

### Seen while modelling

Behaviours the models contain, or leave out, that no property excludes.

- *Play*: a waiter of `/play` waits for the winner's whole stream, because `release()` is
  deferred (`main.go:1550`; `serve.go:123` says "queue behind one attempt"). The worker
  drops a torrent somebody may be watching (`main.go:3365`), which `webhook.go:17` takes
  care not to; TorrServer loads it again on demand. The deferred `cancelWarm` of a
  goroutine `/play` has cancelled may cancel its successor's loop (`main.go:3720`).
- *Queue*: a cancel between the two statements of `NextPending` is overwritten
  (`store.go:1725`), the exception `SettledRows` makes. The worker takes the oldest
  request first and a re-pick keeps its place, so that a request may wait for ever behind
  an older one that is re-picked without end (`RequestsSettle` makes that exception, and
  no other). `EpisodeActive` asks the library first and the queue second
  (`store.go:1361`): an episode that finishes in between is in neither answer.
- *Webhook*: `docs/dev/operations.md:285` has it count other library rows that share the
  hash; the query counts 'ready' ones (`store.go:1474`). `HookSparesViewers` is stated
  for ready titles, as the code is, and for who has watched since before the call: who
  begins between Jellyfin's answer and the drop is cut off for a moment.
- *Failed add*: an add that ends in an error (a time-out, an answer that cannot be read)
  after TorrServer has accepted the torrent is returned from without a drop
  (`client.go:202-216`, `main.go:3513-3518`), though the torrent keeps its place in the cache.
  `TriesAreDropped` is about adds that were answered; `OrphansGo` shows that the cleanup
  comes for the others, and for failed drops and crashes.
- *Write-backs*: the health check writes rows back that it read at the start of its run
  (`main.go:4072`), and `/play` one it read before its resolve (`main.go:3609`): a title or a
  pasted page that was removed meanwhile has a row again, without file or page.
- *yt-dlp*: `websources.go:81-82` says that the budget bounds "how many yt-dlp processes exist
  at once, across every path that can start one — play, preview, add and status"; the status
  page asks yt-dlp for its version without taking a slot (`websources.go:601`). `SlotsAreReturned` is the bound on play, preview and add, and names
  the processes of `Version` as the exception.
- *Orphans*: cleanup looks a hash up and drops it in a second call (`main.go:4116`).
- *Subscriptions*: the failures that are to be spared are read once for a whole
  check (`main.go:4209`).
- *Accounts*: setup forms sent together both pass the question and make two admins
  (`auth.go:134`). `PUT /libraries` writes the boxes the browser was shown, so one of two admins
  who revoke at once loses (`store.go:428`). `PATCH /users/{id}` writes back the whole row it
  read (`dashboard.go:661`): a password changed meanwhile is the old one again. Two admins may
  demote or delete one another at once.
- *Tokens*: a rotation re-signs the files of rows and those that have no token; a file
  without a row keeps the old one. A decision to enforce that cannot be saved is kept
  for this process only.
- *Limiter*: a failure older than the window still puts its address under the name's
  backoff until the next sweep.
- *Restart*: `selfrestart.go:149` says an unsupervised process may restart itself, and
  `restartPolicyRevives` refuses it.
- *Tunnel*: the active config cannot be deleted, but the one being activated can: it is
  the active one only once its handshake is over (`main.go:2479`). Of two activations at
  once, one that fails puts back what was live before the other.
- *Picker*: what the dialog preselects need not be what the worker would pick: it scores the
  answer unnarrowed, with the global settings and no running time (`main.go:1742`), the worker
  narrowed, with those of the library and the running time (`main.go:3422-3479`). The dialog
  sends the release along with the request (`releases.js:141`, `modal.js:785`), so the worker
  tries that alone, also one the library's settings rule out; who may not see magnets is
  shown one choice and given the other. A film called "Screener" is always judged a cam. A
  diagnosis has releases with an empty reason when narrowing to an episode removed them.
- *Updater*: an update cut off between binary and `VERSION` (`install.sh:380-387`),
  followed by a switch of the channel, may replace the binary by an older one: the verdict
  is about `VERSION`, and so is `OnlyForward`, while `release/jellyfreedom:26` speaks of
  "the one installed". A nightly that is built between the bump of `VERSION` and the tag
  has the number of the coming release (`nightly.yml:62`, `release.yml:106`): the release
  is then a "downgrade" (`verdict.go:61`) and is never offered to it, and the other way
  round it passes for newer than the release (`verdict.go:57`), although it may be older.
  `OfferIsUpgrade` and `OnlyForward` name the two. Which of two nightlies of a day is the
  later is taken on trust (`verdict.go:65`), and rightly so while only the newest is
  fetched. Cut off after `VERSION`, the next `--update` has "nothing to do" while units
  may be old. A second `Apply` while the script runs is accepted and ends as "failed"; a
  script that failed or refused is reported "done".

### Fairness, and why the code justifies it

- *Queue*: the worker's loop wakes every three seconds, all it waits for has a
  timeout, and systemd restarts the process. No handler is obliged to call, and none to
  stop calling.
- *Play*: every wait has a deadline and a stream ends; a `sync.Mutex` in starvation
  mode serves its queue in order (strong fairness of `Grant`). A waiter is
  **not** assumed to give up: it must be served by those in front of it.
- *Web*: an extraction has its 90 seconds; goroutines blocked on a channel are served in
  the order they came (strong fairness of `TakeSlot`), and the mutex as above.
  Nobody is obliged to hang up, cached URLs and cooldowns need not expire.
- *Orphans*: cleanup runs hourly; a lookup that fails sometimes does not fail for ever
  (strong fairness of `Condemn`), and neither does a drop. Viewers, worker, removals
  and crashes are under no obligation.
- *Health check*: it is scheduled, a search has a timeout, and not every write of the
  cursor fails (strong fairness of `Look(TRUE)`). Searches may fail for ever.
- *Tasks*: timers fire, a task has its budget, the drain has a grace period, and systemd
  does what the unit says.
- *Tunnel*: the watchdog's timer fires every minute, and each call of the helper has 90
  seconds. Servers, routes and users are under no obligation.
- In `Limits` and `UpdateCheck` time stops at its bound and the suites stutter there; only
  safety is checked of them.

## 4. Proofs

All for every value of the constants that satisfies the named assumptions in the modules.
TLC evaluates each of these on the instance of its run. What they say:

- Sets of processes are disjoint, sentinels are outside the sets they complete, bounds are
  natural numbers (in every module).
- `TaskAssumption`: a schedule's goroutine is none of `RunNow`'s. `TokensAssumption`: titles
  with a library row and without are told apart.
- `LimitsAssumption`: no address is a name; the code prefixes keys with "ip:" and "user:"
  (`ratelimit.go:112`).
- `PickerAssumption`: counts and points are integers, flags are booleans; nothing of which
  tokens a title has or what settings say. `FilesAssumption`: sizes are natural numbers,
  and a file is told by its name, by its directory or not at all.
- `UpdaterAssumption`: what is published precedes nothing that was published before in the
  order of semver, and is a build of its own: `VERSION` only grows on main, and releases and
  nightlies are built from it. Several nightlies of a day, and nightlies before as well as
  after the tag of their number, are within it. Releases have no metadata, and only what the
  nightly workflow builds has a day. `Odd` versions, "dev" among them, are the ones that do
  not parse.
- `UpdateCheckAssumption`: a failure is not kept longer than a success (`check.go:26`).

| Module | Theorems | Argument |
|---|---|---|
| `RequestQueue_proofs` | `Typing`, `Uniqueness`, `ProcessingRowsAreHeld`, `AnswersAreMine`, `RowsStaySettled`, `InFlightRowsAreKept` | until the first start the table may hold duplicates, and that start leaves the oldest; from then on ids not handed out are unused, so an insert cannot collide; the worker's row exists, and is 'processing' or settled by somebody else; every id a handler remembers belongs to its requester and title |
| `ResolveAtPlay_proofs` | `Typing`, `OneAttempt`, `Refinement` | who came past `mu.Lock()` owns the mutex, so two in the slow path of a title are one; each stage of a handler fixes the stage of its call; each step of the group is a step of `SingleFlight` or a stutter |
| `Background_proofs`: pre-warming | `WarmTyping`, `OneAtATime`, `NoStaleEntry`, `PlayerTakesOver` | a live goroutine *is* its episode's entry, and an entry's goroutine is live: each half keeps the other, and either alone is not inductive |
| tasks, restart | `TasksRunAlone`, `RestartIsNoStop` | a task is marked as running exactly when one goroutine works on it, while the process lives; `Call` marks it under the lock. A restart is only accepted under a policy that revives, and a process that ends without the operator exits with 1 |
| play tokens | `LibraryPlays` | each step of a start says what is done with the rows behind it: not yet migrated, lost, or signed with the key in memory; enforcement is decided only when none is lost, or was already in force before |
| limiter | `CleanAddressesPass` | a bucket holds the failures of its address since the last success, and what it blocks is computed from them (`Kept`); a streak whose bucket is gone is older than window and backoff (`Aged`), so a sweep frees no offender |
| files | `EpisodeIsStreamed` | the answer stays the one of the first pass that had any; TorrServer's ids differ from positions by one constant, so the index `/play` reads is the file that was meant |
| picker | `PreselectedIsTried` | for any settings, the dialog's or the worker's: `Score` and `RejectedBy` accept the same releases (`RulesAgree`); some release of those accepted is marked best (`OneIsBest`); after each insertion the list has the same releases, falls in points, and of equal ones the marked comes first (`SortStep`, `SortKeeps`); so what `Keep` leaves is what the rules allow, best first, and where both readers have one list its first is the marked one |
| health check, tunnel, all | `HealthTyping`, `TunnelTyping`, `BackgroundTyping` | by the invariants above |
| `WebPlay_proofs` | `Typing`, `OneResolveAtATime`, `NoRetryInCooldown`, `SlotsBack`, `StaysRemoved`, `Refinement` | each stage of a request fixes the stage of its call, so two that resolve a link are one; only a request that resolves a link starts its cooldown, so what the holder has read of it stays true; the slots in use are the extractions that run, so who takes one had none |
| `TorrentCache_proofs` | `Typing`, `NoLeak`, `HookIsCareful` | after Jellyfin's answer nobody who was there at the start watches the title that stopped, after the count nobody watches any; later steps only take viewers away, because who streams streams the same title until he ends |
| `Library_proofs` | `Typing`, `Whole`, `Moved`, `Linked` | two handlers with a path or identity in common are excused there, so on every other path one handler's stage says what row, file and link are: lemma `Framing` carries that over what the others do, `TakingUp` over a claim that begins |
| `Administration_proofs`: accounts | `AccountsTyping`, `AnAdminRemains`, `SessionsAreOfThePassword`, `NewAccountsAreNew` | ids above the last have no row, session, grant or request; a session of an old password has a purge at work that will end it, or its account is in `unpurged`; the caller of a request about an account is another account, and an admin unless the request is late, so what it removes is not the last |
| updater | `CompareIsPrecedence`, `UpdatesGoForward`, `OfferedIsInstalled` | `Compare` decides semver precedence: both look at the least place where two lists differ; so an upgrade comes later among the published versions (`UpgradeIsLater`), and between verdict and `VERSION` the bundle is one that was cleared (`ClearedIsLater`); versions that compare alike are builds of one number, and a nightly that was fetched was the newest, so that it is never older than the one recorded (`NewestNightly`) |
| update check | `GitHubIsSpared`, `AdministrationTyping` | behind the lock and the second look one asks at a time (`OneAsks`); the requests so far fit into the time up to the cached answer (`Spaced`), so one more fits when it has expired |

Each proof has the shape `Init => IInv`, `IInv /\ [Next]_vars => IInv'`, `IInv => P`,
with `IInv` in its theorem `Invariance` or a lemma; an action property is proved from the
invariant at the step. The properties alone are not inductive: uniqueness
needs what the worker's copy says of its row, `HookSparesViewers` needs what each
earlier answer has excluded, `EntriesAreWhole` what every handler has done so far.

Recursion is reasoned about without the library's induction theorems: `AllUpTo` proves
that a set which contains 0 and the successor of each member below n contains 0..n, from
the least number outside it (`LeastOfSet`), and the picker's loops and the limiter's
backoff are proved from it. That such a recursive function exists is part of that
(`KeepIsALoop`, `SortIsALoop`, `ShiftedIsTime`).

Every safety property that a passing run checks is a theorem. Only model-checked: the
liveness properties (`RequestsSettle`, `WaitersAreServed`, `OrphansGo`,
`RequestsAreAnswered`, `EveryRowIsLookedAt`, `RestartComesBack`, `WatchdogHeals`), since
fairness and ENABLED are outside what TLAPS proves; of `RestartComesBack` the safety half is
proved, that systemd's guard holds (`RestartIsNoStop`). The properties of the violated runs
are false.

## 5. Not modelled

The parts listed as `not_modelled` in `PROJECT.json`, each with its reason: HTTP clients
(their answers are free choices of the models), settings, the web interface, the
installer, the visibility predicate (one query, no state), the open-stream counter and
the SOCKS5 proxy. Within modelled parts: capability tokens, HEAD requests, thumbnails,
progress text, notification of Jellyfin, the webhook's secret, the sliding window of
release searches, air dates of subscriptions, the watchdog's host NAT and its strikes
against TorrServer, the update page's status, a manual `jellyfreedom --update` (which
the dashboard's unit is not serialised with), and library gates beyond "the statement
affects no row".

## 6. Plan

1. **Visibility**: the viewer's predicate against each listing, over `Accounts`' grants.
2. **Search limiter**: the sliding window, beside `Limits`.
3. **Netns proxy**: the handshake and the semaphore of connections.
4. **Library with torrents**: `Library` and `TorrentCache` over one table, so that the worker's
   drop and its library write are one story.
5. **Subscriptions**: the air dates and the day's grace after a failure, over `RequestQueue`.
6. Larger instances of `library` and `handlers`; and of the liveness properties the safety
   half each rests on (what a step of the watchdog or a run of the health check leaves
   behind), as invariants that can be proved.
