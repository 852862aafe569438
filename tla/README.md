# frr-bootc in TLA+

frr-bootc turns a bootc image into an FRR router: two daemons apply ConfigMaps
to the guest, and a dashboard on the consoles shows what came of it.  None of
the three can be restarted by hand when nobody is logged in, all of them act
on state that others change under them, and most of their hard cases - a
ConfigMap that is swapped half-way through a copy, a tool that fails after
half of its work, a unit that starts too late - need several actors in an
order no unit test sets up.  This directory models that part of the program,
checks it with TLC and proves the results that matter most with TLAPS.

`PROJECT.json` lists the components, runs, mutants, findings, hazards and
theorems, and maps every definition that models code to its source lines.

## 1. Inventory

### frr-config-sync (`config-sync/src/frr/mod.rs`)

State: the mounted ConfigMap `/run/config/frr` (kubelet owns it), a staging
directory, `/etc/frr`, and the running `frr.service`.  Each tick (every 120 s)
copies the mount into a fresh staging directory, validates the staged
`frr.conf` with `vtysh -C`, sets owner and mode, rsyncs into `/etc/frr`, and
then does nothing, runs `frr-reload.py` (falling back to a restart) or restarts
`frr.service`.

Hard: the tick is not atomic and the ConfigMap may change between any two of
its reads; every tool may fail, some of them half-way; the daemon may be
killed, the guest may reboot; network-config-sync reloads the same service.
Correct means: only validated and only published files are ever installed; a
tick without changes leaves FRR alone; FRR runs what is installed; what the
operator publishes is installed in the end.

### network-config-sync (`config-sync/src/network.rs`)

State: the mount `/run/config/network`, a cache of documents that were applied
and came up (`/run/network-config-sync/last-applied`), the kernel's interfaces,
its own unit (`Type=notify`), `frr.service` ordered after it.  Each tick takes
the state files in order, skips a cached one, applies any other through
nmstate, checks the links, caches what converged, and in the end reloads FRR
and sends `READY=1` if everything converged.

Hard: the cache is about convergence, not about what the kernel holds; an error
in one file ends the tick; the reload job is ordered behind the very unit that
waits for it; links come up late or drop; the unit has a start timeout.
Correct means: readiness and reloads follow convergence, a skipped document is
an applied one, FRR starts after the network and follows its changes, and a
good ConfigMap is applied completely.

### Daemon loop, lock and status (`config-sync/src/lib.rs`, `src/bin/*`)

State: an flock, a status file in `/run`, the process.  Both daemons take the
lock or exit, then for ever: attempt, write `ok` or `error` to a temporary file,
rename it over the status file, sleep.  Correct means: one instance at a time,
whole status lines, attempts go on.

### Dashboard

* `systemd.rs`: health of a sync daemon from three looks (unit active?, age of
  the status file, its content).  Correct means: ok only after a recent success,
  stale only when something was lost, a hang shows.
* `main.rs`, `snapshot.rs`: a gather thread reads the system and sends snapshots
  over a channel; the UI thread drains it.  A mutex tells the gather thread what
  an open popup needs.
* `main.rs`, `ui.rs`: keys, wheel and resizes drive `AppState`: tab, a selection by
  index for each listing, popups, a filter, scroll offsets.  Keys do not know how
  long a list or how high a window is; every frame repairs what they did.
  Correct means: what is asked of the gather thread is what is on screen, data is
  shown under its own subject, the keys act on a row that can be seen, nothing is
  out of reach or hidden without a count.
* `frr.rs`: up to five queries of FRR's daemons in a tick and one more for each
  VRF; each may be answered, empty, garbled, refused or fail.  Correct means: a
  blank section has a reason somewhere, and a tick stays bounded.
* `frr-vty`: one command over a daemon's socket: bytes, in reads of any size, up
  to a terminator.  Correct means: the first answer, whole, as soon as it is there.
* `health.rs`: the verdict on a snapshot, behind the badge and the exit code.
  Correct means: it agrees with the panels.
* `events.rs`: compares snapshots and records events, in a ring and in one log
  file that all dashboards append to and restore from.  Correct means: real
  transitions are recorded, others are not, and a restart loses nothing.
* `net.rs`, `system.rs`, `screenshots.rs`: throughput, metrics, documentation images.

### Around them

systemd units and their ordering; a shell script that switches or upgrades the
bootc image from a ConfigMap; a one-line faillock reset; Containerfile,
manifests and CI.

### Interactions

| from | to | how |
|------|----|-----|
| kubelet | both daemons | ConfigMap swap on a virtiofs mount, polled |
| frr-config-sync | frr.service | files in `/etc/frr`, `frr-reload.py`, `systemctl restart` |
| network-config-sync | kernel | nmstate apply |
| network-config-sync | systemd | `READY=1`, which frr.service's start waits for |
| network-config-sync | frr.service | `systemctl try-reload-or-restart` |
| both daemons | dashboard | status file; unit state through systemd |
| FRR's daemons | dashboard | vty sockets |
| gather thread | UI thread | channel of snapshots, mutex with the selection |
| dashboards | each other | one append-only log file |

## 2. Modules

| module | what |
|--------|------|
| `InstalledConfig` | abstract: what the way from ConfigMap to FRR promises |
| `FrrConfigSync` | one tick of frr-config-sync, step by step, and its environment |
| `FrrConfigSync_proofs` | its theorems |
| `NetworkConfigSync` | one tick of network-config-sync with kernel, unit and frr.service |
| `NetworkConfigSync_proofs` | its theorems |
| `SyncDaemon` | lock, loop, status file and the dashboard's look at them, in minutes |
| `SyncDaemon_proofs` | its theorems |
| `EventDiff` | `EventLog::diff` as a function of two snapshots |
| `EventHistory` | dashboards: gather, channel, comparison, ring, log file, login |
| `EventHistory_proofs` | its theorems |
| `Console` | gather thread and UI thread: keys, selections, popups and whose data they show |
| `Console_proofs` | its theorems |
| `Viewport` | scrolling and truncation: which rows a frame shows |
| `Viewport_proofs` | its theorems |
| `Health` | the verdict on a snapshot and the colors of the panels, as operators |
| `FrrStatus` | a tick of vty queries; extends `Health` for the verdict on its outcome |
| `FrrStatus_proofs` | its theorems, those about the verdict included |
| `VtyClient` | one command over a vty socket |
| `VtyClient_proofs` | its theorems |
| `MC*` | instances for TLC |

Definitions named `... Mutant: ...` in a comment are variants of the definition
after them, each a plausible bug; no specification uses them.  For every checked
property one of them must make TLC find a violation.

### FrrConfigSync

`pc` is where `sync_inner` is; `daemonsChanged`, `todo` (names `read_dir`
returned and not yet copied), `stage`, `unsent` (names rsync has not handled)
and `changed` are its locals.  `src`, `dst` and `live` are the mount, `/etc/frr`
and `frr.service` (up?, running configuration, set of daemons).  One action per
read of the source, per file copied or installed, and per tool run:

`EmptySource`, `Begin` (reads daemons, frr/mod.rs:27-39), `ListNames`,
`StageFile`, `StageVanished` (254-272), `ValidateOk`, `ValidateRejects` (49-59,
140-151), `ChownChmod`, `RsyncFile` (63-98), `ToolFails`, `NoChanges`,
`DecideRestart`, `DecideReload` (110-116), `ReloadOk`, `ReloadFails`,
`ActivationNotSpawned`, `RestartOk`, `RestartFails`; and around them `Publish`,
`Killed`, `Reboot`, `NetworkReload`, `FrrStarts`.

Contents are model values.  `Torn` is a running configuration after a reload
that stopped half-way.  Only regular files are modelled: a ConfigMap has no
directories.  `offered`, `settled` and `sound` are history variables.

`InstalledConfig` is what all this amounts to: single offered files are
installed, `frr.conf` only if it validates, and FRR only ever loads what is
installed - its daemon set on a start, its configuration on a start or reload.
`ImplementsInstalledConfig` maps `/etc/frr` and `frr.service` to it; staging,
validation and decisions are stuttering steps.

### NetworkConfigSync

`queue` is the set of state files the tick has still to handle, `this` the first
of them in the sorted order and `yaml` the document read for it.  Every file's document concerns interfaces of its
own; `kernel[f]` is the last one applied and `up[f]` whether all its links are
up.  A document may not parse (`BadYaml`) or want a link that never comes up
(`Stuck`).  Actions follow network.rs:67-140: `EmptySource`, `Begin`,
`Unchanged`, `ReadFile`, `BadFile`, `Apply`, `ApplyFails`, `Converged`,
`NotConverged`, `CacheApplied`, `FinishUnconverged`, `FinishConverged`,
`ReloadFrr`, `NotifyReady`.

`unit` and `gate` are systemd's side: `gate` opens on `READY=1` or when the start
job fails, since frr.service only `Wants=` the unit.  The job fails by its timeout or
by the daemon's death before `READY=1` (`Dies`), and the history variable `startFailed`
remembers that until the next boot.  `ReloadWaits` is
systemd's ordering of a reload job behind a unit that is still starting.
nmstate merges into the live state, so a document that is applied again and was
up stays up; a failed apply is rolled back.

### SyncDaemon

`proc[p]` is where an instance is (`start`, `sync`, `hung`, `open`, `fill`,
`rename`, `sleep`, `dead`).  A minute (`Tick`) passes only when nobody is due to
act; attempts take up to `MaxSync` minutes, sleeps `Poll`.  The dashboard's look
is `CheckUnit`, `ReadMeta`, `ReadContent`, and the daemon may act between them.
`Notify` chooses between the two unit types.

### EventDiff, EventHistory

A snapshot is reduced to what `diff` compares (`Snapshot`), and an event to its
subject and verb; a line of the file is an event followed by the newline `NL`.  `GatherFirst` reads frr.service
and the interfaces, `GatherRest` the routing daemons and the sync units
(snapshot.rs:131-181); `Listening` and `FrrPart` are frr.rs's rules for which
daemons are asked and what a failure leaves empty.  `Receive` is one round of
the drain in `run_ui`; it compares with `prev` before it advances it, as the
code does.  `WriteText` and `WriteNewline` are the two writes of `writeln!`.
`Launch` restores the ring from the file; `Login` and `Killed` end a dashboard, with one
bound for both.  The comparison ignores the field `daemons`; `BlindnessLogged` speaks of
it.  `older`, `batches`, `dipped` and `alone` are history variables.
The channel of the code is unbounded; the model stops gathering while
`MaxQueue` snapshots wait, which only removes behaviours with a longer queue.

### Console

`asked` is the mutex-protected `Selection`, `gathering` the clone the gather
thread took of it (`Lock`), `chan` the channel, `snap` the snapshot on screen and
`ui` the `AppState`.  `Send` is snapshot.rs's `gather`: a snapshot keeps the lists
one can select from and whom its on-demand data is about - the interface detail,
the journal, the routes; only the last carries its key on screen.  The UI thread
is `Receive` (the drain, with `update_selection`), `Draw`, then one of
`PollTimeout` and a key: `FilterKey`, `RoutesKey`, `PopupKey`, `BaseKey` are the
arms of `handle_key` in their order, `Wheel` is `scroll_by`, `Restart` is `b`.
`Drawn` is what drawing does to the state: the clamp of the selection of the tab
that is drawn.  The parts of the system are read one after the other, but they
are independent, so a snapshot of any mix is a snapshot of some `world`.
`Shown*` say which subject is in a popup's title; `ListedRoutes` is what
`routes_popup` lists below it.  `usize::MAX` is `MaxIndex`.

### Viewport

`panel` is what is drawn, in `height` rows, with `content` to show; `sel` and
`scroll` are the index and offset of that panel.  `Draw*` are the repairs:
`EnsureVisible` and the clamp to the last screenful, for listings in
`interfaces_detail` (and `frr_detail`), for popups in `render_popup`, for the log
in `events_panel`.  `DrawPopup` of a routes popup applies `VrfPopup` first, as
`frr_detail` does.  The Overview does not scroll: `InterfacesVisible` and
`BgpSection` are its truncations.  Two frames may be separated by any keys, wheel
notches, resizes and new content.  `Panic` is a popup in fewer than five rows,
where the clamp in `render_popup` panics and the unit starts the dashboard anew.
The log's ring holds `MaxLines` and then drops its first line for each new one (`Logged`):
`oldest` counts the dropped ones, up to the bound `MaxDropped`.  `reading` and `mark` - the
line on top when the reader last pressed a key - are history variables.

### FrrStatus, Health

`pc` names the next query of a tick; each action is one query with its outcome:
`PeerRoutes`, `FallbackRoutes`, `ListDaemons`, `RouteSummary`, `BgpSummary`,
`BfdPeers`, `VrfAll`, `VrfSummary`, and `SkipRoutes`, `SkipVrf`, `NotListed` where
none is made.  An answer to `vrf all` may leave out any of the VRFs, for the parser skips
entries without totals, and still ends the matter (`AllAsked`).  `todo` is the set of VRFs still to be asked one by one, `this` the first of
them by name.  `AddQueryError` deduplicates and caps.  `said` remembers the
answers that leave a section blank without an error; it exists for the
properties.  `Problems`, `Level`, `Badge` and `ExitCode` are health.rs,
`PanelColors` and `GaugeColors` the colors ui.rs gives the same data.

### VtyClient

`stream` is what the daemon will send, `got` how much of it is in `buf`.
`Answer` and `NotYet` are `find_terminator` on `buf[scanned_until..]`, `Read` and
`NoMore` the outcomes of `read`.  `ZerosAt` speaks of the stream: a terminator may
be in sight before its status byte is.

## 3. Runs

| run | module | result | shows |
|-----|--------|--------|-------|
| `FrrSync` | FrrConfigSync | holds | safety, the refinement and convergence of the tick |
| `NetworkSync` | NetworkConfigSync | holds | readiness, cache, FRR's wait and reload, settling |
| `DaemonLife` | SyncDaemon | holds | lock, status file, health, liveness |
| `HistoryLog` | EventHistory | holds | what the log says of outages and blind spots |
| `Console` | Console | holds | popups, their subjects and their data |
| `Viewport` | Viewport | holds | what is on screen |
| `FrrQueries` | FrrStatus | holds | blank sections, bounded ticks, verdict and panels |
| `Vty` | VtyClient | holds | the first answer, however it is split |
| `FrrRetryLost` | FrrConfigSync | violated | a failed activation is not tried again |
| `NetworkReverted` | NetworkConfigSync | violated | a reverted document is skipped, not applied |
| `HistoryFlap` | EventHistory | violated | snapshots are compared with the last but one |
| `RoutesScroll` | Viewport | violated | the routes popup cannot be scrolled to its end |

The last four each check one statement of the repository's docs or comments
that the code does not keep; `findings` in `PROJECT.json` quotes them.

Properties of the passing runs, beside one type invariant per module:

* `OnlyValidated`, `OnlyOffered`: what is installed was validated and published.
* `QuietTick`: a tick over a source equal to `/etc/frr` leaves FRR alone.
* `ActivationComplete`: between ticks FRR runs what is installed, as long as no
  tool failed, no tick was killed and none saw a swap inside it since FRR was
  last started from scratch.
* `Converges`: an acceptable ConfigMap left alone is installed for good.
* `ReadyAfterConvergence`: at a reload or `READY=1` every document of the tick has
  been seen up since boot.
* `SkippedIsApplied`: a document the tick would skip is the one the kernel holds,
  as long as no document is published twice (`Reverts = FALSE`).
* `FrrFollows`: after a tick that applied something and converged, FRR is bound to
  everything the kernel holds.
* `FrrWaitsUnlessStartFails`: at boot FRR starts after all documents were up, unless
  the unit failed to start since that boot, by its timeout or by the daemon's death.
* `Settles`: good documents left alone are all applied and the unit is active.
* `MutualExclusion`, `NeverTorn`, `StaleIsReal`, `OkIsRecent`, `KeepsSyncing`,
  `HangIsShown`: see section 1.
* `RingIsFileTail`: what a dashboard shows is the tail of the log file, from a start on
  whole lines until another dashboard writes.
* `PeerDownIsReal`: "went DOWN" is never recorded for a peer that was never down
  under a running FRR, whatever a gather half saw.
* `OutagesLogged`: a peer that was up in two snapshots and is down in the next two is in
  the log.
* `BlindnessLogged`: so is bgpd's failure to answer, when a peer that was up in two
  snapshots is missing from the next two and bgpd is listed in these.
* `EventuallyCurrent`: the dashboard ends up showing a router that rests.
* `AskedIsShown`: while the UI waits for a key, the gather thread is asked for
  nothing but the popup on screen.  `update_selection` looks up the selection in
  the new lists before the draw has clamped it to them.
* `NoSwapUnderKeys`: a key inside a popup does not change its subject.
* `EventuallyAnswered`: when keys and router rest, every popup has its own data.
* `SelectedOnScreen`: the highlighted row is in every frame with room for a row.
* `OverviewAccounts`: rows shown and rows counted are all rows, they fit, and no
  more would.
* `ReaderUndisturbed`: following does not resume for a reader of the log, and no event or
  resize moves the lines but those that the full ring drops, one for one.
* `EmptinessIsReal`: a blank section, or an empty list of routes, is what a daemon
  said - by leaving a VRF out of its answer for all of them, too - or has an error or a
  daemon that is not listed to explain it.
* `PanelsAgree`: a healthy badge stands over no warning (but that of a gauge), any
  other over something colored.
* `FirstAnswer`: the answer ends at the first terminator of the stream, its status
  is the byte after; the client neither waits nor gives up once it has that.

### Bounds

* `FrrSync`: three files (`frr.conf`, `daemons`, one optional), five generations
  (valid, changed, other daemons, invalid, without frr.conf), two swaps, two
  failures, one kill or reboot.  Two swaps are what it takes to mix two
  generations in one staging pass and then let a third one follow; two failures
  cover a reload that fails together with its fallback.
* `NetworkSync`: two state files (an order between them and a failure of either is
  all the loop distinguishes), four generations, one each of swap, failure, link
  drop, crash and start timeout in a tick; these are combined in every order.
  `NetworkReverted` has two swaps: A, B, A.
* `DaemonLife`: two instances, a poll of 2 and an age limit of 5 minutes as in the
  code, attempts up to 3 minutes, one kill, one failed write.  The theorems cover
  all values.
* `History*`: one dashboard, one peer, one BFD peer, one interface, one unit; up
  to two changes of the router, from a healthy one, among five states (`HistoryLog`:
  healthy, peer down, FRR stopped with the link down, bgpd deaf, bgpd gone); a ring of
  two or three; a channel of two; one login or kill.  Events of different subjects do not
  interact in `diff`, so one of each is enough.  Liveness and safety share the run.
* `Console`: an interface that goes, so that the next one takes its index, VRFs that
  rank differently after a change, two peers, one letter to filter by, a channel of
  one, four keys and one change of the router; `MaxIndex` 4 lies beyond every list, a
  page of 3 crosses any of them.  The channel holds one snapshot and the gather
  thread another: with the one on screen, three generations meet.  A run may start
  from a filtered FRR tab, which spares it the keys to get there (`FilteredUi`); four
  keys then open a VRF, its routes, and change direction or peer.
* `Viewport`: heights 0 to 8, up to three interfaces of one or two rows or VRFs,
  three peers, six lines in the ring and three dropped; `MaxScroll` 14 stands for 65535.  Every listing and popup
  is met shorter than, as high as and longer than its window.  Nothing bounds the
  number of keys, resizes or changes but what the ring may drop.
* `FrrQueries`: three VRFs, one with a name that is skipped, a limit of two VRFs for
  queries one by one (30 in the code) and of four errors (8): both are reached and
  exceeded.  The VRFs' sessions are all alike, which meets every case of the verdict.
* `Vty`: every stream of 0 and 1 up to ten bytes, reads of up to four (4096), a
  limit of eight (8 MiB).  The theorems cover all values.

### Fairness

* `FrrConfigSync`, `NetworkConfigSync`: weak fairness of the daemon's next step
  only: `run_forever` has no exit and systemd restarts the process
  (`Restart=always`).  Nothing makes kubelet or an operator act.  A link that can
  come up does; systemd's timer fires on a start that hangs in its reload; systemd
  starts frr.service when nothing holds it back.  Which of several enabled daemon
  steps happens is not forced, but failures are bounded.
* `SyncDaemon`: weak fairness of each instance's steps and of the unit's start;
  strong fairness of `Tick` and `CheckUnit`, which other steps disable for moments
  only.  An attempt that hangs is under no fairness.
* `EventHistory`: weak fairness of each of the two threads as a whole and of a
  dashboard's start.
* `Console`: weak fairness of the gather thread's two steps - its loop sleeps at
  most one refresh interval - and of the UI loop, whose poll returns after 250 ms.
  No key is under fairness.
* `Viewport`, `FrrStatus`, `VtyClient` state safety only.

## 4. Proofs

Every safety property the passing runs check is also a theorem, for all values of
the constants under the assumptions named in the modules.  What is left to TLC is
in the last paragraph.

| module | theorems |
|--------|----------|
| `FrrConfigSync_proofs` | `TypeCorrect`, `OnlyValidatedConfig`, `OnlyOfferedFiles`, `CompleteActivation`, `QuietTicks`, `Refinement` (`Spec` implements `InstalledConfig`) |
| `NetworkConfigSync_proofs` | `TypeCorrect`, `ReadyOnlyAfterConvergence`, `NoReverts` (for `SkippedIsApplied`), `FrrIsReloaded` (`FrrFollows`), `FrrWaits` (`FrrWaitsUnlessStartFails`) |
| `SyncDaemon_proofs` | `TypeCorrect`, `OneInstance`, `WholeLines`, `NoFalseStale`, `RecentOk` |
| `EventHistory_proofs` | `TypeCorrect`, `NoOutageInvented` (`PeerDownIsReal`), `LostSessionsLogged` (`OutagesLogged`), `BlindSpotsLogged` (`BlindnessLogged`), `RingIsTail` (`RingIsFileTail`) |
| `Console_proofs` | `TypeCorrect`, `OnlyShownIsAsked` (`AskedIsShown`), `KeysKeepTheSubject` (`NoSwapUnderKeys`) |
| `Viewport_proofs` | `TypeCorrect`, `HighlightVisible` (`SelectedOnScreen`), `ReadersStay` (`ReaderUndisturbed`), `OverviewHidesNothing` (`OverviewAccounts`) |
| `FrrStatus_proofs` | `TypeCorrect`, `VerdictAgrees`, `TicksAgree` (`PanelsAgree`), `EmptinessExplained` (`EmptinessIsReal`) |
| `VtyClient_proofs` | `TypeCorrect`, `AnswerIsFirst` |

### Assumptions

The modules' assumptions give the constants their types.  Beyond that:

* FrrConfigSync: the image's own `frr.conf` validates or is missing; for `QuietTicks`
  every generation has a daemons file (`DaemonsAlwaysOffered`; without it the property
  is false, section 5).
* SyncDaemon: for `NoFalseStale`, `Poll + MaxSync <= MaxAge` - with the code's 120 s and
  300 s, that an attempt takes at most three minutes.
* NetworkConfigSync: state files have different names; for `NoReverts`,
  `Reverts = FALSE`.  The run `NetworkReverted` refutes the property without it.
* EventHistory: the possible events are finitely many.  For `BlindSpotsLogged`,
  `PeersStay`: no peer is ever unconfigured, since one that is vanishes without an
  error.  Nothing is assumed of the daemons, which may be gone or deaf in any world.
  `RingIsTail` holds for any set of consoles.
* Console: an FRR that is not active has no VRFs.  The lists of names are sequences, of
  any length and order, repetitions included; nothing relates them to `MaxIndex`.
* Viewport: no content is as long as `MaxScroll`, 65535 in the code, where offsets are u16.
  Windows may be of any height.
* FrrStatus: `query_errors` has room for at least four (8 in the code).  What the
  three queries before the VRFs' and their parser report is then never cut off by the
  cap, which `EmptinessExplained` rests on.

### Inductive invariants

An invariant is seldom inductive as it stands.  What each proof had to add:

* `OnlyValidated` says nothing of the staging directory, but rsync installs from
  it.  `IInv` of FrrConfigSync adds that from `chown` on the staged `frr.conf` is
  valid, that every staged entry is offered once the copy is complete, and that
  `/etc/frr` differs from the image only by offered entries.
* `QuietTick` needs what a tick knows at each of its steps while the source has
  stayed equal to `/etc/frr`: the copied files equal theirs, nothing has been
  reported changed, the daemons files were equal.
* `ActivationComplete` needs the same for a tick that may change things: before
  rsync FRR runs what is installed; during it the names already sent are the
  staged ones and `changed` records every difference made; the daemons file
  differs only if `daemonsChanged` says so.  All of it holds only while `sound`.
* `ReadyAfterConvergence` needs that the cache is never ahead of the links: it outlives
  the process, so `SeenUp` says of every cached document that it was up since boot,
  in whichever life of the daemon, and of a tick that `allConverged` speaks for all
  it has handled.
* `SkippedIsApplied` (`SkipInv`) needs that what is cached, mounted or in hand has been
  published (`Known`): a publication is then new to all three, and a document
  in hand is not the cached one of its file (`Fresh`), so that applying it cannot leave
  another one's cache entry to be matched later.
* `FrrWaitsUnlessStartFails` (`Covered`, `Gated`): while the ConfigMap is left alone, every
  mounted document is either still queued or already handled, and once the gate is open
  with FRR still down and no failed start all of them were seen up - links may have
  dropped since.  A unit that is active has the gate open.
* `MutualExclusion` follows from "who is inside holds the lock"; `NeverTorn` and
  the two about age need where the text of the temporary file comes from and how
  the clocks of an attempt or a sleep bound the age of the status file.
* `PeerDownIsReal` needs that every snapshot on its way - in the channel, received, kept -
  shows a peer down only if it was once down (`DownsDipped`).  `SnapshotsComeFromGathers`
  is used by every proof of that kind: a snapshot is one that was there, or the one a gather
  just completed.
* `OutagesLogged` needs that each of the last two batches is the `Diff` of two known
  snapshots (`BatchesAreDiffs`): of the last one received and the one two before it, and
  likewise for the batch before.  The two that are compared lie on either side of the
  outage in one of the batches, which is why an outage of two snapshots is recorded
  although consecutive ones are never compared.
* `BlindnessLogged` adds what a gather's errors say of the peers it shows (`BlindSays`): one
  that shows a peer has no error of bgpd's, and one that misses a peer while bgpd is
  listed has one.
* `RingIsFileTail` (`LogInv`), for each console in `alone`: between two writes of a line the
  ring is the tail of the file before the first.  The lemmas are about the log as text: a line is added by an
  event and its newline (`LinesGrow`), and trimming twice is trimming once (`TrimTwice`).
* `AskedIsShown` (`AskInv`): from the receipt of a snapshot to the draw, the question is put
  under an index that may be past the end.  `AskedDrawn`: such an index asks for nothing,
  any other is the drawn one.  `NoSwapUnderKeys` then needs only types.
* `SelectedOnScreen`, `ReaderUndisturbed` (`ViewInv`): a reader is one who does not follow,
  and the offset is where the last key left it.
  The lemmas `ListingShows`, `VrfShows` and `RowsGrow` are the arithmetic of the repairs,
  for rows of different heights.
* `OverviewAccounts` is a fact about the truncations (`InterfacesAccounted`,
  `SectionAccounted`), for any budget.
* `TypeOK` of FrrStatus bounds the round trips of a tick; `TripsBound` says how many are
  spent at each stage, and counts the VRFs still to ask.
* `EmptinessIsReal` (`ExplainInv`): the explanation of a blank section must survive the rest
  of the tick.  `RoomForErrors` says that the first queries find room in the capped list;
  for the rows of the VRFs the full list is itself an explanation, and so is their omission
  from the answer for all.
* `PanelsAgree` is proved of any snapshot (`VerdictAgrees`), by the cases of `Problems`.
* `FirstAnswer` compares with the whole stream, but each scan begins at
  `scanned_until`.  `Skipped` adds what the code's comment argues: no terminator
  starts before `scanned_until`.  When a scan finds none and the next resumes three
  bytes before the old end, every start passed over had all its four bytes read.

Each strengthening is preserved step by step, one step per action, and the temporal
theorems combine initial state, step and conclusion with the PTL prover.  The library's
induction rules take an operator and cannot be used; where the order of a list matters -
the first state file, the nth line, the nth row that a filter leaves - the proofs take a
least element instead (`LeastNumber`, from the well-foundedness of `<`).  For the same
reason those lists are defined by position in a set of numbers (`NthOf`) and not by a
recursive selection.

Only model-checked: liveness - `Converges`, `Settles`, `KeepsSyncing`, `HangIsShown`,
`EventuallyCurrent`, `EventuallyAnswered` -, for fairness and ENABLED are out of the
prover's reach; and what the four runs that end in a violation show.

## 5. Observations without a run

* `daemons` is compared with the mount before the copy (frr/mod.rs:36).  A swap in
  between installs a new daemons file with a mere reload; FRR keeps its old set of
  daemons until somebody restarts it.
* When one state file of a tick converges and is cached and a later one fails, the
  tick that finally succeeds has `applied_any = false` and does not reload FRR
  for the first (network.rs:128).
* A `Type=notify` unit that is still starting is shown as "process not running"
  (systemd.rs:144).
* Stopping frr.service after a failed query is recorded as "vty queries recovered"
  (events.rs:255, frr.rs:429).
* Two dashboards, or one that is killed between its two writes, can glue two lines
  of the log together (events.rs:299).
* A ConfigMap emptied of its keys still has its hidden `..data`: the source does
  not count as empty, and rsync deletes all of `/etc/frr` (lib.rs:164).
* A ConfigMap without a daemons file: rsync deletes the image's one, both reads of
  `files_equal` fail, and every tick restarts FRR (frr/mod.rs:234-236), although
  "an ordinary poll tick where the ConfigMap hasn't changed does neither".
* The network unit sets no start timeout: after systemd's default 90 s, before the
  second tick at 120 s, frr.service starts without the network although the README
  guarantees the order (network.rs:134).  A daemon that dies before its `READY=1` ends
  FRR's wait as well, `RestartSec=5` before it is back.  `FrrWaitsUnlessStartFails`
  exempts both.
* `SyncHealth::Ok` carries the age of the report and is compared as a whole: a unit
  that was ok all along is recorded as "recovered" at nearly every refresh
  (events.rs:225).
* A bgpd that dies under a running frr.service is no longer listed, so it is not
  asked, no query error arises, and its peers vanish without an event
  (frr.rs:451, events.rs:160), contrary to events.rs:243-249.  `HistoryLog` contains
  such a bgpd; `BlindnessLogged` asks for a line only when bgpd is listed.
* An answer to `vrf all` without the totals of some VRF ends the fallback: the VRF's counts
  stay blank without an error (frr.rs:615-618, 680-688).
* The image starts dashboards on two consoles over one log: the ring of each lacks what
  the other has written since it started.
* `events_follow` starts as false: the first visit to a log longer than its panel
  shows the oldest lines and does not follow, unlike what ui.rs:1798-1801 says.
  Once the ring is full every new event shifts the lines under a reader, who then sees
  the next ones under the same offset (events.rs:88-91, ui.rs:1823-1827).
* Interface detail and journal carry no key: after the selection has been moved by a
  closed and reopened popup, or by a new snapshot, the old data stands under the new
  title until the next snapshot.  When a snapshot reorders the lists an open popup
  changes its subject.
* Down at the end of a peer list, or End, is never clamped back in `peer_selected`:
  Up has to be pressed as often before the highlight moves.
* Enter over an empty listing opens nothing visible but sets `detail_open`: the
  keys for tabs are dead until Esc.
* `/` does nothing while a popup is open, although main.rs:401-404 says that it works
  there.  Tab and arrows keep the filter that the number keys clear.  The wheel
  moves the selection while `/` takes input.
* In a VRF popup the keys follow the headings of the peers: the lines below the last
  one (its detail, BFD sessions) need the wheel, and what lies more than a window
  below it cannot be reached.
* `sorted_peer_list` puts Established sessions first, although ui.rs:1539-1540 says
  that the others do (`false` sorts before `true`).
* `render_popup` panics in an area of fewer than five rows: `clamp` with its bounds
  reversed (ui.rs:1198), and likewise of fewer than 34 columns (ui.rs:1208).
* Garbage from zebra or bgpd is dropped without an error (frr.rs:653, 748), although
  frr.rs:57-63 says unparseable responses are kept apart from silence; for an FRR
  without the `vrf all` form its refusal is a permanent `vty:` line, although the
  fallback works (frr.rs:614).
* An empty table after the import filters reads "they send us nothing" (ui.rs:1717).
* Gauges turn yellow from 70 % and the verdict from 80 %, although health.rs:141-142
  says they use the same thresholds.
* A text that ends in a zero byte moves the end of a vty answer one byte forward, and
  its status is then a zero of the terminator (frr-vty/src/lib.rs:107).

## 6. Not modelled

Layout, wording and sparklines, screenshots, system metrics, text (redaction, log
lines), the inside of the JSON parsers, Containerfile, manifests and CI: output or
input without a state that the properties could be about.  `net.rs` differences
counters between two samples and saturates at zero; it shares no state.  The bootc
script runs an external tool under a lock.  Mount units, targets and `Conflicts=`
of the console units are left out.

## 7. Plan

Done: the two daemons, their life, the log, the console's threads and keys, its
screen, its queries, the verdict and the vty client.  Next:

1. A composition of both daemons with frr.service, so that `NetworkReload` in
   FrrConfigSync and `FrrStarts` in NetworkConfigSync are each other's actions.
2. `Sampler` (net.rs) and `BootcSync` (the script with its lock).
3. Two dashboards on one log in a run, with an abstract log that only promises
   whole lines of those that finished.

Theorems next: that `FrrConfigSync`'s staging keeps `OnlyValidated` in the
composition (1); lemmas about `Diff` that no invariant needs yet (no events between
equal snapshots, down and up events are disjoint); what the file holds of each of two
dashboards, once the log has an abstract specification (3); step simulation of the
dashboard's look by an abstract one that reads unit, age and content at once, for the
cases in which that is what it does.
