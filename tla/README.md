# SeeSize: a TLA+ verification of the hub, its backups and its installer

SeeSize watches small servers. An **agent** on each server sends a heartbeat
every ten seconds and, if asked to, the sizes of its directories; a **hub**
keeps both in one SQLite database, serves a panel to a single administrator and
raises alerts when a directory grows; a **backup** program copies the database;
an **installer** brings agents up to date; and a few scripts prepare upgrades
and tidy up. This directory holds TLA+ modules translated from that code, the
TLC runs that check them, and theorems about them that TLAPS proves.

Run from this directory: `tlc -workers 2 -config MCBackup.cfg MCBackup`,
`tlapm HubDevices_proofs.tla`.

## 1. Inventory

| Component | State | Operations | What makes it hard | What makes it correct |
|---|---|---|---|---|
| Hub, device identity (`internal/hub/devices.go`, `device_delete.go`, `server.go`, `sqlite_store.go`) | tables `devices`, `deleted_devices`, `enrollments`, and the report tables | issue a code, register, revoke, delete; heartbeat and disk uploads | an upload checks its credential in up to three queries and writes in a later transaction; the administrator acts in between | a stale credential never gets through; a deleted id has no rows; codes and tokens do not outlive the decision that withdrew them |
| Hub, disk snapshots and growth events (`disk.go`, `events.go`, `internal/disk`) | `disk_snapshots`, `disk_events` with its AUTOINCREMENT counter | upload, acknowledge, list by page, disk view | uploads repeated and out of order, retention between pages, a view made of two queries | alerts are true, unique and immutable; a page walk misses and repeats nothing |
| Hub, administrator sessions (`auth.go`) | session table, throttle window, in memory | login, logout, the check before each handler | a login takes the lock twice and reuses an old time; expiry, logout and restart beside requests | limit, throttle, no revival of a session, no work for an ended one |
| Hub, retention (`retention.go`) | none of its own | a batch per 50 ms, a sweep per interval | runs beside everything on the single connection; a sweep decides by the last batch that it is done | only expired rows go, the oldest first; a sweep that ends leaves none |
| Hub, reads (`trend.go`, `List`, `History`, `backup_status.go`) | none | buckets of a trend, the lists, `Inspect` of the backup directory | `Inspect` reads a directory that changes | numbers agree with the samples |
| Backup (`internal/backup`, `cmd/backup`) | backup files, `status.json` | copy, verify, publish, rotate, record | failure or kill between any two file operations, a second process, the wall clock in the names | only verified copies are published, nothing is replaced, the newest are kept, a recorded success is one |
| Installer, update (`scripts/agent-setup.py`) | four installed files, the service, the workspace and its recovery marker, the retained package | update, restore | errors, Ctrl+C, kill, restart of the machine between two files | the old package stays whole somewhere; quiet means whole; reports are true |
| Installer, install, check-update, download cache (`scripts/agent-setup.py`) | cache with a `.partial` file, the scratch directory, account, programs, description, connection, the tool's own copy | fetch with retries under one alarm, look in the cache, save, install | a network that trickles, a cache that survives failures, kills between any two steps | only the release's own programs get in; a description is true; a fetch ends; nothing left blocks the next run |
| Installer, register; `cmd/enroll` | credential file, connection, unit | register | a one-time code whose answer may be lost; clients that outlive their register; a device withdrawn meanwhile | what is in the file is the last credential given out; a service that is set up has one |
| Agent (`cmd/agent`, `internal/collector`, `internal/disk`) | network baseline | heartbeat loop, scan loop | counters that reset, scans cut short | rates are marked when they mean nothing |
| Upgrade and maintenance scripts (`upgrade-prepare.py`, `deploy-chart-hub.py`, `storage-maintenance.py`) | manifest, rollback directories, `.maintenance.lock` | prepare, activate, tidy up | one lock taken and released by different scripts | a registered rollback exists; the newest three are kept |
| Switch of hub and agent as a pair (`deploy-secret-fix-20260927.py`) | both programs with their `.secret-fix-next` files, both services, the timers, the report | pause, prepare, switch forward, switch back, resume | no lock is taken; every command may fail or time out; the order of the two components matters in both directions | no forbidden pair runs, no task runs meanwhile, the report is true, no timer is forgotten |
| Web panel (`internal/hub/web`) | what is shown, sequence numbers, loading flags | refreshes on a timer and on clicks | answers out of order | the newest answer stays |
| Preview control (`scripts/preview-control.ps1`) | state file, supervisor, ssh child | start, stop, diagnose | a child that is not recorded yet | stop leaves nothing running |
| Units, packaging, acceptance and test scripts | – | – | – | – |

How they interact: agents and the enrolment client call the hub over HTTP; all
handlers, the retention loop and the backup program share the SQLite file (the
hub through a single connection, `SetMaxOpenConns(1)`, so that one statement or
transaction excludes every other); the panel polls the hub; the hub reads the
backup directory; the installer and the scripts drive systemd; preparation and
maintenance share a lock and a manifest. `PROJECT.json` lists every component
with its sources and, under `hazards`, each place where this can go wrong.

## 2. Modules

| Module | Models | Extended or composed by |
|---|---|---|
| `DeviceLifecycle` | abstract: what an administrator is promised of a device id | refined by `HubDevices` |
| `HubDevices` | identity tables, administration, uploads | `MCHubDevices`, `HubDevices_proofs` |
| `DiskEvents` | one device's snapshots and alerts with their readers and retention | `MCDiskEvents`, `DiskEvents_proofs` |
| `AuthSessions` | logins, sessions, protected requests | `MCAuthSessions`, `AuthSessions_proofs` |
| `Backup` | backup processes on one directory | `MCBackup`, `Backup_proofs` |
| `Install` | downloads, the cache, and the steps of an installation | `MCInstall`, `Installer_proofs` |
| `AtomicUpdate` | abstract: what an administrator is promised of an update | refined by `AgentUpdate` |
| `AgentUpdate` | the updater on one installation | `MCAgentUpdate`, `Installer_proofs` |
| `Enrollment` | one device's code, credential file and unit: hub, client and register together | `MCEnrollment`, `Enrollment_proofs` |
| `Maintenance` | rollback points: upgrade preparation, hub deployment, storage maintenance | `MCMaintenance`, `Maintenance_proofs` |
| `Rollout` | the switch of hub and agent as a pair, with its timers | `MCRollout`, `Rollout_proofs` |

The three modules of the installer follow one another: `Install` ends where
`Enrollment` begins, with a description beside whole programs, and `AgentUpdate`
begins with such an installation. `Rollout` makes its rollback point with the
program whose failures `Maintenance` has in full; there it is one step that
leaves a directory whole, in part, or not at all.

Definitions whose comment says *Faulty variant* are not part of any
specification: each is a plausible mistake in the definition that follows it,
kept to show that the properties notice.

### HubDevices

Each table is a variable: `token_hash` and `revoked` are the two columns of
`devices` that matter, `enrollments[d]` is the id's code (none, live, expired),
`rows[t]` the ids that have rows in report table `t`. `req` holds the uploads
that are being served, each with a program counter that names the next database
access: `authorized` (any device's token), `authorizedFor` (this device's
token), `fallback` (the shared token, only for an id that was never
registered), `granted` (the storing transaction). `Enroll`, `Register`,
`Revoke` and `Delete` are one transaction each and so one action. Tokens are
drawn fresh, as `secret()` does with 256 bits. `owner`, `seen` and the two flags
in a request are history: they remember what the properties compare with.

`DeviceLifecycle` sees of all this a status, whether anything is kept, and
whether a code is out. `ImplementsLifecycle` is the refinement; every handler
maps to one of its steps or to a stutter.

### DiskEvents

`SaveDiskEvents` is one transaction: look up the newest snapshot of the root,
insert unless the time is taken, raise `GrowthAlerts` against it. `Upload`
offers any content at any time up to `Skew` ahead of the clock, again and late;
`scan` remembers what a scan first accepted had found, which is what an alert must be
true of. A retry that comes after retention removed the first copy carries the
same findings (an agent does not invent a second scan with the same nanosecond);
a retry while the first copy is there may carry anything, and is ignored.
`CleanupBatch`, `Acknowledge`, the page cursor and the two-query view run
between uploads. `swept` remembers whether the latest sweep ended of itself
(`Exhausted`, the stop condition of `RunRetention`) and nothing has expired or
come late since; between the batches of a sweep anything may happen, and a sweep
that runs out of its 30 seconds is one that does not end. Page size, batch size
and retention are parameters (100, 1000 and the configured days in the code).

The two places where the code sorts are modelled by what the sorting gives and
not by a sorting algorithm: the number of a new alert is `lastId` plus its
`Rank`, how many of the same scan come before it or with it in the order of
`Compare` (more growth first, then by path, so that paths are numbers here), and
`Descending` is the one listing whose numbers fall. The prover cannot look into
the library's recursive sorting; with ranks it need not. The zero snapshot of
`SaveDiskEvents` (`NoSnap`) has a depth that no scan has; it is not complete, so it
is comparable to none, in the code as here.

### AuthSessions

`BeginLogin` is the first critical section of `handleLogin` and keeps the time it
read; `Mint` is the second and uses that time for purge and expiry; between them
the credential is compared. `admitted` is history: the times of the logins that
were let through, in order. `Protect`, `CheckAgain` (the second `sessionOK` of
the handlers that change devices) and `Act` are the steps of a protected
request. `Restart` loses everything but the cookies.

### Backup

The program counter follows `Create`: draw a name from the clock and refuse a taken one,
`VACUUM INTO` a partial file, verify, link, list, remove the surplus one file at a time,
record. `Break` is a failing file operation, `Kill` the end of the process anywhere. The
partial file has a random name of its own and so is part of the process. `names` is what
is left of the sorted listing; as the loop only ever takes its first name, it is kept as
a set with `Oldest`. `docs/BACKUP-STATUS.md` asks for one process at a time; the model
has two, and the flag `alone` marks the runs for which a guarantee depends on it.

### AgentUpdate

`installed` has the version of each of the four files, `workspace` whether the
`.update-*` directory exists and carries the marker, `previous` and `rollback`
the copies in it and the retained package. Each file copied is one step
(`atomic_copy` renames a finished file into place). `Except` is any exception
inside the `try` block, which leads to the restore; `Raise` any exception
elsewhere, the restore itself included, which leaves through `update_workspace`;
`Kill` and `Reboot` need no one's consent. `Reboot` is an orderly restart: the updater
ends without its cleanup, what was written stays, and the enabled service starts with
what is installed. A loss of power is not an action. The copies in `previous/` are made
with `copyfile` and the marker with `write_text`, neither synced, and `atomic_copy`
syncs the file but not the directory it is renamed in, so a loss of power may take any
of these writes, the marker before the files it is to protect included; the last
sentence of `docs/AGENT-INSTALLER.md:27` says that the mechanism is no transaction
against it. None of the properties, and none of the theorems, speaks of that case.

`AtomicUpdate` is what `docs/AGENT-INSTALLER.md:27` promises of the rest: an update
goes from one whole package to another in a single step, when the old one is the
package that is retained, or it does not go; and one that could be neither
finished nor taken back stays as it is and no other begins over it. Seen from
outside, the package during an update is the one before it (`SeenPackage`), and
how far it is (`Place`) depends on the workspace, on whether an updater runs, and
on whether the new package was accepted. The sets of versions `Versions(files)`
show a mixture as what it is: a package that is not one version.

### Install

`pc` follows one run of `install`, `check-update` or the fetching half of `update`. A
resource is fetched by `Connect`, `Delivered`, `Disrupted` and `Retry`; `Expire` is the
`SIGALRM` of `download_deadline`, whose timer runs from the first connection to the last
retry. What arrives is any content: that of the requested release, of another one, or
`Broken`. A program is looked up in the cache (`LookInCache`, which also drops what does
not fit), else fetched and saved through `.partial` (`Open`, which refuses an existing
file, `Write`, `Rename`). `cache` keeps, per program name, whatever earlier runs left,
and `Damage` may change it. `install` then makes the account, copies the programs and
writes the description, the connection and the script itself (`CopyTool`), one step
each; `Fail` is any error or Ctrl+C, `Killed` the end of the process, and `HalfDone`
what a failed system command may have done all the same. `check-update` compares and
ends (`Compared`).

### Enrollment

Three programs in one module, because the property lies between them. `Redeem` is the
transaction of `handleRegister`, seen by one device; tokens are numbered in the order of
issue. `Withdraw` is what `handleRevoke`, and `handleDeleteDevice` after it, do to the
device's token and code. A client reserves the file (`Open`, `O_EXCL`), posts, reads the
answer, writes, syncs; it may give up at any point, and then a request the hub has not
served moves to `late`. `Clear` finds an empty reservation and `Unlink` removes the
file, with whatever is in it by then. It may still be open in a client that outlived its
register (`runuser` is killed after 30 seconds, not what it started): the client's
`linked` turns false and what it writes is lost. `register` is one process, for the
installer's lock admits one. Who types which code is free: a new one, a used one, one
that is still on its way; but codes are typed on this machine only, so that no second
one takes the identity over.

What the two properties say of the hub is bounded by `Withdraw`: `register` never asks
whether the credential it finds is still good. A device that was revoked after its token
was written, and whose `register` runs only then (or runs again after it was
abandoned), is set up with a credential the hub refuses; `register` will not run a
second time, and the way out is by hand. So the file is promised to hold the last
token given out (`file = issued`), and the hub to accept that one or none.

### Maintenance

`manifest` has the `created_at` of every registered point and `dirs` what exists on
disk, two things that every script changes one after the other. The times matter
only through their order, so they are counted in registrations, 0 for a point that
is not registered; that they grow is assumed. `storage-maintenance.py` keeps the newest by
time: `Oldest` are those with at least `Keep` newer ones. The preparation an
administrator runs and the one a deployment runs are the same program with the
same lock; `deploy` follows `deploy-chart-hub.py` around it, which takes the
lock only after its preparation has given it back. `Undo` is any failure or
interrupt before `committed=True`, and `Discard` the `rmtree` that follows, which
may stop half-way. `EndMaintenance` may come at any time, so a maintenance run
too leaves half-removed directories. `PutBack` needs the hub's file only, which a
half-removed directory may still have. A stop of the hub that fails may have
stopped it (`EndDeployment`). The script's fixed label and build are parameters.

### Rollout

`phase` is the switch the script is at (`hub`, `agent`, then on the way back
`backAgent`, `backHub`) and `pc` the step of it: stop, copy to
`.secret-fix-next`, replace, start. A command fails, or times out with or
without its effect; a failed copy leaves its file, which the next switch of that
component refuses (`Staging collision`). `changed` and `status` are the
variables of the script that decide whether it goes back. The `finally` clause
starts the timers one at a time and writes the report; a timer that does not
start is named in it. The script takes no lock while it switches, because the
maintenance program installed on the machine does not know the lock yet: tasks
start by their timers; one that an administrator starts by hand is left out, and
nothing in the script would notice it.

## 3. Runs

| Run | Bounds | Properties | Shows |
|---|---|---|---|
| `hub_devices` | 2 devices, 3 tokens, shared token on, 1 upload (disk) | `StaleReportRefused`, `CodeMatchesDevice`, `DeadTokensStayDead`, `ImplementsLifecycle` | administration racing with an upload: no stale credential passes, codes and tokens end when they should, the life cycle is refined |
| `hub_revocation` | 1 device, 2 tokens, 2 uploads (heartbeat and disk) | `TombstoneErasesHistory`, `RevocationTakesEffect` | two uploads of a device past their checks leave nothing behind its deletion; after a revocation they dry up |
| `hub_late_report` | 1 device, 2 tokens, 1 upload | `LateReportDropped` (violated) | finding 1 |
| `disk_events` | 1 root, 2 directories, 4 instants, page and batch 1, 4 alerts | `AlertsAreReal`, `OneAlertPerScan`, `ShownIdsStable`, `WalkIsExact`, `ReferenceIsNearest`, `SweepIsThorough`, `AlertsImmutable` | alerts under retries, reordering, retention and acknowledgement; the readers beside them; a sweep that ends missed nothing |
| `auth_sessions` | 3 tokens, 2 logins, 1 request, limit 2, window 2, life 3, 4 ticks | `SessionCap`, `StaleRequestRefused`, `ThrottleHolds`, `DeadSessionsStayDead`, `ValidSessionsKept` | sessions under concurrent logins with stale times, logout, expiry, restart |
| `backup` | 2 processes, keep 2, database inside the directory, 5 instants | `PublishedAreSound`, `NewestKept`, `RecordedFileExists`, `SurplusTrimmed`, `NeverReplaced` | backups under failure, kill, damage of the database and a second process |
| `backup_clock` | 1 process, keep 1, clock may step back | `OlderGoFirst` (violated) | finding 2 |
| `install` | 2 releases, 2 programs, 3 attempts | `StagedIsVerified`, `DescribedIsWhole`, `PartialNeverBlocks`, `FetchEnds` | downloads that are wrong, late or cut, a stale or damaged cache, runs cut short anywhere, one after the other |
| `agent_update` | 3 versions, 4 files | `OldPackageKept`, `QuietIsWhole`, `ReportsAreTrue`, `MixtureNotStarted`, `ImplementsUpdate` | updates cut short anywhere by errors, interrupts, kills and orderly restarts, up to a second and third update; from outside each is one step or none |
| `enrollment` | 3 codes, 2 clients, 3 tokens | `CredentialIsCurrent`, `ServiceHasCredential` | codes retried, late, lost and withdrawn; clients that outlive their register, and write while it clears up |
| `maintenance` | 3 releases, 2 builds, keep 1 | `RollbackReady`, `PointsKept` | preparations by hand, a deployment and maintenance, each cut short anywhere; a point that was registered and left behind by its own failed preparation counts, so that fewer whole ones than three may stand beside it |
| `rollout` | 2 timers | `StatusIsTrue`, `CompatiblePair`, `TimersResumed`, `TasksKeptOut` | the switch of hub and agent, there and back, with each command failing, timing out or interrupted |

**Why the bounds are enough.** Two devices show a token of one used for the other, three
tokens let a device be registered again while an upload carries the first; one upload
suffices where the properties speak of one request, two where they speak of what the
tables hold. Two directories and three contents give growth, shrinking and a partial
scan; with page and batch 1 every second alert crosses a page and every second expired
row a batch; four instants let a scan be taken, reported, expire and be reported again.
With a session limit of two and three tokens the limit is met by two logins at once;
with a window of two and four ticks two neighbouring windows and an expiry fit. Two
backups to keep, the database and up to four new files make rotation remove, spare and
stop. Two releases give a cache that belongs to the other one, two programs one that is
saved while the other is still to come, and three attempts (the code's own number) a
retry after a retry. With two timers one starts and the other does not. Three versions
are the least for a retained package that is replaced by another. Two clients are one
left over and its successor; three codes let the left-over's be replaced twice. With one
point to keep, three releases let a point be registered, pushed out and its label come
back while another preparation still holds a stale manifest (keep 2 with 4 releases was
run once, 2.3 million states, with the same result). `CHECK_DEADLOCK FALSE` is said
where the system really may stop: with a registered and enabled service and no code left
in `Enrollment`; with the labels used up in `Maintenance`; in `Rollout`, whose release
label is good for one run that got as far as a rollback point; and in `Install`, where a
finished installation is the end of it and one that was cut short after the account was
made is refused by every later run (`docs/AGENT-INSTALLER.md:54` lists the cleanup after
an interruption as still to be accepted). Symmetry is used only in runs that check
safety.

**Fairness.** Two runs check liveness. `hub_revocation` assumes weak fairness
of `Serve(r)`: a request that was started is carried on. `net/http` runs each
request in a goroutine of its own, the database calls return or fail, and the
server has read and write timeouts (`cmd/hub/main.go`), so no request rests
for ever. `install` assumes weak fairness of `Expire` alone: the interval timer
of the kernel goes off if it stays armed. It assumes nothing of the network,
which may deliver a byte a minute for ever, and nothing of the retries. Nothing
is assumed of agents, the administrator, retention or the clock.

## 4. Findings

1. **A late report outlives deletion.** `docs/DEVICE-DELETION.md:17` promises
   that the deletion mark stops a report that was authorized but not yet stored
   from rebuilding data. `Upsert` and `SaveDiskEvents` look for the mark only,
   and registering the id again removes it (`devices.go:73`). Grant, revoke,
   delete, new code, register, store: the old report is written into the new
   device's history. The root is that the storing transaction does not repeat
   the credential check; the same gap lets a granted report be stored after a
   mere revocation, or a shared-token report after registration.
2. **Rotation after the clock is set back removes the new backup.**
   `docs/BACKUP.md:12` says old backups are removed once the new one is
   verified. Old means sorting first by the time in the name; after a step back
   the new file sorts first, goes at once, and `status.json` says success with
   its name.

Seen while modelling, and no finding because no document says otherwise, or only
a plan does: the way back of `deploy-secret-fix-20260927.py` restores the hub
directly after it started the old agent, where
`docs/PRODUCTION-SECRET-FIX-PLAN.md` would have the agent's reports seen first; a
copy that failed there leaves its file, so that the way back of that component
ends with its service stopped and the status RUNNING; the `finally` clause of
`deploy-chart-hub.py` stops starting timers at the first that fails; an
installation that was cut short cannot be taken up again, and one cut short before
its last line only (the copy of the script, `agent-setup.py:254`) can be registered but
never updated; `register` takes a credential for an empty reservation when a left-over
client writes it between the check and the removal (`agent-setup.py:275` and `277`; the
comment between them says "never a valid credential"), and then asks for a new code; a
device that was revoked before `register` ran again is set up with its dead credential;
the failed preparation of an upgrade that got as far as the manifest takes the place of
a whole point among the newest three, although half removed.

## 5. Proofs

Each `M_proofs` extends the module `M`, and `Installer_proofs` both `Install` and
`AgentUpdate`, which share nothing but the program they come from. The theorems hold for
all values of the constants that satisfy the assumptions of the module: that the
sentinels are no devices, tokens, codes, clients, releases or versions, and that limits
are positive naturals.

| Theorem | Property | Argument |
|---|---|---|
| `TypeCorrect` of `HubDevices_proofs` | `TypeOK` | inductive as it stands, one step per action |
| `StaleRefused` | `StaleReportRefused` | needs `CredentialInv` |
| `DeadTokens` | `DeadTokensStayDead` | from `CredentialInv`: only `Register` makes a token good, and it takes one nobody was issued |
| `TombstoneErases`, `DeletedRevoked`, `CodesMatch` | the three table invariants | jointly inductive as `LifeInv` |
| `LifecycleImplemented` | `ImplementsLifecycle` | step simulation under `LifeInv` |
| `DiskInvariant` and `TypeCorrect` of `DiskEvents_proofs` | `TypeOK` | `DiskInv`, which is `TablesInv`, `WalkInv`, `ViewInv` and `SweepIsThorough` |
| `RealAlerts`, `OneAlert`, `ImmutableAlerts` | `AlertsAreReal`, `OneAlertPerScan`, `AlertsImmutable` | `TablesInv`, with lemmas on what `NewEvents` raises |
| `ExactWalk`, `StableIds` | `WalkIsExact`, `ShownIdsStable` | `WalkInv`, with lemmas on `Descending` and a page of it |
| `NearestReference` | `ReferenceIsNearest` | `ViewInv` |
| `ThoroughSweep` | `SweepIsThorough` | inductive beside `TablesInv`, with a lemma on `Removable` |
| `CapHolds` and `TypeCorrect` of `AuthSessions_proofs` | `SessionCap`, `TypeOK` | `TableInv`: the table is finite and within the limit; the purge only shrinks it, and a token is added only below the limit |
| `DeadSessions` | `DeadSessionsStayDead` | `TableInv`: what is stored was drawn, and a login stores a token never drawn |
| `SessionsKept` | `ValidSessionsKept` | `PendingInv`: the time a login uses is never ahead of the clock, and a token it draws is none that is stored |
| `StaleRequests` | `StaleRequestRefused` | `RequestInv`: a stale request's session is drawn and not valid, and stays so by the argument of `DeadSessions` |
| `ThrottleCorrect` | `ThrottleHolds` | `ThrottleInv` |
| `CurrentCredential`, `BackedService` (and `TypeCorrect` of `Enrollment_proofs`) | `CredentialIsCurrent`, `ServiceHasCredential`, `TypeOK` | `EnrollInv` |
| `UpdateInvariant`, with `OldKept`, `QuietWhole`, `TrueReports`, `WholeRollback`, `NoMixture` and `TypeCorrect` of `Installer_proofs` | the invariants and the action property of `agent_update`, `RollbackWhole`, `TypeOK` | `UpdateInv` |
| `UpdateImplemented` | `ImplementsUpdate` | step simulation under `UpdateInv` |
| `InstallInvariant`, with `VerifiedOnly`, `WholeDescribed`, `NeverBlocked` and `InstallTypes` | the three invariants of `install`, `InstallTypeOK` | `InstallInv` |
| `TimeLimited`, `SharedLimit` | `LimitIsOn` and `OneLimit`, in no run | inductive under `InstallInv`; `SharedLimit` from `TimeLimited` |
| `UpgradeInvariant`, with `ReadyToGoBack`, `EnoughPoints`, its corollary `WholePointsKept` and `TypeCorrect` of `Maintenance_proofs` | `RollbackReady`, `PointsKept`, `EnoughWhole` (in no run), `TypeOK` | `UpgradeInv` |
| `RolloutInvariant`, with `TrueStatus`, `Compatible`, `ResumedTimers`, `KeptOut` and `TypeCorrect` | the four properties of `rollout`, `TypeOK` | `RollInv` |
| `BackupInvariant`, with `SoundPublished`, `NothingReplaced` and `TypeCorrect` | `PublishedAreSound`, `NeverReplaced`, `TypeOK` | `SoundInv` |
| `NewestAreKept` | `NewestKept` | `KeptInv` |
| `Trimmed` | `SurplusTrimmed` | `AloneInv` |
| `RecordedFile`, if the clock is not set back | `RecordedFileExists` | `LatestInv` |

Why strengthening is needed: `StaleReportRefused` says nothing of a request that is
still on its way through the three queries. `CredentialInv` says of every request marked
stale, whatever its place, that its credential does not fit its device now: a token that
does not fit was issued (so `Register` cannot draw it again), and the shared token does
not fit a registered id, which no operation makes unregistered. Each of the three
queries then refuses on its own. `CredentialIsCurrent` says nothing of requests under
way either: `EnrollInv` adds that the hub accepts the last token it gave out or none
(`LastAccepted`), and that once the token is in the file, or awarded to the client that
has the file open, no request still to be served carries the code that is out
(`NoneHeld`). That stays true because codes are drawn afresh, because a client can send
a request only after it found no file (`Reserved`), and because a withdrawal takes the
code away with the token. `Unlink` may remove a file that was filled meanwhile; it
leaves no service without one, since `register` gets there only while no unit was
written (`NotSetUp`). Likewise `StaleRequestRefused` is inductive only with the fact
that dead sessions stay dead.

`UpdateInv` says at each step of the updater where the old package is and how far
the loop over the files has come (`Kept`, `Placed`), and of an absent workspace
that nothing is half done (`Quiet`). All of it is one induction: even the types
need it, since a file is put back from `previous`, which may lack files until
the copy is complete. `InstallInv` says that what is staged was verified before
any question is asked (`Staged`), that an installation begins with an untouched
system and describes only what it has copied (`Installing`), and that no
`.partial` file is left once the cache was looked at (`NoPartial`). `RollInv` says
at each step what the switches before it did (`Before`, `Switching`), that the
timers are stopped as long as it matters (`Calm`), and which of them the `finally`
clause has dealt with (`Resumed`).

**Disk events.** `TablesInv` ties the stored snapshots to what their scans found,
which is what makes an alert raised from them true, and true for good, as what a
scan found is settled when it is first accepted. No alert is raised twice because
the rows a scan adds have different paths (one `Change` per path) and leave out
those that have an alert for that scan (the UNIQUE constraint); they never collide
with older ones because the counter only grows. `WalkInv`
says of a walk in progress that every alert of its start with a number from the
cursor on was shown or is gone, and that each number shown still belongs to the
same alert or to none, since numbers never come back (the counter of
AUTOINCREMENT survives retention). `ViewInv` says of a view between its
two queries that the scan shown is incomplete and that the candidates remembered are
complete scans of its scope before it, so that those still stored are among the ones
the second query considers. The lemmas on operators carry most of the length: what a
rank is (different for different alerts of a scan, and no larger than their
number), what a listing by number is, and which rows a batch of the oldest takes.

**The throttle.** `ThrottleHolds` compares each admitted login with the one
`2 * MaxAttempts` later. `ThrottleInv` cuts the admissions into those of the
current window and the earlier ones: the earlier came before the window began, and
those which are followed by `MaxAttempts` earlier ones came a whole window before
it. A new window begins a window's length after the last at the earliest, so
both carry over.

**Backups.** `SoundInv` says that a process about to publish has verified its copy
and that files have one name each. `NewestKept` is not inductive with that: a
process removes by a listing that others may have made stale. `KeptInv` says of
every name that was published or that any process has listed that its file is
there or `Keep` newer files are (`Safe`). When a process takes the oldest of more
than `Keep` names, the others are newer; if all their files are there, there are
`Keep` of them; if one is not, it has `Keep` newer files itself, which are newer
than the oldest too (`OldestHasNewer`). So no second process and no clock can do
harm, which is more than the manual promises. `AloneInv` says what a process
knows that has run alone since its start: it has listed all backups there are.
`LatestInv`, for a clock that is not set back, adds that its own name is later than
all others, which is why it is never the oldest of a list that is too long;
finding 2 is what happens otherwise.

**Rollback points.** `PointsKept` counts whole points and what failed preparations left
of points they had registered; a leftover may take a whole point's place, so with
`Keep = 1` it may be all there is. Without leftovers the count is one of whole points
(`WholePointsKept`). Neither is inductive: a
maintenance run works by a list it made earlier, and a removal may stop half-way.
`CountInv` says of every point whose preparation succeeded and that is not whole any
more, or is on the list, that `Keep` newer ones are *standing*: present, not on the
list, not of a preparation still at work, and not the half-removed rest of such a
point. Only points with `Keep` newer ones present are listed (`Surplus`), but those
may be listed too, or be such rests; `PlanSpares` shows that `Keep` newer ones are
neither. Take the newest `Keep` that are present (`SparedNewer`, by the newest element
of a finite set, `NewestIs`): none of them is on the list, and none is a rest, since
a rest has `Keep` newer ones itself. A preparation under way was never counted, so its
failure and the `rmtree` that follows take nothing away. For `RollbackReady`,
`DeployInv` says that the deployment's point was made, is of the hub it replaced, and
is whole or among the oldest of the registered, where a point stays once it is
(`Oldest(Registered)` can only grow). The lock is part of the induction (`TypeOK` ties
each holder to its step), because a preparation beside a maintenance run would break it.

**Refinements.** `LifecycleImplemented` and `UpdateImplemented` are about safety, as
`DeviceLifecycle` and `AtomicUpdate` have no fairness. In the second a step of the
updater is a stutter until the new package is accepted (`Verify`), each file of the
retained package that goes is an `Exchange`, and what remains is how an updater ends.
With its workspace gone, before the acceptance the old package is installed
(`GoBack`), and at `finish` the new one is and the old one retained (`Switch`); in
every other place the marker keeps the workspace, or the updater was killed
(`Leave`). What `RollbackWhole` says follows
from this refinement, so no run repeats it; it has its own proof (`WholeRollback`).

**Only model-checked.** `RevocationTakesEffect` and `FetchEnds`: liveness under fairness
is out of the prover's reach, as is `ENABLED`. Of `FetchEnds` the safety half is proved:
the interval timer runs exactly while a fetch goes on (`TimeLimited`), and no retry sets
it anew (`SharedLimit`); that it goes off is the fairness. Every safety property that a
passing run checks is a theorem. `DeletedStaysRevoked` is proved and in no run. No
module here declares a RECURSIVE operator.

## 6. Not modelled

Contents of metrics, paths and hashes beyond what a property tells apart; HTTP
parsing, validation and limits (a rejection that may always happen); TLS and
cookies' attributes; SQLite itself, taken to run a transaction atomically and to
keep what it committed; a loss of power, anywhere: files are taken to keep what was
written, through kills and orderly restarts, and what was synced when is not followed
(backups sync their file but not its directory, the updater neither marker nor
directories); owners, modes and links of files, which the installer
checks and may refuse.

Of the components:

- the trend and the network rate are pure functions of a query or of two samples,
  and their unit tests reach what can go wrong;
- the collector and the disk walk are one sequential pass over the machine;
- the agent's two loops share nothing but the context that ends them;
- `Inspect` of the backup directory only reads, and the panel's racing refreshes
  are the handlers of one page: both are hazards without a property;
- temporary artifacts of `storage-maintenance.py` and the timers of
  `deploy-chart-hub.py` (the pair switch has timers, in `Rollout`);
- `deploy-disk-hub.py`, an earlier form of `deploy-chart-hub.py`, and
  `enroll-local-migration.py`, a one-time move of a credential;
- preview control, on a developer's machine; packaging, labs, acceptance and test
  scripts, which exercise the product from outside.

`PROJECT.json` gives the reason for each.

## 7. Plan

1. Done: the hub (`HubDevices` with `DeviceLifecycle`, `DiskEvents`,
   `AuthSessions`), the programs that must survive a crash (`Backup`, `Install`,
   `AgentUpdate` with `AtomicUpdate`, `Enrollment`, `Maintenance`, `Rollout`), the
   proof of every safety property that a passing run checks, and of both refinements.
2. Worth stating next: `Inspect` of the backup directory beside a rotation, and the
   panel's racing refreshes, once there is a promise to hold them to.
