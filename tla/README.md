# A TLA+ model of ConsolePi+

ConsolePi+ turns a Raspberry Pi into a serial console server: every USB serial
cable has an SSH port of its own, a web interface and a terminal menu administer
the device, NetworkManager carries its one Ethernet interface and nftables
admits the management networks.  This directory holds TLA+ models of the parts
in which processes meet: what they promise, what they do, TLC instances that
check them and TLAPS proofs for every size of the instance.

Paths below are relative to `src/`; `control` is `usr/local/sbin/consolepi-control`,
`session` is `usr/local/sbin/consolepi-session`.

Run everything from this directory:

    tlc -workers 2 -config NetworkChange_safety.cfg MCNetworkChange.tla
    tlc -workers 2 -config ConsolePorts_safety.cfg MCConsolePorts.tla
    tlc -workers 2 -config ReleaseUpdate_safety.cfg MCReleaseUpdate.tla
    tlc -workers 2 -config ImagerGuard_safety.cfg MCImagerGuard.tla
    tlc -workers 2 -config FirstBoot_safety.cfg MCFirstBoot.tla
    tlc -workers 2 -config AuthConfig_safety.cfg MCAuthConfig.tla
    tlc -workers 2 -config Transcripts_safety.cfg MCTranscripts.tla
    tlapm NetworkChangeProofs.tla          # and the other *Proofs.tla

## 1. The system: inventory

Nothing in ConsolePi+ is one long-running program.  The web interface (gunicorn
with two workers) and the terminal menu run `sudo consolepi-control ...`,
`consolepi-maintenance ...` or `consolepi-release-runner ...` for each request;
systemd timers and transient units, the NetworkManager dispatcher and SSH logins
run further short programs.  They share files under `/etc/consolepi`,
`/var/lib/consolepi*` and `/run`, and the state of systemd, NetworkManager and
the kernel.  Locks are rare: `flock` on a console port and on the package update.

| Component | State | Operations | Meets | Hard behaviour |
|---|---|---|---|---|
| **Network change** (`control` 63–131, 400–512, 2012–2040) | `network-rollback.json` (STATE), the NetworkManager profile, two transient units with their timers | apply, activate, confirm, confirm-pending, pending, rollback | web, menu, allow-list, dispatcher | two requests at once; a timer that fires while the answer is on its way; reboot between activation and confirmation; a failing nmcli |
| **Management allow-list and firewall** (`control` 134–400) | `access-sources.json`, `nftables.conf`, the candidate file, the kernel ruleset | access add, update, delete, list, migrate; generic-bootstrap, firstboot-finalize | network change, dispatcher, first boot | lost updates of the list, one candidate file name for all processes, rules rendered before another change |
| **Dispatcher script** (`etc/NetworkManager/dispatcher.d/90-consolepi-firewall`) | NetworkManager's event queue | one migrate per event | firewall | events arriving during an activation or a rollback |
| **Console sessions and port configuration** (`session`; `control` 595–780) | `ports.conf`, `serial.conf`, `labels.json`, one lock file per port, the cables | open and close a session; ports assign/unassign, serial set/reset, label | web, SSH, port monitor, backup restore | stale reads before the lock, whole-file writes under per-entry locks, one temporary name, kills |
| **Authentication and keys** (`control` 515–592, 1100–1560; `src/pam_consolepi_user.c`) | `authorized_keys`, `auth.conf`, RADIUS files, sshd drop-in, PAM services | keys add/delete, auth configure/sync, RADIUS test | web, sshd, backup restore | multi-file updates that must not lock the administrator out; a web timeout shorter than the operation |
| **First boot and generic image** (`consolepi-generic-image-firstboot`, `lib/consolepi_firstboot_security.py`, `consolepi-maintenance` 114–150, 705–793) | `generic-image.json` (pending, claim_pending, complete), `firstboot.json`, host keys, the temporary firewall | boot script, claim from the web, finalize | firewall, dispatcher, TLS, keys | a power failure between any two steps; two claim files |
| **Imager guards and recovery** (`lib/consolepi_imager_security.py`, `lib/consolepi_generic_recovery.py`, `libexec/consolepi-imager-*`) | success and failure markers, operation records, recovery marker | guard, postvalidate, mark failure, provision host keys, one-shot recovery | first boot | idempotent markers across crashes and repeats |
| **Release update** (`consolepi-release`, `consolepi-release-runner`, `install.sh --update`) | `release-update-status.json`, uploads, VERSION, `installed.json` | start, run, install, status | web, reboot | two starts, a killed worker, a timeout, a stale status after a reboot |
| **Package update** (`consolepi-update-check`) | `update-status.json`, a lock | check, upgrade | timer, web | a killed upgrade and its status |
| **Logs and transcripts** (`consolepi-log-maintain`, `consolepi-transcript-writer`, `session` 246–282) | transcripts `.active`, `.log`, `.log.gz`, `ports.log` | maintain, can-record, monitor, rotate | every session, the monitor, the web | several maintain runs over the same files; quotas |
| **Maintenance** (`consolepi-maintenance`) | TLS pair, host keys, identity, time, everything a backup holds | backup create/restore, TLS install/generate, host keys, clone rekey, identity, factory reset (`control` 1900–2000) | all of the above | several files changed one after the other |
| **Web administration** (`opt/consolepi-web/app.py`) | sessions, login throttling | routes that call the tools above | all | two workers, request timeouts |
| SNMP, LLDP, login banner, diagnostics; image preparation and validation; discovery client; build tools | – | read-only or off-device | – | – |

What makes each correct:

* *Network change.*  The device never stays on a profile nobody confirmed; the
  way back is never lost; what is offered for confirmation is what runs; a
  rollback restores what was saved; a pending change ends.
* *Firewall.*  The ruleset admits the local network and the listed networks,
  and a network that was removed from the list is refused.
* *Console sessions.*  One session per console and cable; settings of a console
  in use stay; no cable belongs to two ports; a configuration file is always
  complete.
* *Authentication.*  In every mode, and at every point of a change, at least
  one way in remains that the mode names.
* *First boot.*  A claimed device never opens its setup transports again, a
  device that is reached has host keys and a TLS pair that fits, and a crash at any
  step leads back to a claimable or a claimed device.
* *Release update.*  At most one installation runs, a half updated device says
  so, VERSION never goes back, and an installation ends.  (The first of these does
  not hold when two starts overlap; section 5 says what then does.)
* *Logs.*  A transcript of a running session is never removed; the quota holds
  after maintenance; nothing is lost but by the retention rules.
* *Maintenance.*  Certificate and key always match, host keys exist.

`PROJECT.json` lists the places where each of these can go wrong (`hazards`),
with the properties that cover them.

## 2. Plan

Order of work: the most important behaviour first (it can cut the device off),
then what every user touches, then the one-time and rare operations.

| Module | State of the work | Abstract specification | Theorems |
|---|---|---|---|
| `NetworkChange` (network change + firewall + dispatcher) | done | `NetworkPromise`, refined | types, inductive invariant, safety, refinement: proved |
| `ConsolePorts` (sessions + port configuration) | done | `PortsPromise`, refined | types, inductive invariant, safety, refinement: proved |
| `ReleaseUpdate` (upload, runner, installer) | done | `ReleasePromise`, refined | types, inductive invariant, the lock, truthful status, VERSION monotone, refinement: proved |
| `ImagerGuard` (guards, audit, markers, validation, recovery) | done | `ImagerPromise`, refined | types, inductive invariant, safety, refinement: proved |
| `FirstBoot` (claim states, wizard with its new host keys and TLS pair, temporary firewall, crash after every step) | done; takes the verdict of `ImagerPromise` as given | `ImagerPromise`, refined | types, inductive invariant, safety, refinement: proved |
| `AuthConfig` (modes, keys, RADIUS, reset, backup and restore) | done | – | types, inductive invariant, safety, truthful answers: proved |
| `Transcripts` (recording, maintenance, quota, clearing) | done | – | types, inductive invariant, `NothingLost`: proved |
| `PackageUpdate` (`consolepi-update-check`) | left out | – | one process under one lock; what is left is a status a kill leaves behind |
| rest of `Maintenance` (TLS pair and host keys from its page, clone rekey, the other files of a backup) | left out | – | see section 12 |

Each component is a module of its own with its constants and assumptions, an
`MC` module that only names the model values and the symmetry, one `.cfg` per
question, and a proof module that extends the component.

## 3. `NetworkChange`: the network-change transaction

### Correspondence

| Model | Code |
|---|---|
| `state` | STATE, `/var/lib/consolepi/network-rollback.json`: phase, token, saved profile and rules, candidate |
| `profile`, `network` | the keyfile profile "Wired connection 1"; the IPv4 network eth0 is in |
| `nftables`, `ruleset`, `nftCandidate`, `sources` | `/etc/nftables.conf`, the kernel's rules, the candidate file, `access-sources.json` |
| `applyTimer`, `rollbackTimer`, `rollbackFailed` | the transient timers and whether a failed rollback service is still loaded (only the apply unit has `--collect`) |
| `activation`, `rollback`, `migrate`, `request[w]` | program counter and locals of the processes: `network activate`, `network rollback`, `access migrate` and one web request or menu per worker |
| `used`, `trusted`, `abandoned` | history: tokens given out, profiles confirmed, what ended the care for a pending change: `"restore"`, the machine went down or a restore failed; `"apply"`, another apply stopped its timers and then failed |

Each file access, `systemctl`/`systemd-run`/`nmcli` command or `nft` command is
an action of its own, so that every process interleaves with every other one:
`ApplyCheck, ApplyStop, ApplySave, ApplySchedule`; `ActivateStart … ActivateCommit`;
`ConfirmStart, ConfirmStop, ConfirmUnlink`; `RollbackStart, RestoreRead …
RestoreUnlink`; `EditStart, EditWrite, EditRender, EditInstall`; `MigrateStart,
MigrateInstall`; and for the world `LeaseChange`, `Reconnect`, `Reboot`.  An
exception ends a process where it is: `Fault` in the nmcli steps, `CandidateLost`
where another process has removed the candidate file, the refused `systemd-run`.
`ApplySaveFails` is the one of `save_state`, which asks NetworkManager for the profile
after apply has stopped the timers and outside its `try`: beside another apply the
other one's STATE then stays staged with nothing scheduled.

### Properties

`UndoKept`: an unconfirmed profile runs only while STATE holds its change and a
confirmed profile to go back to.  `UndoScheduled`: and, without a reboot or a
failed restore, something is about to end it.  `ConfirmableIsApplied`: what can
be confirmed is what runs.  `ActivationAlone` (proved, not part of a run): no
rollback, apply or confirm runs beside an activation, whose change is still the
stored one.  `RollbackRestores`:
a rollback that removes STATE has restored the saved profile.  `PromiseKept`:
every step is one of `NetworkPromise` (stage, switch, offer, accept, revert,
drop) or leaves profile, pending change and confirmed profiles alone.
`UnconfirmedRevertsIfUp`: unless the machine goes down or a restore fails, every
unconfirmed profile is in the end reverted or confirmed.  `PendingResolvesIfUp`: every
pending change ends, unless in addition an apply failed over it (`ApplySaveFails`) or
a failed rollback unit is left behind (`network_stuck`).

### Assumption: `Timely`

The code has no lock around the transaction; two delays order its steps.  The
apply timer waits 5 s while the request that armed it has only to return, and the
rollback timer waits 180 s while the activation needs at most 90 s of
`nmcli connection up` and 30 s of `wait_for_active_network`.  With `Timely =
TRUE` the activation starts after the requests inside apply or confirm have
ended and the rollback starts after the activation; nothing else is ordered.
All safety properties are stated under `Timely`; the violations below are found
with it, so they do not depend on unlikely delays.

### Fairness

`FairSpec` gives weak fairness to the steps of processes that have started and
to timers that are armed: systemd runs them, and the commands they wait for have
timeouts.  Nobody has to make a request or to confirm, and neither NetworkManager
nor the DHCP server owes anything.

## 4. `ConsolePorts`: console sessions and port configuration

### Correspondence

| Model | Code |
|---|---|
| `conf`, `temp`, `content` | which inode is called `ports.conf`, `serial.conf`, `labels.json`; which is called `.ports.conf.new`, …; what inodes hold.  The names matter: `atomic_write` gives every process the same temporary name, so one may rename a file another has open |
| `lock` | the `flock` on `/run/lock/consolepi/<name>.lock`, held by a session or an editor |
| `plugged` | the adapters present under `/dev/serial/by-id` |
| `session[s]` | `consolepi-session`: the port, and the cable and setting it read |
| `edit[e]` | a `consolepi-control ports`, `serial` or `label` process with the text it is about to write |
| `overlapped`, `edits`, `kills` | history and bounds |

A session is `SessionStart` (reads `ports.conf`), `SessionReadSerial`,
`SessionCheckDevice`, `SessionLock`, `SessionOpen` (picocom), `SessionClose` or
`SessionHangup`.  An edit is a start (`AssignStart`, `UnassignStart`,
`SerialStart`, `LabelStart`), `EditLock` unless it is a label, `EditRead`,
`EditOpen` and `EditWrite` (the two halves of `write_text`), `EditReplace`; it
may be killed at every step.  A power failure is a kill of every process.

### Properties

`AssignedOnce`: no cable belongs to two ports, in any interleaving, although
edits of different ports hold different locks.  `TornIsWritten`: unless something
was killed, an empty configuration file has an editor about to fill it.
`CompleteAlone` (proved, not part of a run): edits one at a time never show an incomplete file, killed or
not.  `PromiseKept`: until two edits first overlap, sessions and edits implement
`PortsPromise`, in which an edit is one step, changes one entry, leaves a console
in use alone and gives no cable away twice.

Inodes are a finite set; `EditOpen` waits for a free one, so a set smaller than
editors + 1 would hide behaviour: the instances have one more than the editors.

## 5. `ReleaseUpdate`: offline updates of ConsolePi+

### Correspondence

| Model | Code |
|---|---|
| `uploads`, `used`, `candidate[b]` | `release-uploads/<random>.cpiupdate`, names given out, `session["release_candidate"]` of a browser |
| `status` | `release-update-status.json`; a "rebooting" older than `STALE_REBOOT_SECONDS` is the value "stale" |
| `tree` | version of the programs under `/usr/local`, of `VERSION`, of `/opt/consolepi-web`; `Partial` while a part is being copied |
| `record`, `settings` | `installed.json`; `consolepi.conf` as packaged or as chosen with `logs configure` |
| `job[j]` | one installation: the `start` command, then the worker it spawns, with the commands the worker waits for |

`StartCheck, Retire, Spawn` are `start`; `RunBegin, Inspect, …, Unlink, Announce,
Reboot` are the worker; in between, `Prepare` and `Record` are
`consolepi-release install` and `BeginCopy, EndCopy, Checks` are `install.sh
--update`, in its order: programs and `consolepi.conf`, VERSION, web application,
checks.  `InstallerStops` is any failing command and both time limits.
`Restart` is a power failure or a restart of `consolepi-web.service`: start,
worker and installer are in its control group.

### Properties

`LockKept`: the status file, read by one process, written by another and surviving
crashes and reboots, excludes a second worker for every start that does not overtake
another one, and does so again once the workers of two that did are gone.
`ReportedTrue`: no failure or crash leaves a device whose parts differ in version
reported as completed or ready.  `CompletedIsRecorded` (proved, not part of a run):
`installed.json` names a completed update.  `VersionGrows` (proved, not part of
a run): no order of uploads, failures and installations takes VERSION back.
`PromiseKept`: start, worker and installer implement `ReleasePromise`, whose
state is the status file as the administrator reads it (`Word`), VERSION and
whether all parts are of one version.  Nothing on the device changes unless the
status says that an update is under way; VERSION only grows, after the programs
and before the web application; "completed" is said of a device in one piece
only; a failed update may be followed by another one.
`BusyEndsIfUp`: an announced installation ends.

### Starts that overtake each other

`start` reads the status and spawns a worker; only the worker writes it.  No lock
keeps a second `start` out of that window, so the model does not either.  The history
`race` is "on" from the start that enters the window until no process is left, then
"over" until an update has completed.  Two workers write the status through one
temporary name: `WritesCollide` leaves the status of either, or a torn file that no
start can read, and ends one of them.  `OneInstaller`, which claims a single worker
always, is what the program says ("Instalace aktualizace již probíhá") and does not
hold: `ReleaseUpdate_overlap.cfg`.  `VersionGrows` and `LockKept` except the time the
two are at work, `ReportedTrue`, `CompletedIsRecorded`, `PromiseKept` and
`BusyEndsIfUp` also what they leave behind, until an update has completed: two
installers mix the parts of two versions, and nothing in the code notices.

### Assumptions

`Age` waits for a worker asleep: 5 s against 45 s.  Unpacking is
taken to last less than 60 s, so that the inner limit (240 s) fires before the
outer one (300 s), which would leave an installer without a worker.

A crash while the status is "verifying" or "installing" leaves it there, and
every later start is refused; `BusyEndsIfUp` excepts crashes for that reason.

### Fairness

Weak fairness for the next step of some job that has started, because every command
it waits for answers or is given up, and for `Age`, because the clock goes on.

## 6. `ImagerGuard`: the customisation by Raspberry Pi Imager

### Correspondence

| Model | Code |
|---|---|
| `script`, `payload` | the calls in `firstrun.sh`, and how much of it is still on the FAT partition |
| `authKey`, `sshOp`, `userOp` | `authorized_keys` of consolepi; the two operation records |
| `audit`, `torn` | `generic-imager-audit.jsonl`, its last line cut off |
| `failure`, `success` | the two markers; a failure marker is "partial" between its creation and its contents |
| `entry`, `changed` | what stands at the two vendor paths; what the payload changed without them |
| `bootMarker`, `sessions` | `consolepi-recovery-enable` and the shells it has opened |
| `pc`, `at`, `why` | the program that runs, the call it serves, the reason a marker will give |

`RunGuard, GuardCheck, install_authorized_key, record_operation,
append_guard_audit` (through `Accept` and `Reject`) are one guarded call; `Raise,
mark_failure_once, FillMarker, MarkDone` are its error path; `PostValidate,
RestoreSsh, RestoreUser, Succeed` the validation; `activate_recovery,
ConsumeMarker, ActivateShell` the recovery.  Each writes one file, so a crash falls
between any two writes and, for the marker and the audit, inside one.  A call is an
operation and the class of its argument; what a validator does to the text is its
verdict on that class.  A start runs the payload from its first call again until the
payload has removed itself.

### Properties

`ReleasedOnlyAsAsked`: services start only if every call was permitted and exactly
one brought the key that is installed, however often it was cut off and run again.
`ReleasedIsAudited`: the audit then holds an accepted event of each call.
`FirstFailureStays`: no later failure replaces or completes a marker.
`OneShellPerMarker`: a recovery marker pays for at most one shell.  `KeepsPromise`:
the verdict is taken once (`ImagerPromise`).  `CleanIsReleased`,
`StartsComeToVerdict`: a permitted payload gets through without faults, and every
start ends in a verdict with them.

Two users of a verdict: `FirstBoot` has a variable `imager` that changes as the
`verdict` of `ImagerPromise` does, and so needs none of the above.  Its side of the
interface is `VerdictKept`: `FirstBoot` with that variable for the verdict and
"released" for the services implements `ImagerPromise` too.

## 7. `FirstBoot`: from the first start to the end of the wizard

### Correspondence

| Model | Code |
|---|---|
| `firstboot`, `generic` | `firstboot.json` and `generic-image.json`, which say different parts of "not yet claimed" |
| `report`, `imager` | the preparation's report says PASS; the verdict on the customisation |
| `consoleKey`, `password`, `sources` | what the service and the wizard make |
| `hostKeys`, `tls` | `/etc/ssh/ssh_host_*` are a whole set; certificate and key are there and belong together |
| `open`, `candidate` | the firewall lets every network reach the setup transports; `nftables.candidate`, the one file all callers render to, exists |
| `svc`, `web` | step of `consolepi-generic-image-firstboot`; "released" when SSH and the web start; nginx was started on a pair it accepts |
| `step[a]`, `form[a]`, `told[a]` | `firstboot_configure` for administrator `a`, his networks, what he was told |
| `spare` | the wizards whose copy of the host keys or of the TLS pair they are replacing is whole |
| `mig`, `wasPending` | `access migrate` from the dispatcher, and the claim it read |
| `mixed`, `broken`, `stale` | history: two renewals of the identity overlap; one was cut off, mixed or failed where nothing undoes it; a migration holds, or has applied, a claim read before the wizard's end was recorded |

The service is `CheckReport … BecomeClaimable` in the order of the script, with
`access_generic_bootstrap` and `OpenSetup` for the two halves of `update_firewall`; a
wizard is `setup, CheckClaim, WritePassword`, the renewal of the identity `MoveKeys,
InstallKeys, WriteCert, WriteKey, CheckTls` (with `InstallFails` and `CheckTlsFails,
RestoreTls` for what the code undoes, `MoveFails` and `WriteKeyFails` for what it does
not), then `access_firstboot_finalize, WriteSources, RenderClosed, CloseSetup,
WriteFirstboot, WriteGeneric`; a migration is `access_migrate, RenderMigration,
ApplyMigration`.  A call of `update_firewall` fails when another one has removed the
candidate (`CandidateLost`).  `Crash` may follow any step: between the old host keys,
which are moved away first, and the new ones; between certificate and key.  The next
start of a claimable image looks at neither.

### Properties

`ReleasedIsOwn`: SSH and the web start only with the image validated, the
customisation imported and the console key in place, whichever steps earlier starts
were cut off at; and with a whole set of host keys and a TLS pair, unless a renewal is
at work or `broken`.  `CompleteIsClaimed`: a finished wizard leaves a password and an
allow-list that admits its author, though two may run at once.  `DoneIsDurable`:
"done" is said after both files.  `CompleteIsClosed`: the temporary firewall is gone,
unless a stale migration renders it again, and then until the next one.
`WizardCanBeRepeated`: until the wizard is done every restart leads back to a running
web, unless a broken renewal left a TLS pair that nginx refuses.

Proved, not part of a run: `ClaimGoesForward`, neither state file ever goes back;
`ClaimableStarts`, once the image is claimable only a late lease or a failing firewall,
a candidate file that a migration removed, or the pair of files that a power failure
between `WriteFirstboot` and `WriteGeneric` leaves keeps SSH and the web from starting;
and `VerdictKept`.  `FirstBoot_claims.cfg` checks the three.

### What the code does not exclude

Nothing orders the three programs, so nothing in the model does.  Three sentences of
`docs/INSTALACE-IMAGE-RPI-IMAGER.txt` are stated without the exceptions above and are
violated: the active keys are restored when their replacement fails (204-207,
`IdentityRestored`, `FirstBoot_renewal.cfg`); the temporary access is gone before the
state is complete (78-80, `CompleteStaysClosed`, `FirstBoot_reopen.cfg`); an interrupted
first boot continues (197-198, `InterruptedBootContinues` in `firstboot_restart` and
`ClaimedStarts` in `FirstBoot_claimed.cfg`).  What a wizard leaves of the other one's
host keys and TLS pair when two renew them at once is any outcome (`Outcome`).

### Fairness

The service runs to its end, a request that was accepted is served, a migration
that has started ends, and a stopped device is started again.  Nobody has to fill
in a wizard or to restart a device that works.

## 8. `AuthConfig`: how the console ports authenticate

### Correspondence

| Model | Code |
|---|---|
| `keys`, `password` | `authorized_keys` of console; whether the account has a password |
| `authMode`, `dropin`, `pam`, `sshd` | AUTH_MODE in `auth.conf`; the mode in the sshd drop-in; whether `/etc/pam.d/sshd` asks RADIUS; the drop-in the running sshd has loaded |
| `pamRadius`, `checked` | server in `pam_radius_auth.conf`; the check result in `radius.json` |
| `backup` | AUTH_MODE, check result and keys in the last backup downloaded |
| `job[w]`, `told[w]` | the request served for worker `w` with what it has read, and its answer |
| `verified`, `since` | history: servers that answered; failures, crashes, restores and overlaps of conflicting requests since the last saved configuration.  `job[w].clash` remembers that a conflicting request ran beside this one |

A configuration is `SetPassword, CheckForm, radius_server_check, WriteRadius,
WriteMeta, ApplyRead, WriteDropin, WritePam, Reload, StoreMode`, with `ApplyFails`
and `Undo` as the code's restore; keys are `ReadKeys, write_key_lines`; a reset is
`Wipe, ChooseDefault` and the same apply; a restore is `backup_restore` and the same
apply.  `GiveUp` is the web's 15 s, after which the command may be killed or go on.

No lock keeps these operations apart, and the model lets any of them overlap.  Two
*conflict* if both write the mode (configure, sync, reset, restore) or one does and the
other deletes a key.  Conflicting requests that overlap read and write each other's
files in any order, and `Collides` is the failed rename of two that use one temporary
name.

### Properties

`DoorOpen`: somebody can get in, under the mode of `auth.conf` and under the one sshd
runs on.  The first holds across refused, failing and cut-off requests, the second
across refused and failing ones; neither after a restore, which checks nothing, or an
overlap of conflicting requests, until the next configuration is saved.  RADIUS has a
server while nothing of this happened since the last saved configuration.
`AnswersAreTrue`, of a configuration no conflicting request ran beside: "saved" means
all four places and RADIUS hold what was asked for, an error means sshd and PAM are as
before (if no overlap came earlier), a refusal means only the password may have changed.
`ShownIsVerified`: while the page reports verified communication and nobody is at work,
the server PAM asks has answered a check, also after a configuration that failed, was
refused or given up; not after a power failure, a restore or an overlap, until the next
saved configuration.  `PlacesAgree` (proved, not part of a run): drop-in, PAM, running
sshd and `auth.conf` name one method whenever nobody is at work, unless something
failed, was cut off, restored or overlapped since the last configuration that was saved.

### What the code does not exclude

The exceptions are real: the sentences of the program that have none are violated.
`LastKeyStays` (`control` 589-590, the last key stays while key authentication is
active; `AuthConfig_lastkey.cfg`): a configuration of the key mode that a power failure
cuts off after the drop-in leaves sshd, at the next start, on keys only while
`auth.conf`, which `keys delete` asks, names another mode.  `KeyModeHasKey` (`control`
1448; `AuthConfig_overlap.cfg`): a deletion and a request that writes the mode each
check what the other is about to change.  `VerifiedMeansAnswered`
(`authentication.html:39-40`; `AuthConfig_crash.cfg`): a power failure between
`pam_radius_auth.conf` and `radius.json` shows an earlier verdict for a new server.
`ShownIsConfigured` is the run `auth_restore`.  No fairness: there is no liveness
property.

## 9. `Transcripts`: recorded console sessions

### Correspondence

| Model | Code |
|---|---|
| `active`, `log`, `gz` | transcripts that have a file `.active`, `.log`, `.log.gz`; `gz[t]` is the process that is writing it, or "complete" |
| `size`, `age`, `gzAge` | `st_size` and days since `st_mtime`; ages stop at one that is too old |
| `rootOwned` | compressed files that belong to root, which a session of console may not open |
| `maxTotal`, `reserve` | TRANSCRIPT_MAX_TOTAL_MB; whether other files leave TRANSCRIPT_MIN_FREE_MB free |
| `job[p]` | a maintenance with what it has read, a session that records, a clearing of the logs |
| `used`, `closed`, `dropped`, `shared` | history: names given out, transcripts that were finished, removed on purpose, compressed or removed by one process while another compressed them |

`maintain` is `ReadAndList, Look, Expire, Truncate, Copy, Unlink, Sort, Check,
Drop`, run by the monitor, by every session's `can_record` and by `logs configure`.
An exception (a file that vanished between listing and `stat`, one that belongs to
root) ends it.  Names listed are looked up in the step of the listing; a file that
another process may remove meanwhile is the exception of `Vanishing`.  A session
goes on to `CreateActive, Record, finalize_picocom_transcript`.

### Properties

`NothingLost`: every finished transcript can be read, is being written anew, or was
removed by retention, quota or user.  It excepts two processes over the same
transcript one of which is cut off: the second truncates the compressed file of the
first, which has removed the original, and is killed; or a kill leaves a complete
compressed file beside its original, somebody removes the original as the other file
can be read, and a process that had opened it truncates that one and is killed too.
The second case needs two faults; it was met when the invariant of the proof turned
out not to be inductive.  TLC shows the loss when either exception is taken away.
`QuotaReached`: usage over the quota comes down or nothing finished is left, without
a day going by.  `ClosedAreForgotten`: if the days go by, no finished transcript
stays, although compression starts its age anew.

### Fairness

A process that was started runs on; the monitor comes back every five minutes and
is restarted by systemd.  Nobody has to end a session.  That the days go by is a
premise of `ClosedAreForgotten` only.

## 10. Runs

`CHECK_DEADLOCK FALSE` where requests, edits, reboots and faults have budgets after
which the modelled system rightly idles; `ImagerGuard_safety`, `FirstBoot_safety`,
`FirstBoot_restart` and `Transcripts_safety` check for deadlock.

| Run | Question | Instance | Result |
|---|---|---|---|
| `network_safety` | safety, the refinement and, while the machine stays up, the end of every unconfirmed profile and pending change | 2 networks + DHCP, 2 changes, 2 workers, 1 reboot, 1 fault, no symmetry | holds, 155 k states |
| `network_edits` | the inductive invariant with allow-list edits, events and lease changes competing for the firewall and its candidate file | 1 change, 2 workers, 2 edits, 1 lease change, 1 fault | holds, 2.5 M states |
| `network_stuck` | "first confirm the previous change or let it be reverted" | 2 changes, 1 worker | violated |
| `ports_safety` | safety and the refinement with a kill | 2 ports, 1 cable, 2 settings, 1 label, 2 sessions, 2 editors, 3 inodes, 2 edits, 1 kill | holds, 341 k states |
| `ports_cable` | "another user is connected to the same cable" | 2 sessions, 1 editor, 2 edits | violated |
| `release_safety` | the lock, the status, the refinement and the end of an installation, with crashes and starts that overtake each other | 2 packages of newer versions, 2 browsers, 2 jobs, 1 crash, no symmetry | holds, 2.1 M states |
| `imager_safety` | safety, the refinement and both liveness properties | all payloads of up to two calls and the usual ones of three, 2 crashes or failing writes, 1 recovery marker | holds, 780 k states |
| `firstboot_safety` | safety and the repeated wizard | 2 administrators, 2 DHCP events, 2 faults, no symmetry | holds, 679 k states |
| `firstboot_restart` | "if the first boot is interrupted, start again; the service safely continues" | no wizard, 1 fault | violated |
| `auth_safety` | the door, the answers, the page | 2 workers, 2 keys, 1 server, 2 requests, 1 failing step, 1 power failure | holds, 2.3 M states |
| `auth_restore` | "RADIUS communication verified" after a restore | 1 worker, 1 key, 1 server, 4 requests | violated |
| `transcripts_safety` | no transcript lost, quota and retention reached | 1 session, 1 monitor and requests, 1 transcript of up to 2 units, quotas 1 and 2, 1 fault, 1 filled disk | holds, 443 k states |

Further configurations, not part of the runs, which TLC refutes:
`NetworkChange_reboot.cfg`, `NetworkChange_lateconfirm.cfg`,
`NetworkChange_removednets.cfg`, `ConsolePorts_busy.cfg`,
`ReleaseUpdate_overlap.cfg`, `ReleaseUpdate_settings.cfg`, `FirstBoot_renewal.cfg`,
`FirstBoot_reopen.cfg`, `FirstBoot_claimed.cfg`, `AuthConfig_lastkey.cfg`,
`AuthConfig_overlap.cfg`, `AuthConfig_crash.cfg`; see below.  Four more hold:
`ReleaseUpdate_packages.cfg`, the safety of `release_safety` with a second upload of one
release and two crashes (3.8 M states); `FirstBoot_claims.cfg`, the proved properties
that are not part of a run on the instance of `firstboot_safety`;
`AuthConfig_sequence.cfg`, `DoorOpen`, `ShownIsVerified` and `PlacesAgree` over four
requests one after the other with two servers (1.5 M states); and
`Transcripts_faults.cfg`, `NothingLost` and the inductive invariant with two sessions,
transcripts of one unit and two faults (2.0 M states).

**Bounds.**  `MaxReboots`, `MaxFaults`, `MaxEdits`, `MaxLeases`, `MaxEvents` and
`MaxKills` limit what the environment does; `Token` limits the number of changes.
Two of everything that can race is enough to show each race of two processes,
one change more than needed lets a change follow a change, and two networks
distinguish the local network, a listed one and one that is neither.  Two newer
versions give every order of older and newer packages, a second upload of one of them
(`ReleaseUpdate_packages.cfg`) an equal one; two jobs and two browsers let each meet
another, with two packages on the device at once.  One cable
for two ports is the sharpest case of "not twice".  Events beyond `MaxEvents`
merge, which loses no behaviour of the last migration.  What these bounds cut off,
the proofs of section 11 cover: they hold for every value of all of these.

For the later modules: two faults let a second one meet the recovery from the
first; a payload of three calls has one more than the two a legal one makes; two
administrators let one wizard overtake another and two renewals overlap; two requests
at once are every pair that can conflict, and four in a row are configure, back up,
reset, restore, or configure, change keys and configure again with another server; two
processes and one transcript are the sharpest case of a shared file, and a transcript
of two units exceeds a quota of one by itself.

**Symmetry** is used for tokens, workers, servers, ports, cables, sessions and
editors in runs without liveness; inodes are left out because `EditOpen` chooses
among them, keys because a process without one holds an arbitrary key.

### What the violated runs show

1. `network_stuck`: a confirmation that removes STATE while the rollback starts
   leaves `consolepi-network-rollback.service` failed; it was created without
   `--collect`, so its name stays taken, the next activation cannot arm its
   rollback and gives up, and its STATE neither activates nor can be confirmed,
   rolled back or replaced.
2. `ports_cable`: a session waits between its read of `ports.conf` and its lock
   while the cable is moved to another port; both sessions then open it, picocom
   being called with `--nolock`.
3. `firstboot_restart`: the state stays "pending" until the claim is opened, and a
   pending start demands that there are no host keys.  A power failure, or a lease
   that comes later than 31 s, after the keys were made stops every later start.
4. `auth_restore`: a backup of a RADIUS configuration has `radius.json` but not
   `pam_radius_auth.conf`; restored after a factory reset, PAM has no server to ask
   and the page reports verified communication.

And the further configurations:

5. `NetworkChange_reboot.cfg` (`network_pending.html:15`, "automatically restores
   the original configuration"): the rollback timer is a transient unit.  A reboot
   before the confirmation drops it, nothing re-arms it at boot, and the unconfirmed
   profile, which is stored in the keyfile, stays.
6. `NetworkChange_lateconfirm.cfg`: `confirm` stops the timer, not a rollback
   service already past its token check, which then replaces the profile just
   reported as confirmed.
7. `NetworkChange_removednets.cfg`: rules rendered, or saved by apply, before a
   network was removed are loaded after it, and no later event replaces them.
8. `ConsolePorts_busy.cfg`: an edit of a free port read the whole map before another
   edit changed a second port; when it writes, a session has that second port, and
   its entry goes back to the old one.
9. `ReleaseUpdate_settings.cfg`: `install.sh` replaces `consolepi.conf` in every
   mode; an update switches the transcripts off and resets their limits.
10. `FirstBoot_reopen.cfg`: a DHCP event during the end of the wizard.  Its migration
    reads the pending claim, waits while the wizard closes the firewall and writes
    "complete", and then loads the open one, which stays until the next event.
11. `FirstBoot_claimed.cfg` (`docs/INSTALACE-IMAGE-RPI-IMAGER.txt:197`, an interrupted
    first boot safely continues): a power failure between the two writes that end the
    wizard leaves `firstboot.json` "complete" and `generic-image.json` "claim_pending".
    The next start asks `generic-bootstrap` for the temporary access, which a finished
    wizard is refused (`control` 343), and stops; so does every start after it, and
    SSH and the web stay down.
12. `FirstBoot_renewal.cfg`: one old host key cannot be moved away; the outer `finally`
    of `regenerate_ssh_host_keys` removes the copy with those that were, and the device
    has no host keys.  A key that cannot be written over a new certificate, and a power
    failure at either place, do the like.
13. `ReleaseUpdate_overlap.cfg`, `AuthConfig_lastkey.cfg`, `AuthConfig_overlap.cfg`,
    `AuthConfig_crash.cfg`: see sections 5 and 8.

## 11. Proofs

TLAPS checks the theorems for every choice of the constants that meets the
named assumptions (non-empty sets, disjoint names, natural bounds).

| Module | Theorems | Argument |
|---|---|---|
| `NetworkChangeProofs` | `TypeCorrect` | one lemma per group of actions |
| `NetworkChangeUndoProofs` | `InductiveInvCorrect`, `UndoKeptCorrect`, `UndoScheduledCorrect`, `ConfirmableIsAppliedCorrect`, `ActivationAloneCorrect`, `RollbackRestoresCorrect`, `PromiseKeptCorrect` | `InductiveInv` below; for the refinement each action is mapped to one of the promise or to a stutter, from the same invariant; assumes `Timely` |
| `ReleaseUpdateProofs` | `TypeCorrect`, `InductiveInvCorrect`, `LockKeptCorrect`, `ReportedTrueCorrect`, `CompletedIsRecordedCorrect`, `VersionGrowsCorrect`, `PromiseKeptCorrect` | `InductiveInv` of that module; `WebBehind` for the refinement |
| `ConsolePortsProofs` | `TypeCorrect`, `InductiveInvCorrect`, `AssignedOnceCorrect`, `TornIsWrittenCorrect`, `CompleteAloneCorrect`, `PromiseKeptCorrect` | `InductiveInv` of that module |
| `ImagerGuardProofs` | `InductiveInvCorrect`, `TypeCorrect`, `ReleasedOnlyAsAskedCorrect`, `ReleasedIsAuditedCorrect`, `OneShellPerMarkerCorrect`, `FirstFailureStaysCorrect`, `KeepsPromiseCorrect` | `InductiveInv` of that module; each step is one of `ImagerPromise` or leaves the verdict alone |
| `FirstBootProofs` | `InductiveInvCorrect`, `TypeCorrect`, `ReleasedIsOwnCorrect`, `CompleteIsClaimedCorrect`, `DoneIsDurableCorrect`, `ClaimGoesForwardCorrect`, `ClaimableStartsCorrect`, `VerdictKeptCorrect`, `CompleteIsClosedCorrect` | `InductiveInv` of that module |
| `AuthConfigProofs` | `TypeCorrect`, `InductiveInvCorrect`, `DoorOpenCorrect`, `ShownIsVerifiedCorrect`, `AnswersAreTrueCorrect`, `PlacesAgreeCorrect` | `InductiveInv` of that module, for the last with `PlacesInv` |
| `TranscriptsProofs` | `InductiveInvCorrect`, `TypeCorrect`, `NothingLostCorrect` | `InductiveInv` of that module |

*Network.*  `UndoKept` alone is not inductive: that the profile is still the
stored candidate depends on what the activation has read, whether its rollback is
armed, and on nobody else being inside apply or confirm.  `InductiveInv` adds
`ActivationGuarded` (the profile changes only with the own rollback armed),
`RollbackUnitOnce` (a unit waits or runs), `SavedTrusted` (what a restore goes
back to was confirmed), `ApplyUndisturbed` and `ApplyClears` (what apply found
stays true until the activation it scheduled starts) and `ConfirmHoldsCandidate`.

*Ports.*  The files are read by name and written by inode, so the invariant
speaks of every inode: `TextsOneToOne` says that no inode of `ports.conf`, named
or not, and no text about to be written has a cable twice (an edit has seen the
cable free in the map it changes, whatever happened to the file since);
`TornInodesWritten` says the same of the configuration *and* of the temporary
file, because that is the one a rename makes the configuration; `EditAlone`
follows a lone edit from its read to its rename; `LocksHeld` gives sessions and
edits their locks.

*Release.*  `LockKept` speaks of workers; that a start finds none is only
known from the status, so `StatusShows` ties every step of a job to the status it
is in, and `JobAlone` extends the exclusion to starts.  `Progress` says which parts
an installer has replaced, and that its version is still newer than VERSION until
it writes it; both give `ReportedTrue` at the moment of the reboot.  These three hold
but while starts that overtook each other are at work, and have to be found true again
when the last of those ends: then no job is left, and they say nothing.  For the
refinement `WebBehind` adds that VERSION is never half copied and that the web
application is never ahead of it: when the installer writes the new VERSION, the
web application is therefore of another version, and the parts do not agree until
it is replaced too.

*Imager.*  The calls of the payload are served one after the other, and again from
the first after a crash, over the same records and the same key.  `ServedInv` says
what holds of every call served so far, unless there is a failure marker: permitted,
audited, and if it brought a key, the only one that did.  `GuardInv` carries one call
through its writes; `VerdictInv` ties each step of the validation to what it has
seen, so that a success marker means a valid card although the steps before it may
have been those of an earlier start; `RecoveryInv` counts a marker, or the shell
about to start for one that was consumed, as a shell to come.  The proofs need of
the payloads only that they are sequences of calls (`ScriptsAssumption`).

*First boot.*  The types are not inductive by themselves: `CheckMarkers` looks the step
to go on with up by the state file, and only because the validation before it stops
on a corrupt one is there such a step.  `ServiceInv` ties each step of the service to
what is on the card, and says that an image which is not pending any more has a
console key of its own; `WizardInv` does the same for each administrator in terms of
what he *or another one* wrote, which is why a second wizard may overtake the first.
`IdentityInv` follows host keys and TLS pair through a renewal that runs alone, with
the copy it can go back to, and says that two that overlap, or one that is cut off
where only half is replaced, are remembered in `broken`.  `ClosedInv` says that a
migration under way when the wizard ends has read that it ended, or is remembered in
`stale`.  For `ClaimableStarts` each step at which the service may stop is refuted in
turn: report and customisation stay once the image is not pending, and the claim is
refused for the pair of files only.
`VerdictKept` maps the steps of the import to those of `ImagerPromise` and the release
of the services to its own, which `ServiceInv` shows to follow an import; with
`KeepsPromise` of `ImagerGuard` it closes the chain between the two modules.

*Authentication.*  `ExclusiveInv`: of two conflicting requests that run side by side
each has `clash`, and `since` remembers it.  A process without it relies on what it has
read (`JobInv`): `ConfigureInv` and `ResetInv` say which places a configuration
has written and that the others are as it found them, `ApplyInv` what sshd, drop-in
and PAM are at each step of the apply and of its undo, `DeleteInv` that a deletion
writes back the keys it read.  `SshdInv` says when sshd runs on the drop-in there is,
so that a power failure changes nothing else.  `DoorInv` is stronger than `DoorOpen`:
RADIUS without a server occurs, but only while the process that removed it is about to
leave RADIUS.  The mode sshd runs on is that of `auth.conf` but between its reload and
the last write (`ReloadedInv`), which gives the second half of `DoorOpen`.
`AnswersAreTrue`, a property of steps, follows because an answer is given by
the step that ends an operation, whose part of the invariant says what it wrote.
`PlacesAgree` needs in addition where a process has its mode from (`SourceInv`: a
synchronisation writes the mode in force, and a restore is remembered once it has
replaced a file) and that the places differ only between the drop-in and `auth.conf`
(`AgreeInv`).

*Transcripts.*  A process works on names it listed long ago, so the invariant says
who compresses what: `CompressInv` that the compressed file a process has opened is
its own or complete, and that the original is there, unless somebody else came by and
is remembered in `shared` or `dropped`; `SharedInv` that two who compress the same
file are remembered; `PartialInv` that an incomplete file has its writer or a fault;
`JobInv` that what was listed has been finished, so that no maintenance touches a
recording.  A maintenance sorts what it has listed, which is a sequence because the
names in use are finite, however many there are to come.

*Only model-checked*: the liveness properties of all modules (fairness and `ENABLED`
are outside the prover), and the violated properties, whose counterexamples TLC
finds.

## 12. What is abstracted, and what is not modelled

* An IPv4 network is a value; a ruleset is the set of networks it admits, as
  nftables' collapsed intervals admit the same addresses.  A static profile is
  named by the network it gives.  Gateways, DNS and the text of the files are
  left out, as is the validation that refuses malformed input.
* Writing STATE is one step.  The code truncates and rewrites it in place; a
  torn STATE, which no program can read, is not in the model.  Writing `nftables.conf` and loading it are
  one step, and `nft -f` on rules that passed `nft -c` does not fail.
* `render_firewall` has a branch for the temporary firewall of an unclaimed
  generic image; it is the variable `open` of `FirstBoot`, and the rules of the
  allow-list are those of `NetworkChange`.
* `EditReplace` is `chmod`, `rename` and the release of the lock in one step;
  every outcome of another process between them is one of its two branches.
  `fsync` is not called by the code: after a power failure the file system may
  lose more than the model does.
* `ApplyStop` is the four `systemctl stop` commands of apply, and writing
  `access-sources.json`, whose temporary name is shared, is one step.
* In `ReleaseUpdate` a write of the status file is one step, as it is renamed into
  place; what two writers do to the one temporary file is `WritesCollide`.  The signature and the contents
  of a package are not modelled; a refused upload leaves nothing behind.  A part is
  a set of files replaced one by one, and a partly copied part has no version.
* The `/dev/consolepi/unassigned-N` paths are one value that is never plugged in;
  names and comments in `ports.conf` do not change.
* `ImagerGuard`: the text of a request is its class; temporary files of an atomic
  write are not seen; the audit is append-only, a torn line is one flag.
* `FirstBoot`: passwords and networks are the classes the wizard tells apart, a set of
  host keys is whole or not, a TLS pair fits or does not.  Of the names and files that
  two wizards write through one temporary name, those may fail that a property depends
  on; a half written one is not in the model.  DHCP events are bounded and have no
  fairness.  The wizard of a
  standard installation (no generic image) and of a cloned card is not modelled, nor
  is the 120 s limit of the web on a wizard.
* `AuthConfig`: a RADIUS server stands for its address and secret.  A restore
  installs its files, and a reset removes the RADIUS files, in one step.  The login
  itself (`pam_consolepi_user.c`, `pam_radius_auth`) and web passwords are not
  modelled.
* `Transcripts`: sizes are in units and a compressed file has one.  A session's own
  `chown` and the removal that follows, and an answer and the creation of the file,
  are one step.  Whether recording is on is left open.  TRANSCRIPT_MAX_SESSION_MB is
  not in the model because no program enforces it: picocom writes the file itself.
  A file `.active` that a power failure leaves behind is never removed and counts
  against the quota.  The rotation of the port events and `logs list` and `read` are
  not modelled.
* `backup_restore` and `factory_reset` also rewrite the files of `ConsolePorts` and
  `NetworkChange`, without their locks; this is listed as a hazard and not modelled,
  nor are clone rekey, the TLS pair and host keys of the maintenance page, time and
  storage.
* Not modelled at all: package update (one process under one lock), SNMP, LLDP,
  banner and diagnostics (read-only), image preparation and validation (sequential,
  on a build machine), the discovery client and the build tools (no state shared
  with the device), pages, styles and translations.
