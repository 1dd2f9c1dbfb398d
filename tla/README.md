# Verification of hecate-lampad-core

TLA+ models of the Hecate agent ("lampad"): a Rust service that polls its server
for signed tasks, runs them, reports results, sends heartbeats from a thread of
its own, rotates its identity key and updates itself. The models are translated
from `src/src/*.rs`; paths below are relative to `src/src/` unless they say
otherwise. Modules are checked with TLC on small instances, and the theorems in
the `*_proofs` modules are checked by TLAPS for every value of the constants.

## 1. The system

| Component | State it keeps | Operations | What is hard about it |
|---|---|---|---|
| Service loop (`agent_run.rs:72-197`) | none between sessions but the config in memory | assess readiness, wait 30 s, run a session | revoked answers restart a session with no sleep; configuration is shared with the command line through a file |
| Pull loop (`agent_run.rs:199-448`) | consecutive pull failures, backoff, last agent state | pull, key material, rotation, tasks, reset | a session forgets everything; each phase can fail by itself |
| Command handling (`agent_run.rs:450-844`, `client.rs:301-337`) | the task in hand | verify, allow, run, submit once | lost results, redelivery, exit after an update, death during a command |
| Duplicate filter (`pull.rs:28-56`) | a queue and a set of at most 512 ids | `insert_if_new` | two containers kept in step by hand |
| Shared session state and heartbeat thread (`pull.rs:118-397`) | atomics and small mutexes: stop flag, busy flag, command id, tags, last pull, failure count | snapshot, send, take and queue tags, reset, stop and join | no lock over the whole; two threads reset and count one counter |
| Session repair (`session_repair.rs`) | last seen key and config file | credential check, `should_reset_pull_session`, key reload | thresholds, stale checks |
| Identity key and its rotation (`signing.rs`, `key_material.rs:180-214`) | `key`, `key.next`, `key.previous`, the key pair in memory, the server's key | generate, request, two renames | a crash between any two steps, replies lost after the server acted |
| Server key material (`key_material.rs:18-157`, `task_verify.rs`) | trusted signing keys in the config | apply, promote a successor, walk a continuity chain | memory changed before the save |
| Configuration (`config.rs`, `agent_state_sync.rs`, `status.rs`) | `config.toml`, written whole | load, save, change the agent state | two processes read, change and save it |
| Enrollment and forgetting (`enroll.rs`, `forget.rs`) | a backup of the key while enrolling | prepare, submit, restore, forget | runs beside the service on the same files |
| Self-update (`self_update.rs`, `updater.rs`, `service_restart.rs`) | binary, backup and temporary files | download, verify, swap, restart | death between renames, restart of its own process |
| Package update (`package_update.rs`, `agent_update.rs`, `desktop_update.rs`, `proxmox_update.rs`) | downloaded packages, an installer running | plan, verify, install, watch | the installer stops the process that started it |
| Command handlers (`commands/*`) | children, temporary files | shell, files, downloads, reboot | timeouts, pipes, partial writes |
| Policy and registry (`policy.rs`, `commands/mod.rs`) | allow-lists | allow or reject | pure |
| Desktop and Proxmox helpers (`desktop_ipc`, `proxmox_ipc`) | none | one question, one answer over a local socket | absent or slow helper |
| Host facts, tags, paths, privileges (`host.rs`, `tags.rs`, `paths.rs`, `elevation`) | none | collect | pure input and output |
| Release tool and packaging (`bin/sign-release.rs`, `src/packaging`, `src/ci`) | none | build time | outside the agent |

How they interact. The service loop calls the pull loop; the pull loop owns the
session state and shares it with the heartbeat thread through an `Arc`. Every
exchange with the server (pull, heartbeat, result, rotation, state sync) is one
HTTP request with a timeout of 15 s (`client.rs:96`) and none is retried by the
client. The pull loop calls the handlers one after the other, and between pulls
looks at the key and config files, which the command line (enroll, forget,
status) may change at any time from another process. Helpers answer questions
over a local socket; their tags reach the server with the next heartbeat.

What makes each part correct:

- command delivery: a begun command is answered once and in order; the server
  never has more results than there were executions; a batch always drains;
- duplicate filter: queue and set agree, and one id is never accepted twice
  within the capacity;
- session threads: a stop is justified and ends the session, heartbeats do not
  wait for commands, a heartbeat never names a command that is over, tags are
  lost only with a failed heartbeat and set back only by one that arrives late;
- key rotation: the key the server knows is always on the host, whatever died;
  the key file changes only to a registered key; a rotation asked for completes;
- service and command line on one `config.toml` and one key file: a session
  stays with one agent; an enrollment that was saved keeps the key the server
  has for it, whatever later attempts are rejected; no change of the files is
  lost on a running session; attested key material comes into use, and to disk
  unless its save fails, and a revocation comes to be on disk;
- chain of key material: every current key was reached by signatures from one
  that was taken as the first, and an agent that was away follows exactly as far
  as the chain it is sent reaches; the previous key, which tasks are verified
  against as well, is taken over unchecked, and is one a server named or one
  that was current before;
- updates: the service is never down without somebody to start it again or an
  install to blame, whatever updates cross each other; by binary, the program
  goes from one complete version to a verified one in one step and is never lost,
  and nothing that was not verified is ever put in its place;
- handlers: output is read whole or marked as cut, a result says what happened to
  what its paths lead to, a write leaves a whole and verified file or none
  wherever the process dies, a call comes back.

The hazards behind these properties, each at its source line, are in
`PROJECT.json`.

## 2. Modules

| Module | Models | Checked by | Proved in |
|---|---|---|---|
| `RecentCommandIds` | `RecentCommandIds` of `pull.rs` as operators on a window | through `CommandDelivery` | `RecentCommandIds_proofs` |
| `BoundedDedup` | the promise of the duplicate filter (abstract specification) | through `CommandDelivery` | `CommandDelivery_proofs` |
| `CommandDelivery` | server, network, pull loop, command handling, exit and death | `delivery` | `CommandDelivery_proofs` |
| `HeartbeatSession` | one session as two threads over `AgentSessionState` | `session`, `queued_tags` | `HeartbeatSession_proofs` |
| `CredentialRotation` | key files, session memory and server during rotation | `session_keys`, `rotation_completes` | `CredentialRotation_proofs` |
| `KeyMaterial` | the server's keys as the agent follows them, in memory and on disk | `session_keys` | `SessionKeys_proofs` |
| `SessionKeys` | one session with both: extends `CredentialRotation` and `KeyMaterial` | `session_keys` | `SessionKeys_proofs` |
| `AgentService` | the service between and in its sessions beside enroll, forget and status, on `config.toml` and the key file | `service_safety`, `service_liveness`, `forgotten`, `approval_reported` | `AgentService_proofs` |
| `PackageUpdate` | updates by installer package on Linux and macOS | `updates`, `failsafe_restores` | `SelfUpdate_proofs` |
| `AtomicReplace` | the promise of an update by binary (abstract specification) | through `SelfUpdate` | `SelfUpdate_proofs` |
| `BinaryUpdater` | updates by replacing the program | `updates` | `SelfUpdate_proofs` |
| `SelfUpdate` | the choice between the two: extends `PackageUpdate` and `BinaryUpdater` | `updates`, `failsafe_restores` | `SelfUpdate_proofs` |
| `ShellRun` | `shell.run`: a program, its pipes, the deadline | `handlers` | `CommandHandlers_proofs` |
| `FileCommands` | file and folder commands, push, pull, download | `handlers` | `CommandHandlers_proofs` |
| `CommandHandlers` | `handle_task` and all its handlers: extends `ShellRun` and `FileCommands` | `handlers` | `CommandHandlers_proofs` |

`CommandDelivery` extends `RecentCommandIds` and implements `BoundedDedup`;
`BinaryUpdater` implements `AtomicReplace` by a refinement mapping (`Available`
for the program, `~Calm` for trouble); `SessionKeys` implements
`CredentialRotation`. An `MC*` module adds the model values its `.cfg` files use.
The definitions marked "Mutant" are not part of any specification: each is a
plausible mistake in the definition that follows it, and shows that a property
can fail.

### CommandDelivery

One session is one call of `run_pull_session`. Its local state (`batch`,
`current`, `recent`, `failures`) is volatile and `Down` drops all of it: a
`return`, `process::exit` and the death of the process differ only in what they
leave unsent. The variables `outstanding` and `received` are the server's,
`late` holds results whose submission the agent gave up on.

| Code | Action |
|---|---|
| top of the loop: `should_stop`, credential check, startup grace, revoked | `StopSession` |
| `should_reset_pull_session` on failures | `ResetSession` |
| `client.pull` | `PullOk`, `PullError` |
| `remember_command_id` false; `NoOp` | `SkipDuplicate`, `SkipNoOp` |
| `remember_command_id` true, `begin_command` | `BeginCommand` |
| signature, key and policy checks of `handle_task` | `RejectCommand` |
| the handler | `RunCommand` |
| `submit_result`, failure only logged | `SubmitResult`, `SubmitResultAndExit` |
| self-update | `BeginSelfUpdate`, `SelfUpdateReturns`, `SelfUpdateExits` |
| after the last task | `EndBatch` |
| death of the process | `Crash` |

`accepted`, `answered` and `handled` are histories. What a handler does is in
`CommandHandlers`; here it returns or the process dies. The server is external
and as liberal as the agent must tolerate: it hands out any command it still
waits for, any number of times and in any order, and stops waiting only for a
command that was begun.

### HeartbeatSession

`AgentSessionState` has no lock over the whole, so every load, store and locked
access is a step: `BeginBusy` raises the flag and `SetId` names the command,
`EndBusy` lowers it and `ClearId` forgets the name, while the heartbeat thread
takes tags, reads busy, reads the id if busy, reads the last pull and sends.
Steps of one thread on state the other does not write are merged. Pull failures
are counted by the loop (`failures`); heartbeat failures by the thread, in a
counter (`hbFailures`) that `EndBatch` zeroes: `reset_transport_failures`.

Time is abstract. `age` counts stale windows (`pull_stale_after`) since the
session started, up to the 2 that `should_reset_pull_session` compares with;
`lastPull` goes from recent to stale on its own. Backoff and interval are
idling, so they are the absence of a step. Tag sets are numbered by when they
were computed: 0 is the startup set and each `queue_tag_refresh` takes the next
number. The heartbeat thread may fail to get a runtime and end at once.

A heartbeat that fails (`SendError`) was recorded before it failed, or is lost,
or is still under way when the client gives up on it after 15 s
(`client.rs:96`). Its tag set is then in `late`, and `LateHeartbeat` delivers it
at any later time, behind newer ones too: the server is set back to an older
set, which nothing in the agent can prevent, for a heartbeat carries no number.
`TagsMoveForward` names this as the only way, `TagsAccounted` a failed heartbeat
as the only loss; `reached` holds the sets the server had at some time.

Because every successful pull zeroes the thread's counter (`agent_run.rs:428`),
heartbeats may fail for ever without a stop while pulls succeed; `StopJustified`
is therefore stated of failures in a row and says nothing of the converse.

### CredentialRotation

Each file operation is a step: create `key.next`, write it, rename `key` to
`key.previous`, rename `key.next` to `key`. A created file is `Torn` until it
is written. `EndSession` is a return or the death of the process at any point.
A request that fails on the agent's side may not have reached the server, may
have been registered, or may arrive later (`late`). The server keeps the key it
had before for a while (`overlap`): the answer carries `previous_expires_at`
(`key_material.rs:210`). The key path of the service and of the configuration
are taken to be the same file.

### AgentService

Two processes share two files without a lock: the service, and one command of
the command line at a time. The place of each is a variable (`pc`, `cliPc`), and
each load, save, removal and request is a step. A save is one step, for
`config.rs` writes a file beside and renames it; replacing the key file on
re-enrollment is two, truncate and write, because `signing.rs` writes in place.

| Code | Action |
|---|---|
| `assess_readiness`, and its 30 s wait | `LoadConfig`, `LoadKey`, `Wait` |
| `CredentialWatch::new` | `StartWatch` |
| `CredentialWatch::check`, `reload_keypair`, the mode | `CheckFiles`, then `ReloadOther` or `ReloadSame` |
| `refresh_local_agent_state`, at the start and while pending | `FetchOk`, `FetchFails` |
| `persist_agent_state` | `StateKnown`, `PersistState`, `PersistFails` |
| the pull | `PullOk`, `PullFails`, `PullRevoked`; refused until `should_reset_pull_session`: `PullRefused` |
| `apply_key_material` | `ApplyMaterial`, `ApplyFails` |
| a restart, or any other end of a session | `Reset` |
| `collect_status` | `StatusInspect`, `StatusFetch`, `StatusLoad`, `StatusSave` |
| `forget_agent_enrollment` | `ForgetConfig`, `ForgetKey` |
| `prepare_agent_enrollment`, `KeyBackup` | `PrepareAgain`, `TruncateKey`, `WriteKey`, `PrepareFirst` |
| `submit_enrollment` | `RequestOk`, `RequestForeign`, `RequestRejected`, `ReplyLost`, `SaveEnrollment` |
| `restore_agent_key` | `RestoreKey` |
| a command killed, or returning early | `CliStops` |
| the server | `Approve`, `Revoke`, `RenewMaterial` |

`dirty` stands for the generations `CredentialWatch` compares: a write during a
session marks the file, `CheckFiles` takes the marks, and the content is read in
a step of its own, as in the code, where a write may fall between the two. The
history `enrolled` is the agent of the last enrollment saved; `cutShort` is set
when an enrollment was killed or its answer lost, which is the exception the
code cannot avoid without asking the server.

An answer for another agent id is no such exception. `submit_enrollment` restores
the key when the request fails (`enroll.rs:144-151`), but bails out of such an
answer without restoring it (`enroll.rs:155-164`), although `enroll.rs:18` says
of the backup "restored if enrollment fails". `RequestForeign` does what the code
does, `foreign` remembers for whom the answer was, and `EnrolledKeyRegistered`
says which key is on disk from then on: the one registered for that other agent.
The service is then refused for the agent `config.toml` still names, and a later
attempt that is rejected restores the wrong key. Asking instead for the key of
`enrolled` in every case is violated by `PrepareAgain`, `TruncateKey`,
`WriteKey`, `RequestForeign`.

Key material is a version with the version whose key it names as the previous
one. `RenewMaterial` may leave the new version without an attestation
(`unvouched`); `Accepts` is `accept_successor_key` with chains as long as needed,
and a version that is rejected still changes the previous key (`Take`). How far
chains reach is `KeyMaterial`'s. `ApplyFails` is the failed save after which
memory and file differ and nothing tries again: `NoChangeMissed` names it as the
only step that leaves a difference no check will notice.

A watch that is made after the files were loaded (`session_repair.rs:70`) misses
an enrollment saved in between. For a re-enrollment under the same id the server
then refuses the old key and `PullRefused` ends the session, which
`ReenrollmentPickedUp` depends on and its mutant shows.

### KeyMaterial and SessionKeys

The server numbers its signing keys and advertises the current one, sometimes
the previous one with a direct signature, and a chain of attestations
(`Material`). A chain is a function from the numbers of the attested keys, which
is their order in it. `Promotes` is `accept_successor_key`; `Cursor` is the loop
of `walk_continuity_chain`, once and in order (`Follow` is one turn of it),
`Walk` asks whether it ended at its target, and `Applied` is what
`apply_key_material` makes of a configuration, with its quirk that an
advertised previous key is taken over without a check, even when the candidate
is rejected (`key_material.rs:44-52`). Tasks are verified against the previous
key too (`agent_run.rs:468-480`), so `KeyLineage` speaks of both: a current key
is vouched for, a previous key is vouched for or in `named`, the keys a server
named as previous. The configuration is in memory (`taskKey`) and on
disk (`savedKey`); a pull changes memory and tries to save, an update offer
works on a copy of either and saves it (`OfferBringsMaterial`,
`agent_update.rs:136`), a save in between is noticed at the next check
(`ReloadConfig`). The release key is followed by the same code with an empty
chain: `ChainLimit` 0.

`SessionKeys` puts this beside `CredentialRotation` in one session: a response
brings both (`PullAnswered`), the check before a pull reloads both
(`CheckFiles`), a new session loads both.

Seen while modelling, with no property: `overlap_until` is never looked at and
the previous key never cleared, so it stays accepted after the overlap, though
`config.rs:31,39` speak of a dual-key overlap; an agent that was away for longer
than the chain reaches rejects every task until it is enrolled again
(`ChainWalkCovers` says exactly when), and with the release key, which comes
without a chain, that is one key, within the overlap (`NoChainNeedsOverlap`); a
session that saves its own, older configuration can undo what an offer saved.

### PackageUpdate

One update is one call of `apply_offer` or `apply_self_update_task`, by the
service or by `hecate-lampad update`; its number names its staged packages, its
detached script and its delayed start. Two updaters, any number of scripts, one
package manager and the service they all stop and start are interleaved freely.

| Code | Action |
|---|---|
| `agent.update`, `helper.install`, `update`, a SelfUpdate task | `BeginOffer`, `BeginTask` |
| download, verification, staging; cleanup when it fails | `Stage`, `StageFails` |
| launching the detached script, `launchctl bootout` of the old job | `Spawn`, `SpawnFails`, `BootOut` |
| `schedule_failsafe_restart` and the answer | `ArmFailsafe`, `FailsafeFires` |
| one helper installed while the updater waits | `StartInstall`, `InstallRefused`, `InstallEnds` |
| the script: its sleep, each package, its end | `Awake`, `InstallNext`, `PackageRefused`, `PackageFails`, `PackageDone`, `StartAfter` |
| the supervisor | `ServiceCrashes` |

Assumed of the outside: a detached script survives the stop of the service
(`nohup` and, on macOS, a job of its own; the unit's `KillMode` is not in the
repository); the command line's `update` runs as root; maintainer scripts may or
may not start the service; `dpkg` refuses to run twice while `installer` of
macOS queues. The versions of helpers are cached for a minute, so an offer may
name one just installed (`Offers`).

Scheduling the delayed start may fail; the failure is only logged and the update
still reported as applied (`service_restart.rs:59-63`), so `ArmFailsafe` may leave
no delayed start: a failed install is then all `DownJustified` has to name
(`LeftDown`).

What TLC showed on the way, and the properties allow for: the script of an
update of helpers alone starts the old agent in the middle of another update's
install (`OldVersionExplained`); the delayed start may fire before the package
stops the service (finding 5); a service that does not run as root asks
`systemctl` in vain, for neither `package_update.rs:524` nor
`service_restart.rs:42` goes through sudo (`MayStart`).

Read in the code, with no property: the thread that waits for an installer does
not hold the pull loop back although it logs "deferring pull loop in background"
(`agent_run.rs:550-552`), so a second update may begin, and on macOS its script
boots out the first. On macOS a blocking install of a helper by root restarts
the agent itself, although `agent_run.rs:539` says "Helper-only installs never
replace the agent; skip restart", and the delayed start restarts a healthy agent
in the middle of a command (`service_restart.rs:72-75`). A result lost after an
update that succeeded is followed, on redelivery, by "no update available".

### BinaryUpdater and AtomicReplace

Any number of processes go through `Updater::apply`: stage, verify, drop the old
backup, move the program aside, put the verified copy in place, put the backup
back if that fails. A move is a rename in one step, or a copy in two with the
destination torn in between (across file systems, or `sudo install`). A process
may die at any step (`Dies`), and a failed put-back is noticed by nobody
(`Restore`). `causes` records what has gone wrong: a death inside the window, a
put-back that failed, two updates at the same time. `AtomicReplace` promises a
single step from one complete version to the next as long as nothing of that
kind has happened (`Calm`), and the refinement shows that renames, copies,
backups and deaths outside the window keep the promise. Outside it the code
promises nothing, and neither does the model: "atomically replace"
(`updater.rs:701`) leaves a window between the renames, two updaters share one
`.prev`, and the attempt after a failed put-back drops the only good copy.

The staging file (`staged`) may be written or swapped by somebody else at any
time after its download (`StagingChanges`). `Verify` reads it once, checks the
bytes read and writes these again under a new name, as `updater.rs:116` says it
must; `OnlyVerified` says that nothing else ever gets to the install path or the
backup, in weather of any kind, and its mutant installs the staging file itself.
That the verified copy is not swapped as well is assumed: its name is drawn at
random and known to nobody else. What stays behind under such names when a
removal fails or a process dies is not modelled, for no update opens it again.

`plain` is the new version without its executable bit: a verified copy is
written with mode 0600 (`write_staging_exclusive`) and a rename keeps it; only
`install -m 755` sets the bit. `Starts` needs a file that can be run, so such an
update leaves a program nobody starts again; the properties speak of the file.
Read in the code, with no property: an error between verification and the
renames (`updater.rs:127-139`) leaves the verified copy behind, and failures to
remove it or the staging file are ignored (`updater.rs:144, 727, 744, 748`); with
the agent replaced and the desktop helper failing, an error is reported and no
restart follows; a missing desktop helper has no install path, and the updater
falls back to `current_exe`.

### ShellRun

`run_execve` as the program, the deadline and the reader see it. The program
writes to two pipes that hold `PipeSize`, may leave a process behind that keeps
them open (`heir`), and may be one the agent must not signal (`mayKill`: an
elevated child of an agent that is not root). The agent polls, kills when the
deadline has passed, waits, and only then reads the pipes, one after the other
and up to `MaxOutput`. A full pipe therefore blocks the child until its
deadline; `ShellReturns` says that this ends and names the two cases that do
not: a process left behind that keeps a pipe open, and a program the agent
cannot kill (`shell_run.rs:136-139`: the kill's failure is ignored, the wait
blocks).

What was read is returned through `String::from_utf8_lossy` (`shell_run.rs:217`).
The model tells apart whether something else than UTF-8 was written (`odd`) and
whether the text returned differs from the bytes read (`altered`, `Convert`).
`OutputComplete` therefore says two things: unmarked output was read whole, and
its text is the bytes read exactly if they were UTF-8. If they were not, the text
is altered and up to three times as long, and nothing marks it. `HandlersTypeOK`
bounds the bytes read by the limit, not that text, nor the line about the timeout
that is appended to stderr with exit code 124.

### FileCommands

Every file and folder command as steps on a source, a destination and a
temporary file, with other processes free to meddle between any two
(`Meddle`). What is at a path is told apart only as far as a result can be
wrong about it: what the command brings, a part of it, something else, another's
thing, a link to nowhere. Paths are resolved by `canonicalize`
(`file_ops.rs:32, 49, 253`), so `src` and `dst` are what the paths lead to, and
`path` says whether the source's own path is a symbolic link to it. A command
given such a link copies, moves or deletes what it leads to; the link itself
stays, after a move or a delete as one to nowhere, while the answer names its
path. `ResultsTruthful` says so: what was moved or deleted is gone, and so is its
path unless that was a link. `Resolve` stands for the five resolve functions,
`Place`, `WriteTemp`, `Install` for `atomic_write_file`, `Check`, `OpenCopy`,
`CopyEnds`, `CopyFails`, `Undo` for the copies.

Seen while modelling, with no property: `folder.copy` follows a link given as
its source, although its message says it "does not follow or copy symlinks"
(`file_ops.rs:342, 532`), and `atomic_write_file` refuses to overwrite a
symbolic link, but a live one at the destination has been resolved before;
nothing is synced to the disk before the rename of `atomic_write_file`, so what
is said of a death holds for the process, not for a power failure; a temporary
file stays when its write or its mode fails (`file_ops.rs:131-139`); a copy's
clean-up removes a destination that another process created, a move replaces one
that came after the check, and `folder.copy` merges into a folder that came
meanwhile and removes it whole when it fails; a death in the middle of a copy
leaves a part, and the redelivered command answers that the destination exists.

### CommandHandlers

`handle_task` from the task in hand to its one submission. A refused task runs
no handler (`RefuseTask`: signature, key, policy), any other runs one of
`ShellRun`, `FileCommands`, a request to a helper, or a reboot, whose wait of
two minutes is a state of its own (`rebooting`; it blocks the pull loop, for
`system_reboot.rs` sleeps in the loop's thread). `AgentDies`, the death of the
process at any point, forgets the command and leaves the machine as it is.

## 3. Runs

| Run | Question | Result |
|---|---|---|
| `delivery` | is each begun command answered once and in order, are results and handlings in balance, do queue and set of the filter agree through evictions, does the pull loop implement `BoundedDedup`, does a batch drain | pass, 334 000 states |
| `session` | all interleavings of the two threads: stops, snapshots, tags with late heartbeats; does a stop end the session, do heartbeats flow while a command hangs | pass, 351 000 states |
| `queued_tags` | does a queued tag set reach the server | violated (finding 2) |
| `session_keys` | is the server's key for the agent on the host through crashes, disk errors, lost and late requests, was every current key of the server vouched for and every previous one at least named | pass, 1 139 000 states |
| `rotation_completes` | does a rotation the server keeps asking for take place on a good day | violated (finding 1) |
| `service_safety` | does a session stay with one agent, does a saved enrollment keep its key, through all interleavings of service and commands | pass, 2 381 000 states |
| `service_liveness` | do a new key, attested material and a revocation come to be in force while the host is not forgotten, is a change of the files ever lost on a session | pass, 458 000 states |
| `forgotten` | is a forgotten enrollment gone | violated (finding 3) |
| `approval_reported` | does the reported mode follow an approval | violated (finding 4) |
| `updates` | is a service that is down ever left without a cause or a start to come, does a failed update leave packages, does the update by binary implement `AtomicReplace`, is only what was verified installed | pass, 644 000 states |
| `failsafe_restores` | does the delayed start bring the service back | violated (finding 5) |
| `handlers` | is output read whole or marked, do results tell the truth, are writes whole, does a shell command return | pass, 69 000 states |

`PROJECT.json` names the properties of each run and, for every property of a
passing run, a mutant that breaks it.

### Bounds

Limits that the code has and an instance makes smaller:

- `Capacity` 2 for 512: `delivery` has three commands and four acceptances, so
  an id is evicted and accepted again. The proofs hold for every capacity.
- `MaxPullFailures` 2 for 5 and `MaxHeartbeatFailures` 2 for 6: one failure below
  the limit, one that reaches it, and a reset between them. The proofs hold for
  every limit.
- `MaxHops` 5 is the code's. `PipeSize` 2, `MaxOutput` 3 and `MaxWritten` 5
  (`shell_run.rs` has what the policy says): output below, at and above the
  limit, with a pipe smaller than both. The proofs hold for every value.

Bounds that the code does not have:

- `MaxBatch` (tasks in a response) 1 or 2: one task behind another is what order
  and duplicates in a batch need.
- `MaxAccepted` (commands begun, over all sessions) 4: twice what the window
  holds, and one more than there are ids. `MaxSessions` 2: what redelivery across
  a reset needs, and the filter starts afresh in each.
- `MaxRefreshes` 1: the startup set and a later one, so that an old and a newer
  set are apart. `session` has one command, a batch of one and one refresh to
  stay within minutes with liveness; its safety properties are proved for any
  number of commands, tasks, refreshes and failures.
- `MaxIds` 2 in `service_safety`: one agent and another enrolled over it or
  after it; 1 in the liveness runs, which speak of one agent. `MaxKeys` 2: the
  enrolled key and one that replaces it. Used-up keys stop new enrollments only.
- `MaxMaterial` 2 where material is what a property is about or makes a save,
  1 where it only multiplies states. `MaxResets` 1 in the safety runs; 0 in the
  liveness runs, for one more reset than the last one changes nothing there and
  would hide a session that never ends by itself.
- `MaxKeys` 3 in `session_keys`, two rotations, so that a third key meets the
  remains of two; 2 in `rotation_completes`, where one rotation is all that is
  asked for. `MaxServerKeys` 3 and `ChainLimit` 2: an agent two keys behind, with
  a chain that reaches it, is too short, or has a broken or missing link.
- `MaxUpdates` 2: two updates cross each other, with the service and the command
  line in any mixture; 1 in `failsafe_restores`, which one update violates.
  `MaxAttempts` 2 and two processes: two updates by binary at the same time or
  one after the other with what the first left behind; 0 in `failsafe_restores`,
  which is about packages only.
- `age` stops at 2 and `hbRun` at its limit: no guard tells larger values apart.

`CommandDelivery`, `SessionKeys`, `SelfUpdate` and the good days of
`rotation_completes` stop at their bounds (sessions, keys, updates used up), so
their runs do not check deadlock. `session` does: two threads waiting for each
other would be one, and the end of a session is the stuttering `SessionOver`.
The runs of `AgentService` and `handlers` do as well: the service loop never
stops, and there is always another task.

### Fairness

- `CommandDelivery!FairSpec`: the pull loop goes on with the batch and with the
  task in hand. It is one sequential task that nothing parks, requests time out
  (`client.rs:96`), and handlers are taken to return. `ShellReturns` says how far
  that is true of `shell.run`: a process left behind that keeps a pipe open and a
  program the agent may not signal can hold it for ever, and the batch with it.
  The other handlers end with a time limit (`remote_download.rs:71`) or with a
  finite amount of work. Nothing is assumed of the server, the network or crashes.
- `HeartbeatSession!FairSpec`: both threads take their steps, except that a
  running command may run for ever (`loopPc = "run"` is left out). So
  `HeartbeatsFlow` holds even behind a command that never ends, and
  `StopEndsSession` says openly that the session may then not end.
- `HealingSpec` (`queued_tags`) adds that commands return and, strongly fair,
  that a heartbeat which is tried again and again is sometimes delivered.
- `GoodDaySpec` (`rotation_completes`) restricts steps to those of a day without
  crashes, disk errors, expiry or rejection, and is strongly fair for the
  server asking and for a request being accepted. The counterexample therefore
  blames neither the server nor the network.
- `AgentService!EnrolledSpec` (`service_liveness`, `approval_reported`) leaves
  out `forget`, and is weakly fair for the service's own steps, which one
  sequential loop takes with bounded sleeps. It is strongly fair for a request
  that is made again and again (state, pull) and for a save tried again and
  again, and for `PullRefused`: a refused pull is counted and at the limit
  `should_reset_pull_session` ends the session (`session_repair.rs:125`). The
  command line has no fairness: the properties speak of times when no command
  is under way, and a command may stop anywhere. Approval and revocation are
  the server's choice.
- `PackageFairness`: something of what goes on by itself (an updater, a script,
  a delayed start) goes on. Each update is over in finitely many steps
  (`UpdatesTerminate`), so none waits for ever on the others. Nobody has to
  begin an update, the supervisor need not restart anything, and which way a
  step ends is left open.
- `ShellFairness`: the agent's thread runs, and time passes. Nothing makes the
  program, or what it leaves behind, write, read or end.

## 4. Findings

1. *A rotation that failed once blocks all later ones.* When the rotation
   request fails on the agent's side, `rotate_agent_credential` returns with
   `key.next` in place (`key_material.rs:190`), and `generate_at` refuses to
   overwrite it (`signing.rs:98`). Not deleting it is right, for the server may
   have registered that key: the mutant that deletes it breaks
   `ServerKeyOnDisk`. But nothing ever tries the kept key.
2. *A failed heartbeat loses its tags.* `send_heartbeat_once` takes the tags out
   of the session before it sends (`pull.rs:297`) and does not put them back,
   while the pull loop has noted them as sent.
3. *A forgotten enrollment comes back.* The service saves the whole
   configuration it has in memory (`agent_state_sync.rs:45`,
   `key_material.rs:99`) without looking at the file. When `forget` runs while a
   request is in flight, the answer writes `config.toml` again after the command
   has reported the enrollment cleared. The session under way goes on with the
   key in memory; after a restart the service waits, for the key stays removed,
   and a later `enroll` finds an agent id and re-enrolls as the forgotten agent.
   In the same way such a save can replace the configuration of a new enrollment
   by the old one.
4. *An approval that comes with a new key is not reported.* Key and
   configuration changed between two checks are reported as `KeyUpdated`
   (`session_repair.rs:110`), and only `ConfigUpdated` recomputes the runtime
   mode (`agent_run.rs:277`). The next state sync finds nothing new, so the
   session pulls and works, yet reports pending approval for as long as it lasts.
5. *The delayed start is spent before it is needed.* It is scheduled for 90
   seconds after the installer was launched and looks once
   (`service_restart.rs:42`). An installer that is slower than that stops the
   service afterwards, and if it then fails nothing starts the service again,
   although `service_restart.rs:18` says the delayed start brings the previous
   binary back. `DownJustified` and `ServiceReturns` hold with exactly this case
   left out (`LeftDown`).

Not a finding, but worth knowing: the duplicate filter belongs to a session
(`agent_run.rs:223`), so a command whose result was lost runs again in the next
session. `ResultsMatchHandlings` counts each of its runs.

Two places where documentation and code part without a run of their own: an
enrollment answered for another agent does not restore the key (`enroll.rs:18`
against `enroll.rs:155-164`; `EnrolledKeyRegistered` states what is on disk
then), and `folder.copy` follows a link given as its source (`file_ops.rs:342`).

## 5. Proofs

All theorems hold for every value of the constants that satisfies the named
assumptions: capacities, limits and bounds positive, and the "none" values
outside the sets they are added to.

- `RecentCommandIds_proofs`: what one insertion does to a window that is in
  step: below capacity it appends, at capacity it drops exactly the oldest, and
  the window stays in step (`InsertInStep`) and holds exactly the last `Capacity`
  accepted ids (`InsertTracks`).
- `CommandDelivery_proofs`. `FilterInv` joins the types with two facts the
  filter's promise rests on: the window is in step, and it *tracks* the history
  of accepted ids. Without tracking neither `RedeliveryGap` nor the refinement
  is inductive: the guard of `BeginCommand` speaks of the window, the promise of
  the history. From it follow `TypeCorrect`, `WindowCorrect` and, step by step
  under the identity mapping of `accepted`, `DedupRefinement`; `GapCorrect` adds
  one induction step over the accepted sequence (`RedeliveryGap`, a consequence of
  the promise, is proved and not run). `OrderInv` and `ResultsInv` add
  `AnsweredInOrder` and `ResultsMatchHandlings` to the same invariant: the id in
  hand is the one begun last, and it is the one handling whose result is neither
  with the server nor on the wire.
- `HeartbeatSession_proofs`. `StopInv` says that the thread stops counting at
  the limit, that the shared counter is never above the true run of failures
  (the loop only lowers it), and that `stop` is seen by the loop only once the
  thread is done: this is why the concurrent reset can delay a stop but not
  cause one. `GhostInv` ties flag and id to the place of the pull loop: an id is
  set only between `SetId` and `ClearId`, so a snapshot that saw the flag and
  then reads an id reads one that was in flight after its first read. `TagsInv`
  orders the sets by age: what the server or a failed heartbeat has is older than
  what the message carries, and that is older than what is queued, so only a late
  heartbeat can bring the server a set older than its own. From them follow
  `TypeCorrect`, `StopCorrect`, `NoGhostCorrect`, `TagsCorrect` and the action
  property `TagsForwardCorrect`.
- `CredentialRotation_proofs`. `RotationInv` says what each place in the
  rotation knows (while a request is out, the session's key, the key file and
  the server's key are the same), and `FilesInv` how files, memory, server and
  network stand to each other: the key of a late request is still in
  `key.next`, which is why a late registration cannot strand the host.
  `ServerKeyCorrect`, `OneBehindCorrect`, `SwapCorrect`, `KeyFileCorrect` and
  `TypeCorrect` follow.
- `SessionKeys_proofs`. Every step of the composed session is a step of the
  rotation or none (`SessionStepRotates`), so `SessionSpec` implements `Spec`
  and inherits its properties; `SessionTypeCorrect` adds the types of the
  server's keys from what `apply_key_material` returns (`AppliedTypes`). The
  walk along a chain is a recursive function: that its equation holds
  (`CursorDefined`), and then where it leads, are both shown by the least key
  number for which it would be otherwise (`LeastNumber`, `UpTo`), for an
  induction theorem that takes an operator cannot be used. `ChainWalkCorrect`
  follows for chains of every length. `LineageCorrect` needs one fact more than
  `KeyLineage` says, `NoneAhead`: nobody has a key that the server has yet to
  take into use, for how that one will be attested is open, and a lineage could
  break behind the agent. A previous key was a current one before, and vouched
  for as that, or it is in `named`.
- `AgentService_proofs`. `SessionIdentity` is inductive once it also covers the
  moment before the watch is made. `EnrolledKeyRegistered` is not: the command
  line may hold the key as a backup while the file is torn, new or rejected.
  `KeyInv` says where the server's key is meanwhile (in the file, or in the
  backup while the file is being replaced) and for whom (`Holder`: the enrolled
  agent, or the other one an answer was for), and `AwayInv` why that is enough:
  once `config.toml` is no longer of the enrolled agent, no one has a
  configuration of that agent in memory to put back. `HandInv` adds what each
  process has in hand at each place. `ServiceFrame` states once what the service
  can write, so the command line's steps are the only ones split further.
  `TypeCorrect`, `SessionCorrect` and `EnrolledKeyCorrect` follow.
  `NoChangeMissedCorrect` rests on what the commands mark (`CommandTouches`) and
  on what the service notices (`ServiceNotices`), with `ChangedInv`: outside its
  check of the files a session has nothing it found changed and not yet read.
  `WorksWithFilesCorrect` draws the conclusion: a session with no change before it
  signs with the key on disk and works with the configuration on disk. It has two
  conditions (`Undisturbed`), and for neither can the watch do anything: nothing
  is written between the reading of the files and the first look at them
  (`agent_run.rs`, `CredentialWatch::new`), and no save of key material fails.
  Without either one TLC finds a state that contradicts it.
- `CommandHandlers_proofs`. For a shell command, `AccountInv` balances each pipe
  (what was read and what is in it is what was written, as long as nothing was
  dropped), `ReapedInv` says that reading begins after the child was waited for,
  `EndInv` that a pipe that was read to its end is empty with no writer left, and
  `TextInv` that text is altered only as the reading of a pipe ends and, unless the
  limit cut it, exactly where something else than UTF-8 was written; together they are
  `OutputComplete`. For a file command, `OpInv` ties each step
  to the commands that have it, `DataInv` says that what is written is what was
  verified, and `ProgressInv` and `OutcomeInv` what has been changed so far, of
  which `ResultsTruthful` is what remains at the end. `EachMoves` shows once that
  a step of the whole is one of either part or none.
- `SelfUpdate_proofs`. By binary, `PlaceInv` says that in calm weather the
  program is in its place outside the window and can be put back inside,
  `CopyInv` that a copy under way has the source it began with, and `AloneInv`
  that only one process updates; `GenuineInv` adds to `OnlyVerified` that nothing
  else is under way in a copy either; `PromiseStep` then maps each step to a step of
  `AtomicReplace` or none (`ReplaceRefinement`). By package, none of the
  properties is inductive. `DownInv` blames one install of the agent for a
  service that is down, from the stop on: its script lives, ended badly or may
  not start the service. `ExplainedInv` follows an old version through the
  middle of an install, where it is not yet a fault. Both need `NumberInv` and
  `FreshInv` (no two updates share a number, an update at work has neither an
  outcome nor a script of before), `TodoInv` (a script installs packages of its
  own update), `ManagerInv` (at most one installer at work) and `ArmedInv`. What
  a step does is stated once for each part of the state (`UpdatersGoOn`,
  `ScriptsGoOn`, `BusyGoesOn`, ...), and the invariants are proved from that.

What liveness rests on is proved as far as safety goes. Four theorems give a
measure of the steps something has left, a bound on it, and that every step of
its own lowers it while no step of another raises it:

| Theorem | Of what | Measure and bound | Towards |
|---|---|---|---|
| `BatchTerminates` | a response the pull loop deals with | three steps a task and one: `3 * MaxBatch + 1` | `BatchDrains` |
| `StopTerminates` | a session whose stop flag is set; either thread | `4 * MaxBatch + 7` for the loop, 8 for the heartbeat thread | `StopEndsSession` |
| `CallsTerminate` | a shell, file or download call | one step to a byte under the limit, one to a redirect: `2 * MaxOutput + 4` and `MaxHops + 7` | `ShellReturns` |
| `UpdatesTerminate` | an update by package: updater, script and delayed start | 14, for any number of updates at once | `ServiceReturns` |

What they leave to TLC is that such a step is possible, and is then taken:
`ENABLED` and fairness. The measures are where the interesting part of each
argument is. A command that is under way when a stop comes is not given up, so
the batch counts into the session's end. A program that writes for ever keeps no
reader, which stops at the limit. An update that another one boots out, stops or
starts again in the middle has less left afterwards, never more: the eight steps
of a script are counted with its updater until it is spawned, and its delayed
start with the updater that schedules it, which is why `UpdatesTerminate` needs
`FreshInv` and `NumberInv`.

Every invariant and every action property of the passing runs is proved. Only
model-checked are liveness (`BatchDrains`, `StopEndsSession`,
`SilenceEndsSession`, `HeartbeatsFlow`, `ServerStateTakesEffect`,
`ReenrollmentPickedUp`, `ServiceReturns`, `ShellReturns`), whose fairness and
`ENABLED` are beyond the prover, and the five violations.

## 6. What is not modelled

- The wording of output and the content of requests; only outcomes are told
  apart. A command that `CommandDelivery` runs has no effect there, and
  `CommandHandlers` has neither redelivery nor sessions.
- Signatures: a task is rejected or run, a request is authenticated by which key
  signed it, an attestation verifies or does not.
- Clocks: deadlines appear as the step that passes them; backoff and sleep have
  no length. That a revoked agent starts sessions without a pause is therefore
  invisible here.
- `PullLoop::run_iteration` and `PullLoop::run` (`pull.rs:473-521`), a second pull
  loop that the service does not use; it uses the accessors and `pull_once` only.
- Of the service: the runtime status file, which nothing reads back into a
  decision; a change of the server's URL; two file generations that collide
  (same time, length and content tag, which is 0 above 4096 bytes).
- Re-enrollment while a rotation is between its request and its renames:
  `AgentService` has no rotation and `SessionKeys` no enrollment. The two write
  the same key file, and what is proved of a rotation does not hold across it.
- A key path of the service that differs from the one in `config.toml`
  (`agent_run.rs:99` against `agent_run.rs:379`).
- Two commands of the command line at once, but for updates.
- Windows: its task scheduler replaces a task whose batch file is running and is
  rewritten, and what happens then is not defined by the code. Its installer
  follows the same plan of staging, script and delayed start.
- In handlers: the race of `read_file_limited` between looking at a size and
  reading, created parent folders, the interrupted reads of a pipe.
- The helpers themselves (`desktop_ipc`, `proxmox_ipc`): other processes behind
  one question and one answer.
- Pure input and output: host facts, tags, paths, privilege helpers, release
  tool, packaging.

## 7. Reading the modules

Variables keep the names of the source where they have one
(`recent_command_ids` is `recent`, `current_command_id` is `commandId`). Each
action is one handler or one atomic access and states what it leaves unchanged.
"external" in the map of `PROJECT.json` marks the definitions that stand for the
server and the network, which are modelled from how the agent uses them.

## 8. Running

    tlc -config delivery.cfg MCCommandDelivery
    tlapm CommandDelivery_proofs.tla

and likewise for the other runs and proofs. Each run takes at most about
two minutes, each proof less than a minute but for `SelfUpdate_proofs`,
which takes a few.

## 9. Plan

1. Re-enrollment as a second actor on the key files of `CredentialRotation`
   (`KeyBackup`, `prepare_agent_enrollment`, `submit_enrollment`), with the
   states in which the two files cross named, and the promise for all others.
2. `CommandDelivery` and `HeartbeatSession` over one session state, with
   one-thread specifications that both implement.
3. For `AgentService`, an abstract specification of `config.toml` as one register
   with atomic updates, and the part of the actions that implements it.
4. Proofs: the frame lemmas of `SelfUpdate_proofs` in one list per action instead
   of one per part of the state, if the two can be kept as readable; an
   abstract specification of the package manager and what its users may assume.
