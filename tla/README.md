# TLA+ models of nexus-link

Specifications of nexus-link, the node agent of Nexus: what it does with the
compose file, the command queue, the containers, the tokens, the signed requests,
its own daemons and binaries, and the telemetry, checked with TLC on small instances and proved with TLAPS for every value of the
constants. Paths below are in the repository; `service/`, `cli/`, `core/` and
`agent/` stand for `crates/nexus-link-{service,cli,core,agent}/src/`.

## 1. The system

nexus-link is one CLI, two daemons and a library.

| Part | State it keeps | Operations | Interacts with |
|---|---|---|---|
| HTTP service (`service/main.rs`, `handlers/`) | `docker-compose.yaml`, its temporary file, the git repository around it | GET and PUT of the compose file, activation, log stream | dashboard; poll loop, through the directory |
| Authentication (`service/middleware/`) | the nonce cache, in memory | bearer token, then for writes timestamp, nonce and signature | every HTTP request |
| Poll loop (`service/main.rs:90-123`, `service/poller.rs`) | its interval; the commands of the last response | fetch, execute one by one, report each | backend over HTTP; the compose directory; docker |
| Listener (`service/pg_listener.rs`) | its connection and backoff | connect, LISTEN, wake the poll loop, reconnect | PostgreSQL; the poll loop, through a `tokio::sync::Notify` |
| Configuration (`core/config.rs`) | `config.toml`, where each token is kept in two fields | load with migration, save | every part |
| CLI (`cli/commands/`) | none of its own | register, refresh, refresh-cmd, config, unregister, reset, upgrade, preflight | configuration, systemd, backend |
| Telemetry agent (`agent/`) | the token it read at its start; its interval | collect, push | backend, Docker, nvidia-smi |
| Containers (`service/poller.rs:253`, `service/handlers/compose.rs:385`) | what docker compose runs | activate, over the queue and over HTTP | the compose file |
| Provisioning (`core/setup.rs`, `core/preflight.rs`) | users, directories, units, binaries | the steps of `preflight --setup` | the host |

What is hard here:

* **Shared files without locks.** The PUT handler runs on the threads of tokio
  and writes the same temporary file as the poll loop; two runs of the CLI load
  and save the same configuration; `save` truncates before it writes.
* **Long sequences of commands on one host.** Provisioning is some twenty `sudo`
  commands, any of which may fail, and is meant to be run again over what an
  earlier run, a registration or a reset left.
* **Processes that outlive their caller.** The timeout of an activation drops the
  future and leaves `docker compose up` running; daemons run on with binaries that
  an upgrade has replaced.
* **At-least-once work.** A command is executed before its result is reported,
  the report is sent once, and the backend decides what is listed again.
* **Wake-ups.** A NOTIFY may come while nobody waits for it, and the listener
  has to be subscribed to get it at all.
* **Copies.** A signed request may arrive several times, at once or later.
* **Values read once.** Daemons keep the tokens they started with.
* **Crashes** between any two of these steps; systemd starts the daemons again.

For each part, what makes it correct: the compose file is at every moment one
whole accepted content, and so is what is committed; every execution of a
command is accounted for by a result, commands run in order, and each queued
command is reported in the end, unless a panic ends the loop; no wake-up is lost; the token set last is the
one in use, in both directions; a signed request is executed at most once while
the two clocks agree well enough; a
setup that reports success has provisioned the host, whatever was there before,
and never brings an old configuration back; a reset leaves nothing; a completed
Activate has deployed the newest completed PutFile; an interrupted upgrade can be
recovered from, and a start, a stop and a restart that ended well hold; the
backend's telemetry is fresh once all is well.
`PROJECT.json` lists the hazards line by line.

## 2. Modules

| Module | Models | Remarks |
|---|---|---|
| `AtomicFile` | what "atomic write" promises (`README.md:124`) | abstract specification |
| `ComposeFile` | `put_compose_file`, `get_compose_file`, `git_commit` (`service/handlers/compose.rs`), `execute_put_file`, `execute_get_file` (`service/poller.rs`) | one action per system call; implements `AtomicFile` for one write at a time |
| `CommandLog` | what the queue promises: runs one at a time, in order or once each, none after its result is there | abstract specification |
| `PgListener` | `run` and `connect_and_listen` (`service/pg_listener.rs`) | instantiated by `CommandQueue` |
| `CommandQueue` | the poll loop (`service/main.rs:60-123`), `poll_and_execute`, the backend's queue | composed with `PgListener` through the permit of the `Notify` |
| `Deploy` | `execute_put_file`, `execute_activate`, `activate_compose`, the processes of docker compose | extends `CommandQueue`, each of whose actions is a conjunct here; implements its specification |
| `TokenConfig` | `core/config.rs`, `register`, `refresh`, `refresh-cmd`, `config set`, `AppState::new`, the start of the agent | the CLI and the daemons composed through the file |
| `CmdAuth` | `require_cmd_auth` (`service/middleware/cmd_auth.rs`) for signed writes | two readings of the clock and one critical section |
| `Provision` | `run_setup` (`core/setup.rs`), `reset`, `unregister`, and what `register` and `config set` do to the host | the daemons under systemd beside one command at a time |
| `Upgrade` | `nexus-link upgrade` (`cli/commands/upgrade.rs`) | instantiated by `Daemons` |
| `Daemons` | `nexus-link agent start`, `restart`, `stop` (`cli/commands/agent.rs`) beside systemd | composed with `Upgrade` through the binaries |
| `Telemetry` | the loop of the agent (`agent/main.rs`, `collector.rs`, `pusher.rs`) | in discrete time |
| `Settling` | `Settles(f)`: a natural number that is never raised from some moment on is constant in the end | hypotheses of the theorems about liveness (section 4) |
| `*_proofs` | the theorems about each | TLAPS |
| `MC*` | the instances TLC checks | |

Operators that a mutation of the code would produce are defined next to the
action they change and are called a mutant there; no specification uses them.

### ComposeFile

A directory entry (`composePath`, `tmpPath`) names an inode or none; `data`
gives each inode its blocks, each tagged with the content it comes from, so
that a prefix, a mixture and a hole are visible. A writer goes through
`Receive` (YAML check), `OpenTmp` (open with truncation), `WriteTmp` (one or more
writes at its own offset), `Rename`, the git steps and the answer; `WriteFails`
and `RenameFails`/`RemoveTmp` are the error branches. The last two are two steps,
because the removal is a system call of its own. `Crash` is the end of the
service: the directory stays. `Disconnect` is axum dropping a handler whose
client is gone, which can only happen at an await, and the handler has one in
`git_commit` only; the git that runs then is not killed and finishes, or fails, by
itself, which the same step covers. The end of the service takes it along, as
systemd kills what is left of a unit. The PutFile command of the poll loop is the writer `Poller`,
which runs one command at a time and does not commit.

The same steps serve both writers: the code of `poller.rs:188-246` is that of
`compose.rs:308-350` with another answer. `SerialSpec` restricts `Spec` to one
request at a time between open and the end of its use of the temporary file;
git, the readers and crashes interleave with it as before (`SerialIsNext`);
it is the guarantee that a lock would give, and what a node has that is written
only through the command queue.

### CommandQueue and PgListener

`pc` is where the poll loop is. `Timer` and `WakeUp` are the two branches of the
`select!`; the time of the timer is abstracted (it may fire at any moment).
`Serve` is the backend's answer, `FetchFails` an `Err` (request, answer or JSON),
`Refused` a status that is no success, `Execute` runs the oldest command of the
list, `PatchApplied` and `PatchLost` the two fates of its result, after each of
which `NextCommand` goes on. `ExecutePanics` is the panic of `truncate_output`:
`Panics` are the commands whose output has a character across byte 8192.
`redelivers` says whether the backend lists a command again until its result is
reported: its code is elsewhere, so a behaviour has either value and keeps it.

`CommandLog` is what all this amounts to for whoever queues a command: `Promise` maps its
`again` to `redelivers` and its `current` to `UnderWay`, the command whose PATCH has not been
answered; polls, responses, wake-ups, sessions and restarts between two commands are
stutters.

`Driven` is the one assumption of `PgListener` about the library: whether the
connection is polled while `LISTEN` is awaited. It is FALSE for this code (see
the findings), whose listener never gets beyond `LISTEN`: `queue_listen` and `deploy`
run with it. `queue` runs with TRUE, the listener that the code means to be, because
the loop then meets wake-ups at any moment as well; every behaviour without them is
among its behaviours, so that what it shows of executions, order and reports holds of
the code as it stands. `NoLostWakeUp` and `WokenIsFetched` are about the intended
listener, and void without it. That the listener subscribes is claimed nowhere.

### Deploy

`file` is the version of the compose file, named by the PutFile that wrote it,
`stack` the version the containers run or `Mixed`, `proc` the `docker compose up`
processes with the caller that waits for each. The queue's `Execute` is split by
the kind of the command: `ReadCommand` (GetFile, GetLogsSnapshot, ValidateYaml) and
`PutFile` are one step; an activation is `Activate` (the process is spawned) and one
of `UpReturns`, `UpPanics` (the output meets `truncate_output`) and `UpTimesOut`, after
which the process goes on without a caller: `Command::output` is awaited under
`tokio::time::timeout` and nothing sets `kill_on_drop` (`service/poller.rs:253`).
`HandlerActivates` and `HandlerGivesUp` are the same for `POST /api/compose/activate`
(`service/handlers/compose.rs:385`), which takes no lock either. The process itself is
external: `UpReads` reads the file once, `UpSucceeds` and `UpFails` end it; two that
run together may leave any mixture. `StopAll` is the queue's `Stop` with what becomes
of the processes. `quiet` is the history variable behind the promises: since the
loop's last process was spawned no other was running or came.

### TokenConfig

A configuration is the record of its four token fields. A run of the CLI loads
(`Migrate` included), prepares the configuration it will save (`conf`), and saves
with `Truncate` and `Write`; `refresh` has its heartbeat in between and restarts the
agent after. `Die` is a failed write or a killed command at any of these points.
Two saves at once may leave a file that does not parse. The history variables
say what completed commands promised: `applied` is the token set last, or
`Unknown` after an overlapping run undid it (the run is `stale`); `fresh` are the
daemons started since; `oneField` is set once refresh-cmd or `config set
compose.cmd_token` has written one of the two fields of the command token only.

### CmdAuth

`Arrive` is the timestamp check, `ReadClock` the second `Utc::now()`, `CheckNonce` the
section under the lock with `retain`, `Proceed` and `Refuse` the body and signature.
Time is discrete, and its unit is the margin by which nonces outlive the window
(`cmd_auth.rs:132` and `161`: five and six minutes). Nothing is assumed of the clocks:
the dashboard signs with a clock that is behind or ahead (`Skews`), and `Tick` is held
back, as a bound of the runs, so that a copy is at most `Lag` between its checks. The
history says how far ahead the timestamp of a request was (`skew`), how long its copies
took (`held`), and when its nonce was `entered` and the cache `swept`. `AtMostOnce` is
about requests for which the two, with the window, stay below the time to live
(`InTime`): that is what a nonce of six minutes can promise. `AtMostTwice` is about all
clocks. `CacheIsSwept` bounds the cache: entries are removed lazily, by whichever request
comes next, and then none that is older than its time to live stays.
`Restart` empties the cache: it lives in memory only.

### Provision

The host is the service user and its group, the two directories (`etc` with what
its mode allows, `stateDir` with its owner), a configuration in each of three
places with owner and mode, the binaries, the unit files, and what systemd has
enabled and runs. `pc` is the next step of the command that runs. Each step of
`run_setup` and of `reset` is one action: a list of `sudo` commands run until one
fails, whose outcomes are what the prefixes of that list leave, together with
`failed`. `Kill` ends a run between steps; after a step that failed it is a run
killed inside that step. Nothing else looks at the host in between but the
daemons, whose `Start` is retried for ever. As in the code a failed step does not
keep the later ones from being tried, except that the second directory is not
made without the first. `Reown` is what becomes of the files of a deleted user,
whose id the next user may be given or not.

The commands are run by root, as `README.md:243` says, who may have units of his own
besides: for the daemons in `userUnits` `systemctl --user stop` may succeed, and reset
then leaves the system's unit as it is. The history variables:
`current` is the node of the last configuration saved, `interrupted` that some run
failed, was killed or left something behind, `saved` that the CLI wrote in /etc.

### Upgrade and Daemons

`dest` and `backup` are the binaries and their `.old` files: a version, nothing, or a
torn file. A run of `upgrade` compares the release with its own version
(`UpToDate`, `Download`), and then takes each binary in turn through `DropBackup` (the
removal of the last `.old`), `SetAside` (the rename to `.old`, whose error `.ok()` drops:
`SetAsideFails`), `CopyOpens` and `CopyWrites`
(the two halves of `std::fs::copy`) and `CleanUp`. `EndsEarly` is an error or a kill at
any of these steps: nothing puts a backup back.

A run of `agent start`, `restart` or `stop` is a list of calls (`todo`), in the order
the code makes them, in the mode it detects: each call is a step, fails by fault or
because systemd refuses it, and `After` says what the code does then: `start` ends at
the `?`, `restart` and `stop` go on. `Fallback` adds the second round: `start` for the
daemons whose `restart` failed, `pkill` when no `stop` succeeded. `Spawn` is systemd
with `Restart=always`: a unit it wants gets a process from the binary that the unit
names, and only one service can have the port. That binary is the one in `~/.local/bin`
if there is one (`which_binary`), which upgrade does not replace when it runs from
another directory: `Elsewhere` are the modes with such a copy. `LoadFails` and the third
disjunct of `start` are the starts that end at once, without a configuration or without
a binary. `Reboot` starts what is enabled; the units of the user come and go with the
user's manager, which `Login` and `Logout` start and stop, and a boot starts only if the
user lingers. Commands do not overlap with each other; `upgrade` overlaps with systemd,
boots, logins and logouts.

### Telemetry

`lag` is how long the next tick of the `tokio::time::interval` has been due; `Tick` takes
it a period down, so that missed ticks come in a burst as with the default
`MissedTickBehavior`. `Collect`, `CollectFails` and `CollectGpu` are `collect_telemetry`
with what Docker answers (a list that fails ends the round, statistics that fail do
not), and the wait for nvidia-smi, which has no timeout; `Pushed` and `PushFails` are
the push. `Change` lets Docker, nvidia-smi and the backend fail, hang and return at
any moment. `Pass` is one unit of time: it is held back only by what the code bounds,
a tick that is due, a request past its timeout and, when all answer, `Work`.

## 3. Runs

| Run | Question | Bounds | States |
|---|---|---|---|
| `compose_serial` | one write at a time: is everything served, read and committed whole, and is the write atomic? | two writers, one reader, contents of two, one and no valid blocks | 373 thousand |
| `compose_concurrent` | what holds for overlapping writes? | the same, no repository | 422 thousand |
| `queue` | are executions accounted for and in order, are wake-ups kept, do the three parts implement `CommandLog`; and does the timer get every command reported, and a NOTIFY that came lead to a poll? | three commands, three faults, the second command may panic, `Driven` | 179 thousand |
| `deploy` | is the compose file the newest completed PutFile, and is what a completed Activate reports deployed? | five commands: read, put, activate in turn; one fault, one HTTP activation, two processes | 1.9 million |
| `tokens` | is the token set last, of either kind, the one in use? | two runs of the CLI, every command, two node tokens, one command token or none | 1.1 million |
| `provision` | what does a reported success mean, is the last configuration kept, does reset clean up? | one daemon, two versions, two nodes, every command; any user units, any number of failures | 8.5 million |
| `cmd_auth` | how often is a signed request executed, and is the cache cleaned? | two requests, two handlers, window 2, time to live 3, the dashboard's clock from one behind to two ahead, lag 1, five units of time | 5.0 million |
| `daemons` | do start, stop and restart hold, can an upgrade be recovered from and is it complete, do daemons come back? | both modes, `~/.local/bin` in the user's, two versions, one fault | 1.4 million |
| `telemetry` | how old may the last telemetry be, and does the burst end? | period 3, timeout 9, work 1, clocks stop at 15 | 756 thousand |

Why the bounds are enough: the races over the compose file are between two
writers at two system calls, and a content of two blocks is the smallest that
can be torn; a command can be lost, repeated or overtaken with three commands
and two faults; for the machine two PutFiles and two Activates, in turn, are the
least that can be out of step, and a process that was given up, one over HTTP and
one of the loop compete for two places; a lost update needs two runs and two
values, and for the command token its absence is the second; an older
configuration and an older binary need two of each, and the daemons are treated
alike, one after the other; one fault interrupts a command of the CLI at any step,
any number of commands follow; a clock that is two units ahead keeps a timestamp in
the window for four, longer than the three for which its nonce is kept, so that nonces
expire, are cleaned and are offered again; a timeout
of three periods makes bursts of three ticks and more. Other instances were tried
once and hold: `deploy` with three processes (4.8 million states), `queue` with `Driven` FALSE (43
thousand). `MaxCommands`, `MaxFaults`, `MaxTime`, `Procs`, `MaxVersion` and `Horizon`
are the bounds that cut behaviours. `CHECK_DEADLOCK FALSE` is for runs that may stop:
`cmd_auth`, whose clock stops, those of the queue and `deploy`, in which a panic ends the
loop, and `daemons`, in which a killed upgrade may leave no command to run.

A type invariant is checked by the runs of the queue, of the machine and of the
daemons; those of the other modules are proved (section 4).

### Findings: runs that TLC refutes

* `compose_torn`: the temporary file is shared and there is no lock
  (`service/handlers/compose.rs:335`, `service/poller.rs:221`). One writer renames what the
  other is writing, and a torn file is served though both answer success.
* `queue_listen`: nothing polls the connection while `LISTEN` is awaited
  (`service/pg_listener.rs:130`), so that the listener never subscribes. The model rests
  on how tokio-postgres works: its `Client` hands requests to a `Connection` that
  has to be polled.
* `provision_register`: `save_to` sets the mode of the parent directory to 700
  (`core/config.rs:298`), for /etc/nexus-link too, and `register` gives the file but
  not the directory to the service user: the daemons of a node that was just
  registered cannot read their configuration (`CHANGELOG.md:37-39` says they can).

Disagreements that no run is spent on, and how the properties deal with them:

* Output with a character across byte 8192 panics in `truncate_output`
  (`service/poller.rs:35`) and ends the poll loop for good, while the service goes on:
  `ReportedUnlessEnded` promises every command reported unless that has happened.
* refresh-cmd writes `compose.cmd_token`, and the service takes `api.tokens.command`
  first (`core/config.rs:361`): what it set is not in effect (`CmdApplied` says it is).
  `CmdAppliedInBoth` and `ChannelsAgree` speak of hosts where neither it nor `config set
  compose.cmd_token`, which write one of the two fields only, has been used.
* An activation whose timeout is over is reported as failed and goes on
  (`service/poller.rs:253`): `CompletedIsDeployed` and `EndToEnd` are about the time from an
  Activate with no such process about.
* The backups of upgrade are never put back (`cli/commands/upgrade.rs:166` says "Atomic
  replace"): `Recoverable` promises them on the disk. No checksum or signature of an
  archive is compared (`CHANGELOG.md:457-459` says integrity is verified).
* If the second unit file was not written, every later `start` fails
  (`cli/commands/agent.rs:54` looks at the first only). `StartFailsForUnits` says that a
  start that loaded its configuration (`agent.rs:39`), found the binaries (`agent.rs:236`) and
  meets no fault fails for no other reason, unless the user's manager does not run.
* In user mode `start` succeeds without linger and warns that the services stop on
  logout (`agent.rs:80-99`): `StartHolds` promises them only while the user's manager runs.
* The units name what `which_binary` finds first, in `~/.local/bin` (`agent.rs:416-434`);
  `upgrade` replaces what lies beside the CLI (`cli/commands/upgrade.rs:125-128`). Where the two
  differ the daemons stay old: `RestartedIsCurrent` is about what the units name.
* The comment of the nonce cache says that a copy within the window of five minutes
  either way is rejected (`service/middleware/cmd_auth.rs:157-158`). A timestamp that is `s`
  ahead is in the window until `s` plus five minutes have passed, and its nonce is kept
  for six: this holds while `s` and the handling of the copies take less than a minute
  together (`AtMostOnce`); otherwise a second copy may be executed, and no third
  (`AtMostTwice`).
* reset takes a unit that `systemctl --user stop` stopped for the only one
  (`cli/commands/reset.rs:114-125`): the system's unit of that name is neither stopped nor
  disabled. `CleanAfterReset` leaves such daemons out.
* The PUT handler answers `committed: true` even if git failed
  (`service/handlers/compose.rs:355`); the hash of the command token is computed once, at
  the start (`service/state.rs:31`), against what the comment of refresh-cmd says;
  `unregister` leaves the configuration in /etc alone (`cli/commands/unregister.rs:6`).
* After a setup that failed between `mkdir` and `chown`, or between `cp` and `chmod`, the
  next setup takes what is there for finished (`core/setup.rs:186`, `230`), which is why
  `FirstSuccessMeansReady` is about hosts where no run failed and only
  `SuccessMeansInstalled` about all.

### Fairness

`FairSpec` of the queue has `PollFairness`, weak fairness of a step of the poll, of the
restart and of taking a wake-up that is there: each await of a poll has a timeout
(10 s for HTTP, 120 s and 15 s for docker), systemd restarts the service
(`Restart=on-failure`; after a clean stop it is the operator who starts it, which
the model counts as a fault that ends), and a `select!` completes with a branch
that is ready. It leaves out the timer, so that `WokenIsFetched` is about the
channel; `ReportedUnlessEnded` has the fairness of the whole `select!`, timer
included (`TimerFairness`), as its hypothesis, together with a backend that lists again.
`ListenerFairness` is for the listener's own steps. `Daemons` has weak fairness of each
`Spawn`, since the units say `Restart=always` with ten seconds between, and of the steps
of a command that has begun, each of which is a call that returns. `Telemetry` has it
of time and of the loop, whose steps wait for nothing but what `Waits` names. No fairness
is assumed of faults, of new commands, of the host, or that any command of the CLI is run.

## 4. Proofs

All theorems hold for every value of the constants that satisfies the `ASSUME` of
the module.

* **ComposeFile_proofs.** `TypeCorrect`. `SoloWrite`, for any interleaving: from its open
  on, the temporary entry names the inode that the solo writer has filled up to its
  offset, and whoever else opens ends `solo`. For `SerialSpec` the invariant says that the
  served inode and those readers hold are whole, that no writer has them open, and that
  the file under the temporary name is what its one user has written; from it follow
  `SerialServedIsWhole`, `SerialReaderSeesWhole`, `SerialHistoryIsWhole`, and `SerialIsAtomic`: each step is
  a step of `AtomicFile` or a stutter. Assumed: `ConstantsOK`.
  For any interleaving again, `AcceptedOnly` and `FoundIsThere` follow from `BlocksInv`: blocks
  come from writers that passed the validation, and an entry that names an inode goes on
  to name one, since the only removal is of the temporary name.
* **CommandQueue_proofs.** `TypeCorrect`. `Accounted`: the count is inductive once the response
  in hand only holds commands without a result, and none outside a poll. `Ordered`: whatever
  the response omits ahead of a command it lists has run. `Once`: what a backend that lists
  once has handed out is in the response or behind it (`HandedInv`, `RunsInv`). `WakeUpKept` is
  inductive as it stands. `ImplementsLog`: each step is one of `CommandLog` or a stutter; that
  a command may run where `Execute` runs it is what the invariants
  behind `Accounted`, `Ordered` and `Once` say of the oldest of the list (`MayRunOldest`). `NeverSubscribes` is the finding of `queue_listen` for
  every value of the constants. `OldestIsLeast` is the one fact about `CHOOSE` that they need.
  Assumed: `QueueOK`. Liveness (see below): `PollsShrink` gives every step of a poll a rank that it
  lowers (the commands in hand, then the place in the poll), so that a poll ends;
  `WakesUp` follows with `WakeUpKept`. `Reports`, for either value of `Driven`, waits until nothing
  fails any more; then the first command without a result is in the next response, is run and reported, which lowers the number of those that
  are left (`FrontierLeft`).
* **Deploy_proofs.** `ImplementsQueue`: every step is one of `CommandQueue` or leaves its variables
  alone, which brings its invariants along, and with `ImplementsLog` the promise (`ImplementsLogToo`). `QueueInv` adds what relates `outcome` to
  `executed`; from it and the order of the queue, `FileStaysInOrder`. `PollerInv` says that the
  loop's process is of the command in hand, `QuietInv` that while `quiet` it is the only one
  and has read the file in place: `CompletedDeploys`. `OutcomeInv` and `EndInv` keep that fact
  after the result is reported, until a PutFile comes: `EndToEndHolds`. Assumed: `QueueOK`,
  `DeployOK`.
* **TokenConfig_proofs.** `TypeCorrect`, `InSyncAlways`, `NodeAppliedAlways`, `AgentUsesAppliedAlways` for every
  set of commands. `CmdAppliedAlways` and `ChannelsAgreeAlways` hold until refresh-cmd or
  `config set compose.cmd_token` is used (`oneField`): they are false after (see the findings).
  The invariant extends the claim to the configurations that overlapping runs hold: what one
  that is not stale will save has the applied token or the one it claims.
* **Provision_proofs.** `TypeCorrect`. `SuccessInstalls`: while no step of the run failed, each
  step behind it has its effect (`Progress`). `LastNodeKept`: a migration copies the file
  that was found before to the place looked at first, and a save writes where the next load
  looks. `ResetCleans`: the same as `Progress` for the removals (`Undone`), with the daemons in `userUnits` left out; that no unit stays
  enabled rests on the enabled ones having a file while no run failed. `FirstSetupReady`:
  without a failed run, what exists was made by a completed step (`Sound`), with `Undone` for
  the deletion of the user. `RegisteredNeverReadable` is the finding of `provision_register` for
  every host and history: what `register` saves in /etc is in a closed directory. Assumed:
  `ProvisionOK`.
* **CmdAuth_proofs.** `RunsAtMostOnce`: for each request that is `InTime` and has run, either its
  nonce is in the cache until every copy is out of the window, or the window has closed;
  `held` only grows, so that a request which is in time was so all along. `NoncesAreSwept`: a
  nonce expires at the latest `Ttl` after it was entered, which is not before any clock that
  a cleaning has used, and what a cleaning leaves expires after the clock it used.
  Assumed: `TimesOK`, which says only what the constants are. The node's clock is assumed
  not to be set back.

* **Telemetry_proofs.** `TypeCorrect`, and `FreshAlways`: `Remaining` bounds how long it takes,
  while all is well, until the backend has its next payload. No step of the loop raises it
  but the delivery, and time lowers it by as much as it passes (`LoopRemains`, `PassBrings`),
  so that either the time since the last failure or the age of the last payload, taken
  together with it, stays within its bound (`FreshInv`). `CatchesUpAlways`: while the loop is behind, each tick brings the
  schedule a period nearer and its round takes less than that (`Backlog`), and within a round
  each step and each unit of time brings it nearer to its end (`RoundLeft`). Assumed: `TelemetryOK`, two durations
  of a collection and a push being shorter than the period.

* **Daemons_proofs.** `TypeCorrect` goes with `Alone`: no two commands run at once. For the binaries
  one lemma (`UpgradeActs`) says what a step may do to them, and three invariants follow it:
  `RecoverInv` (before any fault the file being replaced has a whole copy beside it; after one
  every other file is whole under one of its names) gives `AlwaysRecoverable`, `InstalledInv` (what the run has passed is at the
  release) `AlwaysComplete`, `UpwardInv` (no file is newer than the CLI, nor than the release being installed)
  `NeverDowngrades`. For the units the argument is about the calls that a command has left:
  `CallsInv` says which they can be, `StartInv` that the calls left and the effects of those
  made together cover both daemons, in order (`Ordered`: a write before what needs the file), `KeptInv`
  that nothing but a stop takes an effect back. `StartAlwaysHolds` and
  `StartFailuresAreOld` follow, for units that a logout or a boot without linger stops as for others; `StopInv` and `RestartInv` say the same of stops and restarts,
  for `StopAlwaysHolds` and `RestartMakesCurrent`. `WantedAlwaysRuns`: a daemon that is wanted, with
  a whole binary and no process in either mode, may be started, and a start serves it.
  Assumed: `DaemonsOK`.

The theorems about liveness (`WakesUp`, `Reports`, `WantedAlwaysRuns`, `CatchesUpAlways`)
have hypotheses of two kinds (`WantedAlwaysRuns` of the first only), since the provers have neither ENABLED nor induction over
a temporal formula:

* Fairness is stated with a guard in the place of ENABLED, for instance
  `SelectFair == []<>~(pc = "wait") \/ []<><<Select>>_vars`. Each guard implies that the action
  can be taken and changes a variable, so that the weak fairness of `FairSpec`, or
  `TimerFairness`, implies it, and the hypothesis is no stronger; that it does was compared
  with TLC's ENABLED on the instances of the runs.
* `Settles(f)` (module `Settling`) is true of every behaviour and every `f`: the natural numbers
  have no infinite descent. Each theorem names the ranks it needs it of. That they are
  natural numbers and are not raised is proved (`PollsShrink`, `FaultsEnd`, `FrontierEnds`,
  `BehindStep`), and so is that a step that must come lowers them.

What stays with TLC: that the weak fairness written with WF_ implies those hypotheses, hence
the four properties under `FairSpec` as it stands; and `AtMostTwice`. `Settles` is neither proved nor checked,
but argued as above. `ListenerSubscribes` is
refuted by TLC and, by `NeverSubscribes`, false for every value of the other constants. No module uses a RECURSIVE operator and
nothing is proved by induction over data.

## 5. What is not modelled

* The bytes of messages, YAML, TOML and logs; the comparison of tokens (one hash
  against one hash); the contents of the companion files.
* The commands of the CLI run by another user than root, in `Provision`, whom a closed
  /etc/nexus-link keeps from seeing the configuration there.
* The signing key, and `compose.cmd_token` set by hand without `api.tokens.command`.
* Log streaming: one child process for one response, which shares nothing; that its
  stderr is piped and not read is listed as a hazard without a property.
* The contents of the unit files, of archives and of telemetry payloads (the parsers of
  /proc and of nvidia-smi, the percentages); `agent status` and `agent logs`, which read.
* PUT over HTTP beside the commands of the queue, in `Deploy` (it is in `ComposeFile`); the
  second service of the other systemd mode, in `CommandQueue`.
* fsync and power loss: a crash here is the end of a process, not of the machine.
* The device compatibility check, the comparison of the node token, types, the network
  lookup, the legacy endpoint and health keep no state.
* What a stop of the service waits for: axum's graceful shutdown waits for the responses
  under way, a log stream among them (`service/main.rs:150`).

## 6. Plan

Done, in this order: compose file (the operation with the widest promise),
command queue with the listener, tokens, authentication, provisioning with reset;
then activations composed with the queue, upgrades composed with the daemons,
and the telemetry loop; then the queue against `CommandLog`, and the liveness theorems.

Next:

1. Composition: `TokenConfig` and `Provision` share the configuration file, one by its fields
   and one by its place and mode.
2. Log streaming, with the child's pipes as bounded buffers.
3. Abstract specifications for the rest: registers that `TokenConfig` implements while one run
   of the CLI is at work, and a set of files that are old or new for `Upgrade`.
