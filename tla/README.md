# A TLA+ verification project for dcc-mcp-sketchup

dcc-mcp-sketchup connects SketchUp to MCP agents. A Ruby extension runs inside
SketchUp and serves a loopback JSON-RPC socket from a UI timer; a Python sidecar
process forwards MCP tool calls to that socket; a Python installer puts the
extension, its registration file and a receipt into a SketchUp profile and takes
them out again; a doctor says whether a machine is usable. The modules here are
translated from that code. TLC checks them on small instances; TLAPS proves the
safety properties for every value of the constants. All paths are relative to
the repository root; *pkg* stands for `src/dcc_mcp_sketchup` and *plugin* for
`src/dcc_mcp_sketchup/sketchup_plugin`.

## 1. Inventory

| Component | State it keeps | Operations | Modelled by |
|---|---|---|---|
| Bridge runtime, *plugin*/`runtime.rb`, `main.rb` | listener, timer, sidecar pid, one-slot request queue, a `ConnectionState` per socket, a response queue per request | `start`, `stop`, `onQuit`, `poll` and its pumps | `BridgeRuntime` |
| Bridge client, *pkg*/`bridge.py` | one call: socket, deadline, what came back | `call`, `status`, `is_connected` | `BridgeSystem`, over `BridgeRuntime` |
| Sidecar server, *pkg*/`server.py`, and `start`, `stop_child` of `runtime.rb` | server, monitor thread, stop event; child pid | `start`, `stop`, monitor, host liveness loop, signals | `Sidecar` |
| Install transaction, *pkg*/`install.py` (`_CommittedInstall`, `_commit_staged_extension`, `_execute_install`) | extension directory, registration file, receipt; backups, set-aside copies, flags | `install`, `upgrade`, rollback, finalize | `InstallTransaction` |
| Uninstall transaction, `install.py` (`_transactional_uninstall`) | the same files and a snapshot | `uninstall`, restore | `UninstallTransaction` |
| Installer decisions, `install.py` (`plan`, `_installation_state`, `verify_install`, readiness identity) | none, reads profile, environments, SketchUp | the five verbs, one after the other | `Lifecycle` (partly) |
| Commands, *plugin*/`commands.rb` | the SketchUp model | 29 commands, 21 of which change something, 16 of these inside `with_operation` | `WriteContract`, `WriteCommands` (partly: the 21) |
| Write verification, *plugin*/`verification.rb`, *pkg*/`write_contract.py` | none | read-back checks, demand for evidence | `WriteContract`, `SkillCall` (partly) |
| Skill tools, *pkg*/`skill_tools.py` | one tool call | `bridge_main`, host context of a failure | `SkillCall` |
| Compatibility matrix, *pkg*/`compat.py` | none | normalise, classify, breaking changes, missing API | `Compat` |
| Doctor, *pkg*/`doctor.py` | the report under way | a chain of eight checks | `Doctor` |
| Bootstrap error log, *plugin*/`bootstrap_errors.rb` | one file | capture, clear | a record or none, in `Lifecycle` (partly) |
| Extension registration, *plugin*/`registration.rb` | none | loads `main.rb` when SketchUp starts | `InstallTransaction`, `Lifecycle` (partly) |
| Dispatcher, *pkg*/`dispatcher.py`; skill scripts, *pkg*/`skills/*` | none | forward one call | not modelled |

How they interact. SketchUp loads the registered extension, which starts the
bridge; the bridge launches the sidecar with its port, a token and SketchUp's
pid. The client in the sidecar opens one connection per call, sends one frame
with a deadline (`bridge.health` has none) and reads one line. The timer callback
of the bridge owns every socket, runs at most one command per call on SketchUp's
UI thread and checks that the sidecar lives. The sidecar polls SketchUp's pid and
the bridge's health. The installer replaces files which SketchUp loaded when it
started, and verifies through the live sidecar. Doctor, verification and a failed
read-back ask the same matrix about a SketchUp that may go between two questions.

Where it is hard:

- *interleaving*: clients, clock, SketchUp and sidecar move between any two
  steps of a callback; a deadline is read twice, on two clocks; two threads of
  the sidecar report readiness;
- *partial failure*: every step of the callback can raise, which ends it early;
  every file operation of the installer can fail, and a `KeyboardInterrupt` can
  fall between an operation and the flag that records it;
- *trust*: SketchUp's calls may do less than they report, so a command reads back
  what it changed, and the sidecar believes only evidence;
- *crash*: SketchUp, a caller, the installer and the uninstaller can be killed at
  any point; a pid may be given away again;
- *limits*: a queue of one, 16 connections, 1 MiB per response;
- *timeouts*: five of them per connection racing late answers, and a caller that
  gives up without knowing whether its command ran;
- *two judges*: the installer decides twice what is in order, and folds versions
  by a rule of its own.

What makes each component correct: the bridge serves each request once, answers
it truthfully, starts nothing late, never exceeds its limits, always closes what
it opened, and leaves nothing when it stops. What a caller is told of its command
is true and stays true. SketchUp has one sidecar, which is ready only when its
bridge answered and does not outlive it. The installer never loses the last
installation that worked, reports what is on the disk, and what it has put in
place becomes usable. The uninstaller removes everything or nothing, as far as
the machine lets it. A command that reports success has done what was asked, and
one that fails has done nothing. "Usable" was observed.
`PROJECT.json` lists each hazard at its line with the properties aimed at it.

## 2. Modules

| Kind | Modules |
|---|---|
| specifications | `BridgeRuntime`, `Sidecar`, `InstallTransaction`, `UninstallTransaction`, `Lifecycle`, `WriteContract` (with the table `WriteCommands`), `SkillCall`, `Doctor` (with the operators of `Compat`) |
| composition | `BridgeSystem` = `BridgeRuntime` and its clients |
| abstract specifications | `CommandCalls`, implemented by `BridgeSystem`; `AtomicWrite`, implemented by `WriteContract`; `ProfileChange`, implemented by `InstallTransaction` and by `UninstallTransaction` |
| proofs | `BridgeProofs` (of `BridgeRuntime` and `BridgeSystem`), `SidecarProofs`, `InstallTransactionProofs`, `UninstallTransactionProofs`, `LifecycleProofs`, `WriteContractProofs`, `SkillCallProofs`, `DoctorProofs` |
| instances for TLC | `MC*` |

An operator `Bug...` stands before the definition it corrupts: a plausible slip in
the code that a property must notice (`PROJECT.json`, "mutants"). No action uses
one.

### BridgeRuntime

One timer callback, `PluginRuntime#poll`, is a sequence of steps given by `pc`:

| `pc` | code |
|---|---|
| `outbox` | `pump_response_outbox`: `PumpResponse`, `OutboxDone` |
| `expire` | `expire_connections`: `ExpireConnections` |
| `select` | `IO.select` and the accept loop: `SelectSockets`, `AcceptFails` |
| `io` | one selected socket at a time: `ReadEof`, `RejectFrame`, `ProcessRequest`, `Write`, `ConsumePeerClose` |
| `exec` | pop, `execute_request`, push: `ExecuteRequest`, `NothingToExecute` |
| `child` | `check_child_liveness` |

`outbox` to `io` happen twice per callback, before and after `exec`; `pass` says
which time it is. `start`, `stop` and `onQuit` run on the same UI thread, so
they happen only when `pc = "idle"`. Clients (`Connect`, `Send`, `HangUp`), the
clock (`Tick`) and the sidecar (`ChildExit`) move at any time.

`conn[c]` is the `ConnectionState` of a connection together with what its client
has done to the socket (`frame` sent and unread, `gone`). A response is the kind
of thing `response_payload` has to encode: an answer that fits, one over 1 MiB,
one `JSON.generate` refuses, a command that raised, and the refusal of an expired
command. The last two travel under one code, `host_error`.

Abstractions, and why the properties do not see them:

- Time is kept as remaining time, so the state space is finite without a
  horizon. `ttl` is the deadline of the read, write and close phases, `due` the
  deadline of the request; `due = 0` is the deadline's own millisecond. The wall
  clock of commands and the monotonic clock of expiry are one clock; a
  stepped wall clock is not modelled.
- `ttl` and `due` count from acceptance and queuing, as in the code.
- The order in which `io` takes the selected sockets is free; `IO.select` gives
  its own.
- A command's effect on SketchUp is the counter `ran`. A modal dialog that makes
  the timer re-enter `poll` is not modelled.
- A frame is `cmd` (with a deadline), `untimed` (`bridge.health`), `invalid` or
  `noid`; framing across reads is one `Send`.

### BridgeSystem, CommandCalls

`BridgeSystem` puts `SketchupBridge.call` at the other end of every socket.
`client[c]` is one call: `Open` (connect), `SendRequest` (`sendall`, with the
deadline computed before), `ReadLine`, `ConnectionClosed`, `GiveUp` (the socket
timeout), `CallerDies`. `Bridge` is a step of the bridge; when it ends a write,
the line is at the client. `told` is what the call's outcome says about the
command: `run`, `refused`, `over`, or one of three endings that leave it open
(`timed_out`, `gave_up`, `lost`). `over` is a `host_error`: the command ran and
raised, or was refused as expired, and only the wording of the message tells which
(`commands.rb:65`, `runtime.rb:320`, `bridge.py:162`). A repeated call uses another
connection, as in the code. `CommandCalls` is the promise: a command runs at most
once; "run" is said after it ran; after "refused" it never runs; after "over"
nothing happens any more.

### Sidecar

Every start of the runtime spawns one process `side[g]`, with two threads: `main`
(`_run_sidecar`, `start_server`, `stop`) and `mon` (the readiness monitor). The
host's UI thread is `ui`, its knowledge of the child `child`, the listening
bridge `open`. `pid` says who has SketchUp's pid: SketchUp, nobody, or a
stranger. A timed wait is a choice between what ends it early and its timeout;
seconds are not counted. The MCP server of dcc_mcp_core may hang in start and in
stop: `Serve` and `StopServer` have no fairness in `Spec`. `heard`, `gaveUp`,
`late` are history variables. A `start`
that raises after it has spawned the sidecar is a `Stop`.

### InstallTransaction

One SketchUp profile with three items: the extension `target`, the
`registration` file, the `receipt`. The content of an item is the adapter version
it belongs to, or `Absent`. `live`, `backup` and `failed` are the three paths
each item can be at; `backedUp` and `placed` are the `*_backed_up` and
`*_installed` flags; `left` is what ended runs left under transaction names.
`stage` and `k` follow the code: back up, place (in order), verify, and on
failure set aside, restore (in reverse), check, then clean up. `Raise` is an
operation that fails without effect, `Interrupt` one whose effect is not
recorded, `RollbackFails` and `CleanFails` a failure of the undoing, `Crash` a
kill. `OpenHost`/`CloseHost` decide what a running SketchUp has loaded, which is
what verification compares with.

A staging failure changes nothing and is no action of its own. A directory is
present or absent as a whole: `os.replace` moves it in one step; deleting one in
`finalize` is not, but what is deleted there is no longer needed.

### UninstallTransaction

The same profile at the grain of files: the `Part`s of the extension directory,
the registration file and the receipt, each `whole`, `torn` or `gone`. SketchUp
opens and closes files at any time (`Lock`, `Unlock`); an open file can be neither
deleted nor overwritten. `Begin` covers the refusals. `RemoveFile`,
`UnlinkRegistration`, `UnlinkReceipt` delete; `RemovalFails` starts
`_restore_uninstall_snapshot`, whose `copytree` goes on after a file it cannot
copy and raises at the end. `Finally` deletes the snapshot whatever happened,
and may fail at that unnoticed. `faulted` is a history variable: restoring met
an obstacle other than an open file. Whether an empty directory remains is not
modelled.

### ProfileChange

What both transactions promise of the installed paths. A run is a `change` from
the profile it found to a goal. It says `done` when the profile is the goal and
`undone` when it is, file by file, what it was; otherwise it has `stopped`, killed
or defeated, and every path holds the old content, the new one, or what an
unfinished operation leaves (nothing in an installation, a torn file in an
uninstallation). Between the decision and the next run no path is touched: only
`StopLate`, a failure or kill while the run cleans up after itself, takes back
what was said. The refinement mappings are `Change` and `Ending`, from the stage
and the exit of the code.

### Lifecycle

A sequence of runs of `install`, `upgrade`, `uninstall`, `status` and `verify` on
one profile, each from one of several interpreters. A transaction is one step
here (the two modules above open it up); what is modelled is what the runs
decide: `Planned` (`plan`), `State` (`_installation_state`), `FailureStage` (the
chain of `verify_install` up to the wait), `Serves`
(`_readiness_identity_failure`), `Owned` (`_validate_owned_install`). The
installer runs in one interpreter, `q`, and is given another, `p`. `env` is what
each interpreter has installed: version, bundled extension (`src`, of which
`_source_digest` is taken), distribution identity and launcher. `prof` is the
files. The content of an extension is known by its version, `v` as released and
`-v` altered: a checkout that is edited or a wheel that is rebuilt changes `src`
and keeps `ver`. `log` says whether the bootstrap log holds
a record, `host` is the SketchUp that uses the profile with the Ruby and the sidecar
it has loaded. Between two runs packages move, files are edited, the receipt is
garbled and the library call `install_extension` is used, at most `MaxEdits`
times; the extension raises at a start of SketchUp, or clearing the
record of that does, at most `MaxBootFailures` times. `Locked` is a file that
SketchUp holds open. `exit` is the exit code alone, and `FoundUsable` a wait that
ends with exit 0. Dry runs change nothing and are left out.

### WriteContract, WriteCommands, AtomicWrite

`WriteContract` is one mutating command from its parameters to the caller's
answer. `phase` follows the code: `validate`, `start` (`start_operation`),
`edit`, `read` (the `Verification.check_*!` calls), `commit`, `summary`
(`entity_summary` and the evidence block), `done`. `Fail` is the rescue of
`with_operation`; it is reached by `Refuse`, `StartFails`, `Raise`, `Mismatch`
and `CommitFails`, and aborts when an operation is open. The abort itself may
raise or return false, which nobody looks at (`commands.rb:658`): `AbortFails`,
remembered by `stuck`. `Edit` leaves anything
behind: a host call may ignore the request or do something else. `Proven` is
`require_verification`. `committed` and `stuck` are history variables.

`WriteCommands` gives the 21 commands as records: the parts of the target a
command edits, the parts it reads back, both in the code's order, the parameters
that may be left out, the parts it reads back although it did not mean to change
them, and whether it runs inside an undo operation. A part is what a check can
tell apart: `turn` is a rotation, `deselected` the effect of `replace`. A
texture and a file are looked for, the members of a group and what an import kept
are counted, and which ones they are is not compared (`Unidentified`): a group of
the wrong entities is a verified success, and `SuccessIsTheChange` exempts it.

`AtomicWrite` is the abstract specification: on the undo stack a command changes
the model in one step or not at all, or gets stuck when its abort fails.
`UndoStack` maps `WriteContract` to it: while an operation is open and no abort
has failed, the model is what it was when the operation started.

### SkillCall

One call of a tool through `bridge_main`: `Call` (`bridge.call`), `JudgeError`,
`JudgeDisagreement`, `JudgeResult` (`require_verification`), and for a failed
read-back `Ask` (the second call, for a version that the error does not carry:
one without evidence, or a disagreement whose data is `bare`, not `stamped`)
and `Classify` (the matrix, whose exceptions cost the verdict only). SketchUp
closes and starts again at any point; a new one has a new port and a new token,
so the call reaches the first only. The outcome is `success`, `bridge_error` or
`write_verification`.

### Compat, Doctor

`Compat` is `compat.py` as operators. A version is the sequence of numbers its
text begins with; the matrix is the constants `Ranges`, `Breaks`, `Required`.
`InstallerYear` is the folding of `install.py`. `Doctor` is `doctor_report`: one
action per check, each of which may end the report, and a SketchUp that may go
between the health call (`ProbeLive`) and the API probe (`VerifyApiSurface`).
Assumed of the extension: a live SketchUp reports a version. Discovery returns any
of the lists in `Found`.

## 3. What TLC checks

| Run | Instance | Shows |
|---|---|---|
| `bridge_system` | 2 calls, all frames, 2 starts | requests run once, replies are true, a stopped bridge is empty, nothing starts late, a ready response is delivered; bridge and clients implement `CommandCalls`; after a caller gave up, a command starts only in the deadline's own millisecond |
| `bridge_liveness` | 2 connections for 1 slot, 1 failing accept, fair callback and clock | the cap holds, every connection closes, the backlog and the queue are served, an exited sidecar is noticed |
| `sidecar` | 2 starts, a pid that is reused | one sidecar at a time, ready was earned, a sidecar whose bridge is gone ends, a patient one becomes ready, `stop` returns |
| `install_transaction` | 2 versions, 2 runs, every initial profile | the last good installation is recoverable, the backup is complete when it is needed, a run implements `ProfileChange` |
| `uninstall_transaction` | 2 files in the directory, 2 runs | kills and open files lose nothing, a run implements `ProfileChange` |
| `lifecycle` | 2 interpreters, 2 versions, all verbs and edits, 1 edit, 2 failing starts | what an installation has put in place never keeps it from waiting, exit 0 is said of the installer's own extension and of what runs, what is in place becomes usable without any wait |
| `write_contract` | 21 commands, 2 contents per part | success is proven, failure inside an operation changes nothing, commands are atomic on the undo stack |
| `skill_call` | 2 starts of SketchUp | a failed read-back is never masked, its context is that of the SketchUp that failed |
| `doctor` | versions at every edge, a matrix with a gap | usable was observed, a version has one place on the axis, verdicts are ordered along it |
| `uninstall_exit50` | 2 files in the directory, 1 run | **violation**: exit 50 after files were deleted for good |
| `write_silent` | `entity.transform`, 2 contents | **violation**: a rotation that did not happen is a verified success |
| `lifecycle_boot` | one failing start, no edits | **violation**: installing again does not converge |

Bounds. Two connections are the fewest with a full queue, an answered neighbour
and a competitor for the last slot; all state is per connection but the queue of
one. Two starts are needed for a request, or a sidecar, to survive a restart.
Deadlines of one unit already separate before, at and after. `accept` fails only
in `bridge_liveness`, where it matters; the safety proofs hold with any number of
failures. Two installer runs let the second start from what a crash of the first
left; two versions tell old from new. Two files in the directory are the fewest
of which one is deleted and one is open. Commands neither overlap nor share state
beyond the model they find, so one command on any target is every command; two
contents and absence tell asked, unchanged and wrong apart. In `lifecycle` one
edit between runs and two failing starts are what finishes within minutes;
liveness does not depend on their number, as both stop in the end. Two
interpreters with versions of their own are the fewest with an upgrade, a
downgrade and a receipt of somebody else. The versions of `doctor` lie on both
sides of every number the code compares with. The theorems below remove the
bounds for the safety properties.

Fairness, and why the code justifies it:

- `bridge_liveness`: `WF(Poll)`, because the UI timer repeats and a callback
  contains no wait (sockets are nonblocking, `IO.select` has timeout zero, a
  command returns or raises); `WF(Tick)`, because time passes. Nothing is assumed
  of clients, of the sidecar, or of accept succeeding; accept fails `MaxFaults`
  times, as a listener whose accept fails for ever serves nobody.
- `sidecar`: `Scheduling`, each thread runs and SketchUp's UI thread finishes
  `stop_child`; `Answering`, a bridge that stays open answers one of infinitely
  many probes. `BereftEnds` needs two more facts that are nobody's duty here and
  states them as hypotheses: the MCP server returns from start and stop
  (`ServerReturns`), and no stranger goes on with SketchUp's pid. `StopReturns`
  needs neither.
- `lifecycle`: `DefaultFlow`. The installer's own steps are fair: no probe lasts
  for ever. The rest is the user: SketchUp is opened and closed again and again
  while no installer runs, `install` is run again and again beside a SketchUp that
  serves, and not every such run sees it close. A sidecar that serves answers one
  of infinitely many probes. Nothing is assumed of the wait, which is 0 by default
  (`--ready-timeout`, `install.py:1065`), but that one probe is made.
  `CurrentBecomesUsable` has one hypothesis, that from some time on an
  installation is in place with its packages, and one conclusion, that a run ends
  its wait with exit 0 again and again. How an installation gets in place is not
  promised: on a fresh profile the default flow never puts it there for good (the
  first point under "Met while modelling").
- `lifecycle_boot`: `Patience`, in which the wait is long enough to open SketchUp
  in it. The code does not give that, so no passing run rests on it; it
  makes the counterexample stronger.
- The transactions, the commands, the skill call and the doctor end by
  themselves; their properties are safety properties.

Deadlock is checked for the bridge, the sidecar, the lifecycle, the skill call
and the doctor; what may rightly stop has an explicit stuttering end. In the
transactions the number of runs is bounded and the system stops after the last.

### Disagreements between documents and code

1. `install.md:169-170` says of exit 50 "No existing extension was deleted before
   this result". A restore that fails with a lock error exits 50 and deletes the
   snapshot (`install.py:1416-1429`). `Exit50DeletesNothing` is violated.
2. `write_contract.py:3-4` says the module exists to eliminate "reported success,
   model unchanged". The read-back of `entity.transform` compares the centre of
   the bounds (`verification.rb:182-198`), about which rotation and scaling are
   taken; for these it compares the centre with itself. `NoSilentFailure` is
   violated. `SuccessIsTheChange` names all the parts that no read-back proves,
   and by the theorem `ProvenPartsAreNotSilent` no other part can be missed.
3. `install.md:114-115` says: "Re-running `install --yes` converges an
   already-current install and repairs partial state". One failed start during a
   first install leaves a record in the bootstrap log; `verify_install` fails on it before it waits (`install.py:1807`), the rollback
   removes the extension, and only a SketchUp that loads the extension clears the
   log (`main.rb:32`). `RerunConverges` is violated. There are two more dead ends:
   a receipt that cannot be read, which `plan` refuses
   (`NoVerbRepairsAReceipt`), and an installed distribution other than the
   receipt's, which `_installation_state` calls current and `verify_install`
   refuses (named in `OnlyDeadEndsStop`).

Met while modelling, and part of the models without a run of their own:

- `install.md:167-168` says of exit 40, readiness: "open SketchUp, let the
  extension start, inspect `dcc-mcp-cli list`, and rerun `verify`", and
  `README.md:137` to open SketchUp after the installation. A first install that
  finds no SketchUp ready rolls the copy back before it exits
  (`install.py:2046-2057`, `Unusable`), so the SketchUp that is opened then has no
  extension to start, and `verify` ends in stage artifact.
- `pump_response_outbox` takes a response off its queue before it is encoded
  (`runtime.rb:233`, `345`); when encoding raises, the client waits for its
  timeout although its command ran. It is told `timed_out`, which promises
  nothing.
- `verify_install` never asks whether the receipt's source digest is still that of
  the bundled extension (`install.py:653` does): after a change of source under one
  version `status` says upgrade and `verify` passes. `SuccessIsCurrent` says that
  this is the only such drift at exit 0. Likewise the SketchUp that runs is compared by
  version: an altered extension of the same version, loaded before a repair in
  place, still gives exit 0.
- `architecture.md:34-35` says that every model mutation is wrapped in an undo
  operation; `import_model` is not. `FailureIsClean` and `ImplementsAtomicWrite`
  state the exemption.
- A sidecar that stops and has a probe under way for more than a second may
  report ready once more (`server.py:108`). `ReadyIsEarned` names this race and
  excludes every other.

## 4. What is proved

For every set of connections, cap, deadline, number of starts, set of versions,
files, interpreters, commands, matrix and number of runs that satisfies the named
assumptions of each module:

| Theorem | Property |
|---|---|
| `BridgeProofs!TypeCorrect` | `TypeOK`, with at most one request in the queue |
| `RequestsAreServedOnce`, `ClientsAreToldTheTruth` | `QueuedOrServedOnce`, `RepliesAreTrue` |
| `CapIsKept`, `StopIsComplete` | `ConnectionCap`, `StoppedIsQuiet` |
| `NoLateStart`, `ResponseBeatsTimeout` | the action properties `TimedOutStartsOnlyAtDeadline`, `ReadyResponseBeatsTimeout` |
| `NobodyBuysTimeEver` | the action property `NobodyBuysTime` (no run): phases only go forward, time in a phase only runs down |
| `SystemTypeCorrect`, `GivingUpIsSafe` | `SysTypeOK`, `NoStartAfterGivingUp` |
| `CallsKeepTheirPromise` | `KeepsItsPromise`: every step of bridge or client is a step of `CommandCalls` or a stutter |
| `SidecarProofs!TypeCorrect`, `OneSidecarAlways`, `ReadyIsEvidence` | `TypeOK`, `OneSidecar`, `ReadyIsEarned` |
| `InstallTransactionProofs!TypeCorrect`, `InstallationIsRecoverable`, `BackupIsComplete` | `TypeOK`, `LastGoodRecoverable`, `BackupCompleteAtVerify` |
| `ReportedOutcomeIsTrue` | `RunEndsInOrder` (no run: `ImplementsProfileChange` says more) |
| `InstallTransactionProofs!RunIsAChange` | `ImplementsProfileChange`: every step of an installation is a step of `ProfileChange` or a stutter |
| `UninstallTransactionProofs!TypeCorrect`, `LocksAreHarmless`, `SnapshotCoversRemoval` | `TypeOK`, `LocksLoseNothing`, `RecoverableWhileUninstalling` |
| `UninstallTransactionProofs!RunIsAChange` | `ImplementsProfileChange`, of an uninstallation |
| `LifecycleProofs!TypeCorrect`, `SuccessMeansCurrent`, `UsableMeansLoaded` | `TypeOK`, the action properties `SuccessIsCurrent`, `UsableIsTheRunningHost` |
| `InstallationsStopAtDeadEnds`, `NoVerbRepairsAReceipt` | `OnlyDeadEndsStop`; the action property `GarbledStays` (no run) |
| `WriteContractProofs!TypeCorrect`, `ReportedSuccessIsProven`, `FailedCommandsChangeNothing`, `NoOperationStaysOpen` | `TypeOK`, `SuccessIsProven`, `FailureIsClean`, `OperationsAreBalanced` |
| `SuccessMeansChange`, `EvidenceIsAlwaysThere` | `SuccessIsTheChange`, `EvidenceIsNeverEmpty`, of the 21 commands |
| `ProvenPartsAreNotSilent` | what remains of the violated `NoSilentFailure` |
| `WriteContractProofs!RefinesAtomicWrite` | `ImplementsAtomicWrite`: every step of a command is a step of `AtomicWrite` or a stutter |
| `SkillCallProofs!TypeCorrect`, `NoFailureIsMasked`, `ReportsAreReproducible` | `TypeOK`, `FailedReadBackIsReported`, `ContextIsOfTheFailedHost` |
| `DoctorProofs!TypeCorrect`, `UsableIsObserved`, `OnePlace`, `VerdictsFollowTheAxis` | `TypeOK`, `UsableWasObserved`, `OnePlaceOnTheAxis`, `VerdictsAreOrdered` |

The assumptions: `Conn` is finite and `MaxConnections` positive; the time limits
are positive; supplied deadlines are positive; versions are not `Absent`, or not
0 in `Lifecycle`; the registration file and the receipt are not in the extension
directory; a command reads back only parts among those it edits or watches, and
no content is `Absent`; the theorems about the command table are about commands
of that table (`CommandMapAssumption`); SketchUp starts at least once in
`SkillCall`; the numbers of versions are natural, and a matrix and discovery hold
versions. TLC evaluates them for the instances, `CommandAssumption` for all 21
commands.

Few of the properties are inductive. The arguments:

- *Bridge.* What a reply may claim depends on where the request is, so
  `HistoryInv` ties the phase of each connection to `ran`, to the queue and to the
  pending response. `DueInv` ties the deadline of a connection to that of its
  queued request, also after the connection has timed out: this is what makes a
  late start impossible. `OutboxInv` says that nothing is ready when connections
  expire, hence that a timeout never replaces a response. The cap needs that the
  accept step counts closing connections. That nobody buys time is proved per
  step from the types alone; with it `EveryConnectionCloses` rests only on time
  passing and the callback firing.
- *Bridge and client.* `SInv` adds to the bridge's invariant that what a caller
  learned, or is about to read, is so and stays so (`Knows`: "run" after one
  execution; "refused" and "over" when the connection is past serving and its
  request is no longer queued), and that a client outwaits its request's deadline (`Outwaits`).
  The refinement follows step by step: only `ExecuteRequest` runs a command, and
  it takes one from the queue.
- *Sidecar.* `Local` is what each process keeps true of itself (an answer was
  heard before it is reported, no probe starts after halt, only a join that gave
  up leaves a monitor), so that a step of one process needs no look at the others;
  `NoneLeftBehind` says that a closed bridge with an idle UI thread has no living
  child, from which one sidecar follows.
- *Install.* What rollback restores depends on how far the transaction had come
  and which flag an interrupt kept from being set. The invariant says for each
  stage which of five shapes an item has: untouched, saved, installed, not yet
  restored, settled. The check at the end of rollback turns settled into
  restored. The refinement needs two facts more: at work no path holds a third
  content (`WorkInv`; in rollback it needs that a flagged backup is what the run
  found), and what is cleaned up has been decided (`DecidedInv`). The steps are
  then told apart by whether the run is at work before and after.
- *Uninstall.* A file that is still there when restoring reaches it shows that
  nothing later in the order of deletion has been deleted. So a restore that
  stops at an open file stops at a complete installation. In the refinement this
  is what allows a failed run that met only locks to be called undone.
- *Lifecycle.* `Bound`: nobody changes a package while a run lasts, so a run that
  waits has verified files of the version it compares SketchUp with. What a run put
  in place or found current stays so to its end (`PlacedInv`); together with
  `Bound` this gives what exit 0 says of the installer's package. What can stop an
  installation needs two facts more: an interpreter that holds the package has an
  identity (`EnvironmentInv`), and no run starts on a receipt that
  cannot be read (`ReadableInv`). The last of these also makes that receipt a dead
  end for good.
- *Write.* No edit follows a read-back, so what was read back still holds at
  the report (`ReadInv`, up to the check that is due); the target may differ from
  what it was only while an operation is open or after the commit (`CleanInv`,
  `CommitInv`), and one that stays open to the end has a failed abort (`StuckInv`).
  The same invariant makes the refinement step-wise: an edit inside
  an operation is a stutter, the commit is the abstract change. The two properties
  of the command table need that no step changes the request (`RequestsStay`) and
  facts about each of the 21 commands (`TableFacts`): what it edits it reads back,
  unless the part is among those named unproven, and some check is due whatever
  parameters are left out.
- *Skill call.* SketchUp's starts are numbered and only the first is reachable, so
  a host that answers twice is one host (`FirstHostInv`); `ReplyInv` and
  `ContextInv` say what each stage of `bridge_main` knows of the reply and of the
  SketchUp that failed.
- *Doctor.* `Gathered` says what each check has established of the SketchUp of the
  environment. The two properties of the matrix are lemmas about the operators of
  `Compat`: both spellings normalise alike (`SpellingsAgree`), the order on
  versions is strict and linear (`BelowTransitive`), and verdicts follow it
  (`VerdictOrder`).

Only model-checked: the liveness properties (`EveryConnectionCloses`,
`WaitersAreServed`, `SidecarExitNoticed`, `BereftEnds`, `BecomesReady`,
`StopReturns`, `CurrentBecomesUsable`), which rest on fairness and on which actions are
enabled, out of reach of the provers; and the three violations, which are
counterexamples. Two theorems are the part of a liveness property that is about
steps: `NobodyBuysTimeEver` of `EveryConnectionCloses`, and
`InstallationsStopAtDeadEnds` of `CurrentBecomesUsable`. Every other property a run
checks is a theorem.

## 5. Not modelled, and why

- Two installers at once on one profile. There is no lock, so nothing holds of
  the pair that the code promises; `InstallTransaction` and its proofs have one
  installer at a time.
- The geometry of a read-back: vertices, bounding boxes, the tolerance of numeric
  comparisons. A read-back of a centre is right or wrong here; that turning an
  asymmetric shape moves the centre of its bounds (`commands.rb:336`) is below
  the model.
- Exceptions outside `StandardError`, which `with_operation` does not rescue; a
  target that another process changes during a command; the eight read-only
  commands, which change nothing.
- Probing: native executables and their version resources, process paths, the
  discovery of profiles, the questions put to a Python interpreter. They are I/O;
  their answers are inputs of `Lifecycle` and `Doctor`.
- The failure points inside `start` of the bridge, between listener, timer and
  sidecar: a `start` that fails and cleans up is one step of `BridgeRuntime`.
- The contents of bootstrap records, and a capture that itself fails; a stepped
  wall clock; a modal dialog that makes the timer re-enter `poll`.
- The dispatcher, 22 lines without state, and the skill scripts, each a name, a
  message and `bridge_main`. The MCP server of dcc_mcp_core is third party.
