# Formal verification of persona

`persona` lets tools edit a git repository through a private overlay view and
keeps what they changed as a patch. `persona run` does so for one command. The
daemon (`cmd/persona/daemon*.go`) keeps long-lived *sessions*: one overlay per
session key, handed out to one writer at a time under a *mutation lease*, saved
to the session's patch on release, flush, end and shutdown, and recoverable
after the daemon or its clients are killed.

This directory holds TLA+ models of that code, the TLC runs that check them and
the TLAPS proofs of what matters most. Names follow the source.

    tlc -workers 2 -config SessionFaults.cfg MCDaemonSession   # one run
    tlapm DaemonSessionProofs.tla                              # the theorems

## 1. Inventory

| Component | Source | State | Operations | Hard to get right |
|---|---|---|---|---|
| Session lifecycle | `cmd/persona/daemon.go`, `daemon_exec.go` | registry of sessions (memory), one metadata file, one patch file, one session root and external root per session | ensure, acquire_exec, attach_exec, release_exec, list, flush, mark_dirty, end, prune, recover; restore on first use; closeSessions | crash between two durable effects; a metadata write that fails after its rename; a retry of an answered request; a command that outlives its client and the daemon |
| Gates and drain | `daemon_state.go` | one channel per key, `closing`, cached snapshots | lockSession, trySession, drainMutations | requests queued when the drain begins; list answered from the cache; termination |
| Liveness of owners and groups | `daemon_exec_lifetime.go`, `daemon_exec.go` | none (reads /proc) | executionGroupAlive, processIdentityAlive, attachExec | members that fork and exit during the scan; reused pids; zombies |
| Metadata file | `daemon_metadata.go`, `daemon.go` | JSON file per key | write (temporary file, rename, directory sync), read, validate | generations of clean metadata; the 64 KiB limit |
| Launch and socket | `daemon.go` | launch.lock, serve.lock, socket | ensureDaemonRunning, runDaemonServe | two launches at once; launch during a drain |
| Patch store | `internal/patchio` | patch file, lock file | read, atomic replacement, validation | crash or error around the rename |
| Session directories and mounts | `internal/session`, `cmd/persona/mount_env.go`, `internal/ns` | roots with ownership marker, overlay, masks, git-dir mount | Create, Open, RemoveAll, mount, unmask, unmount | never removing what is mounted or unsaved |
| Cleanup stack | `cmd/persona/pathutil.go` | pending steps | Push, Run (keeps what failed) | partial failure and retry |
| One-shot run | `run_with_options.go`, `command_exec.go` | lock, session root, patch | persona run | order of save and cleanup under signals |
| export-patch, apply-patch | `apply_patch.go`, `run_with_options.go` | patch file | sequential commands | lock against a running session |
| Base pinning | `internal/gitx`, `daemon_base.go`, `daemon_recovery_base.go` | a git ref per base, base file beside the patch | RetainBase (compare and swap), validateRecoveryBase | two pinning processes |
| View export | `internal/gitx` | none | diff of view against base, filters | new-file and ignored-file rules |
| Plugin wrapper | `persona-claude-plugin/bin/persona-wrap` | lease records on disk | PreToolUse, PostToolUse and failure hooks | lost answers, repeated hooks |
| Command line | `root_cmd.go`, `internal/model` | none | option and exit-code mapping | enumerations |
| Diagnostics | `diagnostics.go` | none | host probes | none (reads only) |

How they interact. A client reaches the daemon over a unix socket; `serveConn`
runs each request in a goroutine, and every operation on a key holds that key's
*gate* from its lookup to its last write. Clients then touch the view directly,
without the daemon: file tools through the plugin, commands through the hidden
`exec-view` helper, which attaches its process group to the lease first. So the
gate orders the daemon's own work, and everything else (writes, exits, kills,
SIGKILL of the daemon) interleaves with it. Overlays are mounted in the host's
namespace and survive the daemon. The metadata file is the only memory that a
later daemon has.

What makes it correct. No promised change is lost; one writer at a time, across
restarts; the view is exported and unmounted only while it is quiet; a
successful release is a save; what the metadata says can be acted on; a saved
patch gives back the view it was made from; the patch file always holds one
whole version; nothing is deleted through a mount; one daemon serves a
repository and can be reached; requests, launches, runs and shutdowns end.
`PROJECT.json` lists every hazard at its line with the properties that would
catch it.

## 2. Modules

| Module | Models |
|---|---|
| `DaemonSession` | one session key of the daemon in full, with its clients, faults and crashes |
| `DaemonGate` | the registry, the gates of several keys, list and prune, the drain and closeSessions |
| `DaemonLaunch` | how clients find or launch the daemon and how it holds its socket |
| `PatchFile` | the patch file: lock, snapshot, atomic replacement, kills and loss of power |
| `OneShotRun` | `persona run`: setup, command, save, and the cleanup stack |
| `ViewPatch` | what a patch says of a view: export, application, the user's own work beside it |
| `ExecGroupScan` | whether a command's process group still runs: the signal and the scan of /proc |
| `SavedWork`, `PatchRegister` | abstract promises that `DaemonSession` and `PatchFile` implement |
| `KeyGate` | abstract promise about the gate of one key, which `DaemonGate` and `DaemonSession` both keep |
| `DaemonSessionInv` | the inductive invariants of `DaemonSession` in named parts; the refinement mappings |
| `DaemonSessionSteps`, `DaemonSessionProofs`, `DaemonGateProofs`, `DaemonLaunchProofs`, `PatchFileProofs`, `ViewPatchProofs`, `OneShotRunProofs`, `ExecGroupScanProofs` | theorems and proofs |
| `MC...` | instances for TLC |

How they fit together. Each module takes the promise of another for granted and
says where: `DaemonSession` lets one handler at a time work on its key, as
`KeyGate` describes it, which `DaemonGate` implements for each of its keys (both
sides are theorems, see section 4); it lets a crash be followed by one new daemon,
which is what serve.lock in `DaemonLaunch` is for (`DaemonsAreAlone`); it asks whether a group lives
and gets the truth at once, where `ExecGroupScan` shows what the code's answer is
worth; `DaemonSession` and
`OneShotRun` replace the patch in one step, as `PatchRegister` does, which
`PatchFile` implements; and they treat the content of a view as a set of
changes that an export carries over to the patch, which is `Reproduces` of
`ViewPatch`. Conversely `DaemonGate` abstracts what a handler does to its
session to the outcomes that `DaemonSession` shows in detail.

### How DaemonSession corresponds to the code

*State.* `mem` is the key's `daemonSession` (`reg`: it is in the registry;
`closed`, `busy`, `dirty`, `gen`, `durable`, `view` and so on are its fields;
`todo` is its cleanup stack; `was` is the `dirty` of the snapshot that an
acquire takes for its rollback). `disk` is the metadata file, `patch` the patch
file, `upper[r]` the content of the view over root `r`, `roots`, `mounts` and
`exts` what exists and is mounted in the file system. `client`, `token` and
`group` are what each lease's client knows and does.

*Steps.* `h` is the handler that holds the gate. A handler is cut at every
durable effect: each metadata write, patch replacement and cleanup is an action
of its own, so that a crash, a write by a client or an exit can fall between
any two. Everything a handler does between two effects is one action. The
requests `ensure`, `acquire`, `list`, `flush`, `end`, `prune` and `mark` share
`lookupSessionLocked` / `ensureSessionLocked` and differ from the stage "have"
on; `release` and `attach` only work on a registered session; `recover` has its
own prologue and goes on as a restore.

*Failures.* `Faults` selects the I/O failures that may happen:

| Fault | Where | Effect |
|---|---|---|
| early | writeDaemonSessionMeta before its rename | file unchanged, error |
| late | its directory sync | file replaced, error |
| patch | writeSessionPatch before the rename | patch unchanged, error |
| sync | its directory sync | patch replaced, error, checksum in memory unchanged |
| mask, unmask | masks on ignored files at acquire and release | error; an unmask failure keeps the session busy |
| mount | a mount, git or file-system step of creating a view | creation fails |
| cleanup | steps of cleanupStack.Run, of recover, and removal of the metadata | what failed stays for a retry |

Independently of them the daemon may be killed at any moment, an answer may be
lost, and owners and process groups may die at any moment.

*Data.* A change is one element of `Writes`, per lease or by an editor without
a lease; contents are sets of changes. The checksum of the patch is the set
itself. The metadata fields that decide nothing (times, counters, messages,
paths) are left out.

### Abstractions to know of

- One key, whose gate is taken and checked against `closing` in one step
  (`Accepts`), and a drain that may end at any moment (`BeginClose`):
  `DaemonGate` has the detail.
- Whether a process or group lives is known exactly; the scan of /proc is
  `ExecGroupScan`.
- The mounts of one session root come and go together, and so do the masks.
- The check of the session's options against the request, base pinning, the
  retained ref, the ignored-file lists and the overflow of 64-bit generations
  are left out.
- An editor's change without a lease is promised only by a successful
  `mark_dirty`.

### DaemonGate

`gate[k]` is the channel in `daemonState.gates`, `holder` who has sent into each
channel; a new channel may be made only for a key that has none, so a model in
which unlock dropped the entry would have two (`GatesDropped` is the mutant).
`sess[k]` is the key's entry in `sessions` (`reg`), in `cached` and on disk
(`saved`), with its lease. Each section under the state's mutex is one action;
between `Call` and `Take` the request waits, and between `Take` and `Enter` it
looks at `closing` again. Inside the gate an operation is one step with every
outcome it may have (`Outcomes`), or two when it creates a session, because the
cache is filled before the registry. `flush`, `mark_dirty`, `attach_exec` and
`recover` pass the gate as `ensure` does and change no more of this state. list
and prune visit their keys in any order, which includes the sorted one.

### DaemonLaunch

A client is `ensureDaemonRunning`: ping, launch.lock, ping again, spawn, wait. A
server is `runDaemonServe` with its deferred calls in reverse order: the listener
is closed (which unlinks the socket), the socket removed once more, serve.lock
given back. `socket` is the server that a connect would reach. The variables
`saw` and `hit` are history: which servers served when a client got the lock, and
which clients saw a kill, a signal, a slow ping or a server started by hand. The
ping that waits for a spawned daemon does not compare the repository
(daemon.go:1959), which makes no difference for one repository.

### PatchFile and PatchRegister

`name` is the file behind the directory entry, `disk` the files it may be after a
loss of power, `data` and `synced` each file's content and whether it is on
disk. A write is cut at every system call that matters: create, copy (begun and
done), size check and owner, fsync, rename, fsync of the directory. Readers
without the lock hold a file open over any of them. Tools other than persona may
replace or remove the file, whole; editing it in place is not modelled, since
nothing in the code could help against it. Owner and mode are kept or the write
fails.

### OneShotRun

A run is the list of steps of `runOnNamespaceThread` (`After`), each of which may
fail, and a stack of what has been pushed by then. `Cleanup` runs the stack from
the top, every entry once whatever fails. `mounts` are those of the run's own
namespace and vanish with it; `dirs` stay. The lower directory is a bind mount
of the repository or of the worktree, which is why a directory above it must
not be deleted recursively while it is mounted; `hides` is the case that the
session root lies under the repository and is hidden by the overlay, where
`ns.Umount` finds no mount point and says nothing. The masks are not recorded:
no step asks for them. The patch is a register as `PatchRegister` describes it.

### ViewPatch

A file is a value for contents and mode together; a patch is a set of blocks,
one for a path, each from a whole file to a whole file. Git is external: a block
fits the file it was made from, and git apply is all or nothing. The export
follows `exportEnv` (which paths are tracked, by a private index over the pinned
tree), `checkStorageAttributes`, `ListUntracked`, the comparison of ignored
paths, and the renames that `-M` may choose. Applying follows
`applyPatchStore`: validated, applied, and in strict mode once more without the
new files that are there already. The user edits, stages and commits in the
checkout meanwhile; in repo mode only between sessions, which is what that mode
asks for.

Limits of the code that the model shows, and the property leaves out by name:
with `--allow-dirty`, or under a conversion, a path that the tools put back to
what the pinned tree has is not in the patch although the lower layer differs,
so that reopening the session brings the lower layer's version back; files that
were ignored when the view was opened are not saved. A later `.gitignore` of the
user can also make a saved patch not apply; nothing is then changed.

### ExecGroupScan

A call is `executionGroupAlive`: the signal to the group, the start time of its
leader, `ns_last_pid`, the directory entry by entry, for each entry its state and
for a zombie its list of threads, and `ns_last_pid` again, up to `Scans` times.
Each of these is one read and one action; the entries come in any order. The
processes are the kernel's, external: forks, threads, exits of some or all
threads, reaping, numbers used again once nobody has them, the group's own number
included. `last` counts the numbers given out and stands for `ns_last_pid`, which
is assumed not to come round to the same value within one scan. A process that
leaves for a group of its own is not followed any more, as in the code, and
processes do not join the group from elsewhere.

Limit of the code that the model shows, and `NoWriterMissed` leaves out by name
(`took`): a process whose first thread has ended is read as a zombie
(daemon_exec_lifetime.go:96), and its threads are listed later (line 109). If
another of its threads executes a program in between, the kernel gives it the
number of the first: one thread is listed, no number has been given out, and the
group is answered to be gone while it runs.

## 3. Runs

### The daemon's sessions

The `session_*` runs instantiate `MCDaemonSession`. `MaxViews = 2` allows a session to be
created and then restored or recreated once with a new root, or reopened on the
root it has with a new external root: two generations of the same key, which is
what a stale token, a stale metadata file or a left-over root can be confused
with. `MaxGen = 2` bounds only how often an unleased editor calls `mark_dirty`;
leases are granted at most as often as clients ask, and a client whose answer
was lost may ask again. The remaining counters follow from these two.

| Run | Instance | Shows |
|---|---|---|
| `session_faults` | 1 lease, all eight faults; ensure, acquire, attach, release, recover, flush, end, prune, list | type correctness, `NothingLost`, `ReleasedIsSaved`, `WritesValidMeta`, `PatchOnlyGrows`, `RemovedOnlyWhenSaved`, refinement of `SavedWork` |
| `session_recoverable` | 1 lease and an unleased editor; faults early, patch, sync, cleanup; mark_dirty; fairness | metadata can be acted on: `CleanHasPatch`, `DirtyHasUpper`; and `ShutdownEnds` |
| `session_leases` | 2 leases of 2 owners, symmetric, no I/O faults | `WriterRecorded`, `SavesAQuietView` through crashes, kills and take-over |
| `session_shared_owner` | 2 leases of 1 owner, symmetric | `OneWriter`, `RunsInItsView`: the lease, not the process, identifies the holder |
| `session_late_write` | 1 lease; fault late | the finding below |

The symmetry used swaps the leases together with their owners and is only used
for safety. Deadlock is checked in these runs: a stopped daemon can always be
started again, so no state is terminal.

*Fairness* (`FairSpec` in `session_recoverable`, needed by `ShutdownEnds` alone). `WF(HandlerStep)`: a handler
is a goroutine whose steps are bounded by the request timeout, and it does not
wait for clients. `SF(BeginClose)`: `closeSessions` blocks on the key's gate, a
Go channel that serves its waiting senders in the order they came, once the
drain, which is bounded by `daemonRequestTimeout`, is over. Releases that are
still accepted can take the gate before it any number of times, which is why
weak fairness is not enough, but cannot bar it for ever. Nothing is assumed of
clients, owners or commands: they may hold their lease for ever.

### The other modules

| Run | Instance | Shows |
|---|---|---|
| `gate_exclusion` | 2 keys, one of them with a session on disk, 2 requests of any kind but ensure, which does what acquire does up to the lease; 3 gates | `TypeOK`, `GateExclusive`, `ClosedForGood`, `QuietDrain`, `ListWaitsOnlyForNew` |
| `gate_progress` | 1 key, 2 requests of every kind, fairness | `RequestsEnd`, `ShutdownEnds` |
| `launch` | 2 clients, 3 servers of which one is started by hand, fairness | `TypeOK`, `Reachable`, `NoNeedlessSpawn`, `LaunchSucceeds`, `LaunchEnds` |
| `patch_file` | 2 processes, 1 reader, versions v1, v2 and one that is too large, 3 files | `TypeOK`, `ReadsWhole`, `AppliedIsValidated`, refinement of `PatchRegister` |
| `one_shot` | 2 runs on one patch, four combinations of options, fairness | `TypeOK`, `WorkKept`, `CleanExit`, `SourcesSafe`, `PatchAccumulates`, `RunEnds` |
| `view_patch` | `.gitignore` and one more path; two texts, a binary and a special file; a conversion and an ignore rule; 2 edits by the user and 2 by tools | `TypeOK`, `OnlyTools`, `Reproduces` |
| `group_scan` | the command's process, another one and one more number, two of them symmetric; 3 scans, 3 numbers given out | `NoWriterMissed` |

*Bounds.* `gate_exclusion` needs two keys for what only one key cannot show:
that the drain sees them one after the other, that list and prune go from one
gate to the next while closeSessions is at another. Two requests are enough for a
gate to be held and waited for, with the shutdown as a third party. One gate more
than there are keys lets a second gate for a key appear if the code made one.
Three servers let one serve, one drain and one start. Three files let a save
replace a replaced patch and fall back to either after a loss of power. Two edits
suffice to change a file and its ignore rule, or to stage and commit; two touches
to write a file and write it again, or write `.gitignore` and a file it ignores.
Three numbers given out can disturb each of the three scans, and three process
numbers let a child outlive its parents and the group's number be used again.
What the instances leave out is what the theorems cover: all the safety
properties of these modules are proved for every value of the constants.

*Deadlock.* `CHECK_DEADLOCK FALSE` in these runs: the daemon of `DaemonGate`
stops for good, launches, runs and
scans end, the files and edits are bounded.

*Fairness.* `DaemonGate`: requests and the shutdown go on (`WF`), since nothing
they do inside a gate waits for anyone; a Go channel serves its blocked senders
in order, and each is hence served though others come again and again (`SF(Take)`,
`SF(CloseTake)`); the drain's context expires in the end whatever the polls find
(`SF(DrainTimeout)`). Neither owners nor clients are assumed to do anything.
`DaemonLaunch`: processes run (`WF`), and the deadline of a wait passes
(`SF(WaitExpires)`) however often servers come and go meanwhile. `OneShotRun`: a
run takes its next step (`WF(Step)`), among which are neither the end of the
command nor the end of its process group; hence `RunEnds` starts where the command
has ended.

### Finding

README.md:131 promises that "Dirty sessions retain their upper layer". A
metadata write whose rename succeeds and whose directory sync fails reports an
error. In `acquireExecWithLease` the grant is then rolled back in memory
(daemon.go:1036-1052) while the file already says dirty. The session is idle and
clean as far as the daemon knows, so `closeSessions` neither saves it nor
rewrites its metadata, and the cleanup removes the session root. The file that remains says dirty and names a root that does not exist:
every later restore fails in `session.Open`, every recover fails likewise, and
the key is unusable until the file is removed by hand. No work is lost
(`NothingLost` holds under every fault); it is the recoverability that fails.
`session_late_write` shows the shortest such behaviour.

### Checked only in part

`CleanHasPatch` is checked without "unmask" and "late", and proved without
"unmask" alone: `finishBusyLocked`
replaces the patch without first recording a save in progress, as
`flushSessionLocked` does, and after a failed unmask and a failed metadata write
a crash can leave metadata that is clean with an older checksum. The restore is
then refused, and the work is in the patch. By the theorem no
behaviour without a failed unmask gets there.

## 4. Proofs

No proof assumes anything but the assumptions on the constants that the modules
name (`SessionAssumption`, `GateAssumption`, `LaunchAssumption`,
`PatchFileAssumption`, `RunAssumption`, `ViewAssumption`, `ScanAssumption`), which TLC evaluates.
Each theorem holds for every value of the constants, the bounds included.
Some results name one thing more in their statement: `CleanIsCurrent` and
`DirtyIsRetained` a fault that does not happen (each fails with it), `GateOfKey` the key it
speaks of, and the bounds `ScanIsBounded`, `RequestsAreBounded` and `ClosesInTurn` that
processes or keys are finitely many.

### DaemonSession

`DaemonSessionProofs` proves, for every set of leases and owners, every
`OwnerOf`, every set of faults and requests and every bound:

| Theorem | Property |
|---|---|
| `Invariance` | `Spec => []IInv` |
| `TypeCorrect`, `NoLoss`, `Exclusive`, `WritersRecorded`, `ReleaseSaves`, `MetadataValid`, `CommandKeepsItsView` | `TypeOK`, `NothingLost`, `OneWriter`, `WriterRecorded`, `ReleasedIsSaved`, `WritesValidMeta`, `RunsInItsView` |
| `SavesOnlyAdd`, `RemovalIsSafe`, `SavesAreQuiet` | the action properties `PatchOnlyGrows`, `RemovedOnlyWhenSaved`, `SavesAQuietView` |
| `Refinement` | `Spec => ImplementsSavedWork` |
| `CleanIsCurrent` | `CleanHasPatch`, whatever fails but unmounting masks (`"unmask" \notin Faults`) |
| `DirtyIsRetained` | `DirtyHasUpper`, whatever fails but the directory sync of a metadata write (`"late" \notin Faults`) |
| `RecordsNeverGoBack` | `RecordsGoForward`, which no run checks |
| `HandlersEnd` | every step of a handler lessens `StepsLeft`, which is at most 12 |
| `KeepsToTheGate` | `Spec => Gate!Spec`, the promise `KeyGate` |

*The invariant.* `NothingLost` is far from inductive: whether a save loses
something depends on what the live view holds, which depends on how it was
opened, which depends on what the metadata said. `IInv` adds

- `HandlerInv`, `StageInv`: what a handler has established when it stands at a
  stage (a save only starts when the lease holder is gone or has released);
- `SessionInv`, `MetaInv`: which fields of the session imply which, so that
  what is written is valid;
- `RecordInv`: an acquire works on metadata that is up to date, which is why
  the rollback of a grant restores a truth about the file;
- `DataInv`: the live view and the retained upper layer each contain the whole
  patch and all promised work, the reason why exporting either only adds;
- `WriterInv`: a holder, or a running command, is named in memory and in the
  file, at most one of them exists, and a lease answered as saved is no longer
  the session's.

*The argument.* `DaemonSessionSteps` first proves what the shared operators do
(`WriteMetaSteps`, `WritePatchSteps`, `GotoSteps`, `StoppedSteps`, ...), then
that every action preserves `IInv`, one lemma each, one step per conjunct.
`NextKeeps` combines them along the structure of `Next`; `Invariance` is the
temporal step. The state properties follow from `IInv`, the action properties
from `IInv` and the lemmas on patch replacement (`PatchSteps`) and removal
(`RemovalSteps`). The refinement shows that every step either commits a change,
saves, keeps, drops what is saved, or leaves `saved` and `kept` unchanged.

*What a later daemon can act on.* `CleanHasPatch` and `DirtyHasUpper` speak of the
file and the directories alone, but what they become depends on the handler: the
file is written from the session in memory. `CleanInv` adds that the
session agrees with its file wherever the handler stands before a clean write,
and that a patch that has been replaced is on its way into a file that is still
dirty; `DirtyInv` that a session whose file is dirty has its upper layer until
a clean file has been written. Their hypotheses are the two faults for which the
properties fail (the finding above, and "Checked only in part"); every other fault
may happen, more than the run `session_recoverable` can afford.

*Records go forward.* Of the numbers in the metadata, the generation that is saved
and the view's number never go back as long as there is a record, whatever writes
fail or take effect late and however often the daemon is restarted: a session in
memory is at least as recent as its record (`NumbersInv`), a restore takes over the
saved generation and opens the next view, and a write either leaves the record or
brings it up to the session. The generation of the view itself does go back, when a
grant that could not be recorded is rolled back after its write had taken effect.

*Handlers end.* `StepsLeft` counts the durable effects that are left for the
handler at its stage. That each step lessens it says that no
error path leads back to an earlier stage and no rollback is retried, so that a
request holds its gate for at most a dozen effects. With weak fairness of the
handler's steps this is why requests end; that part needs ENABLED and is left
to TLC (`ShutdownEnds`).

*The gate.* `DaemonSession` has one key and takes the gate in one step.
`KeyGate` says what that assumes: one request, release or shutdown inside at a time,
no request once the daemon closes, no shutdown before. `KeepsToTheGate` proves that
`DaemonSession` assumes no more than that, and `GateOfKey` of `DaemonGateProofs` that
every key of `DaemonGate`, with its map of channels, waiters and the two
checks of `closing`, provides it. What is not proved is that every behaviour that
`DaemonGate` allows at a key is one of `DaemonSession`, which the two
modules' different views of a handler do not express.

### The other modules

| Module | Theorems | Properties |
|---|---|---|
| `DaemonGateProofs` | `TypeCorrect`, `GatesExclude`, `ClosesForGood`, `DrainsQuietly`, `ListAnswers`, `GateOfKey`, `RequestsAreBounded`, `ClosesInTurn` | `TypeOK`, `GateExclusive`, `ClosedForGood`, `QuietDrain`, `ListWaitsOnlyForNew`; `Gate(k)!Spec` for every key and bounds on the steps of a request and of closing, which no run checks |
| `DaemonLaunchProofs` | `TypeCorrect`, `SocketLeadsToServer`, `SpawnsWhenNeeded`, `DaemonsAreAlone`, `LaunchesMoveOn` | `TypeOK`, `Reachable`, `NoNeedlessSpawn`; `OneDaemon` and `ClientsMoveOn`, which no run checks |
| `PatchFileProofs` | `TypeCorrect`, `WholeReads`, `AppliesSnapshot`, `Refinement` | `TypeOK`, `ReadsWhole`, `AppliedIsValidated`, `ImplementsRegister` |
| `ViewPatchProofs` | `TypeCorrect`, `WorktreeIsolated`, `PatchReproduces`, `IdleSavesKeep` | `TypeOK`, `OnlyTools`, `Reproduces`; `IdleSaves`, which no run checks |
| `OneShotRunProofs` | `TypeCorrect`, `KeepsWork`, `LeavesClean`, `RunsAddUp`, `DeletesNoSource`, `SavesItsOwn`, `RunsAreBounded` | `TypeOK`, `WorkKept`, `CleanExit`, `PatchAccumulates`, `SourcesSafe`; `SavesOwn` and a bound on a run's steps, which no run checks |
| `ExecGroupScanProofs` | `MissesNoWriter`, `ScanIsBounded` (and `TypeCorrect`, which no run checks) | `NoWriterMissed`; a bound on a scan's steps |

*DaemonGate.* Exclusion rests on two facts about the map (`MapInv`, `ReqInv`): a
key keeps its gate once it has one and no two keys share one, and whoever waits
for a key or is behind its gate has the channel that the map has for the key, so
that two requests behind the same key hold the same channel. `ClosedForGood` adds that after closing has been set
whoever is inside a gate without being a release got there before it, and that
a key in the registry, or with anyone at work on it, has a gate and was therefore
among the keys that closeSessions collected. `DrainsQuietly` adds what the drain
knows of a key it has polled without finding it pending: nobody but a release
enters after that, so it stays as it was seen (`DrainInv`). `ListAnswers` is that
a key in the registry always has a snapshot (`CacheInv`). For `GateOfKey`, whoever
is behind the gate of a key is alone there (`Alone`), and who comes in has passed
the check of `closing` that its kind makes. `RequestsAreBounded` and `ClosesInTurn`
need `Keys` to be finite: a visit of every key has the one at whose gate it is still
before it (`VisitInv`), and so ends after four steps for each key it collected
at the start, whatever is registered meanwhile; likewise closeSessions.

*DaemonLaunch.* serve.lock is held exactly by the server between taking it and
its end, so at most one is bound; only that one writes the socket's name, and it
does so before it counts as bound and after it has stopped accepting. For
`SpawnsWhenNeeded` the invariant adds `SawServing`: until something goes wrong in
its time, the servers a client saw when it got launch.lock go on serving, and
there were none when it spawns. `DaemonsAreAlone` is the part of it that the models of the
sessions rest on, and `LaunchesMoveOn` says that a client pings twice and spawns once at most.

*PatchFile.* A file that is behind the name, that may be behind it after a loss of
power, or that a reader holds, is whole and synced, and is never written again:
writes go only to a temporary file, which no one else has, and which gets the
name only after its fsync. The refinement maps every step to a change, an
acknowledgement, a loss of power or a stutter of `PatchRegister`.

*ViewPatch.* A patch that is saved has blocks only for paths that differ from the
pinned tree as git stores them. In worktree mode the lower layer stores as the
pinned tree does, and a path the tools have not touched is as it was opened, hence
not in the patch or already in the one applied. `PatchReproduces` compares the
saved blocks with the lower layer path by path; the conversions drop out because
`Storable` has refused what they would change. `IdleSavesKeep` is the converse: a
save of a view that is just what the patch makes of the pinned tree leaves the patch
as it was (`SaysTheSame`). The exceptions in its statement are needed: a block that the
pinned tree contains by now goes, and so does that of a new file which
is ignored by now, since ignored untracked files are not exported (README.md:176).

*OneShotRun.* The cleanup stack has to match what has been made. The release of
the patch's lock lies at the bottom of a run's stack and nowhere else (`Bottom`),
so a run holds the lock until everything else has been undone and its patch is
read and replaced without interference. Until a step of the cleanup fails, every
directory that is to go has its entry on the stack (`Tidy`); and a run that wrote
has its change in the patch, in its session root, or was told to keep neither
(`Work`). `SavesItsOwn` is the other side of `PatchAccumulates`: a save is made
by the run that holds the lock and adds that run's change or nothing (`ViewInv`).
`RunsAreBounded` counts what is left of a run (its stages, the entries on
its stack, its command's change and group): 28 steps at most, whatever fails, and
every step of any run takes one run nearer to its end and no other further away.

*ExecGroupScan.* As long as no number has been given out since the first reading,
a process that the scan has passed over can only have stopped: it had no running
thread, and nothing new can have appeared in it. So a member that runs is still
ahead of the scan, and when nothing is ahead there is none (`ScanInv`). Once gone
the group stays gone, since only its members make members, and its number names
another process only after that (`Led`). `ScanIsBounded` needs `Pids` to be finite,
as process numbers are, and counts the answers that are left: the code means never
to "spin indefinitely" on a group that keeps changing (daemon_exec_lifetime.go:67-69),
and indeed a question ends within `Scans * (3 * Cardinality(Pids) + 4) + 1`
steps of the scan, whatever processes do meanwhile.

### Only model-checked

The liveness properties `ShutdownEnds` (twice), `RequestsEnd`, `LaunchSucceeds`,
`LaunchEnds` and `RunEnds`, since the prover has no rules for fairness and ENABLED.
Their safety half is proved: handlers, requests, closing, launches, runs and the scan
take a bounded number of steps, and no step of others sets them back (`HandlersEnd`,
`RequestsAreBounded`, `ClosesInTurn`, `LaunchesMoveOn`, `RunsAreBounded`,
`ScanIsBounded`). What TLC adds is that they are not stuck before. Only the drain
has no such bound: it polls again as long as a mutation owner lives, until its deadline.

## 5. Not modelled

- *Owners that are not what they seem*: an owner recorded without its start time,
  an owner's number used again, and a zombie owner, which counts as alive.
- *The plugin's hooks* (`persona-wrap`) and their lease records: `DaemonSession`
  has clients that acquire, lose answers, retry and die. To be modelled as
  `PluginLease` over an abstract lease.
- *The retained base ref* (`RetainBase`), `daemon_base.go`: the pinned tree is
  given in `ViewPatch`, and base mismatches are not modelled in `DaemonSession`.
- *The syntax of patches* (`ValidatePatchReader` and its parsers): acceptance is
  a free choice in `PatchFile`, and patches are sets of blocks in `ViewPatch`. The
  code is sequential text processing, which its unit tests and fuzz tests cover.
- *Masks* of ignored files, `.git` and the patch, one by one; a patch file inside
  the repository; submodules; the modes "masked" and "readonly" of ignored files.
- *Command line, exit codes, diagnostics*: without state of their own.
- *Sizes*: the limit of 64 KiB on metadata and its ignored-file list; the patch's
  limit is in `PatchFile`.

## 6. Plan

1. `PluginLease`: the hooks release exactly the lease that was acquired.
2. `RetainBase`: the ref ends at one of the pinned commits and never moves under a
   session.
3. The masks as mounts of their own in `OneShotRun` and `DaemonSession`.
4. Owners with a start time that may be missing, in `DaemonSession`.
