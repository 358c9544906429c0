# The Longhorn instance manager in TLA+

A verification project for `longhorn-instance-manager`: TLA+ modules that model
the program, TLC runs that check them on small instances, and theorems that
TLAPS proves for every instance.  `PROJECT.json` maps every definition that
models code to the lines it stands for; paths below are relative to `src/`.

## 1. Inventory

The instance manager is one Go program per node of a Longhorn cluster.  It
serves up to five gRPC services in one process (`app/cmd/start.go`).

| Component | Code | State it keeps | Operations |
|---|---|---|---|
| Port bitmap | `vendor/.../bitmap/bitmap.go` | free positions, a cursor | `AllocateRange`, `ReleaseRange` |
| Process | `pkg/process/process.go`, `command.go`, `healthchecker.go` | `State`, `DeletionTimestamp`, ports, log file, command; three kinds of goroutines | `Start`, `StopWithSignal` |
| Process manager | `pkg/process/process_manager.go` | map of processes, port bitmap, update channel | `ProcessCreate`, `Delete`, `Replace`, `Get`, `List`, `Watch`, `Log`; monitor; mount point check |
| Broadcaster | `pkg/util/broadcaster` | subscribers and their channels | `Subscribe`, `unsub`, `stream` |
| Instance service | `pkg/instance` | none; clients per call | instance calls by data engine, `InstanceWatch`, log level and flags |
| Proxy service | `pkg/proxy` | none but the environment of the program; clients per call | volume, snapshot, replica, backup, backing image and metrics calls |
| Disk service | `pkg/disk` | an SPDK client | disk calls, forwarded to SPDK |
| Start and shutdown | `app/cmd/start.go` | server group, signal channel | `start`, `cleanup` |
| Log streaming | `pkg/util/log.go` | a goroutine per reader | `StreamLog`, used by `ProcessLog` |
| Health probes | `pkg/health` | none; a handler per watcher that never returns | `Check`, `Watch`, `List` |
| Clients | `pkg/client` | a connection | one method per RPC: check parameters, set a deadline, call, convert |
| Command line | `app/cmd/process.go`, `version.go` | none | five process commands, `version` |
| API types, utilities | `pkg/api`, `pkg/util`, `pkg/types` | none | conversions, TLS, running a program with a timeout |

How they interact: the instance service is a gRPC client of the process
manager and of SPDK; the proxy is a client of the engines that the process
manager runs.  Inside the process manager every goroutine of a process sends
updates over one unbuffered channel to the monitor, which takes the manager's
lock and feeds the broadcaster, whose subscribers are the `ProcessWatch` calls,
one of which every `InstanceWatch` call holds.  `cleanup` calls the process
manager directly.

What is hard, and what correctness means:

* *Process and process manager.*  A create, a delete, a replace, the runner,
  the prober, the stoppers and the unregister goroutines all write the same
  object, partly without a lock, and look at it again after they gave the lock
  up.  Correct: a recorded end is an end; ports are neither lost nor shared; an
  operating-system process belongs to a registered process; log files get
  closed; watchers end up with the true state; every handler returns although
  senders, the monitor and the lock form a cycle (issue 2697).
* *Port bitmap.*  A hand-written search with a cursor and two passes.  Correct:
  it is an allocator, avoids quick reuse, and fails only for want of room.
* *Broadcaster and watch calls.*  Slow consumers, several parties that close the
  same channel, goroutines that must end together.  Correct: no double close,
  no send on a closed channel, no silent gap, no call that outlives its group.
* *Instance, proxy and disk services.*  Many calls of one form, each with a
  dozen error exits, and loops over replicas that must survive a dead replica.
  Correct: no leaked connection, success means done, absence means absence.
* *Backup calls.*  Credentials travel through the environment of the program.
  Correct: all or nothing, and a call sees its own credentials.
* *Log streaming.*  A scanner, a handler and a reader, tied by two channels
  without buffer and a stream.  Correct: the log arrives whole and in order,
  and the three never wait for each other while the log is read.
* *Clients.*  The client's deadline may pass while its handler works, and errors
  hide in replies.  Correct: what it reports as done is done.
* *Start and shutdown.*  The end of one server ends all; `cleanup` races calls
  that are still being handled.

The hazards, each at its line with the properties that cover it, are in
`PROJECT.json`.

## 2. Modules

| Module | Models | Composition |
|---|---|---|
| `PortAllocator` | what the manager needs of its allocator (abstract) | refined by `PortBitmap` and by `ProcessManager` |
| `PortBitmap` | the search of `AllocateRange`, one action per loop iteration; `ReleaseRange` | |
| `Process` | one `Process` object: runner, prober, stoppers, the process of the operating system | actions without a `Next` |
| `ProcessManager` | the handlers step by step, unregister goroutines, monitor, mount point check | composes `Process`, refines `PortAllocator` |
| `Broadcaster` | `Subscribe`, `unsub`, `stream` and a `ProcessWatch` consumer | |
| `InstanceWatch` | one `InstanceWatch` or `SPDKBackingImageWatch` call and all its goroutines | |
| `Shutdown` | set-up, server group, signals, `cleanup`, and clients of the process manager | |
| `Steps` | the kinds of steps a handler takes | |
| `ProxyCalls`, `InstanceCalls` | each handler as a script of steps | |
| `ReplicaScan` | the five loops over the replicas of an engine | |
| `ClientCalls` | each client method by its checks and whether it has a deadline; the commands as scripts | |
| `LogStream` | `StreamLog`, `ProcessLog` and the reader of a log | |
| `Services` | clients, requests, failures, deadlines, environment: runs the scripts, the loops and the log | composes the six above |

`MC*` modules fix constants and symmetry; `*Proofs` modules hold the theorems
(section 4).  A definition called `X_Something`
is a plausible wrong version of `X`; `PROJECT.json` says which property it
breaks, and no specification uses it.

### Correspondence with the code

**PortBitmap.**  `data` and `start` are the fields of `Bitmap`; `iter`,
`bStart`, `last`, `remains` are the locals of `findAt`; `pc # "idle"` is
`Bitmap.lock`.  `AllocateRange` starts the first pass at the cursor; `FindFirst`,
`FindAdjacent`, `FindGap` are the branches of one iteration, `FindExhausted` the
end of the iterator, `NotFound` the change to the second pass or the failure,
`Commit` the removal of the block and the new cursor.  The roaring bitmap is a
set.  The loop condition `bStart <= b.size` always holds (`bStart` is the cursor,
zero or a free position, and none of them exceeds the size), so the model has
no such guard.
The test for a gap takes the element behind the gap out of the iterator, and
the next candidate begins with the element after it; as a result a free block
that fits exactly can be missed.  The model does that too, and
`FailsOnlyWhenFragmented` says precisely how much can be missed.

**Process.**  `state`, `delTS`, `ports`, `logger`, `cmd` are the fields of the
object; `runner`, `prober` and `stoppers` are program counters, the last one a
count per position because stopper goroutines of one process are
indistinguishable.  Every section under `Process.lock` is one action.  The
stopper's test and write of `State` outside of the lock (`process.go:196-197`)
are two.  An update is sent over an unbuffered channel: `Send` is enabled only
while the monitor is not busy.  Time is abstracted: `MinutePassed` holds when
the world around the process has misbehaved in a way that makes the minute's
wait run out (`Faults`; one of these is a probe program that hangs, which
`ExecuteWithTimeout` turns into a success: `ProbeTimesOut`), and `DeletionExpires` lets a deletion grow older than a
minute.  The prober asks a port: `PortAnswers` lets *any* live process with that
port answer, as in the code.

Twice, two steps of the code are one action.  `SpawnStopper` delivers the update
and reads the command for the stopper: `cmd` is assigned once, by `Start`, and a
`Start` in between does what one before the send would have done.  `CmdExit` is
the end of the process together with the wait of `cmd.Run`, which sets the
`ProcessState` that `IsRunning` looks at: before that the process counts as live
for everybody.

**ProcessManager.**  A handler is a caller thread with a program counter; a
section under `Manager.lock` is one action; the last section of
`ProcessReplace` is split in two, so that others can be found waiting for the
lock.  `processes`, `free` (the bitmap through its abstract specification),
`unreg` (unregister goroutines, counted per position; the two reads of `State`
in `unregisterProcess` are two actions, `UnregStopped` and `UnregCheck`, and a
goroutine whose second read takes back the first ends as `lost`) and `resp`/`recv` (the
monitor between its receive and its broadcast) are the state.  `ProcessGet` and
`ProcessList` change nothing and have no action.  The half
minute for which `ProcessReplace` polls its replacement is treated like the minutes
of the other waits (`MinutePassed`): which of them ends first is left open.

**Broadcaster, InstanceWatch, Shutdown.**  One action per critical section,
channel operation or return: the deferred send of `handleNotify`'s goroutine on
`done` and the cancellation of the group by its return are two.  In
`InstanceWatch` a stream may still deliver an item after its client has been
closed.  The watchers of the instance
service use `context.Background()` for their streams, so that only the closing
of the clients ends a pending `Recv`; the watcher of backing images uses the
group's context, and its `Recv` also ends with that (`StreamCanceled`).
`Shutdown` sees a process as its entry in the manager's map (`procs`);
processes that do not end within the minute are chosen initially (`stubborn`);
`late` remembers which were registered behind `cleanup`'s list; `watch` is a
server with a handler of a health `Watch`, which never returns and for which
`Stop` does not wait.  What is left
then is killed by `Pdeathsig`.

**Services.**  The handlers of the three services are some sixty functions of
the same form; a module of actions for each would be a transliteration.  They
are scripts: sequences of steps from `Steps` (open a client and defer its
`Close`, call, call and only log an error, call and keep the error for the end,
refuse, loop over replicas), one script for each course the contents of a
request can lead to, and `Services` has one action per kind of step and per way
it can fail.  Request and response contents are left out where no decision
depends on them.  The loops over replicas, whose decisions are interesting, are
actions of their own in `ReplicaScan`.  The environment is `env`, with the
author of each value; `setEnv` and the reads of `GetBackupCredential` (external,
in the backupstore library) are a step per key.

A request comes from a method of `ClientCalls`, which refuses it
(`ClientRefuses`) or sends it, or from a client of another kind (data engine
"other").  There is no telling how long the calls of a handler take, so `GiveUp`
lets the client's deadline pass at any time.  The handler works on when its
client has gone: most of its calls have contexts of their own, and the client of
a task is closed.  Calls over the request's own context (`EngineFrontendExpand`)
then fail; the model lets them fail or not.  A request for a v2 engine
frontend may come without its name (`nameless`), as far as the client lets it
pass; SPDK's client (external) refuses it.  `CallerHears` is what all this looks
like to the caller.

**LogStream.**  One action per channel or stream operation.  A line fits into
the buffer of the scanner or not, the file grows while it is read, the stream
has room for `Window` lines, the connection may break.  `producer`, `consumer`
and `reader` are program counters.  The goroutines of a log live on when the
request is over (`ContextDone` leaves `log` alone), until another log begins,
with which they share nothing.  A reader that leaves can leave the other two
waiting for ever, the file open (`tell` against `send`, or against `done`): the
code's behaviour, which `LogNeverStuck` names (`LogWedged`) as the only way in
which a log can stand still.

## 3. Runs

| Run | Checks | Shows |
|---|---|---|
| `port_bitmap` | `TypeOK`, `NoPortLostOrShared`, `ImplementsAllocator`, `FailsOnlyWhenFragmented`, `NoQuickReuse`, `CallReturns` | the search implements the allocator, avoids quick reuse, fails only on fragmentation, and ends |
| `process_lifecycle` | `TypeOK`, `WatchersUpToDate`, `NoLoggerLeak`, `StoppedIsDead` | one process, two callers that create and delete it, all faults |
| `replace` | `PortsConserved`, `NoPortClash`, `NoCircularWait`, `UsesAllocator` | two replaces of one process, and a replace against a delete and a re-created process, where the binary may be missing: ports come back once and are shared only with a process told to stop, nobody waits in a circle |
| `live` | `HandlersReturn`, `StopCompletes` | create, delete and replace return (the deadlock of issue 2697 is gone), and a stop of a starting or a running process ends |
| `orphan` (violation) | `LiveIsOwned` | finding 1 below |
| `delete_lost` (violation) | `DeleteDeletes` | finding 3 below |
| `broadcaster` | `TypeOK`, `CloseOnce`, `NoSilentGap`, `GapIsReported` | subscribers that lag, leave and get dropped |
| `instance_watch` | `TypeOK`, `NoSendOnClosedChan`, `GroupEnds`, `BrokenStreamEndsCall` | the watch call and its goroutines end together, while `notifyChan` has room |
| `instance_watch_full` (violation) | `GroupEnds` | finding 2 below |
| `shutdown` | `TypeOK`, `NoneForgotten`, `OneEndsAll` | one end ends all, even with a handler that never returns; `cleanup` misses only what came after its list |
| `services` | `TypeOK`, `NoClientLeak`, `OKMeansDone`, `NoPartialEnv`, `OwnCredentials`, `AbsenceIsCertain`, `StatusIsComplete`, `NoReplicaSkipped`, `OKMeansNamed`, `LogIsComplete`, `LogNeverStuck` | all client methods, commands and handlers of the proxy, instance and disk services with every step failing and clients that give up; logs while they are written, and what readers leave behind |
| `purge_error_lost` (violation) | `PurgeIsDone` | finding 4 below |

`StoppedIsDead` and `NoPortClash` are about processes that nobody has asked to
stop (`Unasked`: no `DeletionTimestamp`).  One that has been asked is no
exception by accident: asked before it is forked it is recorded as stopped and
may be forked afterwards (finding 1), and `ProcessReplace` releases the ports of
the old process without waiting for its end.  Stronger forms, which runs with
two process objects did not refute, failed in the proof: they are false with
three.

### Findings

1. `orphan`: a `ProcessDelete` that comes between `registerProcess` and `Start`
   of the create finds no command yet, records the process as stopped and
   unregisters it with its ports; `Start` then forks it.  It runs, and nobody
   can name it any more.
2. `instance_watch_full`: a watcher blocked on the full `notifyChan` is not in
   `Recv` and does not look at the context; when `handleNotify` has gone, the
   call and its goroutines stay for ever.
3. `delete_lost`: `unregisterProcess` reads twice that the process has stopped.
   A prober that found the port answering before the end was recorded may set
   `State` to running between the two reads; the goroutine gives up, and the dead
   process stays in the map, with its ports, as one that runs.  No fault of the
   world is needed, only a delete soon after the create.
4. `purge_error_lost`: the v2 `SnapshotPurge` assigns the error of the call that
   does the work and returns nil.  `OKMeansDone` sets this one call apart
   (`Swallowed`) and holds of all the others.

`WatchersUpToDate` exempts the processes of finding 3: a stopper may still mark
such a process stopped, and it sends no update, which is right only for a process
that somebody takes out of the map.

### Bounds, and why they are enough

* *Port bitmap*: six ports, three clients, blocks of up to three.  Blocks meet,
  gaps of every size appear before and behind the cursor, the cursor wraps.
  What the run says of six ports the theorems say of all ranges.
* *Process manager*: one to three process objects of one name, so that they
  compete for it; one or two callers; one port per object.  A race for a name
  has two parties; the third object exists in `replace`, where two replacements
  race for one old process, or a replacement meets the process that was created
  after a delete.  There all blocks have one port and are interchangeable, so
  that it is enough to hand out the lowest one (`LowestPort`, an action
  constraint that serves as the symmetry over ports, which are numbers).
  `Faults` says what may go wrong in the world around a process,
  `DeleteWhen`/`ReplaceWhen` in which states clients ask (they restrict clients,
  not the manager), `Watched` whose events are remembered, `MaxStoppers` and
  `MaxUnreg` how many goroutines of a kind one process has (one whose delete was
  lost still counts).  Two stoppers are enough for the second stop that kills.
  TLC keeps the whole behaviour graph for liveness, so `live` has one caller, one
  stopper per process and the faults that lengthen a handler or a stop
  (`nobinary`, `nostop`).  The other faults are in `process_lifecycle`; that a
  replacement does not answer, crashes or cannot be forked, and that a process is
  deleted in any other state while it is replaced, is left to the theorems, which
  hold for every value of these constants.
* *Broadcaster*: two subscribers, channels of two items, five items: a
  subscriber falls behind, loses an item, and receives later ones meanwhile.
* *InstanceWatch*: a group of three (process, engine, replica; the other SPDK
  watchers are copies) and the group of the backing image watcher; the
  retry limit is 2.  `MaxItems = ChanCap` in `instance_watch`, hence "while
  there is room"; `instance_watch_full` has more items than room.
* *Shutdown*: the process manager's server, one ordinary server and the one
  that depends on `spdk-enabled`; the other two are like `disk`.  Two
  processes.  Somebody may watch the health of the process manager's server
  (`Watchable`); a watched server of another kind would do the same.
* *Services*: two threads, two keys of the allowlist and one that is not in it,
  requests without entries, with both keys, and with the forbidden key behind
  an allowed one; three replicas; at most two snapshot names
  per request.  Handlers other than the two backup calls share no state, so
  they run one at a time, before the first backup call has touched the
  environment; the backup calls interleave step by step.  For the same reason
  no request but another log begins while the remains of a log are looked at.  A
  log has up to three lines and the stream room for one: the consumer waits for
  the reader and the producer for the consumer, each with a line in hand.

`CHECK_DEADLOCK FALSE` is set where the system may stop: a broadcaster whose
input is closed or whose items are used up, a watch call that has returned, a
program that has ended.

### Fairness

Go schedules every runnable goroutine: weak fairness for steps that stay
enabled.  A sender blocked on an unbuffered channel and a thread blocked on a
mutex are served in order, although the condition they wait for comes and
goes: strong fairness for those steps of `ProcessManager`.  A killed process
exits.  Nothing is assumed of clients, of signals, of items on a stream, of
processes that were not killed, or of consumers of a subscription.  In
`Shutdown`, `Serve` returns after `Stop`, and a process that is not stubborn is
unregistered.

## 4. Proofs

Eight modules hold the proofs.  Each theorem holds for every value of the
constants under the assumptions named in the module that declares them; TLC
evaluates these on the instances of the runs.  In every module `Inv` is the
inductive invariant; it was checked with TLC before it was proved.

| Module | Theorem | States |
|---|---|---|
| `PortBitmapProofs` | `TypeCorrect` | `[]TypeOK` |
| | `Conservation` | `[]NoPortLostOrShared` |
| | `Refinement` | `ImplementsAllocator` |
| | `FailureMeansFragmented` | `FailsOnlyWhenFragmented` |
| | `ReuseIsLastResort` | `NoQuickReuse` |
| | `SearchTerminates` | `LoopsDecrease` and its bound, stated there |
| `ProcessManagerProofs` | `TypeCorrect` | `[]TypeOK` |
| | `NoPortLostOrShared` | `[]PortsConserved` |
| | `AllocatorUse` | `UsesAllocator` |
| `ProcessStopProofs` | `EndedMeansDead` | `[]StoppedIsDead` |
| | `LivePortsDisjoint` | `[]NoPortClash` |
| | `LogFilesGetClosed` | `[]NoLoggerLeak` |
| | `NobodyWaitsInACircle` | `[]NoCircularWait` |
| | `LockAndMonitorMove` | `[]LockAndChannelMove`, stated there |
| | `StopsAreFinished` | `[]StopsInHand`, stated there |
| | `NobodyIsForgotten` | `[]OrphansWereAsked`, stated there |
| `ProcessWatchProofs` | `WatchersSeeTheTruth` | `[]WatchersUpToDate` |
| `BroadcasterProofs` | `TypeCorrect` | `[]TypeOK` |
| | `NoDoubleClose` | `[]CloseOnce` |
| | `NoGapUnreported` | `[]NoSilentGap` |
| | `DeliveredInOrder` | `[]InOrder`, stated there |
| | `GapsAreTold` | `[](Served /\ GapInHand)`, stated there |
| `InstanceWatchProofs` | `TypeCorrect` | `[]TypeOK` |
| | `NoLatePush` | `[]NoSendOnClosedChan` |
| | `ClientsGetClosed` | `[]DoneIsReceived`, stated there |
| | `OnlyAFullChannelHangs` | `[]CanceledGoesOn`, stated there |
| | `WatchersWindUp` | `NoWatcherGoesBack`, stated there |
| | `RetriesRunOut` | `[]BrokenTries`, `RetriesDecrease`, stated there |
| `ShutdownProofs` | `TypeCorrect` | `[]TypeOK` |
| | `CleanupForgetsNobody` | `[]NoneForgotten` |
| | `MonitorOutlivesCleanup` | `[]CleanupHasMonitor`, stated there |
| | `EndNeverLost`, `EndNeverStuck` | `EndIsNotLost`, `[]EndGoesOn`, stated there |
| `ServicesProofs` | `TypeCorrect` | `[]TypeOK` |
| | `EveryClientClosed`, `SuccessMeansDone` | `[]NoClientLeak`, `[]OKMeansDone` |
| | `SuccessMeansNamed` | `[]OKMeansNamed` |
| | `EnvAllOrNothing`, `BackupGetsItsOwn` | `[]NoPartialEnv`, `[]OwnCredentials` |
| | `AbsenceIsNeverGuessed`, `NoStatusMissing`, `EveryReplicaAsked` | `[]AbsenceIsCertain`, `[]StatusIsComplete`, `[]NoReplicaSkipped` |
| | `LogsAreComplete`, `LogsGoOn` | `[]LogIsComplete`, `[]LogNeverStuck` |

Liveness is beyond the prover, but not what it rests on.  For each temporal
property of the runs a theorem states a safety part of it: somebody can always go on,
with the guards of the steps written out (`LogCanGoOn`, `HandlerReady`,
`GroupReady`, `EndGoesOn`) instead of `ENABLED`, and where there is a loop every
step makes a number smaller (`LoopsLeft`, `StepsLeft`, `RetriesLeft`).

| Checked by TLC | Its safety part, proved |
|---|---|
| `CallReturns` | `SearchTerminates` |
| `HandlersReturn` | `NobodyWaitsInACircle` |
| `StopCompletes` | `StopsAreFinished` |
| `GapIsReported` | `NoGapUnreported`, `GapsAreTold` |
| `GroupEnds` | `OnlyAFullChannelHangs`, `WatchersWindUp` |
| `BrokenStreamEndsCall` | `RetriesRunOut` |
| `OneEndsAll` | `EndNeverLost`, `EndNeverStuck` |

### Port bitmap

Assumptions: the range is not empty and lies in the positive numbers, the
bound on a block is positive, the null client is no client.

None of the properties is inductive.  `Inv` adds to `TypeOK` how bitmap
and blocks are related (`SpansOrdered`, `SpansTaken`, `SpansDisjoint`,
`NothingLost`), and `Candidate`, the loop invariant of `findAt`: the candidate
`bStart..last` consists of free positions, is as long as `count - remains`, and
ends right before the iterator.  `Candidate` makes `Commit` take a block that is
free, from which conservation and the refinement follow: search steps stutter,
`Commit` is `Take`, `ReleaseRange` is `Give`.

`SearchInv` says what a search has left behind it.  `Skipped`: a free run one
position longer than the block asked for, in the part the pass looks at, begins
at most one position before the candidate (or before the iterator, when there is
no candidate).  `Single`: a search for one port has skipped nothing as long as it
runs.  `Forward`: the first pass stays
above the cursor.  `FirstPass`: during the second pass no sure run is above the
cursor.  When the second pass ends, no sure run is anywhere.

`LoopsLeft` counts the iterations a call has left at most: what is ahead of the
iterator, and in the first pass all of the second.  Every step while the lock is
held makes it smaller, the restart behind a gap too, since the iterator never
goes back, and the second pass, since it is not followed by a third.

The least-element fact about the iterator (`NatMin`, `NextOfLeast`) comes from
the well-foundedness of the natural numbers.

### Process manager

Three modules, each on top of the one before.  The assumptions: the null process
and the null caller are none, the faults and the states in which clients ask are
among those named, names and their engines are typed, there are finitely many
callers (requests in progress), the bounds on goroutines are positive, the port
range is positive and not empty, a request asks for a natural number of ports.

`ProcessManagerProofs` proves the types and what they rest on: the counts of
stoppers and unregister goroutines stay within their bounds, and `Links`.
`MapOK`: what is registered under a name has been constructed with that name.
`HandlersOK`: the process a handler works on has been constructed.
`ReplacesOK`: a replacement is not registered yet, no other handler knows it, and
the process it replaces has been constructed.

Its second part ties a block of ports to its owner.  A process `Owns` its
ports while it is registered, or while a replace handler holds it between its
allocation and the commit or the clean-up.  A block is released
by an unregister goroutine, by the commit of a replace (the block of the old
process) or by a replace that drops its replacement, and in each case, thanks to
`Links`, by its owner, who is no owner any more: so the owners' blocks and the
free ports partition the range.  `AllocatorUse` is the refinement:
a construction is `Take`, a release is `Give`, every other step stutters.

`ProcessStopProofs` calls a process harmless when somebody has asked it to stop,
or when it neither runs nor will: there is no command to fork and no handler
before its `Start`.  Harmless is stable, and nothing on the way to the
release of a port is reached by a process that is not: `StopsOK` lists the
places (a recorded end, an unregister goroutine, a handler behind its
`StopWithSignal`).  `StoppedIsDead` follows at once; `NoPortClash` because an
owner shares no port with another, and who runs unasked is an owner.

`NoLoggerLeak` needs `LogsOK`: a log file that is open belongs to an owned process
or to one that has been asked to stop (`UnownedTold`), and the open file of a
process that has been asked has a stopper, running or about to be spawned, that
will close it (`ClosersOK`).  Who stands behind a `StopWithSignal`, a handler or an
unregister goroutine, has a process that has been asked or whose file is closed
(`TellersOK`, `UnregTold`), and this is stable.

`NoCircularWait` needs two facts.  `LockOK`: the manager's lock is held from one step to
the next by the last section of a replace only, which sends nothing, so that
its holder can always go on; the monitor waits for nobody else
(`LockAndChannelMove`, which serves the goroutines of processes and those that
unregister as well as the handlers).  `PollsOK`: the
prober of a replacement that is polled and still starting is at work
(`StartingStays`: only a constructor makes a process starting).  The exception in
`NoCircularWait` is the bound of the model on stoppers, not the code.

`StopsInHand`: a process that is recorded as stopping has somebody who finishes
the stop.  It is inductive together with the invariants above: who
records `stopping` is on the way to spawn a stopper (`StopLockedInHand`); a
stopper that finds the command ended, or never made, records the end itself; one
that waits or has killed leaves a live process with a runner that will see it exit.

`OrphansWereAsked` bounds finding 1.  That every live process is owned is false;
that every one which is not has been asked to stop follows from `StopsOK`.

`ProcessWatchProofs`: `WatchOK` says of a registered process that its watchers
have heard of its `State` or the monitor is about to tell them (`Informed`), or
that somebody has still to send an update (`Sending`), or that the process is
stopped and somebody will take it out of the map or has lost its delete
(`Removal`).  Every step that
changes a `State` leaves its process with a sender, but one: a stopper
goroutine marks the process stopped and sends nothing.  That the watchers of a
process that stays do not miss this takes three more facts.  `Known`: the stoppers
of a process that is registered, or will be, and that nobody removes come from its
prober; one that marks has found the command ended, so the runner has recorded the
end or will, and sends.  `ProbeEnd`: a prober that is still at work when the runner has
recorded the end finds it recorded.  `OldsOK`: the process a replacement replaces has its name and is no
replacement itself, so that the commit removes it.  (A removed process is
announced by its unregister goroutine or by its replacement; what events about
a deleted process say is not covered.)

### Broadcaster

`Inv` is `TypeOK`, `Fresh` (a channel that has not been handed out is untouched:
nothing in it, not closed, not unsubscribed), `SinceItem` (nobody has subscribed
after an item that is still to come), `CloseOnce`, `NoSilentGap` and `InOrder`.
`NoSilentGap` is carried by the step of `stream` that marks a subscriber in the
same loop in which its channel was full.  `GapInHand` also covers the subscribers
that `subs` does not hold any more: `Served` says that nobody leaves `subs` but
with its channel closed, and that whoever is in `subs` has a stream goroutine.

### Watch calls

`Inv` is `TypeOK`, `Retrying` (a watcher's retry counter stays below the limit
while it retries), `ClosedAfterAll` (the channel is closed only when all members
of the group have ended), `Stages` (where the handler stands, against the group
and the goroutine that closes the clients) and `NoSendOnClosedChan`.

`CanceledGoesOn` follows from `Stages`: when `handleNotify` has ended the closer
has been told, so the clients are or will be closed and no watcher stays in
`Recv`.  What is left is a watcher that sends on a full channel: finding 2, and by
this theorem nothing else, keeps a canceled call alive.  `StepsLeft` is three for a
watcher in `Recv`, which may still deliver what it was waiting for, and decreases
from the cancellation on.  `BrokenTries` is
inductive with `Inv`: the stream of a watcher that has failed delivers nothing any
more, so the watcher never gets to its send, and each turn costs a retry.

### Start and shutdown

`Stages` relates the servers, the group's context and the position of `cleanup`;
`Accounted` says of every registered process that it is stubborn, late, on
`cleanup`'s list or being deleted.  The list is taken in one section under the
manager's lock, and what is registered behind it is late: that is all the step
needs.

`EndGoesOn` needs `EndInv`.  `GroupStages`: the signal goroutine stops servers until all
that run are stopped, and only the process manager's server cleans up.  `Told`: a server
that has ended has left a signal in the channel, or one that was there has been
taken.  When nobody else can go on, the signal goroutine has ended, so all
servers are stopped, those that serve return, and all of them have ended.

### Services

The assumptions: finitely many keys, the forbidden one is none of them, a
request's entries are a sequence over both, replicas are numbers, a natural
length of logs and a window of at least one line.

`Inv` has six parts.

* `CallsOK`: what every request in progress may look like.  The steps that are
  left of its script are in form (`StepOK`, shown of every script of every
  handler and command); a client that is open is one it will close (`OpenOK`); a
  failure that is not among those its handler may ignore, or drops in the case of
  finding 4, is not forgotten before the reply (`FailedOK`); `NamelessOK` says the
  same of a missing name.  `NoClientLeak`, `OKMeansDone` and `OKMeansNamed` follow.
* `EnvOK`: the environment is typed and `NoPartialEnv` holds.
* `CredentialsOK`: while a backup call runs alone nobody else serves
  (`Exclusive`); what it has read is its own, and a key it has still to read is
  its own already, or it will set it or refuse first (`Own`).
* `ScanInv`: what a loop over the replicas has collected is a function of what
  it has heard; who has not been asked is still to be asked.
* `LogInv`: what the reader has heard, what is in the stream and what
  consumer and producer have in their hands are together what has been read of
  the file, in this order; and a consumer whose connection is up is still at work
  or has said how the log ended (`EndIsTrue`).
* `Joined`: who takes part in a log.  A reader that has failed or left has no
  connection any more, and a consumer that has returned an error has left no
  producer at work.  With `LogInv` this gives `LogNeverStuck`: going through the
  positions of the three, whoever cannot move waits for one who can, until the
  reader has gone, and what then waits for ever is a consumer that has to report
  a failed `Send` to a producer that sends or has ended.

*Only model-checked*: all liveness (`CallReturns`, `HandlersReturn`,
`StopCompletes`, `GapIsReported`, `GroupEnds`, `BrokenStreamEndsCall`,
`OneEndsAll`), which is beyond the prover, as are fairness and `ENABLED`; the
table above says which part of each is proved.

## 5. Not modelled

* API types and most utilities: conversions, and the set-up of TLS, connections
  and listeners.  They keep no state, and nothing in their order can go wrong
  that a test would not see.
* Contents of requests and responses, TLS, the pprof server, wording of logs.
* What becomes of the goroutines of a log once the next log begins: the two
  share nothing.
* How long calls take.  A client's deadline may pass at any time; that the six
  minutes of the proxy's client are twice those of an engine call is not used.
* A failure of `json.Marshal` in `BackupRestore`: it cannot fail on the errors that
  come there.
* SIGTERM before `signal.Notify`: the program dies by the default action.
* Disk calls while SPDK is disabled: the block operations then have no client.
* Two backup calls that overlap can get each other's credentials.  The model
  has this behaviour; `OwnCredentials` is about calls that do not overlap,
  since the repository promises nothing about the others.

## 6. Plan

Done: the modules and runs above, in this order: port bitmap with its proofs,
process and process manager, broadcaster, watch calls, shutdown, services, then
logs, clients, commands and health probes.

Of the model, one composition is left: `ProcessWatch` between `Broadcaster` and
`InstanceWatch`, each of which is checked alone.

Proved: every safety invariant and action property of the runs that pass, and
both refinements; of the temporal properties, the safety parts named in
section 4.
