# Quine in TLA+

Quine is a harness for a web app that edits itself: a protected *kernel* (Python, one asyncio
event loop) keeps a git repository of versions of an editable *app*, lets an agent propose
changes to it, starts each candidate beside the running app, health-checks it, and only then
routes traffic to it. A small *firmware* (`bootstrap/`) does the same to the kernel itself.

This directory holds the models of that machinery, the TLC instances that check them and
the TLAPS proofs about them. Paths below are relative to the repository's root.

| module | what it is |
|---|---|
| `Promotion.tla` | the blue-green reboot, the requests that end in it, the live watchdog, `boot()` |
| `UndoStack.tla` | abstract specification: what "undo one step" promises |
| `PromotionProofs.tla` | proofs about `Promotion`: its safety, the active line, the refinement of `UndoStack` |
| `TaskQueue.tla` | the durable queue of tasks, its drainer, cancel, steer, dequeue, resume at boot |
| `TaskQueueProofs.tla` | proofs about the queue, its drainer, cancel and steer |
| `KernelUpdate.tla` | the kernel's own update, and the firmware that swaps, gates and restores it |
| `KernelUpdateProofs.tla` | proofs about which kernels ever run and what is said of them |
| `Triggers.tla` | the store of triggers and what requests and fires make of it (operators only) |
| `Autonomy.tla` | the kernel's clock, the changes it files and ships or holds, the Advisor plugin |
| `AutonomyProofs.tla` | proofs about unattended changes, the daily cap and the one-shots |
| `SelfModifyView.tla` | the Self-Modify tab in front of the event stream of the tasks |
| `SelfModifyViewProofs.tla` | proofs about its types, its trace and what it shows once all is quiet |
| `RunView.tla` | the Run tab and the run hub of the app |
| `RunViewProofs.tla` | proofs about the one driver, what is on screen, and that it agrees with the hub once all is quiet |
| `VersionsView.tla` | the Versions tab, its graph and `App`, in front of the history |
| `VersionsViewProofs.tla` | proofs about its types and what it lists |
| `AutomationView.tla` | the settings panels of three tabs, in front of settings, triggers and proposals |
| `AutomationViewProofs.tla` | proofs about its types, the self-healing switch and what its panels show |
| `MC*.tla` | instances for TLC |

Each `*Proofs` module extends the module it is named after.
`Autonomy` and `AutomationView` both extend `Triggers`. `UndoStack` is instantiated in
`Promotion`. The other modules share no variables: each stands at the interface of its neighbour,
as said under its heading below.

## Inventory

For each part: its state, its operations, what is hard about it, and what makes it correct.

**Promotion** (`kernel/core.py` 53-387 and 530-593, `bootloader.py`, `watchdog.py`). State: the
served app (`current`), the reboot lock, `slots.json` (active version, last known good, undo
stack), `pending_promotions.json`. Operations: `reboot_to_version`, `rollback`, `rollback_to`,
`approve_version`, `reject_version`, `_on_live_unhealthy`, `apply_monitor_config`, `boot`. Hard:
requests decide on a target *before* they wait for the lock; some eight writes follow a
successful gate and a kill may fall between any two; a monitor can be cancelled in the middle.
Correct when: nothing that never answered a health check gets on `main` or into the last known
good; a restart serves what was served; undo steps back one promotion at a time.

**Version store and registry** (`versioning.py`, `registry.py`). State: the commits, `main`, a
status per version. Operations: commit, promote, `set_status`, `reconcile` at boot. Hard: the
statuses follow `main` in writes of their own. Correct when the registry and the ancestry agree.

**Regression suite and verification** (`checks.py`, `verifier.py`). State: a check per acceptance
test, enabled or disabled, and by whom. Hard: it follows `main` too, and an operator's disable has
to win. Correct when a check is armed exactly while its origin is on the line.

**Task queue** (`core.py` 962-1141, 1143-1346, 1443-1498; `state_store.py` 596-681, 935-947). State: the queue file, a
status file per task, `current_task.json`, an event log per task, and in memory the drainer, the
worker, the cancel flag, the steering messages, the futures of waiting callers. Operations:
enqueue, drain, run, cancel, steer, dequeue, resume. Hard: a drainer that is leaving, a cancel
that arrives late, a kill between two of the writes that end a task. Correct when every caller is
answered, nothing runs twice, and what is reported as cancelled did not happen.

**Agent worker and recovery runtime** (`app/runtime/`, `kernel/agent_runtime.py`,
`kernel/recovery_runtime.py`). A child process that edits a staging clone; if the editable runtime
never gets ready the protected one takes over.

**Named lines and previews** (`previews.py`, `core.py` 418-524, 1346-1388). State: branch refs and
a table of preview processes, two sub-slots each. Hard: `create` tests a cap and an existing entry,
awaits twice, then writes the table; a line may be deleted under a running change. Correct when no
process is orphaned, the cap holds, and a line's ref names what its preview serves.

**Triggers** (`triggers.py`). State: the list of triggers with their counters and cooldowns.
Operations: `tick` (with two awaits over one snapshot), `handle_webhook`, `_fire`. Correct when the
daily cap, the one-shot and the in-flight rule hold through edits and kills.

**Kernel self-update and firmware** (`kernelmod.py`, `core.py` 602-807, `bootstrap/`). State: the
kernel repository, its pending version, `active_kernel.json` and its predecessor, the report of a
failed gate, the directories `kernel/`, `.kernel_old`, `.kernel_incoming`. Operations: commit and
hold, approve, reject, roll back, restart; deploy, swap, gate, restore, fall back. Hard: kills
between renames; a request while another restart is under way; a swap that fails its gate, twice.
Correct when some good kernel always boots and an unapproved one never does.

**App: chat server and run hub** (`app/main.py`). State: a file per conversation, a hub per
conversation with the claim on it and its subscribers. Hard: a claim is made before the response
that will drive it starts, and the sender may vanish in between; frames are replayed and live at
once. Correct when two runs never write one conversation and every claim is released.

**Advisor** (`app/features/advisor.py`). State: a store of proposals in the app. Hard: every
operation reads a proposal, waits for the kernel, and writes it. Correct when a one-shot that is
armed belongs to a proposal that says so.

**Frontend** (`app/frontend/src`). State: React state of each tab, streams and requests under way.
Hard: what is on screen is put together from answers and streams that overlap, are late, or never
come, while tabs are opened and left. Correct when, once everything has arrived, the screen says
what the server holds, and nothing stays "running" or disabled.

**Ledgers**: the audit chain (`state_store.py` 465-522), metering (`metering.py`), the event bus
(`events.py`). Hard: check-then-act on the budget; drops; a cached tail.

**No protocol of their own**: gateway (`gateway.py`: proxying and syscalls that call the operations
above), operator sessions (`opauth.py`), edit policy (`policy.py`), model access (`llm.py`,
`preflight.py`), the app's tools (`app/tools/`).

How they interact: the gateway's handlers, the drainer, the trigger loop, the preview reaper and
the live monitor are coroutines of one event loop and call each other's operations directly. They
share the lock (`Kernel.lock`), the task lock, and the state files. A change goes
gateway → queue → worker → commit → gates → hold, or reboot → registry → suite. The frontend talks
to the gateway over HTTP and server-sent events, the Advisor plugin to the kernel over HTTP, and
the kernel to the firmware through files and its exit code.

## How the code is modelled

*One event loop.* A coroutine runs alone between two awaits. A request is a program counter that
stands at an await. Where a stretch without await writes several state files, it is cut at every
write, because the process may be killed there; while such a stretch is open (`LoopFree` is false)
no other coroutine moves. In `Promotion` the cuts are the program counters in `SyncPC`, in
`TaskQueue` the variable `cut`.

*Disk and memory.* State files are written by atomic rename, so each is one variable. `Crash`
resets everything else. An orderly shutdown is treated as a crash: it leaves the same files. The
app's processes are taken to go down with the kernel (they run in one container).

*The environment chooses* what a health check, a verification, an agent or an operator answers.

*Data.* A version is a model value with its set of ancestors; a check is one state per origin; an
event is its sequence number. The statuses redrawn in one loop (`core.py` 330-343) are one write.

### Promotion

| code | model |
|---|---|
| `async with self.lock` and `bootloader.start` | `Enter`, `Acquire`, `Launch` (FIFO `waiters`, as `asyncio.Lock`) |
| health gate, verification, their failures | `Healthy`, `Verified`, `Unfit`, `DropCandidate`, `LaunchRaises` |
| `self.current = candidate; versioning.promote` | `Flip` |
| `write_slots`, status loop, `sync_lifecycle`, `set_status`, `freeze_checks`, `stop(old)` | `WriteSlots`, `RedrawLine`, `SyncSuite`, `StampPromoted`, `Freeze`, `Finish` |
| `_run_change_request` as far as it touches the registry | `StageChange`, `AbandonChange`, `CommitChange`, `RecordCommit`, `FailGate`, `HoldForApproval`, `RecordHold`, `PromoteChange` |
| `rollback`, `rollback_to`, `approve_version`, `reject_version`, `set_check_enabled` | `Rollback`, `RollbackTo`, `Approve`, `Reject` and `RecordReject` (one per write), `ToggleCheck` |
| `_on_live_unhealthy`, a cancelled monitor | `MonitorUnhealthy`, `CancelMonitor` |
| `boot` | `BootStart`, `BootHealthy`, `BootFallback`, `BootFails` |

`UndoStack` sees `slots.active`, `slots.history`, and whether the request that holds the lock is
one step of undo; under that mapping a rollback has to serve the top of the stack and take it off,
and every other promotion has to push what it leaves.

`proven` and `crashes` are history variables that no action other than their own bound reads. The
other requests that end in the same reboot (revert, re-apply, `promote_line`, `preview_promote`)
and the statuses only they set are not in this module.

### TaskQueue

`Enqueue`/`Enqueued` are the two writes of every way to file a task; `Take` is the drainer's loop
up to the write of the running status, `Start` the launch, then `AgentStep`, `FallBack`,
`AgentEnds`, `Commits`, `GatesAwaited`, `GateFails`, `Holds`, `Promotes`, `PromotionEnds` the stages of
a run, `StartRaises` the exceptions the drainer swallows, `Remove` the end of its loop body.
`Cancel`/`Killed` are the two halves of `cancel()` around its wait; `Steer`, `DrainSteer`,
`Dequeue`/`Dequeued` the user's other calls; `Boot`, `Interrupted`, `Resume` the restart. What a
promotion does is `Promotion`'s subject; here it is one await with two outcomes. The two modules
meet in exactly that await and share no variable.

### KernelUpdate

The firmware is one process (`boot.py`'s loop) and its program counter is `at`; the kernel is
another, with `proc`. Between two renames or writes of either, the container may be killed.

| code | model |
|---|---|
| `prepare_kernel`: in sync; a version that is missing or does not verify | `PrepareNothing`; `DeployFails` |
| `deploy_version`, `apply_swap` up to and with its two renames | `StageSwap`, `SwapOut`, `SwapIn` |
| launch, `poll_health` | `Launch`, `GatePasses`, `GateFails` (which leaves the report, `crumb`) |
| `restore_swap`'s two renames, the pointer put back | `MoveAside`, `Restore`, `Revert` |
| a kernel that exits, `fall_back_to_seed` | `HealthyExits`, `BrokenExits`, `NothingToRun`, `Supervise` |
| `boot()`, `_reconcile_kernel_boot_result`: the report taken off the disk, then recorded, then the version that runs called promoted | `TakeReport`, `Stamp`, `Boots` with `Reconciled` |
| `_run_kernel_change`, its hold one action per write | `StageChange`, `DropChange`, `HoldChange`, `WritePending`, `Stamp` |
| `approve_kernel_version`, one action per write | `Approve` (the stash), `WriteActive`, `WritePending`, `Stamp` |
| `rollback_kernel`; `reject_kernel_version`; exit 42 | `Rollback` and `WriteActive`; `Reject`, `WritePending` and `Stamp`; `Leave` |
| docker: killed, started, made anew from the image | `Kill`, `PowerOn`, `Recreate` |

A version stands for its tree and its digest, and different versions have different trees. Whether
a version can serve is a property of the version (`Broken` ones never answer); that the gate of a
good one fails is an exit. The writes still to come of a request, or of a report, are `todo`. The
pinned integrity check, signatures, and which version a change starts from are left out.
History variables: `approved`, `proven`, `hurt`, `lost`, `skipped`; no action reads them but to
keep them.

### Triggers and Autonomy

`Triggers` has one operator per change of the store: `Created`, `Edited`, `Toggled`, `Deleted`,
`Recorded` (a fire), `Reconciled` (the plugin's `_sync_scheduled`).

| code | model |
|---|---|
| `tick`: schedules, then a poll of the errors, then one of the proposals, over one snapshot | `TickStarts`, `AppAnswers` or `PollFails`, `TickFires` |
| `_fire`, `_rate_limited`, `_fingerprint_in_flight` | `Fire`, `RateLimited`, `InFlight` |
| the tick's loops: over the schedules, over a poll's items, over the polling triggers | `FireSchedules`, `FireHits`, `FirePolled` |
| `handle_webhook` | `WebhookFires` |
| the drainer and a change's way: work and commit, the checks derived or not, `_should_hold`, boot, gate | `RunStarts`, `RunCommits`, `RunDerives`, `RunDecides`, `RunBoots`, `RunVerified`, `RunFails` |
| `update_config`, the trigger syscalls, approve and reject | `Switch`, `CreateTrigger`, `ChangeTrigger`, `Decide` |
| the plugin's `schedule`, `unschedule`, `run`, listing, `dismiss` | `Ask`, `Resume`, `Dismiss`, and the kernel's halves `KernelCreates`, `KernelLists`, `KernelDeletes`, `KernelEnqueues` |
| restarts of either process, midnight | `AppRestarts`, `KernelRestarts`, `NextDay` |

The day is the UTC day and a schedule's time of day is its start; interval schedules and prompt
templates are left out; an error's cooldown is one day and a proposal is not offered again within
the horizon. A pass goes by the date it began with (`now`, `triggers.py` 307), also in what it records
and counts after its awaits; a webhook goes by the date at its delivery. An enqueue and the record of
its fire are one step. The loops of a tick run without an await and are one step, in which each turn
(`FireSchedule`, `FireHit`, `FirePoll`) gets the kernel the one before it left; they are recursive
functions over identities and items, so that they can be reasoned about.

What came of deriving a change's checks is one of `Outcomes`: there are some, or nothing to check
over HTTP, or the derivation failed, which is fail-open unless `verifier.strict`
(`core.py` 1250-1271). `RunVerified` is the passed gate, with whatever checks there are and the
regression suite. `shipped` remembers of each trigger's change that went live whether it passed the
gate, what came of its checks and what the settings were; `filed` and `late` count what each trigger
filed today in passes and calls of today, and in a pass of an earlier day. `apart` is set when two
requests of the plugin overlap or one is cut.

### The views

In all four a request and its answer are two steps, so an answer may be old when it is used; a
call of the page is one run of an async function that stands at an await. The page's actions are
the handlers of the source, with what disables a button as their guard. Where the source cannot
notice that it shows something old, the action that leads it there sets a history variable
(`astray`, `apart`, `lost`, `slipped`), and the properties say so: what they promise is that there
is no *other* way to go wrong.

`SelfModifyView`: the kernel is `TaskQueue` seen through its log and status files (`Start`, `Step`,
`End`, `Raises`, `Cancel`, `CancelEmits`, `Steer`, `Dequeue`, `Restart`); the wire is `stream`
(server-sent events, never replayed), `snapshot` (`GET /task`), `post`, `deciding`; the tab is
`Mount`, `Unmount`, `SnapshotApplied`, `Deliver` (`applyEvent`), `Submit`, `Decide`, `Retire`, and
`Fetch503`, `Reload` (the overlay of `api.js`).

`RunView`: `hub` is `_RUN_HUBS`. A claim (`PostArrives`, `OtherSends`) is driven when its response
starts (`BodyStarts`), or expires (`ExpireUnstarted`); the driver speaks, is stopped, cut at a
yield or cancelled, and ends; a watch stream enters (`WatchEnters`) and subscribes
(`Subscribe`) in two steps, with a replay. The page sends, opens, leaves, stops, deletes, and
applies frames (`Deliver`) and answers (`Apply`). What a run says and what its file keeps are two
things: `convo` is what the driver would save, `saved` what it saved last. A tool's call and result
are said at once and join the message that announced them when the whole batch is over (`ToolsDone`);
a retried call and the loop breaker drop what their round said (`DropRound`); a run that ends in an
error saves nothing more (`Finish` without a save). Rounds are not told apart, so `DropRound` may take
any end of what was told; the note with which the loop breaker ends a run is a part like any other. A
page awaits one answer of a GET or a Stop at a time, and a Stop reaches the app as it is clicked.

`VersionsView`: `kernel` is the history in a record (parents, `main`, undo stack, held versions,
lines, previews), each of its operations one step. `calls` are the functions of the tab under way
(`load`, `loadGraph`, `loadPending`, `act` with its confirmation, `runReboot`), read page by page;
`Click`, `Continue`, `Mount`, `Unmount`, `Toggle`, `Refresh`, `LoadMore` are the operator;
`Reload` is `beginReconnect`. The page opens on any history (`StartsAssumption`), and one page of the
list is no longer than the graph's cap (50 and 1500 in the code): a list read for the graph then
serves the list view as well.

`AutomationView`: the gates, the engine strip and the Advisor's card of the Self-Modify tab, the
Settings tab with its Automation card, the self-healing switch of the Errors tab. A request to the
plugin is served in one step, for `Autonomy` has its interleavings. Numbers, presets, the
backend's configuration and the table of errors are left out; the operator's self-healing trigger
is the one of kind
`error_spike`, and a session starts with at most one (`StartsAssumption`; `IsKernel` is the type of
what the server holds).

## What the runs check

Every property is a definition at the end of its module, with the sentence of the code it is
about. Bounds: `MaxInFlight` (requests at once), `MaxHistory` (length of the undo stack, 50 in the
code), `MaxCrashes`, `MaxEvents` (events a run logs before the agent's own lines and steering stop;
cancelling stops one event later, so that a run can also be cancelled at its gates), the number of
`Versions` (commits ever made) and of callers; in `KernelUpdate` `MaxFaults` (kills, failed
deployments, exits of a kernel that serves); in the views `MaxLag` (events on their way),
`MaxCalls` (calls under way), `MaxSteps` and `MaxFaults` (clicks, steps of others, losses).

| run | instance | shows |
|---|---|---|
| `promotion_concurrent` | 3 versions, 2 callers and the watchdog, 2 in flight, verifier on | `MainIsServed`, `FollowersAgree` (`LineIsNotAbandoned` and `SuiteFollowsLine`), `InactiveSlotIsFree` |
| `promotion_crash` | 2 versions, two callers and the watchdog, all eight kinds of request, one kill anywhere | `TypeOK`, `BrokenNeverAdvances`, `RestartServesTheSame`, `PromotedIsOnLine`, `HeldUntilDecided`, `OperatorDisableSticks` |
| `promotion_undo` | 3 versions, one request at a time, undo stack of 2 | `StepsBack` (implements `UndoStack`) |
| `promotion_liveness` | 2 versions, 2 callers and the watchdog, 3 in flight | `RequestsEnd` |
| `task_queue` | a user's change, a trigger's change, a git operation, a canceller, one kill anywhere, any number during the boot that follows | `TypeOK`, `BacklogIsDrained`, `QueueMatchesRun`, `CancelledCommitsNothing`, `SteerReachesItsTask`, `CallersAreAnswered` |
| `kernel_update` | the shipped kernel, one that serves, one that does not, 3 faults anywhere, two exits before the fall back (3 in the code) | `TypeOK`, `OnlyApprovedRuns`, `ProvenIsKept`, `FailedIsNotPromoted`, `KernelServes` |
| `kernel_floor` | two kernels that serve, 2 exits | `FloorIsShipped` fails |
| `autonomy` | one error, one proposal, 2 triggers, 2 requests of the plugin at once, 2 days, cap of 1, 3 steps of the operator or restarts, the triggers and full-auto on at the start and the gate off (`StartsOn`) | `TypeOK`, `CapHolds`, `ArmedIsScheduled`, `HeldUnlessVerified`, `DueIsFiled` |
| `selfmodify_view` | a task of this page, one of others, one fault, one event in flight | `TypeOK`, `TraceIsOfTask`, `ViewAgrees`, `RunIsSeenToEnd` |
| `run_view` | one conversation and two runs or faults, or two conversations and one; 2 frames in flight | `RunInv` (`TypeOK`, `OneDriver` and `NothingForeign`), `PageAgrees`, `RunsEnd` (`ClaimIsReleased` and `RunIsSeenToEnd`) |
| `versions_view` | a fork with a held version and a line, pages of 2 rows, graph pages of 2 up to 3, 2 calls, 2 steps | `ListingAgrees`, `GraphInv` (`TypeOK` and `GraphIsDrawable`), `RebootIsFollowed` |
| `automation_view` | one proposal, 2 triggers made, 2 calls, 3 steps, from two settings | `TypeOK`, `PanelsAgree`, `OneSelfHeal` |

Why the bounds are enough for the cases that matter. *Promotion*: three versions give a line of
three or a fork of two branches, so that going to another version takes two statuses off the line
(rolled back and abandoned) or brings one back; an undo stack of one or two is trimmed within a
behaviour; two requests in flight race each other, and three put two in the lock's FIFO; one kill
at any write followed by a boot reaches every half-written combination once. *TaskQueue*: three
tasks have one running, one queued behind it and one that is filed, dequeued or resumed meanwhile.
*KernelUpdate*: a kernel that serves is promoted, then a broken one over it, so that there is a
predecessor that is not the shipped one; three faults are enough for a fall back and a kill, or a
kill in the middle of a restore that follows a kill. *Autonomy*: two triggers compete for a cap of
one, a cooldown ends on the second day, and two requests of the plugin and the clock race each
other. *Views*: two calls, or two runs, overlap in every order; a page of rows is full, and the
graph reaches its cap. Callers and the versions other than the seed are symmetric in the safety
runs of `Promotion`; the runs with liveness or refinement use no symmetry. Deadlock is not checked:
an idle system at its bounds has nothing to do.

`KernelChanges` is empty in the `task_queue` instance: a kernel change takes the same way through
the queue as a git operation, except that it is always held.

Some properties hold only without a kill, and say so (`crashes = 0`) or are checked by a run
without one; what a kill does to them is below.

### Fairness

`Promotion`: weak fairness of each request's own reboot steps, and of nothing the operator, the
agent or the watchdog chooses. The code justifies it: the health poll and the checks have a
deadline (`watchdog.py` 21-49, `verifier.py`), `bootloader.stop` kills after a timeout, and
`asyncio.Lock` wakes its waiters in order. `TaskQueue`: weak fairness of the drainer, because the
agent has a number of steps and its calls a timeout, the gates and the reboot have deadlines, and
of the second half of filing and dequeuing, which no await separates from the first.
`KernelUpdate`: weak fairness of the firmware's loop (`poll_health` has a deadline), of a kernel's
boot, writes and exit, and of the start of a container that is down (`docker-compose.yml`:
`restart: unless-stopped`); none of exits, kills and the operator. `Autonomy`: of the clock, which
ticks every 30 seconds and gives a poll up after 5; nothing of the app, the drainer or the
operator. `SelfModifyView`, `RunView`, `VersionsView`: what is sent arrives, timers fire, promises
are resumed, runs end (the model and the tools have timeouts); nobody is obliged to click, and
what is lost is an action without fairness. `AutomationView` states none.

### Where code and documentation differ

`kernel_floor` (`FloorIsShipped`): after repeated exits of a promoted kernel the firmware clears
the pointer "so the firmware launches the shipped image kernel (the floor)"
(`kernel_slots.py` 268), but `kernel/` is still the promoted version, and without a pointer there is
nothing to deploy: the same kernel is launched again.

The models refute more sentences of the source, with a trace each. The definitions named here are
in the modules, marked as refuted; no run of the project checks them.

* `StepsBack` with two requests in flight: `rollback()` reads its target before it waits for the
  lock and the reboot pops whatever is the tip by then. "Repeated rollbacks step v5 → v4 → v3"
  fails: two rollbacks serve the same version and drop two entries.
* `RejectIsFinal`: a version rejected while its approval waits at the health gate is promoted
  (`core.py` 574, 585: it "is never promoted").
* `LineIsNotAbandoned` with a kill: killed after `main` moved forward again and before the
  registry's bookkeeping, the kernel boots with ancestors of `main` marked rolled back or abandoned;
  `reconcile` repairs only `committed` ones.
* `StartsOnce`: killed between a task's final status and its removal from the queue, the kernel runs
  the finished task again.
* `CancelAborts`: a change past its last look at the cancel flag is reported as cancelled and
  promoted all the same.
* `CurrentIsRunning`: after an exception of the staging clone or the worker's launch,
  `current_task_id` names a task that has failed.
* `SeqRises`: a cancel that waited for its worker logs its event with the counter of the next task,
  so a task's sequence numbers go down.
* `TimerShipsVerified` ("A scheduled task never promotes unverified code",
  `docs/ARCHITECTURE.md` 50): with full-auto and the gate on, a trigger's change goes live with no check
  of its own when their derivation failed and `verifier.strict` is off, as by default (`core.py`
  1266-1271; `verifier.py` 10-13 says so), or when there was nothing to check over HTTP; and without
  the gate when it is switched off while the candidate boots (`core.py` 275 asks again).
  `HeldUnlessVerified` is what does hold.
* `DayCapHolds`: a pass that waits for the app across midnight goes on with the date it began with, so
  it files up to the cap of the old day while webhooks and the next pass file that of the new one:
  twice `max_per_day` in one calendar day. `CapHolds` is what does hold.
* `SeesTheRun`: a watch stream looks its hub up before it subscribes; a hub dropped as idle in
  between leaves the page listening to one no later run publishes to.
* `BranchIsAnnounced`: "anything but the running version branches the line" is decided by a status
  that `App` read when the page was loaded.

TLC also showed, of `Promotion`: after a kill between the write of `slots.json` and
`sync_lifecycle` the suite stays behind the line; after a kill between `promote` and `write_slots`
`main` is ahead of what boots; `boot()`'s fallback to `main`'s tip may serve the tip of the undo
stack, so that undo reboots into what is served; a monitor that is reconfigured in the middle
of its own auto-rollback leaves a candidate in the inactive slot; and a kill between the two writes
of `reject_version`, or of a hold, leaves a version that is off the pending list, or on it, with the
status it had: the rejected one is called `pending` for good, and nothing can approve or reject it.

Of `RunView`: a stopped run does not keep all of "what the user watched being written" (`main.py`
2157): the calls of a tool batch under way are on screen and in no file. The same goes for whatever a
retry, the loop breaker or an error drops, and the page, which reads the file when the run is over,
then shows less than it did (`RunTab.jsx` 196: "a completed run does not visually collapse").
`PageAgrees` therefore promises what was said only while the run goes on, and afterwards what the
file kept.

And of `KernelUpdate`, where the properties name the exception. *Killed between the two renames*
(`hurt`), there is no `kernel/`; each later swap deletes `.kernel_old`, then raises for want of a
directory to rename, until the container is made anew. *Killed during the gate* (`hurt`), the next
boot is "in sync" and launches the unproven kernel without a gate. *Approved over a version that
was never deployed* (`skipped`), say because a second approval came before the restart, a failed
gate puts the pointer back to that one, which may fail in its turn, for ever. *A report is lost*
(`lost`) when two gates fail in a row, for the second overwrites the first, and when the kernel ends
between taking the report off the disk and recording it (`core.py` 793-796): the version, which called
itself promoted before it answered, keeps that status. The count of exits that leads to the fall back is not reset
by hours of health, only by a swap. A version held when another change is held keeps the status
`pending` for good.

Of `Autonomy`: two requests of the plugin at once, or one cut by a restart, leave an armed one-shot
behind an open proposal; deleting a trigger gives its fires back to the day's cap; a saved edit
arms a disabled trigger and makes a one-shot recurrent. Of `AutomationView`: two optimistic patches
at once, the first refused, put back the whole of the older settings; a self-healing switch left
half way, or whose answer is lost, makes a second trigger on the next click.

## What is proved

TLC checks the instances above; the theorems hold for any sets of versions, callers, tasks, triggers,
proposals, conversations and any bounds. Their assumptions are those declared beside the constants:
the values that stand for "none" are not members, the seed is a version, the shipped kernel is one
that serves, bounds are natural numbers, a session starts well typed. Each proof has an inductive
invariant (`IInv`, or as named below), one lemma per action that shows that it is kept, and the
properties as consequences. The invariants were model-checked first.

### Promotion

`TypeCorrect` (`TypeOK`), and, with any number of kills and either setting of the verifier:
`NeverAdvancesBroken` (`main`'s tip and the last known good have answered a health check, or are the
seed), `RestartIsServed` (at every await `slots.json` names what is served), `InactiveSlot` (a
candidate starts where nothing runs, if the watchdog is not reconfigured), `HeldIsDecided` (a version
leaves the pending list only served or by a rejection, and a rejection ends with the version called
rejected, unless the kernel is killed between its two writes), `OperatorSticks` (only the operator enables a check
an operator disabled).

That a promoted version answered its health check depends on what the program counter of its request
says, and that depends on the lock. `IInv` therefore adds: a request under way is about a version
(`Targets`); the lock is held exactly by the request past its acquisition (`LockHeld`), and its FIFO
lists waiting requests once each (`FifoWaits`, `FifoOnce`); at a gate the candidate is that request's
version in the slot that is not served (`AtGate`); past the gate the version has answered
(`PastGate`); a promoted version is served until the request ends, and `slots.json` agrees except
between the flip and the write (`Served`); `BlueGreen` and `Phases` say where processes may run.
`LockHeld` lets every case conclude that no second request is past the acquisition.

*The active line.* `MainServed` and `FollowersFollow`, until the kernel is killed: at every await
`main` is what is served, and the registry and the suite agree with `main`'s ancestry.
`PromotedOnLine`, with any kills: what is called promoted or restored is an ancestor of `main`. The
line is written in several steps, so `LineInv` says from which of them on which follower is up to
date: ancestry is closed (`Lineage`), `main` is the target of the request past its flip
(`MainIsTarget`) or else what is served (`ServedMain`), the statuses follow the tip the registry was
redrawn for (`OnLine`, `KeptLine`), the suite the tip it was synced to (`SuiteOnLine`).

*Refinement.* `UndoRefines`: with one request at a time and no kill (`MaxInFlight = 1`,
`MaxCrashes = 0`), `Spec => StepsBack`: every step is a step of `UndoStack` or leaves it alone. With
two at a time it is false (see above), so the hypothesis is needed. `StackInv` adds that the request
is `Alone`, that a version neither lies twice in a row on the stack nor under itself when served
(`StackShape`), and that a rollback past its start aims at the stack's top (`UndoTarget`).

### TaskQueue

With any tasks of each kind, cancels, events and kills: `TypeCorrect` (the queue holds a task once);
`NoneSlipsPast` (`BacklogIsDrained`: at every await a queue that is not empty has a drainer, also
after a restart); `QueueIsRun` (`QueueMatchesRun`); `CancelledLeftNothing` (until a kill, what is
reported as cancelled committed no version); `SteerIsOfTask` (a worker reads only messages meant for
its task).

Each of them holds only at the awaits and is broken between the writes of one stretch, so `IInv`
says what is half written where: a stretch is about a task and the phase it may occur in
(`CutShape`, `NotUp`); the drainer runs exactly while it has a task in hand (`InHand`), which is the
head of the queue in memory and on disk (`HeadInHand`); a status "running" is that task or what a
kill left for `boot` (`RunningInHand`); a task between its two writes is not in the queue
(`BetweenWrites`), nor one never filed (`FiledOnly`); the queue is the unfinished tasks but for that
one (`QueueAgrees`); a task that committed is past its cancel flag (`CommittedRan`); the messages are
the current task's from its start on (`SteerOfTask`); and a backlog has a drainer also within a
stretch (`Drained`).

### KernelUpdate

With any versions, any of them broken, and any number of faults:

* `ApprovedOnly`: a kernel runs only if it is the shipped one or the operator approved it. The
  invariant follows every place a version comes from: the three directories, the pointer and its
  stash, and what a half-written approval or rollback still has to write (`SourcesAllowed`); and it
  needs that a process runs only where the firmware waits for one (`RunsWhereAwaited`).
* `ProvenKept`: while a candidate is in place that is not past its gate, the kernel that answered is
  `.kernel_old`, and at every other instant it is `kernel/` (`ProvenInPlace`).
* `TypeCorrect`: the types, and that `kernel/` is missing only between two renames, unless the
  firmware was killed there (`InPlace`).
* `FailedNotPromoted`: once a kernel serves past its gate, no version that cannot serve is called
  promoted, unless the firmware was ever killed with an unproven kernel in place or a report was lost:
  overwritten unread, or taken by a kernel that ended before it recorded it. A broken version calls
  itself promoted only at its gate, and from the failure on the report names it, or the booting kernel
  has it in hand (`Reported`); that a kernel boots outside of a gate only if it
  has answered comes from `ProvenInPlace`.

### Autonomy

* `UnattendedIsVerified` (`HeldUnlessVerified`): a trigger's change goes live without a person only
  past the gate, and with checks of its own unless there was nothing to check or their derivation
  failed under settings that let that pass, as long as nobody changes the settings while it runs. The
  invariant says what a run knows at each stage, with settings that did not change: past the commit,
  the gate being on, what came of the derivation; past the decision, that the gate is on
  (`DecidedRightly`).
* `TypeCorrect`: among other things the task under way is the head of the queue, and only identities
  given out occur anywhere.
* `CapCorrect` (`CapHolds`): the triggers there are file no more changes a day than the cap, and a pass
  that midnight came upon no more than that once again. A fire is decided on what the records of the
  store say, so the invariant is that the records' count for today is what was filed today
  (`Counted`), that what was filed late is at most what the records count for the date of the pass,
  which only the triggers it polls do, for none of them has fired since (`LateCounted`), and that an
  identity not given out filed nothing (`Ungiven`). Each turn of a tick's loops keeps it, for whatever
  snapshot the tick works from, as long as the triggers of the snapshot have the kind they had
  (`SameKinds`).
* `ArmedCorrect` (`ArmedIsScheduled`): as long as the plugin's requests do not overlap and none is cut,
  a one-shot still to fire has a proposal scheduled by it. The invariant says how far the one
  request under way is and what the store of proposals says meanwhile (`CallInv`, `ArmedInv`).

### The views

* `SelfModifyView`: `TypeCorrect`, and `TraceCorrect` (`TraceIsOfTask`): the trace on screen is of one
  task, in order and with nothing twice, and the outcome on screen is the one recorded for it. The
  invariant goes from log and queue (`KernelInv`: what is logged is in order, what did not start has
  no log) over what is on the wire (`StreamKnows`, `SnapshotKnows`) to the page (`ViewKnows`).
  `ViewAgreesCorrect` (`ViewAgrees`): with nothing left on its way, a tab that missed no event for
  good shows as running what runs and as over what is over. Before that the page may be behind, so
  the invariant (`CourseInv`) says what will set it right: a view that calls a finished task running
  has the newer `done` of that task, or an event of another one, still in its stream (`OnCourse`),
  and a snapshot that says so is older than a `done` in the log (`SnapshotOnCourse`), which the
  stream the tab opened earlier has or had. That a `done` is newer than what precedes it in the
  stream (`StreamOrdered`) does not follow from the order of the log, since a cancellation may be
  stamped with a number already used.
* `RunView`: `RunCorrect` (`RunInv`): one run at most works on a conversation, and nothing of another
  conversation comes on screen. What the page shows may come from an answer, the replay, the stream
  or its own POST, so the invariant says of each which conversation's file has its question
  (`HubKnows`, `SavedKnows`, `OwnOnly`). `PageAgreesCorrect` (`PageAgrees`): a page whose stream found
  its hub, once everything has arrived and unless it was led astray, says "running" exactly while a
  run is under way and shows all that this run has said, each part once, or once it is over exactly
  what its file kept. The invariant (`PageInv`) says how
  far behind the screen may be meanwhile. What the driver would save, and so what the file of a run
  under way has after its question, is some of the run's parts in order (`Tails`, `ConvoInv`,
  `FileShape`); every write is of that shape (`Writes`), so files stay in order (`FilesInOrder`). The stream holds frames up to a `done` and
  then the last ones of the run, numbered without a gap (`Follows`). A page that has heard of the run
  shows its question and all parts but those in the stream; one that has not shows a beginning which
  the question still to come completes or cuts, and after a run the file (`Begins`); and with a `done` in the stream nothing
  need hold, for the page will read the file again (`Required`). Every step of the app is one of five
  turns of one run (`Turns`, `AppActs`), so the stream and the screen are argued per turn.
* `AutomationView`: `TypeCorrect`, and `OneSelfHealCorrect` (`OneSelfHeal`): the switch of the Errors
  tab makes no second trigger, unless its function was left half way, lost or overtaken by another
  client. The function runs once at a time and what it read still holds (`HealersOK`), and what its
  flag guards is what its last read found (`HealShown`). `PanelsAgreeCorrect` (`PanelsAgree`): once its
  calls have come to rest, none having overlapped or been lost and nobody else having stepped in,
  every panel shows what the kernel and the plugin hold and no button is left disabled. Meanwhile
  every panel is tracked (`Agrees`, `Tracked`): a call under way will read it, or will leave it right
  whether its request is refused or done (`Goes`, over every outcome the request can have), or no
  operation is under way and it is right. An answer on its way must still hold when it arrives
  (`SawTrue`). Two calls overlap in spite of the hypothesis when a tab is mounted and when a run
  has ended (`Pairs`); both may list the proposals, which changes them, so the invariant says when a
  further listing finds nothing new (`Kept`, `Settled`, `Runs`). The proof showed that the end of a
  change beside another operation is such an overlap too: its read of the proposals can come between
  that operation and the operation's own read, and mark a reopened schedule as run. `TaskEnds` sets
  `apart` for it.
* `VersionsView`: `TypeCorrect`, for which every operation and change is shown to leave a history
  (`EffectTyped`, `OtherTyped`), and `ListingCorrect` (`ListingAgrees`): once the tab's calls have come
  to rest one at a time it shows the kernel's history. Meanwhile the screen may be behind, so the
  invariant says of the one call under way which parts are up to date where it stands (`Tracks`): an
  operation not yet served leaves all of them so, one that was served those it does not read again
  (`PostTracks`, from `OutcomeIs`: an operation that leaves the list unread left the listing as it
  was), and a load holds a prefix of the listing that its next page extends (`LoadTracks`, `Extended`).

### What is only model-checked

*Liveness* (`RequestsEnd`, `CallersAreAnswered`, `KernelServes`, `DueIsFiled`, `RunIsSeenToEnd`,
`RunsEnd`, `RebootIsFollowed`) is out of the prover's reach: it needs `ENABLED`.

*Data.* A recursion over numbers can be unfolded in a proof (least-element induction, `UpTo` and
`Chain` in `AutonomyProofs`), so the loops of a tick are recursive functions. The library's folds and
sorts cannot: their theorems take operators as parameters. `GraphIsDrawable` (in `GraphInv`) is about
a layout that is a fold over a sorted sequence, and stays with TLC.

## Plan

Done: `Promotion`, `UndoStack`, `TaskQueue`, `KernelUpdate`, `Triggers`, `Autonomy`, the four
views, and the proofs above. Left, in this order:

1. `LinesPreviews`: the preview table with its awaits, the reaper, a line that is deleted under its
   change, `promote_line` and `preview_promote`, revert and re-apply with their stale guards.
   Instance: two names, cap of one, two callers.
2. `Ledgers`: the audit chain and its anchor, the budget under calls in flight.
3. `Kernel`: `TaskQueue`'s promotion await composed with `Promotion`'s change, sharing the version.

## Not modelled

Named lines and previews beyond what the Versions tab does with them, and the requests of revert
and re-apply (planned). The audit chain and metering (planned): no modelled decision reads the
audit log. The count of consecutive failures in the watchdog's loop: the model lets the watchdog
decide at any time that the live app is unhealthy. Interval schedules and a kill between an
enqueue and the record of its fire. The gateway's proxying, operator sessions, the edit policy and model
access: I/O, or single steps without state to interleave. The app's tools and the content of its
features, which every change replaces; the agent's dialogue; what derived checks assert; labels,
diffs and the layout of the graph; rendering, forms, the diff view, attachments, the terminal and
the remaining tabs of the frontend; the content of provisioning and configuration. Three small ones in the
views: `VersionsView` offers the rollback by the undo stack alone (`VersionsTab.jsx` 495 takes
`previous_version` too, which differs only with a `slots.json` written before there was a stack);
`AutomationView` reads the proposals once after a refused run (`SelfModifyTab.jsx` 420 and 553 read
them twice, at the same time); and in `SelfModifyView` an approval answered after the tab was left
does not bring up the overlay of the restart (876), as `VersionsView` has it for the Versions tab.
