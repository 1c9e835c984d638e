------------------------------ MODULE Autonomy ------------------------------
(***************************************************************************)
(* What the system does unattended: the kernel's clock of triggers          *)
(* (kernel/triggers.py), the change it files and ships or holds             *)
(* (kernel/core.py), and the Advisor plugin of the app                      *)
(* (app/features/advisor.py), which keeps its proposals in a store of its   *)
(* own and schedules one by a one-shot trigger of the kernel.               *)
(*                                                                          *)
(* The kernel is one event loop: it changes hands only where the code       *)
(* awaits.  The plugin runs in the app's process, so between a request of   *)
(* its and the kernel's answer, and between that answer and the plugin's    *)
(* next step, anything may happen, its own process being killed included.   *)
(***************************************************************************)
EXTENDS Triggers

CONSTANTS
    StartsOn,     \* the settings that are on when the kernel starts
    MaxPerDay,    \* triggers.max_per_day
    MaxTriggers,  \* bound: triggers ever created
    MaxCalls,     \* bound: requests the plugin works on at once
    MaxDays,      \* bound: days
    MaxSteps      \* bound: steps of the operator, requests to the plugin, restarts

ASSUME AutonomyAssumption ==
    /\ {MaxPerDay, MaxCalls, MaxDays} \subseteq Nat \ {0}
    /\ {MaxTriggers, MaxSteps} \subseteq Nat

VARIABLES
    cfg,        \* triggers.enabled, triggers.auto_promote, verifier.enabled, .strict
    triggers,   \* state/triggers.json
    queue,      \* the durable backlog of tasks
    pending,    \* the changes held for approval
    tick,       \* the pass of the clock under way
    run,        \* the task the drainer runs and how far it is
    store,      \* the plugin's proposals
    calls,      \* the requests the plugin works on
    day,        \* the calendar
    created,    \* how many triggers were ever created
    filed,      \* history: how many changes each trigger filed today
    late,       \* history: and how many more in a pass that began on an earlier day
    shipped,    \* history: how the triggers' changes that went live did
    apart,      \* history: whether two of the plugin's requests overlapped or one was cut
    steps       \* what MaxSteps bounds

kernel == <<cfg, triggers, queue, pending, tick, run, created, filed, late, shipped>>
plugin == <<store, calls, apart>>
vars   == <<kernel, plugin, day, steps>>

Stages == {"none", "work", "derive", "committed", "boot", "verify"}
Outcomes == {"derived", "skipped", "failed"}   \* of deriving the checks of a change
Settings == {"enabled", "auto", "verifier", "strict"}
-----------------------------------------------------------------------------
(* Filing.  A store of the kernel is threaded through the loops of a tick,   *)
(* with the date it goes by, which is that of its start.                    *)

Stored(now) ==
    [triggers |-> triggers, queue |-> queue, filed |-> filed, late |-> late, now |-> now]

\* The sum of f over the identities of triggers.
Total(f) ==
    LET upTo[i \in 0..MaxTriggers] == IF i = 0 THEN 0 ELSE upTo[i - 1] + f[i]
    IN  upTo[MaxTriggers]

FiresToday(ts, now) ==
    Total([t \in 1..MaxTriggers |->
             IF t \in DOMAIN ts /\ ts[t].day = now THEN ts[t].count ELSE 0])

RateLimited(k) == FiresToday(k.triggers, k.now) >= MaxPerDay

\* A queued task or a held change is about this item already.
InFlight(k, item) ==
    \/ \E i \in DOMAIN k.queue : k.queue[i].item = item
    \/ \E x \in pending : x.item = item

OneMore(n, by) == [n EXCEPT ![by] = @ + 1]

Enqueued(k, by, item) ==
    [k EXCEPT !.queue = Append(@, [by |-> by, item |-> item]),
              !.filed = IF k.now = day THEN OneMore(@, by) ELSE @,
              !.late = IF k.now = day THEN @ ELSE OneMore(@, by)]

\* One fire: the task is enqueued, then the fire is recorded, if the trigger
\* is still there.  Schedules carry no fingerprint and are never skipped.
Fire(k, t, fp, item) ==
    IF fp # 0 /\ InFlight(k, fp) THEN k
    ELSE [Enqueued(k, t, item) EXCEPT
            !.triggers = IF t \in DOMAIN k.triggers
                         THEN [k.triggers EXCEPT ![t] = Recorded(@, fp, k.now)] ELSE k.triggers]

\* The triggers of a kind.
OfKind(snap, kind) == {t \in DOMAIN snap : snap[t].on /\ snap[t].kind = kind}

\* A plausible slip: the cap is tested on the store the tick started with.
FireScheduleUncapped(k, snap, t) ==
    IF t \notin OfKind(snap, "schedule") \/ RateLimited(Stored(k.now)) \/ ~ ScheduleDue(snap[t], k.now)
    THEN k ELSE Fire(k, t, 0, snap[t].of)

\* A schedule's turn, the store being k by then.
FireSchedule(k, snap, t) ==
    IF t \notin OfKind(snap, "schedule") \/ RateLimited(k) \/ ~ ScheduleDue(snap[t], k.now)
    THEN k ELSE Fire(k, t, 0, snap[t].of)

\* The schedules one after the other, in the order of the store.
FireSchedules(k, snap) ==
    LET after[t \in 0..MaxTriggers] ==
            IF t = 0 THEN k ELSE FireSchedule(after[t - 1], snap, t)
    IN  after[MaxTriggers]

\* What a polled trigger fires on, of what the app answered.
Hits(r, kind, saw, now) ==
    IF kind = "error_spike" THEN SpikeHits(r, saw, now) ELSE AdvisorHits(r, saw)

\* The items one after the other, each unless the cap is reached by then.
FireHit(k, t, hits, i) == IF i \in hits /\ ~ RateLimited(k) THEN Fire(k, t, i, i) ELSE k

LastItem == Max(Items \cup {0})

FireHits(k, t, hits) ==
    LET after[i \in 0..LastItem] == IF i = 0 THEN k ELSE FireHit(after[i - 1], t, hits, i)
    IN  after[LastItem]

\* A polled trigger is read afresh, but one deleted meanwhile is taken from
\* the snapshot, and one disabled meanwhile fires all the same.
FirePoll(k, snap, kind, saw, t) ==
    IF t \notin OfKind(snap, kind) THEN k
    ELSE LET live == IF t \in DOMAIN k.triggers THEN k.triggers[t] ELSE snap[t]
         IN  FireHits(k, t, Hits(live, kind, saw, k.now))

FirePolled(k, snap, kind, saw) ==
    LET after[t \in 0..MaxTriggers] ==
            IF t = 0 THEN k ELSE FirePoll(after[t - 1], snap, kind, saw, t)
    IN  after[MaxTriggers]

Files(k) == triggers' = k.triggers /\ queue' = k.queue /\ filed' = k.filed /\ late' = k.late
-----------------------------------------------------------------------------
(* The clock.  at: which poll of the app the tick waits for; saw: what the  *)
(* app answered; now: the date it goes by, taken when it started.           *)

Idle == [at |-> "none", snap |-> <<>>, saw |-> {}, answered |-> FALSE, now |-> 0]

\* The next poll the tick has a trigger for: the errors before the proposals.
Waiting(snap, kinds, now) ==
    LET due == {kind \in kinds : OfKind(snap, kind) # {}}
    IN  IF due = {} THEN Idle
        ELSE [Idle EXCEPT !.at = IF "error_spike" \in due THEN "error_spike" ELSE "advisor",
                          !.snap = snap, !.now = now]

TickStarts ==
    /\ tick = Idle /\ cfg.enabled
    /\ Files(FireSchedules(Stored(day), triggers))
    /\ tick' = Waiting(triggers, {"error_spike", "advisor"}, day)
    /\ (tick' # Idle \/ triggers' # triggers)   \* else the pass found nothing to do
    /\ UNCHANGED <<cfg, pending, run, created, shipped, plugin, day, steps>>

\* The app answers: the groups over the threshold, or the open proposals.
AppAnswers ==
    /\ tick # Idle /\ ~ tick.answered
    /\ \E groups \in SUBSET Errors :
         tick' = [tick EXCEPT !.answered = TRUE,
                    !.saw = IF tick.at = "error_spike" THEN groups
                            ELSE {p \in Proposals : store[p].status = "open"}]
    /\ UNCHANGED <<cfg, triggers, queue, pending, run, created, filed, late, shipped, plugin, day, steps>>

AfterPoll == Waiting(tick.snap, IF tick.at = "error_spike" THEN {"advisor"} ELSE {}, tick.now)

TickFires ==
    /\ tick.answered
    /\ Files(FirePolled(Stored(tick.now), tick.snap, tick.at, tick.saw))
    /\ tick' = AfterPoll
    /\ UNCHANGED <<cfg, pending, run, created, shipped, plugin, day, steps>>

\* A plausible slip: a poll without a timeout.
PollHangs == tick # Idle /\ ~ tick.answered /\ UNCHANGED vars

\* The app does not answer: the triggers of this poll stay quiet.
PollFails ==
    /\ tick # Idle /\ ~ tick.answered
    /\ tick' = AfterPoll
    /\ UNCHANGED <<cfg, triggers, queue, pending, run, created, filed, late, shipped, plugin, day, steps>>

\* A signed webhook is delivered, between two steps of a tick or not.
WebhookFires ==
    /\ cfg.enabled /\ ~ RateLimited(Stored(day))
    /\ \E t \in DOMAIN triggers :
         /\ triggers[t].kind = "webhook" /\ triggers[t].on
         /\ Files(Fire(Stored(day), t, 0, 0))
    /\ UNCHANGED <<cfg, pending, tick, run, created, shipped, plugin, day, steps>>
-----------------------------------------------------------------------------
(* The drainer runs the task at the head of the queue.                      *)

NoRun == [at |-> "none", steady |-> TRUE, task |-> [by |-> 0, item |-> 0], checks |-> "none"]

Unattended(task) == task.by # 0

RunStarts ==
    /\ run = NoRun /\ queue # <<>>
    /\ run' = [NoRun EXCEPT !.at = "work", !.task = Head(queue)]
    /\ UNCHANGED <<cfg, triggers, queue, pending, tick, created, filed, late, shipped, plugin, day, steps>>

\* A plausible slip: the task is off the queue and still the one that runs.
FinishKeepsRun == queue' = Tail(queue) /\ UNCHANGED run

\* Whatever ends the task takes it off the queue.
Finish ==
    /\ queue' = Tail(queue)
    /\ run' = NoRun

\* No proposal, cancelled, checks not derived, benchmark lost, not healthy, or
\* turned down by the gate.
RunFails ==
    /\ run.at # "none"
    /\ Finish
    /\ UNCHANGED <<cfg, triggers, pending, tick, created, filed, late, shipped, plugin, day, steps>>

\* A plausible slip: opting into full-auto is enough.
HoldsUnlessOptedIn(task) == IF Unattended(task) THEN {~ cfg.auto} ELSE BOOLEAN

\* A person's change follows agent.require_approval, which may say either.
ShouldHold(task) == IF Unattended(task) THEN {~ (cfg.auto /\ cfg.verifier)} ELSE BOOLEAN

\* The agent worked and its change is committed; with the gate on, checks are
\* to be derived for it.
RunCommits ==
    /\ run.at = "work"
    /\ run' = [run EXCEPT !.at = IF cfg.verifier THEN "derive" ELSE "committed"]
    /\ UNCHANGED <<cfg, triggers, queue, pending, tick, created, filed, late, shipped, plugin, day, steps>>

\* There are some, or nothing to check over HTTP; or none could be derived,
\* which ends the change (RunFails) only under verifier.strict.
Derived(how) == [run EXCEPT !.at = "committed", !.checks = how]

RunDerives ==
    /\ run.at = "derive"
    /\ \E how \in Outcomes : (how = "failed" => ~ cfg.strict) /\ run' = Derived(how)
    /\ UNCHANGED <<cfg, triggers, queue, pending, tick, created, filed, late, shipped, plugin, day, steps>>

\* The benchmark is run: now the settings are asked whether the change is held.
RunDecides ==
    /\ run.at = "committed"
    /\ \E hold \in ShouldHold(run.task) :
         IF hold THEN pending' = pending \cup {run.task} /\ Finish
         ELSE run' = [run EXCEPT !.at = "boot"] /\ UNCHANGED <<queue, pending>>
    /\ UNCHANGED <<cfg, triggers, tick, created, filed, late, shipped, plugin, day, steps>>

Ships(gated) ==
    /\ shipped' = IF Unattended(run.task)
                  THEN shipped \cup {[gated |-> gated, checks |-> run.checks,
                                      strict |-> cfg.strict, steady |-> run.steady]}
                  ELSE shipped
    /\ Finish

\* The candidate is healthy: whether it has to pass the gate is asked now.
RunBoots ==
    /\ run.at = "boot"
    /\ IF cfg.verifier
       THEN run' = [run EXCEPT !.at = "verify"] /\ UNCHANGED <<queue, shipped>>
       ELSE Ships(FALSE)
    /\ UNCHANGED <<cfg, triggers, pending, tick, created, filed, late, plugin, day, steps>>

\* It passed: the checks derived for it, if any, and the regression suite.
RunVerified ==
    /\ run.at = "verify"
    /\ Ships(TRUE)
    /\ UNCHANGED <<cfg, triggers, pending, tick, created, filed, late, plugin, day, steps>>
-----------------------------------------------------------------------------
(* The operator, through the syscalls of the Automation card and the gates. *)

Step == steps < MaxSteps /\ steps' = steps + 1

Switch ==
    /\ Step
    /\ \E key \in Settings : cfg' = [cfg EXCEPT ![key] = ~ @]
    /\ run' = [run EXCEPT !.steady = run.at = "none"]
    /\ UNCHANGED <<triggers, queue, pending, tick, created, filed, late, shipped, plugin, day>>

CreateTrigger ==
    /\ Step /\ created < MaxTriggers
    /\ \E kind \in Kinds : triggers' = Created(triggers, created + 1, New(kind, FALSE, 0))
    /\ created' = created + 1
    /\ UNCHANGED <<cfg, queue, pending, tick, run, filed, late, shipped, plugin, day>>

\* Saving an edit names neither "enabled" nor "once".
ChangeTrigger ==
    /\ Step
    /\ \E t \in DOMAIN triggers :
         triggers' \in {Toggled(triggers, t, ~ triggers[t].on), Edited(triggers, t, TRUE, FALSE),
                        Deleted(triggers, t)}
    /\ UNCHANGED <<cfg, queue, pending, tick, run, created, filed, late, shipped, plugin, day>>

\* A held change is approved or rejected.
Decide ==
    /\ Step
    /\ \E x \in pending : pending' = pending \ {x}
    /\ UNCHANGED <<cfg, triggers, queue, tick, run, created, filed, late, shipped, plugin, day>>
-----------------------------------------------------------------------------
(* The plugin.  A call: [fn, p, at, saw, id]; saw holds the triggers the    *)
(* kernel answered with, id the trigger it is about.                        *)

NoCall == [fn |-> "none", p |-> 0, at |-> "none", saw |-> <<>>, id |-> 0]

Working == {c \in 1..MaxCalls : calls[c] # NoCall}
Ends(c) == calls' = [calls EXCEPT ![c] = NoCall]

Starts(fn, p, at) ==
    /\ Working # 1..MaxCalls
    /\ LET c == Min(1..MaxCalls \ Working)
       IN  calls' = [calls EXCEPT ![c] = [NoCall EXCEPT !.fn = fn, !.p = p, !.at = at]]
    /\ apart' = (apart \/ Working # {})

\* schedule, unschedule, run and the listing, up to their first await.
Ask ==
    /\ Step
    /\ \E p \in Proposals :
         \/ store[p].status = "open" /\ Starts("schedule", p, "create") /\ UNCHANGED store
         \/ store[p].status = "scheduled" /\ Starts("unschedule", p, "sync") /\ UNCHANGED store
         \/ /\ store[p].status = "open" /\ Starts("run", p, "submit")
            /\ store' = [store EXCEPT ![p].status = "run"]
         \/ /\ store[p].status \in {"open", "scheduled"}
            /\ Starts("list", p, "sync") /\ UNCHANGED store
    /\ UNCHANGED <<kernel, day>>

Dismiss ==
    /\ Step
    /\ \E p \in Proposals : /\ store[p].status = "open"
                            /\ store' = [store EXCEPT ![p].status = "dismissed"]
    /\ apart' = (apart \/ Working # {})
    /\ UNCHANGED <<kernel, calls, day>>

\* The kernel takes a request of the plugin's, or it never gets there (the
\* operator's authorization may also refuse it).
KernelCreates(c) ==
    /\ calls[c].at = "create"
    /\ \/ /\ created < MaxTriggers
          /\ triggers' = Created(triggers, created + 1, New("schedule", TRUE, calls[c].p))
          /\ created' = created + 1
          /\ calls' = [calls EXCEPT ![c].at = "created", ![c].id = created + 1]
       \/ Ends(c) /\ UNCHANGED <<triggers, created>>
    /\ UNCHANGED <<cfg, queue, pending, tick, run, filed, late, shipped, store, apart, day, steps>>

KernelLists(c) ==
    /\ calls[c].at = "sync"
    /\ \/ calls' = [calls EXCEPT ![c].at = "synced", ![c].saw = triggers]
       \/ calls[c].fn = "list" /\ Ends(c)
       \/ calls[c].fn = "unschedule" /\ calls' = [calls EXCEPT ![c].at = "unsynced"]
    /\ UNCHANGED <<kernel, store, apart, day, steps>>

KernelDeletes(c) ==
    /\ calls[c].at = "delete"
    /\ \/ /\ calls[c].id \in DOMAIN triggers
          /\ triggers' = Deleted(triggers, calls[c].id)
          /\ calls' = [calls EXCEPT ![c].at = "deleted"]
       \/ calls' = [calls EXCEPT ![c].at = "kept"] /\ UNCHANGED triggers
    /\ UNCHANGED <<cfg, queue, pending, tick, run, created, filed, late, shipped, store, apart, day, steps>>

KernelEnqueues(c) ==
    /\ calls[c].at = "submit"
    /\ \/ Files(Enqueued(Stored(day), 0, calls[c].p)) /\ Ends(c)
       \/ calls' = [calls EXCEPT ![c].at = "refused"] /\ UNCHANGED <<triggers, queue, filed, late>>
    /\ UNCHANGED <<cfg, pending, tick, run, created, shipped, store, apart, day, steps>>

\* A plausible slip: the proposal is open again whatever the kernel said.
CancelledAnyway(p, gone) ==
    IF store[p].status = "scheduled" THEN [store EXCEPT ![p] = Open] ELSE store

\* A schedule is cancelled once its trigger is gone.
Cancelled(p, gone) ==
    IF gone /\ store[p].status = "scheduled" THEN [store EXCEPT ![p] = Open] ELSE store

\* unschedule goes on with what the reconciled store says.
Cancels(c, st) ==
    IF calls[c].fn = "unschedule" /\ st[calls[c].p].status = "scheduled"
    THEN calls' = [calls EXCEPT ![c].at = "delete", ![c].saw = <<>>,
                                ![c].id = st[calls[c].p].trigger]
    ELSE Ends(c)

\* The handler is resumed with the kernel's answer.
Resume(c) ==
    LET p == calls[c].p IN
    /\ CASE calls[c].at = "created" ->
              /\ store' = IF store[p].status # "open" THEN store
                          ELSE [store EXCEPT ![p] = [status |-> "scheduled", trigger |-> calls[c].id]]
              /\ Ends(c)
         [] calls[c].at = "synced" ->
              store' = Reconciled(store, calls[c].saw) /\ Cancels(c, store')
         [] calls[c].at = "unsynced" -> Cancels(c, store) /\ UNCHANGED store
         [] calls[c].at \in {"deleted", "kept"} ->
              store' = Cancelled(p, calls[c].at = "deleted") /\ Ends(c)
         [] calls[c].at = "refused" -> store' = [store EXCEPT ![p].status = "open"] /\ Ends(c)
         [] OTHER -> FALSE
    /\ UNCHANGED <<kernel, apart, day, steps>>
-----------------------------------------------------------------------------
(* Time, and processes that die.                                            *)

NextDay ==
    /\ day < MaxDays
    /\ day' = day + 1
    /\ filed' = [t \in 0..MaxTriggers |-> 0] /\ late' = filed'
    /\ UNCHANGED <<cfg, triggers, queue, pending, tick, run, created, shipped, plugin, steps>>

\* A reboot replaces the app: the requests its process worked on are cut.
AppRestarts ==
    /\ Step /\ Working # {}
    /\ calls' = [c \in 1..MaxCalls |-> NoCall]
    /\ apart' = TRUE
    /\ UNCHANGED <<kernel, store, day>>

\* The kernel dies, and the app with it; what is on disk stays, but at boot the
\* task that was running is dropped from the queue.
KernelRestarts ==
    /\ Step /\ (tick # Idle \/ run # NoRun)
    /\ tick' = Idle /\ run' = NoRun
    /\ queue' = IF run # NoRun THEN Tail(queue) ELSE queue
    /\ calls' = [c \in 1..MaxCalls |-> NoCall]
    /\ apart' = (apart \/ Working # {})
    /\ UNCHANGED <<cfg, triggers, pending, created, filed, late, shipped, store, day>>

Init ==
    /\ cfg = [s \in Settings |-> s \in StartsOn]
    /\ triggers = <<>>
    /\ queue = <<>>
    /\ pending = {}
    /\ tick = Idle
    /\ run = NoRun
    /\ store = [p \in Proposals |-> Open]
    /\ calls = [c \in 1..MaxCalls |-> NoCall]
    /\ day = 1
    /\ created = 0
    /\ filed = [t \in 0..MaxTriggers |-> 0] /\ late = filed
    /\ shipped = {}
    /\ apart = FALSE
    /\ steps = 0

Tick == TickStarts \/ AppAnswers \/ TickFires \/ PollFails
Run ==
    RunStarts \/ RunFails \/ RunCommits \/ RunDerives \/ RunDecides \/ RunBoots \/ RunVerified
Operator == Switch \/ CreateTrigger \/ ChangeTrigger \/ Decide
Handle(c) ==
    KernelCreates(c) \/ KernelLists(c) \/ KernelDeletes(c) \/ KernelEnqueues(c) \/ Resume(c)
Restart == AppRestarts \/ KernelRestarts

Next ==
    \/ Tick \/ WebhookFires \/ Run \/ Operator \/ Ask \/ Dismiss \/ NextDay \/ Restart
    \/ \E c \in 1..MaxCalls : Handle(c)

Spec == Init /\ [][Next]_vars

\* The kernel's clock ticks every 30 seconds and a poll is given up after 5;
\* nothing is assumed of the app, the drainer or the operator.
FairSpec == Spec /\ WF_vars(TickStarts) /\ WF_vars(TickFires) /\ WF_vars(PollFails)
-----------------------------------------------------------------------------
(* What should hold.                                                        *)

TypeOK ==
    /\ cfg \in [Settings -> BOOLEAN]
    /\ DOMAIN triggers \subseteq 1..created
    /\ \A t \in DOMAIN triggers :
         triggers[t] \in [kind : Kinds, on : BOOLEAN, once : BOOLEAN, of : Proposals \cup {0},
                          day : 0..day, count : Nat, fired : [Items -> 0..day]]
    /\ \A i \in DOMAIN queue : queue[i] \in [by : 0..created, item : Items \cup {0}]
    /\ pending \subseteq [by : 0..created, item : Items \cup {0}]
    /\ tick.at \in {"none", "error_spike", "advisor"} /\ tick.now \in 0..day
    /\ run \in [at : Stages, steady : BOOLEAN, task : [by : 0..created, item : Items \cup {0}],
               checks : Outcomes \cup {"none"}]
    /\ run.at # "none" => queue # <<>> /\ run.task = Head(queue)
    /\ store \in [Proposals -> [status : {"open", "scheduled", "run", "dismissed"},
                                trigger : 0..created]]
    /\ {filed, late} \subseteq [0..MaxTriggers -> Nat]
    /\ shipped \subseteq [gated : BOOLEAN, checks : Outcomes \cup {"none"}, strict : BOOLEAN,
                          steady : BOOLEAN]

\* However their fires, edits, polls and restarts interleave, the triggers there
\* are never file more changes on a day than the daily cap allows, and the pass
\* of the clock that midnight came upon, which goes by the date it began with,
\* never more than that once again.
ByTriggers(n) ==
    Total([t \in 1..MaxTriggers |-> IF t \in DOMAIN triggers THEN n[t] ELSE 0])
CapHolds == ByTriggers(filed) <= MaxPerDay /\ ByTriggers(late) <= MaxPerDay

\* Refuted by this model (see the README), so checked by no run of the project:
\* no more than the cap on a calendar day.
DayCapHolds == ByTriggers(filed) + ByTriggers(late) <= MaxPerDay

\* As long as the plugin works on one request at a time and none is cut: a
\* one-shot that is still to fire has a proposal that says it is scheduled, by
\* that trigger.  The operator may switch it, delete it, edit it, and the
\* kernel may refuse or never get any of the plugin's requests.
ArmedIsScheduled ==
    ~ apart /\ Working = {} =>
        \A t \in DOMAIN triggers :
            LET r == triggers[t]
            IN  r.once /\ r.day = 0 => store[r.of] = [status |-> "scheduled", trigger |-> t]

\* A trigger's change goes live unattended only past the verification gate, and
\* with checks of its own unless none could be derived: there was nothing to
\* check, or the derivation failed and verifier.strict is off ("fail-open").
\* As long as nobody changes the settings while it runs.
HeldUnlessVerified ==
    \A s \in shipped : s.steady =>
        s.gated /\ s.checks # "none" /\ ~ (s.checks = "failed" /\ s.strict)

\* Refuted by this model (see the README), so checked by no run of the project:
\* "A scheduled task never promotes unverified code" (docs/ARCHITECTURE.md).
TimerShipsVerified == \A s \in shipped : s.gated /\ s.checks = "derived"

\* A schedule that is due is filed, unless it is switched off, or the day's cap
\* is reached: no answer the app fails to give stops the clock.
IsDue(t) ==
    /\ cfg.enabled /\ ~ RateLimited(Stored(day))
    /\ t \in DOMAIN triggers
    /\ triggers[t].on /\ triggers[t].kind = "schedule" /\ ScheduleDue(triggers[t], day)

DueIsFiled == \A t \in 1..MaxTriggers : IsDue(t) ~> ~ IsDue(t)
=============================================================================
