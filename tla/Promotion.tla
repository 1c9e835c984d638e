------------------------------ MODULE Promotion ------------------------------
(***************************************************************************)
(* How a version of the app becomes the one that is served: the kernel's    *)
(* blue-green reboot (kernel/core.py, reboot_to_version), the requests that *)
(* end in one (self-modification, approval, rollback, rollback to a         *)
(* version, the live watchdog), and boot() after a crash.                   *)
(*                                                                         *)
(* The kernel is one asyncio event loop: a coroutine runs alone from one    *)
(* await to the next, so a request is a program counter that stops at the   *)
(* awaits.  A stretch without await that writes several state files is cut  *)
(* at each write, because the process may be killed there; LoopFree keeps   *)
(* every other coroutine out of such a stretch.                             *)
(***************************************************************************)
EXTENDS Integers, Sequences, FiniteSets

CONSTANTS
    Versions,     \* commits versions.git can ever hold (a bound of the model)
    Seed,         \* the first of them, imported from app/
    NoVersion,    \* "no version": None in the code
    Callers,      \* concurrent callers: HTTP requests and the queue's drainer
    Monitor,      \* the live watchdog's task
    NoOne,        \* nobody holds the reboot lock
    Ops,          \* the kinds of request the callers make in this instance
    Verifier,     \* config verifier.enabled
    MaxHistory,   \* state_store.PROMOTION_HISTORY_MAX (50 in the code)
    MaxInFlight,  \* bound: requests in flight at once
    MaxCrashes    \* bound: how often the kernel process is killed

OpKinds == {"selfmod", "approve", "reject", "rollback", "rollback_to",
            "monitor", "reconfigure", "toggle"}

ASSUME VersionsAssumption == Seed \in Versions /\ NoVersion \notin Versions
ASSUME ActorsAssumption   == /\ Monitor \notin Callers
                             /\ NoOne \notin Callers \cup {Monitor}
ASSUME BoundsAssumption   == /\ Ops \subseteq OpKinds
                             /\ Verifier \in BOOLEAN
                             /\ MaxHistory \in Nat \ {0}
                             /\ MaxInFlight \in Nat
                             /\ MaxCrashes \in Nat

VARIABLES
    \* on disk: survive a crash
    main,       \* refs/heads/main, the active line's tip
    anc,        \* the commits of versions.git: version -> itself and its ancestors
    slots,      \* slots.json
    status,     \* the registry: version -> current status
    pending,    \* pending_promotions.json: versions held for approval
    derived,    \* versions whose change came with acceptance checks
    suite,      \* checks.json: origin version -> state of its frozen checks
    \* in the kernel process
    phase,      \* "down", "booting" (the lkg), "fallback" (main's tip), "up"
    current,    \* Kernel.current: the app the gateway proxies to
    cand,       \* the candidate process of the reboot that holds the lock
    stray,      \* slots in which runs a process no handle refers to any more
    lock,       \* holder of Kernel.lock
    waiters,    \* FIFO of the coroutines that wait for it
    pc, op, tgt,\* per request: where it stands, what it is, the version it is about
    oldMain,    \* reboot_to_version's local old_main
    \* history of the behaviour, read by no action
    proven,     \* versions that answered a health check at least once
    crashes

disk == <<main, anc, slots, status, pending, derived, suite>>
reboot == <<current, cand, stray, lock, waiters, oldMain>>
vars == <<disk, phase, reboot, pc, op, tgt, proven, crashes>>

Actors == Callers \cup {Monitor}
Slot   == {"a", "b"}
Known  == {v \in Versions : anc[v] # {}}

(* registry.py, the status vocabulary (line and revert statuses are set by   *)
(* components outside this module)                                          *)
Status == {"unregistered", "committed", "pending", "promoted", "health_failed",
           "verify_failed", "eval_failed", "rejected", "rolled_back",
           "abandoned", "restored", "line_promoted"}

(* "lifecycle" and "operator" are the two values of disabled_by *)
SuiteState == {"none", "active", "lifecycle", "operator"}

NoApp == [version |-> NoVersion, slot |-> "a"]
OtherSlotAlwaysB(s) == "b"                     \* mutant of OtherSlot
OtherSlot(s) == IF s = "a" THEN "b" ELSE "a"

-----------------------------------------------------------------------------
(* The undo stack, slots.promotion_history *)

Tip(h)  == IF h = <<>> THEN NoVersion ELSE h[Len(h)]
Drop(h) == IF h = <<>> THEN h ELSE SubSeq(h, 1, Len(h) - 1)
Trim(h) == IF Len(h) > MaxHistory
           THEN SubSeq(h, Len(h) - MaxHistory + 1, Len(h)) ELSE h

(* "push" records the version being departed, once, and "pop" drops the tip  *)
(* whatever version the reboot went to.                                     *)
Departed(h, old, new) ==
    IF old \notin {NoVersion, new} /\ Tip(h) # old THEN Append(h, old) ELSE h

NextHistoryPushesOnly(h, o, old, new) ==         \* mutant of NextHistory
    Trim(Departed(h, old, new))

NextHistory(h, o, old, new) ==
    Trim(IF o \in {"rollback", "monitor"} THEN Drop(h) ELSE Departed(h, old, new))

(* The watchdog's target: the newest entry that is not the bad version, else *)
(* the last known good if that is another one.                              *)
MonitorTarget(s, bad) ==
    LET others == {i \in DOMAIN s.history : s.history[i] # bad}
    IN  IF others # {}
        THEN s.history[CHOOSE i \in others : \A j \in others : j <= i]
        ELSE IF s.lkg # bad THEN s.lkg ELSE NoVersion

(* The registry after `main` moved from one tip to another: what fell off    *)
(* the line, and what came back on it.                                      *)
OffLine(from, to) == anc[from] \ anc[to]
BackOn(from, to)  == (anc[to] \ anc[from]) \ {to}

RedrawnForgetsReturned(st, from, to) ==          \* mutant of Redrawn
    [v \in Versions |->
        IF v \in OffLine(from, to)
        THEN IF v = from THEN "rolled_back" ELSE "abandoned" ELSE st[v]]

Redrawn(st, from, to) ==
    [v \in Versions |->
        CASE v \in OffLine(from, to) -> IF v = from THEN "rolled_back" ELSE "abandoned"
          [] v \in BackOn(from, to) /\ st[v] \in {"abandoned", "rolled_back"} -> "restored"
          [] v \in BackOn(from, to) /\ st[v] = "line_promoted" -> "promoted"
          [] OTHER -> st[v]]

(* registry.reconcile at boot: backfill commits the registry does not know,  *)
(* and repair the two drifts it looks for.                                  *)
ReconciledForwardOnly(st, line, known) ==        \* mutant of Reconciled
    [v \in Versions |->
        IF v \in line /\ st[v] \in {"unregistered", "committed"} THEN "promoted"
        ELSE IF v \in known /\ st[v] = "unregistered" THEN "abandoned" ELSE st[v]]

Reconciled(st, line, known) ==
    [v \in Versions |->
        CASE v \in known /\ st[v] = "unregistered" ->
                 IF v \in line THEN "promoted"
                 ELSE IF v \in pending THEN "pending" ELSE "abandoned"
          [] v \in line /\ st[v] = "committed" -> "promoted"
          [] v \notin line /\ st[v] \in {"promoted", "restored"} -> "abandoned"
          [] OTHER -> st[v]]

(* checks.sync_lifecycle: checks follow their origin; an operator's disable  *)
(* is sticky.                                                               *)
SyncedOverridesOperator(su, off, on) ==          \* mutant of Synced
    [v \in Versions |->
        IF v \in off /\ su[v] = "active" THEN "lifecycle"
        ELSE IF v \in on /\ su[v] # "none" THEN "active" ELSE su[v]]

Synced(su, off, on) ==
    [v \in Versions |->
        IF v \in off /\ su[v] = "active" THEN "lifecycle"
        ELSE IF v \in on /\ su[v] = "lifecycle" THEN "active" ELSE su[v]]

(* A waiter that is cancelled leaves the FIFO where it stands. *)
Without(w, i) == [j \in 1 .. Len(w) - 1 |-> IF j < i THEN w[j] ELSE w[j + 1]]

-----------------------------------------------------------------------------
TypeOK ==
    /\ main \in Versions \cup {NoVersion}
    /\ anc \in [Versions -> SUBSET Versions]
    /\ slots \in [active : Versions \cup {NoVersion}, prev : Versions \cup {NoVersion},
                  lkg : Versions \cup {NoVersion}, history : Seq(Versions)]
    /\ status \in [Versions -> Status]
    /\ pending \subseteq Versions
    /\ derived \subseteq Versions
    /\ suite \in [Versions -> SuiteState]
    /\ phase \in {"down", "booting", "fallback", "up"}
    /\ current \in [version : Versions \cup {NoVersion}, slot : Slot]
    /\ cand \in [version : Versions \cup {NoVersion}, slot : Slot]
    /\ stray \subseteq Slot
    /\ lock \in Actors \cup {NoOne}
    /\ waiters \in Seq(Actors)
    /\ pc \in [Actors -> {"idle", "staged", "recording", "committed", "wait",
                          "health", "verify", "unhealthy", "unverified", "slots",
                          "redraw", "suite", "stamp", "freeze", "stop", "holding",
                          "rejecting"}]
    /\ op \in [Actors -> OpKinds \cup {"none"}]
    /\ tgt \in [Actors -> Versions \cup {NoVersion}]
    /\ oldMain \in Versions \cup {NoVersion}
    /\ proven \subseteq Versions
    /\ crashes \in Nat

Init ==
    /\ main = NoVersion
    /\ anc = [v \in Versions |-> {}]
    /\ slots = [active |-> NoVersion, prev |-> NoVersion, lkg |-> NoVersion,
                history |-> <<>>]
    /\ status = [v \in Versions |-> "unregistered"]
    /\ pending = {} /\ derived = {}
    /\ suite = [v \in Versions |-> "none"]
    /\ phase = "down"
    /\ current = NoApp /\ cand = NoApp /\ stray = {}
    /\ lock = NoOne /\ waiters = <<>> /\ oldMain = NoVersion
    /\ pc = [a \in Actors |-> "idle"]
    /\ op = [a \in Actors |-> "none"]
    /\ tgt = [a \in Actors |-> NoVersion]
    /\ proven = {} /\ crashes = 0

-----------------------------------------------------------------------------
(* Event loop.  In a SyncPC the coroutine has not reached its next await.    *)

SyncPC == {"recording", "slots", "redraw", "suite", "stamp", "freeze", "holding",
           "rejecting"}
LoopFree == phase = "up" /\ \A a \in Actors : pc[a] \notin SyncPC

InFlight == {a \in Actors : pc[a] # "idle"}
MayCall(a, kind) ==
    /\ LoopFree
    /\ kind \in Ops
    /\ pc[a] = "idle"
    /\ Cardinality(InFlight) < MaxInFlight

(* `async with self.lock`: taken at once when it is free and nobody waits,   *)
(* else in FIFO order.  The holder starts its candidate in the inactive slot *)
(* and then awaits its health.                                              *)
Launch(a, v) ==
    /\ lock' = a
    /\ cand' = [version |-> v, slot |-> OtherSlot(current.slot)]

Enter(a, kind, v) ==
    /\ op' = [op EXCEPT ![a] = kind]
    /\ tgt' = [tgt EXCEPT ![a] = v]
    /\ IF lock = NoOne /\ waiters = <<>>
       THEN /\ Launch(a, v)
            /\ pc' = [pc EXCEPT ![a] = "health"]
            /\ UNCHANGED waiters
       ELSE /\ waiters' = Append(waiters, a)
            /\ pc' = [pc EXCEPT ![a] = "wait"]
            /\ UNCHANGED <<lock, cand>>
    /\ UNCHANGED <<disk, phase, current, stray, oldMain, proven, crashes>>

Acquire(a) ==
    /\ LoopFree
    /\ lock = NoOne
    /\ waiters # <<>> /\ Head(waiters) = a
    /\ waiters' = Tail(waiters)
    /\ Launch(a, tgt[a])
    /\ pc' = [pc EXCEPT ![a] = "health"]
    /\ UNCHANGED <<disk, phase, current, stray, oldMain, op, tgt, proven, crashes>>

(* The request is over; what its coroutine knew is forgotten. *)
Done(a) ==
    /\ pc' = [pc EXCEPT ![a] = "idle"]
    /\ op' = [op EXCEPT ![a] = "none"]
    /\ tgt' = [tgt EXCEPT ![a] = NoVersion]

Release == lock' = NoOne /\ cand' = NoApp /\ oldMain' = NoVersion

-----------------------------------------------------------------------------
(* The requests *)

(* The drainer runs one change at a time: it clones main, or the version the *)
(* user continues from, and lets the agent edit.                            *)
StageChange(a) ==
    /\ MayCall(a, "selfmod") /\ a \in Callers
    /\ \A b \in Actors : op[b] # "selfmod"
    /\ \E base \in Known : tgt' = [tgt EXCEPT ![a] = base]
    /\ op' = [op EXCEPT ![a] = "selfmod"]
    /\ pc' = [pc EXCEPT ![a] = "staged"]
    /\ UNCHANGED <<disk, phase, reboot, proven, crashes>>

(* Cancelled, no valid proposal, or nothing to commit. *)
AbandonChange(a) ==
    /\ LoopFree /\ pc[a] = "staged"
    /\ Done(a)
    /\ UNCHANGED <<disk, phase, reboot, proven, crashes>>

(* versioning.commit_staging: first the commit and its v_ branch ... *)
CommitChange(a) ==
    /\ LoopFree /\ pc[a] = "staged"
    /\ \E v \in Versions \ Known :
          /\ anc' = [anc EXCEPT ![v] = anc[tgt[a]] \cup {v}]
          /\ tgt' = [tgt EXCEPT ![a] = v]
    /\ pc' = [pc EXCEPT ![a] = "recording"]
    /\ UNCHANGED <<main, slots, status, pending, derived, suite, phase, reboot, op,
                   proven, crashes>>

(* ... then the registry entry; the change goes on with awaits (deriving     *)
(* acceptance checks, agent evals).                                         *)
RecordCommit(a) ==
    /\ pc[a] = "recording"
    /\ status' = [status EXCEPT ![tgt[a]] = "committed"]
    /\ derived' \in {derived} \cup (IF Verifier THEN {derived \cup {tgt[a]}} ELSE {})
    /\ pc' = [pc EXCEPT ![a] = "committed"]
    /\ UNCHANGED <<main, anc, slots, pending, suite, phase, reboot, op, tgt,
                   proven, crashes>>

(* Strict check derivation failed, or the agent's own benchmark did. *)
FailGate(a) ==
    /\ LoopFree /\ pc[a] = "committed"
    /\ \E s \in {"eval_failed"} \cup (IF Verifier THEN {"verify_failed"} ELSE {}) :
          status' = [status EXCEPT ![tgt[a]] = s]
    /\ Done(a)
    /\ UNCHANGED <<main, anc, slots, pending, derived, suite, phase, reboot,
                   proven, crashes>>

(* Holding a version is two writes: the pending list, then its status. *)
HoldForApproval(a) ==
    /\ LoopFree /\ pc[a] = "committed"
    /\ pending' = pending \cup {tgt[a]}
    /\ pc' = [pc EXCEPT ![a] = "holding"]
    /\ UNCHANGED <<main, anc, slots, status, derived, suite, phase, reboot, op, tgt,
                   proven, crashes>>

RecordHold(a) ==
    /\ pc[a] = "holding"
    /\ status' = [status EXCEPT ![tgt[a]] = "pending"]
    /\ Done(a)
    /\ UNCHANGED <<main, anc, slots, pending, derived, suite, phase, reboot,
                   proven, crashes>>

PromoteChange(a) ==
    /\ LoopFree /\ pc[a] = "committed"
    /\ Enter(a, "selfmod", tgt[a])

(* The target is read before the lock is taken. *)
RollbackUnchecked(a) ==                          \* mutant of Rollback
    /\ MayCall(a, "rollback") /\ a \in Callers
    /\ Enter(a, "rollback", IF slots.history # <<>> THEN Tip(slots.history)
                            ELSE slots.prev)

Rollback(a) ==
    /\ MayCall(a, "rollback") /\ a \in Callers
    /\ LET target == IF slots.history # <<>> THEN Tip(slots.history) ELSE slots.prev
       IN  target # NoVersion /\ Enter(a, "rollback", target)

RollbackTo(a) ==
    /\ MayCall(a, "rollback_to") /\ a \in Callers
    /\ \E v \in Known : Enter(a, "rollback_to", v)

Approve(a) ==
    /\ MayCall(a, "approve") /\ a \in Callers
    /\ \E v \in pending : Enter(a, "approve", v)

(* reject_version: off the pending list first, and the status in a second    *)
(* write, with no await between them.                                       *)
Reject(a) ==
    /\ MayCall(a, "reject") /\ a \in Callers
    /\ \E v \in pending :
          /\ pending' = pending \ {v}
          /\ tgt' = [tgt EXCEPT ![a] = v]
    /\ op' = [op EXCEPT ![a] = "reject"]
    /\ pc' = [pc EXCEPT ![a] = "rejecting"]
    /\ UNCHANGED <<main, anc, slots, status, derived, suite, phase, reboot, proven,
                   crashes>>

RecordReject(a) ==
    /\ pc[a] = "rejecting"
    /\ status' = [status EXCEPT ![tgt[a]] = "rejected"]
    /\ Done(a)
    /\ UNCHANGED <<main, anc, slots, pending, derived, suite, phase, reboot,
                   proven, crashes>>

ToggleCheck ==
    /\ LoopFree /\ "toggle" \in Ops
    /\ \E v \in Versions, s \in {"active", "operator"} :
          /\ suite[v] \notin {"none", s}
          /\ suite' = [suite EXCEPT ![v] = s]
    /\ UNCHANGED <<main, anc, slots, status, pending, derived, phase, reboot, pc, op,
                   tgt, proven, crashes>>

(* _on_live_unhealthy; what the poll saw is the environment's choice. *)
MonitorUnhealthy ==
    /\ MayCall(Monitor, "monitor")
    /\ lock = NoOne
    /\ \E v \in Versions :
          v = MonitorTarget(slots, current.version) /\ Enter(Monitor, "monitor", v)

(* apply_monitor_config cancels the watchdog's task at the await it is in:   *)
(* nothing stops the candidate it was waiting for, while a stop that runs in *)
(* its thread goes on.                                                      *)
CancelMonitor ==
    /\ LoopFree /\ "reconfigure" \in Ops /\ pc[Monitor] # "idle"
    /\ Done(Monitor)
    /\ IF lock = Monitor
       THEN /\ Release
            /\ stray' = IF pc[Monitor] = "health" THEN stray \cup {cand.slot} ELSE stray
            /\ UNCHANGED waiters
       ELSE /\ \E i \in DOMAIN waiters :
                  waiters[i] = Monitor /\ waiters' = Without(waiters, i)
            /\ UNCHANGED <<lock, cand, oldMain, stray>>
    /\ UNCHANGED <<disk, phase, current, proven, crashes>>

-----------------------------------------------------------------------------
(* reboot_to_version, from the health gate on *)

Gated(a) == Verifier /\ op[a] \in {"selfmod", "approve"}

FlipOnly(a) ==                                   \* mutant of Flip
    /\ oldMain' = main
    /\ current' = cand
    /\ cand' = NoApp
    /\ pc' = [pc EXCEPT ![a] = "slots"]
    /\ UNCHANGED <<disk, phase, stray, lock, waiters, op, tgt, crashes>>

(* The candidate becomes the served app and main's tip. *)
Flip(a) ==
    /\ oldMain' = main
    /\ current' = cand
    /\ cand' = NoApp
    /\ main' = tgt[a]
    /\ pc' = [pc EXCEPT ![a] = "slots"]
    /\ UNCHANGED <<anc, slots, status, pending, derived, suite, phase, stray,
                   lock, waiters, op, tgt, crashes>>

Healthy(a) ==
    /\ LoopFree /\ pc[a] = "health"
    /\ proven' = proven \cup {tgt[a]}
    /\ IF Gated(a)
       THEN /\ pc' = [pc EXCEPT ![a] = "verify"]
            /\ UNCHANGED <<disk, phase, reboot, op, tgt, crashes>>
       ELSE Flip(a)

Verified(a) ==
    /\ LoopFree /\ pc[a] = "verify"
    /\ Flip(a)
    /\ UNCHANGED proven

UnfitPromotes(a) ==                              \* mutant of Unfit
    /\ LoopFree /\ pc[a] = "health"
    /\ Flip(a)
    /\ UNCHANGED proven

Unfit(a) ==
    /\ LoopFree
    /\ \/ pc[a] = "health" /\ pc' = [pc EXCEPT ![a] = "unhealthy"]
       \/ pc[a] = "verify" /\ pc' = [pc EXCEPT ![a] = "unverified"]
    /\ UNCHANGED <<disk, phase, reboot, op, tgt, proven, crashes>>

(* Deploying the version or starting its process raised: the exception ends  *)
(* the request before the candidate exists.                                 *)
LaunchRaises(a) ==
    /\ LoopFree /\ pc[a] = "health"
    /\ Release
    /\ Done(a)
    /\ UNCHANGED <<disk, phase, current, stray, waiters, proven, crashes>>

DropCandidateKeepsLock(a) ==                     \* mutant of DropCandidate
    /\ LoopFree /\ pc[a] \in {"unhealthy", "unverified"}
    /\ Done(a)
    /\ UNCHANGED <<disk, phase, reboot, proven, crashes>>

DropCandidateAndHold(a) ==                       \* mutant of DropCandidate
    /\ LoopFree /\ pc[a] \in {"unhealthy", "unverified"}
    /\ pending' = pending \ {tgt[a]}
    /\ Release
    /\ Done(a)
    /\ UNCHANGED <<main, anc, slots, status, derived, suite, phase, current, stray,
                   waiters, proven, crashes>>

(* The rejected candidate is stopped, and the registry told why. *)
DropCandidate(a) ==
    /\ LoopFree /\ pc[a] \in {"unhealthy", "unverified"}
    /\ status' = [status EXCEPT ![tgt[a]] =
                    IF pc[a] = "unhealthy" THEN "health_failed" ELSE "verify_failed"]
    /\ Release
    /\ Done(a)
    /\ UNCHANGED <<main, anc, slots, pending, derived, suite, phase, current, stray,
                   waiters, proven, crashes>>

WriteSlotsForgetsGood(a) ==                      \* mutant of WriteSlots
    /\ pc[a] = "slots"
    /\ slots' = [slots EXCEPT !.active = tgt[a],
                    !.history = NextHistory(@, op[a], slots.active, tgt[a])]
    /\ pc' = [pc EXCEPT ![a] = IF oldMain # tgt[a] THEN "redraw" ELSE "stamp"]
    /\ UNCHANGED <<main, anc, status, pending, derived, suite, phase, reboot, op, tgt,
                   proven, crashes>>

(* slots.json still names the version being departed as the active one. *)
WriteSlots(a) ==
    /\ pc[a] = "slots"
    /\ LET h == NextHistory(slots.history, op[a], slots.active, tgt[a])
       IN  slots' = [active |-> tgt[a], prev |-> Tip(h), lkg |-> tgt[a], history |-> h]
    /\ pc' = [pc EXCEPT ![a] = IF oldMain # tgt[a] THEN "redraw" ELSE "stamp"]
    /\ UNCHANGED <<main, anc, status, pending, derived, suite, phase, reboot, op, tgt,
                   proven, crashes>>

RedrawLine(a) ==
    /\ pc[a] = "redraw"
    /\ status' = Redrawn(status, oldMain, tgt[a])
    /\ pc' = [pc EXCEPT ![a] = "suite"]
    /\ UNCHANGED <<main, anc, slots, pending, derived, suite, phase, reboot, op, tgt,
                   proven, crashes>>

SyncSuite(a) ==
    /\ pc[a] = "suite"
    /\ suite' = Synced(suite, OffLine(oldMain, tgt[a]),
                       BackOn(oldMain, tgt[a]) \cup {tgt[a]})
    /\ pc' = [pc EXCEPT ![a] = "stamp"]
    /\ UNCHANGED <<main, anc, slots, status, pending, derived, phase, reboot, op, tgt,
                   proven, crashes>>

StampPromoted(a) ==
    /\ pc[a] = "stamp"
    /\ status' = [status EXCEPT ![tgt[a]] = "promoted"]
    /\ pc' = [pc EXCEPT ![a] = "freeze"]
    /\ UNCHANGED <<main, anc, slots, pending, derived, suite, phase, reboot, op, tgt,
                   proven, crashes>>

(* checks.freeze_checks is idempotent per origin and check *)
Freeze(a) ==
    /\ pc[a] = "freeze"
    /\ suite' = IF /\ op[a] \in {"selfmod", "approve"}
                   /\ tgt[a] \in derived /\ suite[tgt[a]] = "none"
                THEN [suite EXCEPT ![tgt[a]] = "active"] ELSE suite
    /\ pc' = [pc EXCEPT ![a] = "stop"]
    /\ UNCHANGED <<main, anc, slots, status, pending, derived, phase, reboot, op, tgt,
                   proven, crashes>>

(* The old app has been stopped.  An approval leaves the pending list only   *)
(* now.                                                                     *)
Finish(a) ==
    /\ LoopFree /\ pc[a] = "stop"
    /\ pending' = IF op[a] = "approve" THEN pending \ {tgt[a]} ELSE pending
    /\ Release
    /\ Done(a)
    /\ UNCHANGED <<main, anc, slots, status, derived, suite, phase, current, stray,
                   waiters, proven, crashes>>

-----------------------------------------------------------------------------
(* boot(), and the end of the process *)

(* Import the seed if versions.git is empty, reconcile the registry with     *)
(* git, and start the last known good version, or main's tip without one.   *)
BootStart ==
    /\ phase = "down"
    /\ LET fresh == main = NoVersion
           tip   == IF fresh THEN Seed ELSE main
           a2    == IF fresh THEN [anc EXCEPT ![Seed] = {Seed}] ELSE anc
           st    == IF fresh THEN [status EXCEPT ![Seed] = "committed"] ELSE status
           start == IF slots.lkg # NoVersion THEN slots.lkg ELSE tip
       IN  /\ main' = tip
           /\ anc' = a2
           /\ status' = Reconciled(st, a2[tip], {v \in Versions : a2[v] # {}})
           /\ cand' = [version |-> start, slot |-> "a"]
    /\ phase' = "booting"
    /\ UNCHANGED <<slots, pending, derived, suite, current, stray, lock, waiters,
                   oldMain, pc, op, tgt, proven, crashes>>

(* The app answers: serve it, and make it the last known good.  The undo     *)
(* stack is kept as it was.                                                 *)
BootHealthy ==
    /\ phase \in {"booting", "fallback"}
    /\ phase' = "up"
    /\ current' = cand
    /\ cand' = NoApp
    /\ proven' = proven \cup {cand.version}
    /\ slots' = [active  |-> cand.version,
                 prev    |-> IF slots.history # <<>> THEN Tip(slots.history)
                             ELSE IF slots.active # cand.version THEN slots.active
                             ELSE NoVersion,
                 lkg     |-> cand.version,
                 history |-> slots.history]
    /\ UNCHANGED <<main, anc, status, pending, derived, suite, stray, lock, waiters,
                   oldMain, pc, op, tgt, crashes>>

(* The recorded version does not boot: fall back to what seed_initial        *)
(* returned, which is main's tip.                                           *)
BootFallback ==
    /\ phase = "booting" /\ cand.version # main
    /\ phase' = "fallback"
    /\ status' = [status EXCEPT ![cand.version] = "health_failed"]
    /\ cand' = [version |-> main, slot |-> "a"]
    /\ UNCHANGED <<main, anc, slots, pending, derived, suite, current, stray, lock,
                   waiters, oldMain, pc, op, tgt, proven, crashes>>

BootFails ==
    /\ phase = "fallback" \/ (phase = "booting" /\ cand.version = main)
    /\ phase' = "down"
    /\ cand' = NoApp
    /\ UNCHANGED <<disk, current, stray, lock, waiters, oldMain, pc, op, tgt, proven,
                   crashes>>

Crash ==
    /\ phase # "down"
    /\ crashes < MaxCrashes
    /\ crashes' = crashes + 1
    /\ phase' = "down"
    /\ current' = NoApp /\ cand' = NoApp /\ stray' = {}
    /\ lock' = NoOne /\ waiters' = <<>> /\ oldMain' = NoVersion
    /\ pc' = [a \in Actors |-> "idle"]
    /\ op' = [a \in Actors |-> "none"]
    /\ tgt' = [a \in Actors |-> NoVersion]
    /\ UNCHANGED <<disk, proven>>

-----------------------------------------------------------------------------
Change(a) ==
    \/ StageChange(a) \/ AbandonChange(a) \/ CommitChange(a) \/ RecordCommit(a)
    \/ FailGate(a) \/ HoldForApproval(a) \/ RecordHold(a) \/ PromoteChange(a)

Reboot(a) ==
    \/ Acquire(a) \/ LaunchRaises(a) \/ Healthy(a) \/ Verified(a)
    \/ Unfit(a) \/ DropCandidate(a)
    \/ WriteSlots(a) \/ RedrawLine(a) \/ SyncSuite(a) \/ StampPromoted(a)
    \/ Freeze(a) \/ Finish(a)

Boot == BootStart \/ BootHealthy \/ BootFallback \/ BootFails

Next ==
    \/ \E a \in Actors : \/ Change(a) \/ Reboot(a)
                         \/ Rollback(a) \/ RollbackTo(a) \/ Approve(a)
                         \/ Reject(a) \/ RecordReject(a)
    \/ ToggleCheck \/ MonitorUnhealthy \/ CancelMonitor
    \/ Boot \/ Crash

(* Every await of a reboot ends: the health poll and the checks have a       *)
(* deadline, stop() kills after a timeout, and asyncio wakes lock waiters.   *)
(* The agent and the operator may take for ever.                            *)
Fairness ==
    \A a \in Actors :
        /\ WF_vars(Reboot(a))
        /\ WF_vars(RecordCommit(a) \/ RecordHold(a) \/ RecordReject(a))

Spec     == Init /\ [][Next]_vars
FairSpec == Spec /\ Fairness

-----------------------------------------------------------------------------
(* Properties *)

(* ARCHITECTURE.md: a broken candidate never advances the active line.  The  *)
(* tip of main and the version a restart boots have both answered a health   *)
(* check, except for a seed that has not been booted yet.                   *)
BrokenNeverAdvances ==
    /\ main \in proven \cup {Seed, NoVersion}
    /\ slots.lkg \in proven \cup {NoVersion}

(* What a restart would boot is what is being served, at every await, also   *)
(* while another reboot waits for its candidate.                            *)
RestartServesTheSame ==
    LoopFree => /\ current.version = slots.active
                /\ current.version = slots.lkg
                /\ current.version # NoVersion

(* versioning.py: main is "the current good version" every edit starts from, *)
(* so at every await it is the version being served.                        *)
MainIsServed == LoopFree => main = current.version

(* The registry tells the active line from the rest: what it calls promoted  *)
(* or restored is an ancestor of main.                                      *)
PromotedIsOnLine ==
    LoopFree => \A v \in Versions :
        status[v] \in {"promoted", "restored"} => v \in anc[main]

(* ... and what is an ancestor of main is not called rolled back or          *)
(* abandoned (registry.reconcile: "a commit that is an ancestor of main was  *)
(* necessarily promoted").                                                  *)
LineIsNotAbandoned ==
    LoopFree => \A v \in anc[main] : status[v] \notin {"abandoned", "rolled_back"}

(* The regression suite follows the active line: a check is disabled by      *)
(* lifecycle only while its origin is off the line and, unless an operator   *)
(* enabled it, active only while its origin is on it.                       *)
SuiteFollowsLine ==
    LoopFree => \A v \in Versions :
        /\ suite[v] = "lifecycle" => v \notin anc[main]
        /\ suite[v] = "active" /\ "toggle" \notin Ops => v \in anc[main]

(* Both follow main, in writes of their own, at every await.                *)
FollowersAgree == LineIsNotAbandoned /\ SuiteFollowsLine

(* checks.sync_lifecycle: a check an operator disabled stays disabled until  *)
(* an operator enables it, wherever its origin moves.                       *)
OperatorDisableSticks ==
    [][\A v \in Versions : suite[v] = "operator" =>
          suite'[v] = "operator" \/ ToggleCheck]_vars

(* Blue-green: the candidate starts in the inactive slot, where nothing      *)
(* else of the kernel runs.                                                 *)
InactiveSlotIsFree ==
    LoopFree /\ cand # NoApp => cand.slot # current.slot /\ cand.slot \notin stray

(* A held version leaves the pending list only when it is being served, or   *)
(* by a reject_version; and a rejection that took it off the list ends with  *)
(* the version called rejected, unless the kernel is killed between the two  *)
(* writes (the version is then off the list, and still called pending).      *)
Rejecting(v) == \E a \in Callers : pc[a] = "rejecting" /\ tgt[a] = v
HeldUntilDecided ==
    [][\A v \in Versions :
          /\ v \in pending \ pending' => current.version = v \/ Rejecting(v)'
          /\ Rejecting(v) /\ ~Rejecting(v)' =>
                status'[v] = "rejected" \/ phase' = "down"]_vars

(* Refuted by this model (see the README), so checked by no run of the       *)
(* project: a rejected version "is never promoted" (reject_version).         *)
RejectIsFinal ==
    [][\A v \in Versions : status[v] = "rejected" => status'[v] # "promoted"]_vars

(* Every request that wants the reboot lock gets it and is answered. *)
Rebooting(a) ==
    pc[a] \notin {"idle", "staged", "recording", "committed", "holding", "rejecting"}
RequestsEnd == \A a \in Actors : Rebooting(a) ~> ~Rebooting(a)

(* One step of undo takes back one promotion: the versions served and the    *)
(* undo stack move like those of UndoStack.                                 *)
Stack == INSTANCE UndoStack WITH
    active  <- slots.active,
    undo    <- slots.history,
    undoing <- lock # NoOne /\ op[lock] \in {"rollback", "monitor"}
StepsBack == Stack!Spec
=============================================================================
