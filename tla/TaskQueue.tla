------------------------------ MODULE TaskQueue ------------------------------
(***************************************************************************)
(* The durable backlog of self-modification tasks (kernel/core.py, from     *)
(* change_request to _drain_queue; kernel/state_store.py, the queue file):  *)
(* requests are appended to a queue on disk, one drainer runs them in       *)
(* order, a user may cancel the running one or take a queued one back, and  *)
(* boot() resumes what a killed kernel left.                                *)
(*                                                                         *)
(* As in Promotion, a coroutine runs alone between two awaits; `cut` marks  *)
(* the places inside such a stretch where the process may be killed between *)
(* two writes.  What a promotion does is in Promotion: here it is one await *)
(* with two outcomes.                                                       *)
(***************************************************************************)
EXTENDS Integers, Sequences, FiniteSets

CONSTANTS
    Changes,        \* agent self-modifications somebody waits for
    Autonomous,     \* agent self-modifications a trigger filed: nobody waits
    GitOps,         \* reverts and re-applies
    KernelChanges,  \* changes of the kernel itself
    NoTask,         \* current_task_id is None
    Cancellers,     \* concurrent POST /cancel requests
    MaxEvents,      \* bound: events a run logs before steps and steering stop;
                    \* cancelling stops one event later
    MaxCrashes      \* bound: how often the kernel process is killed once it is up

AgentTasks == Changes \cup Autonomous
Tasks == AgentTasks \cup GitOps \cup KernelChanges

ASSUME KindsAssumption ==
    /\ Changes \cap (Autonomous \cup GitOps \cup KernelChanges) = {}
    /\ Autonomous \cap (GitOps \cup KernelChanges) = {}
    /\ GitOps \cap KernelChanges = {}
    /\ NoTask \notin Tasks
ASSUME LimitsAssumption == MaxEvents \in Nat /\ MaxCrashes \in Nat

VARIABLES
    \* on disk
    queue,        \* tasks/_queue.json
    state,        \* tasks/<id>/status.json: its "state"
    currentFile,  \* current_task.json
    log,          \* tasks/<id>/events.jsonl: the seq of its last event
    \* in the kernel process
    phase,        \* "down", "booting", "up"
    cut,          \* the stretch without await that is being executed, if any
    drainer,      \* "off" (none, or done), "created", "running"
    stage,        \* what the running task awaits
    current,      \* current_task_id (with current_task_kind)
    cancelReq,    \* cancel_requested
    worker,       \* current_worker: which runtime the live worker is
    steer,        \* tasks the messages of current_steer were meant for
    taskSeq,      \* _task_seq
    waiting,      \* tasks whose caller awaits a future (_pending)
    killing,      \* per cancel request: the task whose worker it waits for
    \* history of the behaviour, read by no action
    committed,    \* tasks that committed a version
    crashes

disk == <<queue, state, currentFile, log>>
live == <<drainer, stage, current, cancelReq, worker, steer, taskSeq, waiting, killing>>
past == <<committed, crashes>>
vars == <<disk, phase, cut, live, past>>

States == {"none", "queued", "running", "done", "failed", "cancelled", "pending",
           "interrupted"}
NoCut == [at |-> "none", task |-> NoTask]
Cut(at, t) == cut' = [at |-> at, task |-> t]
Range(s) == {s[i] : i \in DOMAIN s}

(* Nobody is between two awaits, so any coroutine may run. *)
LoopFree == phase = "up" /\ cut = NoCut

TypeOK ==
    /\ queue \in Seq(Tasks)
    /\ \A i, j \in DOMAIN queue : queue[i] = queue[j] => i = j
    /\ state \in [Tasks -> States]
    /\ currentFile \in Tasks \cup {NoTask}
    /\ log \in [Tasks -> Nat]
    /\ phase \in {"down", "booting", "up"}
    /\ cut \in [at : {"none", "enqueue", "start", "commit", "remove", "next", "dequeue",
                      "boot"},
                task : Tasks \cup {NoTask}]
    /\ drainer \in {"off", "created", "running"}
    /\ stage \in {"none", "agent", "gates", "reboot"}
    /\ current \in Tasks \cup {NoTask}
    /\ cancelReq \in BOOLEAN
    /\ worker \in {"none", "editable", "recovery"}
    /\ steer \subseteq Tasks
    /\ taskSeq \in Nat
    /\ waiting \subseteq Tasks
    /\ killing \in [Cancellers -> Tasks \cup {NoTask}]
    /\ committed \subseteq Tasks
    /\ crashes \in Nat

Init ==
    /\ queue = <<>>
    /\ state = [t \in Tasks |-> "none"]
    /\ currentFile = NoTask
    /\ log = [t \in Tasks |-> 0]
    /\ phase = "up" /\ cut = NoCut
    /\ drainer = "off" /\ stage = "none"
    /\ current = NoTask /\ cancelReq = FALSE /\ worker = "none" /\ steer = {}
    /\ taskSeq = 0 /\ waiting = {}
    /\ killing = [c \in Cancellers |-> NoTask]
    /\ committed = {} /\ crashes = 0

-----------------------------------------------------------------------------
(* Helpers of the actions *)

(* _emit_event: the seq is a counter of the kernel, not of the task. *)
Emit(t) ==
    /\ taskSeq' = taskSeq + 1
    /\ log' = [log EXCEPT ![t] = taskSeq + 1]

EnsureDrainerOnce ==                             \* mutant of EnsureDrainer
    drainer' = IF drainer = "off" /\ currentFile = NoTask
               THEN "created" ELSE drainer

EnsureDrainer == drainer' = IF drainer = "off" THEN "created" ELSE drainer

(* queue_remove; the queue holds a task once (TypeOK). *)
Unqueued(t) ==
    IF t \notin Range(queue) THEN queue
    ELSE LET i == CHOOSE j \in DOMAIN queue : queue[j] = t
         IN  [j \in 1 .. Len(queue) - 1 |-> IF j < i THEN queue[j] ELSE queue[j + 1]]

(* finish(): the status file, the "done" event, and current_task_id is       *)
(* cleared on the way out; then _drain_queue takes the task off the queue.   *)
Finish(t, s) ==
    /\ state' = [state EXCEPT ![t] = s]
    /\ Emit(t)
    /\ current' = NoTask
    /\ stage' = "none"
    /\ worker' = "none"
    /\ Cut("remove", t)

-----------------------------------------------------------------------------
(* Filing and taking back a task *)

(* change_request, _enqueue_git_op, kernel_change_request and                *)
(* _enqueue_autonomous: the status file first, ...                           *)
Enqueue(t) ==
    /\ LoopFree
    /\ state[t] = "none"
    /\ state' = [state EXCEPT ![t] = "queued"]
    /\ Cut("enqueue", t)
    /\ UNCHANGED <<queue, currentFile, log, phase, live, past>>

(* ... then the queue, and a drainer if none runs. *)
Enqueued(t) ==
    /\ cut = [at |-> "enqueue", task |-> t]
    /\ queue' = Append(queue, t)
    /\ waiting' = IF t \in Autonomous THEN waiting ELSE waiting \cup {t}
    /\ EnsureDrainer
    /\ cut' = NoCut
    /\ UNCHANGED <<state, currentFile, log, phase, stage, current, cancelReq, worker,
                   steer, taskSeq, killing, past>>

DequeueUnchecked(t) ==                           \* mutant of Dequeue
    /\ LoopFree
    /\ t \in Range(queue)
    /\ queue' = Unqueued(t)
    /\ Cut("dequeue", t)
    /\ UNCHANGED <<state, currentFile, log, phase, live, past>>

Dequeue(t) ==
    /\ LoopFree
    /\ t # current
    /\ t \in Range(queue)
    /\ queue' = Unqueued(t)
    /\ Cut("dequeue", t)
    /\ UNCHANGED <<state, currentFile, log, phase, live, past>>

DequeuedForgetsCaller(t) ==                      \* mutant of Dequeued
    /\ cut = [at |-> "dequeue", task |-> t]
    /\ state' = [state EXCEPT ![t] = "cancelled"]
    /\ cut' = NoCut
    /\ UNCHANGED <<queue, currentFile, log, phase, live, past>>

(* Its caller is answered at once. *)
Dequeued(t) ==
    /\ cut = [at |-> "dequeue", task |-> t]
    /\ state' = [state EXCEPT ![t] = "cancelled"]
    /\ waiting' = waiting \ {t}
    /\ cut' = NoCut
    /\ UNCHANGED <<queue, currentFile, log, phase, drainer, stage, current, cancelReq,
                   worker, steer, taskSeq, killing, past>>

-----------------------------------------------------------------------------
(* The drainer *)

(* The loop of _drain_queue: it peeks, and leaves when the queue is empty.   *)
(* After a task there is no await before the next peek.                     *)
MayPeek == \/ LoopFree /\ drainer = "created"
           \/ phase = "up" /\ cut.at = "next"

DrainerExits ==
    /\ MayPeek
    /\ queue = <<>>
    /\ drainer' = "off"
    /\ cut' = NoCut
    /\ UNCHANGED <<disk, phase, stage, current, cancelReq, worker, steer, taskSeq,
                   waiting, killing, past>>

TakeKeepsSteer ==                                \* mutant of Take
    /\ MayPeek
    /\ queue # <<>>
    /\ drainer' = "running"
    /\ current' = Head(queue)
    /\ currentFile' = Head(queue)
    /\ taskSeq' = 0
    /\ cancelReq' = IF Head(queue) \in AgentTasks THEN FALSE ELSE cancelReq
    /\ Cut("start", Head(queue))
    /\ UNCHANGED <<queue, state, log, phase, stage, worker, steer, waiting, killing, past>>

(* _run_change_request, _run_git_op, _run_kernel_change up to the write of   *)
(* the running status.  Only a change resets the cancel flag and the         *)
(* steering messages.                                                       *)
Take ==
    /\ MayPeek
    /\ queue # <<>>
    /\ drainer' = "running"
    /\ current' = Head(queue)
    /\ currentFile' = Head(queue)
    /\ taskSeq' = 0
    /\ cancelReq' = IF Head(queue) \in AgentTasks THEN FALSE ELSE cancelReq
    /\ steer' = IF Head(queue) \in AgentTasks THEN {} ELSE steer
    /\ Cut("start", Head(queue))
    /\ UNCHANGED <<queue, state, log, phase, stage, worker, waiting, killing, past>>

(* The task starts: the editable runtime is launched, or the recovery        *)
(* runtime when the active slot has none; a git operation has no worker and  *)
(* the agent of a kernel change runs in the kernel.                          *)
Start(t) ==
    /\ cut = [at |-> "start", task |-> t]
    /\ state' = [state EXCEPT ![t] = "running"]
    /\ Emit(t)
    /\ stage' = "agent"
    /\ worker' \in (IF t \in AgentTasks THEN {"editable", "recovery"} ELSE {"none"})
    /\ cut' = NoCut
    /\ UNCHANGED <<queue, currentFile, phase, drainer, current, cancelReq, steer, waiting,
                   killing, past>>

(* Creating the staging clone or launching a worker raised.  The drainer     *)
(* records the failure; current_task_id is cleared in a block that is not    *)
(* reached.                                                                 *)
StartRaises(t) ==
    /\ t \notin GitOps
    /\ \/ cut = [at |-> "start", task |-> t] /\ Emit(t)
       \/ /\ LoopFree /\ stage = "agent" /\ current = t /\ t \in AgentTasks
          /\ UNCHANGED <<log, taskSeq>>
    /\ state' = [state EXCEPT ![t] = "failed"]
    /\ stage' = "none"
    /\ worker' = "none"
    /\ Cut("remove", t)
    /\ UNCHANGED <<queue, currentFile, phase, drainer, current, cancelReq, steer,
                   waiting, killing, past>>

(* One line of the agent's output. *)
AgentStep(t) ==
    /\ LoopFree /\ stage = "agent" /\ current = t
    /\ taskSeq < MaxEvents
    /\ Emit(t)
    /\ UNCHANGED <<queue, state, currentFile, phase, cut, drainer, stage, current, cancelReq,
                   worker, steer, waiting, killing, past>>

(* The editable runtime ended without getting ready: the protected recovery  *)
(* runtime takes over, unless the user cancelled.                            *)
FallBack(t) ==
    /\ LoopFree /\ stage = "agent" /\ current = t
    /\ worker = "editable" /\ ~ cancelReq
    /\ worker' = "recovery"
    /\ UNCHANGED <<disk, phase, cut, drainer, stage, current, cancelReq, steer, taskSeq,
                   waiting, killing, past>>

(* The agent is done: cancelled, no valid proposal, or nothing to commit ... *)
AgentEnds(t) ==
    /\ LoopFree /\ stage = "agent" /\ current = t
    /\ Finish(t, IF t \in AgentTasks /\ cancelReq THEN "cancelled" ELSE "failed")
    /\ UNCHANGED <<queue, currentFile, phase, drainer, cancelReq, steer, waiting, killing,
                   past>>

(* ... or it proposed a valid change, which is committed.  The cancel flag   *)
(* is looked at for the last time.                                          *)
Commits(t) ==
    /\ LoopFree /\ stage = "agent" /\ current = t
    /\ ~ (t \in AgentTasks /\ cancelReq)
    /\ committed' = committed \cup {t}
    /\ worker' = "none"
    /\ stage' = "gates"
    /\ Cut("commit", t)
    /\ UNCHANGED <<disk, phase, drainer, current, cancelReq, steer, taskSeq, waiting, killing,
                   crashes>>

(* The gates between commit and promotion (derived checks, agent evals) are  *)
(* awaits, if they are configured.                                          *)
GatesAwaited(t) ==
    /\ cut = [at |-> "commit", task |-> t] /\ t \in AgentTasks
    /\ Emit(t)
    /\ cut' = NoCut
    /\ UNCHANGED <<queue, state, currentFile, phase, drainer, stage, current, cancelReq,
                   worker, steer, waiting, killing, past>>

AtGates(t) == \/ cut = [at |-> "commit", task |-> t]
              \/ LoopFree /\ stage = "gates" /\ current = t

GateFailsAsCancelled(t) ==                       \* mutant of GateFails
    /\ LoopFree /\ stage = "gates" /\ current = t
    /\ Finish(t, IF cancelReq THEN "cancelled" ELSE "failed")
    /\ UNCHANGED <<queue, currentFile, phase, drainer, cancelReq, steer, waiting, killing,
                   past>>

GateFails(t) ==
    /\ LoopFree /\ stage = "gates" /\ current = t
    /\ Finish(t, "failed")
    /\ UNCHANGED <<queue, currentFile, phase, drainer, cancelReq, steer, waiting, killing,
                   past>>

(* Held for approval; a kernel change always is, a git operation never. *)
Holds(t) ==
    /\ AtGates(t) /\ t \notin GitOps
    /\ Finish(t, "pending")
    /\ UNCHANGED <<queue, currentFile, phase, drainer, cancelReq, steer, waiting, killing,
                   past>>

(* reboot_to_version, or the candidate of a line in its preview slot. *)
Promotes(t) ==
    /\ AtGates(t) /\ t \notin KernelChanges
    /\ stage' = "reboot"
    /\ cut' = NoCut
    /\ UNCHANGED <<disk, phase, drainer, current, cancelReq, worker, steer, taskSeq, waiting,
                   killing, past>>

PromotionEnds(t) ==
    /\ LoopFree /\ stage = "reboot" /\ current = t
    /\ \E s \in {"done", "failed"} : Finish(t, s)
    /\ UNCHANGED <<queue, currentFile, phase, drainer, cancelReq, steer, waiting, killing,
                   past>>

(* The task leaves the queue and its caller is answered. *)
Remove(t) ==
    /\ cut = [at |-> "remove", task |-> t]
    /\ queue' = Unqueued(t)
    /\ waiting' = waiting \ {t}
    /\ Cut("next", NoTask)
    /\ UNCHANGED <<state, currentFile, log, phase, drainer, stage, current, cancelReq, worker,
                   steer, taskSeq, killing, past>>

-----------------------------------------------------------------------------
(* The user *)

Cancellable == current \in AgentTasks

(* cancel(): with a worker to terminate it polls for its end, at most 2 s.   *)
Cancel(c) ==
    /\ LoopFree
    /\ killing[c] = NoTask
    /\ Cancellable
    /\ taskSeq <= MaxEvents
    /\ cancelReq' = TRUE
    /\ IF worker # "none"
       THEN /\ killing' = [killing EXCEPT ![c] = current]
            /\ UNCHANGED <<log, taskSeq>>
       ELSE Emit(current) /\ UNCHANGED killing
    /\ UNCHANGED <<queue, state, currentFile, phase, cut, drainer, stage, current, worker,
                   steer, waiting, past>>

(* The worker is gone; the user is told that the task was cancelled. *)
Killed(c) ==
    /\ LoopFree
    /\ killing[c] # NoTask
    /\ Emit(killing[c])
    /\ killing' = [killing EXCEPT ![c] = NoTask]
    /\ UNCHANGED <<queue, state, currentFile, phase, cut, drainer, stage, current, cancelReq,
                   worker, steer, waiting, past>>

(* enqueue_steer: a message for the task that is running. *)
Steer ==
    /\ LoopFree
    /\ current # NoTask
    /\ taskSeq < MaxEvents
    /\ steer' = steer \cup {current}
    /\ Emit(current)
    /\ UNCHANGED <<queue, state, currentFile, phase, cut, drainer, stage, current, cancelReq,
                   worker, waiting, killing, past>>

(* drain_steer: the worker polls for the messages. *)
DrainSteer ==
    /\ LoopFree /\ worker # "none" /\ steer # {}
    /\ steer' = {}
    /\ UNCHANGED <<disk, phase, cut, drainer, stage, current, cancelReq, worker, taskSeq,
                   waiting, killing, past>>

-----------------------------------------------------------------------------
(* The end of the process, and boot() *)

Crash ==
    /\ phase = "up"
    /\ crashes < MaxCrashes
    /\ crashes' = crashes + 1
    /\ phase' = "down"
    /\ cut' = NoCut
    /\ drainer' = "off" /\ stage' = "none"
    /\ current' = NoTask /\ cancelReq' = FALSE /\ worker' = "none" /\ steer' = {}
    /\ taskSeq' = 0 /\ waiting' = {}
    /\ killing' = [c \in Cancellers |-> NoTask]
    /\ UNCHANGED <<disk, committed>>

(* _mark_interrupted_task: a task that was running is interrupted ... *)
Boot ==
    /\ phase = "down"
    /\ phase' = "booting"
    /\ IF currentFile # NoTask /\ state[currentFile] = "running"
       THEN /\ state' = [state EXCEPT ![currentFile] = "interrupted"]
            /\ Cut("boot", currentFile)
       ELSE UNCHANGED <<state, cut>>
    /\ UNCHANGED <<queue, currentFile, log, live, past>>

InterruptedRetries(t) ==                         \* mutant of Interrupted
    /\ cut = [at |-> "boot", task |-> t]
    /\ queue' = Append(queue, t)
    /\ cut' = NoCut
    /\ UNCHANGED <<state, currentFile, log, phase, live, past>>

(* ... and leaves the queue. *)
Interrupted(t) ==
    /\ cut = [at |-> "boot", task |-> t]
    /\ queue' = Unqueued(t)
    /\ cut' = NoCut
    /\ UNCHANGED <<state, currentFile, log, phase, live, past>>

(* The app is up: the backlog is resumed. *)
Resume ==
    /\ phase = "booting" /\ cut = NoCut
    /\ phase' = "up"
    /\ drainer' = IF queue # <<>> THEN "created" ELSE "off"
    /\ UNCHANGED <<disk, cut, stage, current, cancelReq, worker, steer, taskSeq, waiting,
                   killing, past>>

(* The process is killed while it boots, as often as it likes: the same boot *)
(* starts over, so this needs no bound.                                     *)
CrashBooting ==
    /\ phase = "booting"
    /\ phase' = "down"
    /\ cut' = NoCut
    /\ UNCHANGED <<disk, live, past>>

-----------------------------------------------------------------------------
Run(t) ==
    \/ Start(t) \/ StartRaises(t) \/ FallBack(t) \/ AgentEnds(t) \/ Commits(t)
    \/ GatesAwaited(t) \/ GateFails(t) \/ Holds(t) \/ Promotes(t) \/ PromotionEnds(t)
    \/ Remove(t)

Drain == DrainerExits \/ Take \/ \E t \in Tasks : Run(t)

Next ==
    \/ \E t \in Tasks : \/ Enqueue(t) \/ Enqueued(t) \/ Dequeue(t) \/ Dequeued(t)
                        \/ AgentStep(t) \/ Interrupted(t)
    \/ Drain
    \/ \E c \in Cancellers : Cancel(c) \/ Killed(c)
    \/ Steer \/ DrainSteer
    \/ Crash \/ CrashBooting \/ Boot \/ Resume

(* Once it has a task, the drainer goes on to its end: the agent has a       *)
(* number of steps (agent.max_steps) and its calls a timeout, the gates and  *)
(* the reboot have deadlines.                                               *)
Fairness == /\ WF_vars(Drain)
            /\ \A t \in Tasks : WF_vars(Enqueued(t)) /\ WF_vars(Dequeued(t))

Spec     == Init /\ [][Next]_vars
FairSpec == Spec /\ Fairness

-----------------------------------------------------------------------------
(* Properties *)

(* _drain_queue: an enqueue can never slip past a drainer that is exiting,   *)
(* and boot resumes the backlog.  At every await a queue that is not empty   *)
(* has a drainer.                                                           *)
BacklogIsDrained == LoopFree /\ queue # <<>> => drainer # "off"

(* _mark_interrupted_task, _drain_queue, dequeue: at every await the task    *)
(* whose status is "running" is the one that runs, also after a kill; it is  *)
(* the head of the queue on disk, where a kernel that is killed finds it;    *)
(* and until one is killed the queue holds exactly the unfinished tasks.     *)
QueueMatchesRun ==
    LoopFree =>
        /\ \A t \in Tasks : state[t] = "running" => current = t /\ stage # "none"
        /\ stage # "none" => queue # <<>> /\ Head(queue) = current
        /\ crashes = 0 =>
              \A t \in Tasks : t \in Range(queue) <=> state[t] \in {"queued", "running"}

(* As long as the kernel is not killed, a task reported as cancelled left no *)
(* version in the history.                                                  *)
CancelledCommitsNothing ==
    crashes = 0 => \A t \in Tasks : state[t] = "cancelled" => t \notin committed

(* The worker of a task only ever reads steering messages meant for it. *)
SteerReachesItsTask == worker # "none" => steer \subseteq {current}

(* Whoever waits for the result of a task is answered (or the kernel that    *)
(* kept the connection is gone).                                            *)
CallersAreAnswered == \A t \in Tasks : t \in waiting ~> t \notin waiting

(***************************************************************************)
(* Sentences of the source that this model refutes (see the README); no run *)
(* of the project checks them.                                             *)
(***************************************************************************)
(* _mark_interrupted_task: the drainer resumes only the never-started        *)
(* backlog, so no task that ran is started again.                           *)
StartsOnce ==
    [][\A t \in Tasks : state'[t] = "running" => state[t] \in {"queued", "running"}]_vars

(* cancel: the run unwinds without committing.  A change the user was told   *)
(* is cancelled is neither promoted nor held for approval.                   *)
CancelAborts ==
    [][cancelReq => \A t \in AgentTasks :
          state'[t] \in {"done", "pending"} => state[t] = state'[t]]_vars

(* current_task_id is the in-flight task, if any. *)
CurrentIsRunning == LoopFree /\ current # NoTask => state[current] = "running"

(* _emit_event: the seq of a task's events rises, which is what the UI       *)
(* de-duplicates the replay by.                                             *)
SeqRises == [][\A t \in Tasks : log'[t] >= log[t]]_vars
=============================================================================
