---------------------------- MODULE SelfModifyView ----------------------------
(***************************************************************************)
(* The Self-Modify tab (app/frontend/src/tabs/SelfModifyTab.jsx) against    *)
(* the stream of events the kernel logs for a task.  On mount the tab asks  *)
(* for the latest task's log (GET /task) and, at the same time, opens an    *)
(* EventSource that never replays; the two are merged by sequence number.   *)
(* A page that sees a promotion, or meets a 503, covers itself with an      *)
(* overlay and polls /health until it can reload (api.js).                  *)
(*                                                                         *)
(* The kernel is TaskQueue seen from its log and its status files.  A       *)
(* request and its answer are two steps, so that an answer may be old when  *)
(* it is applied.                                                          *)
(***************************************************************************)
EXTENDS Integers, Sequences, FiniteSets

CONSTANTS
    Mine,         \* self-modifications this page may submit
    Others,       \* self-modifications another page, or a trigger, may file
    NoTask,       \* taskRef.current is null, no current_task.json
    MaxSteps,     \* bound: events in all that runs log between their first and last
    MaxLag,       \* bound: events on their way to the page
    MaxFaults     \* bound: restarts, broken streams, outages of the app, runs that
                  \* raise, cancels, dequeues and refusals in one behaviour

Tasks == Mine \cup Others

ASSUME TasksAssumption == Mine \cap Others = {} /\ NoTask \notin Tasks
ASSUME BoundsAssumption == {MaxSteps, MaxLag, MaxFaults} \subseteq Nat

VARIABLES
    \* the kernel
    state,      \* tasks/<id>/status.json: its "state"
    queue,      \* tasks waiting, the running one at the head
    latest,     \* current_task.json
    log,        \* tasks/<id>/events.jsonl
    taskSeq,    \* _task_seq
    killing,    \* the task whose worker POST /cancel waits for
    held,       \* tasks whose version is on the pending list
    appUp,      \* the gateway has a live slot
    \* between the kernel and the page
    stream,     \* events on their way to the page's EventSource
    connected,  \* the EventSource is registered with the bus
    snapshot,   \* GET /task: "none", "asked", or its answer
    post,       \* the request this page filed and the kernel has not seen yet
    deciding,   \* the click whose answer the page awaits: Approve, Reject, or
                \* "retire" for New conversation and Resume (one at a time: a bound)
    \* the page
    mounted,    \* the Self-Modify tab is the active one
    view,       \* taskRef, lastSeqRef, log, running, result
    overlay,    \* _reconnecting
    \* history, read by no action but to keep it
    astray,     \* since it was mounted, the tab met something it cannot notice
    faults

kernel == <<state, queue, latest, log, taskSeq, killing, held>>
wire == <<stream, connected, snapshot, post, deciding>>
page == <<mounted, view, overlay>>
vars == <<kernel, appUp, wire, page, astray, faults>>

Outcomes == {"done", "pending", "failed", "cancelled", "interrupted"}
States == {"none", "queued", "running"} \cup Outcomes
Kinds == {"request", "step", "pending", "cancelled", "done"}
Events == [task : Tasks, seq : Nat, kind : Kinds]
Fresh == [task |-> NoTask, lastSeq |-> 0, log |-> <<>>, running |-> FALSE,
          result |-> "none"]
NoPost == [task |-> NoTask, by |-> "none"]
Undecided == [what |-> "none", task |-> NoTask, answer |-> "none"]

Final(t) == state[t] \in Outcomes
Range(s) == {s[i] : i \in DOMAIN s}
SeqsOf(events) == {events[i].seq : i \in DOMAIN events}
LastSeq(events) == IF events = <<>> THEN 0
                   ELSE CHOOSE n \in SeqsOf(events) : \A m \in SeqsOf(events) : m <= n

TypeOK ==
    /\ state \in [Tasks -> States]
    /\ queue \in Seq(Tasks)
    /\ latest \in Tasks \cup {NoTask}
    /\ log \in [Tasks -> Seq(Events)]
    /\ taskSeq \in Nat
    /\ killing \in Tasks \cup {NoTask}
    /\ held \subseteq Tasks
    /\ stream \in Seq(Events)
    /\ {appUp, connected, mounted, overlay, astray} \subseteq BOOLEAN
    /\ snapshot \in [at : {"none", "asked"}]
                    \cup [at : {"answered"}, task : Tasks, events : Seq(Events), state : States]
    /\ post \in [task : Tasks \cup {NoTask}, by : {"none", "composer", "proposal", "refused"}]
    /\ deciding \in [what : {"none", "approve", "reject", "retire"}, task : Tasks \cup {NoTask},
                     answer : {"none", "asked", "ok", "unhealthy", "refused"}]
    /\ view \in [task : Tasks \cup {NoTask}, lastSeq : Nat, log : Seq(Events),
                 running : BOOLEAN, result : {"none"} \cup Outcomes]
    /\ faults \in Nat

Init ==
    /\ state = [t \in Tasks |-> "none"] /\ queue = <<>> /\ latest = NoTask
    /\ log = [t \in Tasks |-> <<>>] /\ taskSeq = 0 /\ killing = NoTask /\ held = {}
    /\ appUp = TRUE
    /\ stream = <<>> /\ connected = FALSE /\ snapshot = [at |-> "none"]
    /\ post = NoPost /\ deciding = Undecided
    /\ mounted = FALSE /\ view = Fresh /\ overlay = FALSE
    /\ astray = FALSE /\ faults = 0

(***************************************************************************)
(* The kernel: what it writes, and what it publishes.                       *)
(***************************************************************************)
(* What the page misses for good: an event published while its EventSource  *)
(* is not registered, when the log was already read.                        *)
MissedBy(events) == mounted /\ ~connected /\ snapshot.at # "asked" /\ events # <<>>

Fault == faults < MaxFaults /\ faults' = faults + 1

Emit(t, kinds, from) ==
    LET events == [i \in DOMAIN kinds |-> [task |-> t, seq |-> from + i, kind |-> kinds[i]]]
    IN /\ Len(stream) < MaxLag
       /\ taskSeq' = from + Len(kinds)
       /\ log' = [log EXCEPT ![t] = @ \o events]
       /\ stream' = IF connected THEN stream \o events ELSE stream
       /\ astray' = (astray \/ MissedBy(events))

OnlyEmits == UNCHANGED <<appUp, connected, snapshot, post, deciding, page,
                         faults>>

(* queue_remove; a task is filed once.                                      *)
Unqueued(t) ==
    IF t \notin Range(queue) THEN queue
    ELSE LET i == CHOOSE j \in DOMAIN queue : queue[j] = t
         IN  [j \in 1 .. Len(queue) - 1 |-> IF j < i THEN queue[j] ELSE queue[j + 1]]

(* Another page, or a trigger, files a task. *)
FileOther(t) ==
    /\ t \in Others /\ state[t] = "none"
    /\ state' = [state EXCEPT ![t] = "queued"]
    /\ queue' = Append(queue, t)
    /\ UNCHANGED <<latest, log, taskSeq, killing, held, appUp, wire, page, astray,
                   faults>>

Start(t) ==
    /\ queue # <<>> /\ t = Head(queue) /\ state[t] = "queued"
    /\ latest' = t
    /\ state' = [state EXCEPT ![t] = "running"]
    /\ Emit(t, <<"request">>, 0)
    /\ OnlyEmits /\ UNCHANGED <<queue, killing, held>>

Step(t) ==
    /\ state[t] = "running"
    /\ Cardinality({ev \in UNION {Range(log[u]) : u \in Tasks} : ev.kind = "step"}) < MaxSteps
    /\ Emit(t, <<"step">>, taskSeq)
    /\ OnlyEmits /\ UNCHANGED <<state, queue, latest, killing, held>>

(* The status file is written before the "done" event is published. *)
End(t, outcome) ==
    /\ state[t] = "running" /\ outcome \in {"done", "pending", "failed", "cancelled"}
    /\ outcome = "cancelled" => killing = t \/ \E i \in DOMAIN log[t] : log[t][i].kind = "cancelled"
    /\ state' = [state EXCEPT ![t] = outcome]
    /\ queue' = Tail(queue)
    /\ held' = IF outcome = "pending" THEN held \cup {t} ELSE held
    /\ Emit(t, IF outcome = "pending" THEN <<"pending", "done">> ELSE <<"done">>, taskSeq)
    /\ OnlyEmits /\ UNCHANGED <<latest, killing>>

(* An exception of the staging clone or the launch: a status, no event. *)
Raises(t) ==
    /\ state[t] = "running" /\ Fault
    /\ state' = [state EXCEPT ![t] = "failed"]
    /\ queue' = Tail(queue)
    /\ astray' = (astray \/ mounted)
    /\ UNCHANGED <<latest, log, taskSeq, killing, held, appUp, wire, page>>

Dequeue(t) ==
    /\ state[t] = "queued" /\ Fault
    /\ queue' = Unqueued(t)
    /\ state' = [state EXCEPT ![t] = "cancelled"]
    /\ astray' = (astray \/ mounted)             \* no event tells the page that filed it
    /\ UNCHANGED <<latest, log, taskSeq, killing, held, appUp, wire, page>>

(* What the page offers: nothing under the overlay, a new request while it  *)
(* shows none running, Cancel and steering while it does.                   *)
Clickable == mounted /\ ~overlay
MaySubmit == Clickable /\ ~view.running
MaySteer == Clickable /\ view.running

(* POST /steer goes to whatever task runs, and is logged there.             *)
Steer(t) == MaySteer /\ Step(t)

(* POST /cancel, of this page's Cancel button or of another's: it waits for *)
(* the worker, then logs with the counter of whichever task runs by then.   *)
Cancel ==
    /\ MaySteer \/ ~mounted
    /\ killing = NoTask /\ queue # <<>> /\ state[Head(queue)] = "running"
    /\ ~ \E i \in DOMAIN log[Head(queue)] : log[Head(queue)][i].kind = "cancelled"
    /\ killing' = Head(queue) /\ Fault
    /\ UNCHANGED <<state, queue, latest, log, taskSeq, held, appUp, wire, page, astray>>

CancelEmits ==
    /\ killing # NoTask
    /\ Emit(killing, <<"cancelled">>, taskSeq)
    /\ killing' = NoTask
    /\ OnlyEmits /\ UNCHANGED <<state, queue, latest, held>>

(* The Versions tab, here or elsewhere, decides on a held version. *)
DecidedElsewhere(t) ==
    /\ t \in held
    /\ held' = held \ {t}
    /\ UNCHANGED <<state, queue, latest, log, taskSeq, killing, appUp, wire, page, astray,
                   faults>>

(* The kernel process is restarted: what ran is marked interrupted at boot  *)
(* and leaves the queue; no event says so, and every connection is lost.    *)
Restart ==
    /\ Fault
    /\ IF latest # NoTask /\ state[latest] = "running"
       THEN /\ state' = [state EXCEPT ![latest] = "interrupted"]
            /\ queue' = Unqueued(latest)
       ELSE UNCHANGED <<state, queue>>
    /\ killing' = NoTask
    /\ stream' = <<>> /\ connected' = FALSE
    /\ snapshot' = [at |-> "none"] /\ post' = NoPost
    /\ deciding' = Undecided
    /\ astray' = (astray \/ mounted)
    /\ UNCHANGED <<latest, log, taskSeq, held, appUp, page>>

Break ==
    /\ Fault
    /\ connected
    /\ connected' = FALSE /\ stream' = <<>>
    /\ astray' = (astray \/ stream # <<>>)
    /\ UNCHANGED <<kernel, appUp, snapshot, post, deciding, page>>

(* A rollback or a restart of the app leaves the gateway without a slot.    *)
AppGoes ==
    /\ appUp /\ Fault
    /\ appUp' = FALSE
    /\ UNCHANGED <<kernel, wire, page, astray>>

AppBack ==
    /\ ~appUp /\ appUp' = TRUE
    /\ UNCHANGED <<kernel, wire, page, astray, faults>>

(***************************************************************************)
(* The page.                                                               *)
(***************************************************************************)
Settles(ev, v) == IF ev.kind = "done"
                  THEN [v EXCEPT !.running = FALSE, !.result = state[ev.task]]
                  ELSE v

ApplyEventUnsorted(ev) ==                        \* mutant of ApplyEvent
    Settles(ev,
            IF ev.task # view.task
            THEN [task |-> ev.task, lastSeq |-> ev.seq, log |-> <<ev>>, running |-> TRUE,
                  result |-> "none"]
            ELSE [view EXCEPT !.lastSeq = ev.seq, !.log = Append(@, ev)])

ApplyEventKeepsRunning(ev) ==                    \* mutant of ApplyEvent
    IF ev.task # view.task
    THEN [task |-> ev.task, lastSeq |-> ev.seq, log |-> <<ev>>, running |-> TRUE,
          result |-> "none"]
    ELSE IF ev.seq > view.lastSeq
         THEN [view EXCEPT !.lastSeq = ev.seq, !.log = Append(@, ev)]
         ELSE view

(* One event of the stream: of another task than the one shown, it resets   *)
(* the view to that task; of this one, it counts when it is newer.          *)
ApplyEvent(ev) ==
    IF ev.task # view.task
    THEN Settles(ev, [task |-> ev.task, lastSeq |-> ev.seq, log |-> <<ev>>,
                      running |-> TRUE, result |-> "none"])
    ELSE IF ev.seq > view.lastSeq
         THEN Settles(ev, [view EXCEPT !.lastSeq = ev.seq, !.log = Append(@, ev)])
         ELSE view

Deliver ==
    /\ mounted /\ stream # <<>>
    /\ LET ev == Head(stream)
       IN /\ view' = ApplyEvent(ev)
          /\ overlay' = (overlay \/ (/\ ev.kind = "done" /\ state[ev.task] = "done"
                                     /\ view' # view))
          \* a task that is over is adopted as running: no "done" will follow
          /\ astray' = (astray \/ (view'.running /\ ev.task # view.task /\ Final(ev.task)
                                   /\ ~ \E i \in 2..Len(stream) :
                                           stream[i].task = ev.task /\ stream[i].kind = "done"))
    /\ stream' = Tail(stream)
    /\ UNCHANGED <<kernel, appUp, connected, snapshot, post, deciding, mounted,
                   faults>>

Mount ==
    /\ ~mounted /\ ~overlay
    /\ mounted' = TRUE /\ view' = Fresh /\ astray' = FALSE
    /\ snapshot' = [at |-> "asked"]
    /\ connected' = FALSE /\ stream' = <<>>
    /\ UNCHANGED <<kernel, appUp, post, deciding, overlay, faults>>

(* Another tab: the component is unmounted and its stream closed, and what  *)
(* it awaits no longer reaches anything.                                   *)
Leaves ==
    /\ mounted' = FALSE /\ view' = Fresh /\ astray' = FALSE
    /\ snapshot' = [at |-> "none"] /\ deciding' = Undecided
    /\ connected' = FALSE /\ stream' = <<>>

Unmount ==
    /\ Clickable /\ Leaves
    /\ UNCHANGED <<kernel, appUp, post, overlay, faults>>

(* The EventSource, opened on mount and re-opened by the browser.           *)
Connect ==
    /\ mounted /\ ~connected /\ connected' = TRUE
    /\ UNCHANGED <<kernel, appUp, stream, snapshot, post, deciding, page,
                   astray, faults>>

SnapshotAnswered ==
    /\ snapshot.at = "asked"
    /\ snapshot' = IF latest = NoTask THEN [at |-> "none"]
                   ELSE [at |-> "answered", task |-> latest, events |-> log[latest],
                         state |-> state[latest]]
    /\ UNCHANGED <<kernel, appUp, stream, connected, post, deciding, page,
                   astray, faults>>

ViewOfRaw(s) ==                                  \* mutant of ViewOf
    [task |-> s.task, lastSeq |-> LastSeq(s.events), log |-> s.events,
     running |-> s.state = "running", result |-> s.state]

ViewOf(s) == [task |-> s.task, lastSeq |-> LastSeq(s.events), log |-> s.events,
              running |-> s.state = "running",
              result |-> IF s.state \in Outcomes THEN s.state ELSE "none"]

(* Something was published since the answer, and the stream has brought it. *)
Overtaken ==
    \E ev \in Range(log[latest]) :
        /\ latest = snapshot.task => ev \notin Range(snapshot.events)
        /\ ev \notin Range(stream)

(* The answer replaces whatever the stream has brought meanwhile.           *)
SnapshotApplied ==
    /\ snapshot.at = "answered"
    /\ view' = ViewOf(snapshot)
    /\ astray' = (astray \/ Overtaken)
    /\ snapshot' = [at |-> "none"]
    /\ UNCHANGED <<kernel, appUp, stream, connected, post, deciding, mounted,
                   overlay, faults>>

(* The outcome the stepper and the panels below it go by.                   *)
Logged(kind) == \E i \in DOMAIN view.log : view.log[i].kind = kind
Outcome ==
    CASE view.running -> "running"
      [] ~view.running /\ view.result = "done" -> "done"
      [] ~view.running /\ view.result # "done" /\ (Logged("pending") \/ view.result = "pending")
           -> "pending"
      [] ~view.running /\ view.result # "done" /\ ~Logged("pending") /\ view.result # "pending"
           -> IF Logged("cancelled") THEN "cancelled" ELSE view.result

Begun == [Fresh EXCEPT !.running = TRUE]

(* beginChangeRequest and runProposal: the view is reset before the request *)
(* is sent, and its answer is awaited by nobody.                            *)
Submit(t, by) ==
    /\ MaySubmit /\ post = NoPost
    /\ t \in Mine /\ state[t] = "none" /\ by \in {"composer", "proposal"}
    /\ view' = Begun
    /\ post' = [task |-> t, by |-> by]
    /\ UNCHANGED <<kernel, appUp, stream, connected, snapshot, deciding,
                   mounted, overlay, astray, faults>>

(* The nudge below a failed run is sent like a request of the composer.     *)
Nudge(t) == Outcome = "failed" /\ Submit(t, "composer")

Filed ==
    /\ post.by \in {"composer", "proposal"}
    /\ state' = [state EXCEPT ![post.task] = "queued"]
    /\ queue' = Append(queue, post.task)
    /\ post' = NoPost
    /\ UNCHANGED <<latest, log, taskSeq, killing, held, appUp, stream, connected, snapshot,
                   deciding, page, astray, faults>>

(* An unknown base or line is refused before it is filed; the composer does *)
(* not look at the answer, a proposal does.                                 *)
Refused ==
    /\ post.by \in {"composer", "proposal"} /\ Fault
    /\ post' = IF post.by = "proposal" THEN [post EXCEPT !.by = "refused"] ELSE NoPost
    /\ astray' = (astray \/ (mounted /\ post.by = "composer"))
    /\ UNCHANGED <<kernel, appUp, stream, connected, snapshot, deciding, page>>

RefusalShown ==
    /\ post.by = "refused" /\ post' = NoPost
    /\ view' = IF mounted THEN [view EXCEPT !.running = FALSE] ELSE view
    \* the task shown as running by then is another one
    /\ astray' = (astray \/ (mounted /\ view.task # NoTask /\ view.running))
    /\ UNCHANGED <<kernel, appUp, stream, connected, snapshot, deciding,
                   mounted, overlay, faults>>

ApprovalOffered == mounted /\ ~view.running /\ Outcome = "pending"

(* Approve and Reject, shown while the change on screen is held.            *)
Decide(what) ==
    /\ Clickable /\ ApprovalOffered /\ view.result # "none" /\ deciding = Undecided
    /\ what \in {"approve", "reject"}
    /\ deciding' = [what |-> what, task |-> view.task, answer |-> "asked"]
    /\ UNCHANGED <<kernel, appUp, stream, connected, snapshot, post, page,
                   astray, faults>>

DecisionAnswered ==
    /\ deciding.answer = "asked"
    /\ \E answer \in {"ok", "unhealthy", "refused"} :
         /\ deciding.task \in held <=> answer # "refused"
         /\ deciding.what = "reject" => answer # "unhealthy"
         /\ deciding' = [deciding EXCEPT !.answer = answer]
         /\ held' = IF answer = "ok" THEN held \ {deciding.task} ELSE held
    /\ UNCHANGED <<state, queue, latest, log, taskSeq, killing, appUp, stream, connected,
                   snapshot, post, page, astray, faults>>

Emptied(v) == [Fresh EXCEPT !.running = v.running]

DecisionApplied ==
    /\ deciding.answer \in {"ok", "unhealthy", "refused"}
    /\ deciding' = Undecided
    /\ overlay' = (overlay \/ (deciding.what = "approve" /\ deciding.answer = "ok"))
    /\ view' = IF deciding.what # "approve" /\ deciding.answer = "ok" THEN Emptied(view)
               ELSE view
    /\ astray' = (astray \/ (view'.running /\ view' # view))
    /\ UNCHANGED <<kernel, appUp, stream, connected, snapshot, post, mounted,
                   faults>>

(* "New conversation" and "Resume", offered while there is a conversation   *)
(* that ended without a commit: the view is emptied after the answer.       *)
Retire ==
    /\ MaySubmit /\ deciding = Undecided
    /\ \E t \in Tasks : state[t] \in {"failed", "cancelled", "interrupted"}
    /\ deciding' = [what |-> "retire", task |-> NoTask, answer |-> "ok"]
    /\ UNCHANGED <<kernel, appUp, stream, connected, snapshot, post, page, astray, faults>>

(* Any request to the app that is answered 503 starts the same reconnect.   *)
Fetch503 ==
    /\ ~appUp /\ ~overlay /\ overlay' = TRUE
    /\ UNCHANGED <<kernel, appUp, wire, mounted, view, astray, faults>>

(* The poll of /health reloads the page; the tab is then Run again.         *)
Reload ==
    /\ overlay /\ appUp
    /\ overlay' = FALSE
    /\ Leaves
    /\ UNCHANGED <<kernel, appUp, post, faults>>

Kernel == \E t \in Tasks : \/ Start(t) \/ Step(t) \/ Raises(t)
                           \/ \E outcome \in Outcomes : End(t, outcome)

Next ==
    \/ Kernel \/ Cancel \/ CancelEmits \/ Restart \/ Break \/ AppGoes \/ AppBack
    \/ \E t \in Tasks : \/ FileOther(t) \/ Dequeue(t) \/ DecidedElsewhere(t)
                        \/ Steer(t) \/ Nudge(t)
    \/ \E t \in Tasks, by \in {"composer", "proposal"} : Submit(t, by)
    \/ Filed \/ Refused \/ RefusalShown
    \/ Mount \/ Unmount \/ Connect \/ SnapshotAnswered \/ SnapshotApplied \/ Deliver
    \/ \E what \in {"approve", "reject"} : Decide(what)
    \/ DecisionAnswered \/ DecisionApplied
    \/ Retire \/ Fetch503 \/ Reload

Spec == Init /\ [][Next]_vars

(* The kernel's loop runs, what is sent arrives, the poll is re-armed by a   *)
(* timer and the app comes back; nobody is obliged to click.                *)
Fairness ==
    /\ WF_vars(Kernel) /\ WF_vars(CancelEmits) /\ WF_vars(AppBack)
    /\ WF_vars(Filed \/ Refused) /\ WF_vars(RefusalShown)
    /\ WF_vars(Connect) /\ WF_vars(SnapshotAnswered) /\ WF_vars(SnapshotApplied)
    /\ WF_vars(Deliver) /\ WF_vars(DecisionAnswered) /\ WF_vars(DecisionApplied)
    /\ WF_vars(Reload)

FairSpec == Spec /\ Fairness

(***************************************************************************)
(* Properties.                                                             *)
(***************************************************************************)
(* The trace on screen is of one task and in order, with nothing twice,     *)
(* whatever the replay and the live stream brought and in which order; and  *)
(* the outcome on screen, whose version Approve and Reject name, is the one *)
(* the kernel recorded for that task.                                       *)
TraceIsOfTask ==
    /\ \A i \in DOMAIN view.log : view.log[i].task = view.task
    /\ \A i, j \in DOMAIN view.log : i < j => view.log[i].seq < view.log[j].seq
    /\ view.result # "none" => view.task # NoTask /\ view.result = state[view.task]

(* Nothing the page sent or awaits is on its way.                           *)
Quiet == /\ mounted /\ connected /\ stream = <<>> /\ snapshot.at = "none"
         /\ post = NoPost /\ deciding = Undecided /\ ~overlay

(* Once everything has arrived, the tab says "running" exactly when the     *)
(* task it shows runs, or before any event when something is queued; the    *)
(* only exceptions are the cases the actions mark as leading it astray: an  *)
(* old snapshot over newer events, an event published while no stream was   *)
(* open, a refused or dequeued request, a run that ended without an event,  *)
(* a cancellation logged after the end, a restart.                          *)
ViewAgrees ==
    Quiet /\ ~astray =>
        IF view.task # NoTask THEN view.running <=> state[view.task] = "running"
        ELSE view.running => queue # <<>>

(* A tab that says "running" stops saying so, unless it was led astray.     *)
RunIsSeenToEnd == view.running ~> (~view.running \/ astray)
=============================================================================
