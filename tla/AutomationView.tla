--------------------------- MODULE AutomationView ---------------------------
(***************************************************************************)
(* The panels the operator sets the self-improving loop up with: the gates, *)
(* the engine and the Advisor's card of the Self-Modify tab, the Settings   *)
(* tab with its Automation card, and the self-healing switch of the Errors  *)
(* tab (app/frontend/src), in front of the kernel's settings and triggers   *)
(* and the plugin's proposals.                                              *)
(*                                                                          *)
(* A panel never hears of a change: it is read when its tab is mounted and  *)
(* after its own operations, and some of it is shown changed before the     *)
(* kernel answered.  A call is one run of an async function: the requests   *)
(* it still has to POST, one after the other, then what it reads again.     *)
(* How the plugin's requests interleave with the kernel is Autonomy's; here *)
(* a request is served in one step.                                         *)
(***************************************************************************)
EXTENDS Triggers

CONSTANTS
    Starts,    \* the settings, triggers and proposals a session may start from
    MaxMade,   \* bound: triggers ever made
    MaxCalls,  \* bound: async functions under way at once
    MaxSteps   \* bound: clicks (the tabs' coming and going apart), steps of
               \* other clients and of the clock, lost requests

ASSUME AutomationViewAssumption ==
    MaxMade \in Nat /\ MaxCalls \in Nat \ {0, 1} /\ MaxSteps \in Nat

VARIABLES
    kernel,   \* settings, triggers, proposals, the change the page runs
    tab,      \* the tab that is mounted
    shown,    \* the state of its panels
    running,  \* Self-Modify's running
    busy,     \* the busy flags that are set: heal, card, switch, save, analyze
    calls,    \* the calls under way
    apart,    \* history: whether something besides one call at a time happened
    slipped,  \* history: whether the switch of the Errors tab was left half way,
              \* lost, or another client saved a trigger
    steps     \* what MaxSteps bounds

vars == <<kernel, tab, shown, running, busy, calls, apart, slipped, steps>>
Tabs == {"modify", "settings", "errors", "other"}
Keys == {"require_approval", "verifier", "real", "automation", "auto_promote"}
-----------------------------------------------------------------------------
(* The kernel.  "real" stands for agent.engine: litellm, not the scripted   *)
(* demo.  A proposal not made yet has status none.                          *)

IsKernel(k) ==
    /\ DOMAIN k = {"cfg", "triggers", "made", "task", "proposals"}
    /\ k.cfg \in [Keys -> BOOLEAN] /\ k.made \in Nat
    /\ DOMAIN k.triggers \subseteq 1..k.made
    /\ \A t \in DOMAIN k.triggers : k.triggers[t] \in Entries
    /\ k.proposals \in [Proposals -> [status : {"none", "open", "scheduled", "run", "dismissed"},
                                      trigger : 0..k.made]]

\* The self-healing trigger is the first that carries its name.
SelfHealing(k) == {t \in DOMAIN k.triggers : k.triggers[t].kind = "error_spike"}

\* A session starts with one self-healing trigger at most.
ASSUME StartsAssumption ==
    \A k \in Starts : IsKernel(k) /\ Cardinality(SelfHealing(k)) <= 1

Op(kind, arg, on) == [kind |-> kind, arg |-> arg, on |-> on]

WithProposal(k, p, status, trigger) ==
    [k EXCEPT !.proposals[p] = [status |-> status, trigger |-> trigger]]

Made(k, kind, once, of) ==
    [k EXCEPT !.triggers = Created(@, k.made + 1, New(kind, once, of)), !.made = @ + 1]

\* The listing of the proposals and a cancelled schedule look at the triggers.
Synced(k) == [k EXCEPT !.proposals = Reconciled(@, k.triggers)]

Unscheduled(k, p) ==
    IF k.proposals[p].status # "scheduled" THEN k
    ELSE WithProposal([k EXCEPT !.triggers = Deleted(@, k.proposals[p].trigger)], p, "open", 0)

\* What a request that is not refused makes of the kernel and the plugin.
Effects(k, op) ==
    LET x == op.arg
        open == k.proposals[x].status = "open"
    IN
    CASE op.kind = "patch" -> {[k EXCEPT !.cfg[x] = op.on]}
      [] op.kind = "new" -> IF k.made = MaxMade THEN {} ELSE {Made(k, x, FALSE, 0)}
      [] op.kind \in {"edit", "toggle", "delete"} ->
            IF x \notin DOMAIN k.triggers THEN {}
            ELSE {[k EXCEPT !.triggers = CASE op.kind = "edit"   -> Edited(@, x, TRUE, FALSE)
                                           [] op.kind = "toggle" -> Toggled(@, x, op.on)
                                           [] op.kind = "delete" -> Deleted(@, x)]}
      [] op.kind = "analyze" ->
            {k} \cup {WithProposal(k, p, "open", 0) :
                          p \in {p \in Proposals : k.proposals[p].status = "none"}}
      [] op.kind = "unschedule" ->
            IF k.proposals[x].status # "scheduled" THEN {} ELSE {Unscheduled(Synced(k), x)}
      [] op.kind = "dismiss" -> IF open THEN {WithProposal(k, x, "dismissed", 0)} ELSE {}
      [] op.kind = "run" -> IF open THEN {[WithProposal(k, x, "run", 0) EXCEPT !.task = TRUE]} ELSE {}
      [] op.kind = "schedule" ->
            IF ~ open \/ k.made = MaxMade THEN {}
            ELSE {WithProposal(Made(k, "schedule", TRUE, x), x, "scheduled", k.made + 1)}
-----------------------------------------------------------------------------
(* What a panel makes of an answer.                                        *)

GatesOf(k) == [g \in {"require_approval", "verifier", "real"} |-> k.cfg[g]]

CardOf(k) == [g \in {"automation", "auto_promote", "verifier"} |-> k.cfg[g]]

ListOf(k) == [t \in DOMAIN k.triggers |-> k.triggers[t].on]

StatusesOf(k) == [p \in Proposals |-> k.proposals[p].status]

HealOf(k) ==
    LET all == SelfHealing(k)
        trig == IF all = {} THEN 0 ELSE Min(all)
    IN  [automation |-> k.cfg["automation"], trigger |-> trig,
         armed |-> trig # 0 /\ k.triggers[trig].on]

IsOn(heal) == heal.automation /\ heal.trigger # 0 /\ heal.armed

Blank == [gates |-> <<>>, proposals |-> <<>>, draft |-> <<>>, card |-> <<>>,
          list |-> <<>>, heal |-> <<>>]

\* The answer of a GET, by the panel that is read.
Read(s, panel, k) ==
    CASE panel = "gates"     -> [s EXCEPT !.gates = <<GatesOf(k)>>]
      [] panel = "proposals" -> [s EXCEPT !.proposals = <<StatusesOf(k)>>]
      [] panel = "settings"  -> [s EXCEPT !.draft = <<k.cfg["real"]>>]
      [] panel = "card"      -> [s EXCEPT !.card = <<CardOf(k)>>, !.list = ListOf(k)]
      [] panel = "heal"      -> [s EXCEPT !.heal = <<HealOf(k)>>]

\* fetch threw: the Advisor's card and the self-healing bar are hidden, the
\* other panels stay as they were.
Unread(s, panel) ==
    CASE panel = "proposals" -> [s EXCEPT !.proposals = <<>>]
      [] panel = "heal"      -> [s EXCEPT !.heal = <<>>]
      [] OTHER -> s

\* A plausible slip: an optimistic change stays although it was refused.
AnsweredOptimist(s, call) ==
    IF call.fn \in {"gate", "switch"} /\ call.ok
    THEN [s EXCEPT !.gates = <<[@[1] EXCEPT !["real"] = call.saw[1].cfg["real"]]>>]
    ELSE s

\* The answer of a POST: a refused optimistic change is taken back, the
\* card's by putting back everything it showed when the box was ticked.
Answered(s, call) ==
    LET op == call.ops[1] IN
    CASE call.fn = "gate" /\ ~ call.ok -> [s EXCEPT !.gates = <<[@[1] EXCEPT ![op.arg] = ~ op.on]>>]
      [] call.fn \in {"gate", "switch"} /\ call.ok ->
            [s EXCEPT !.gates = <<[@[1] EXCEPT !["real"] = call.saw[1].cfg["real"]]>>]
      [] call.fn = "patch" /\ ~ call.ok -> [s EXCEPT !.card = call.prev]
      [] OTHER -> s
-----------------------------------------------------------------------------
(* Calls: [fn, ops, reads, prev, saw, ok, live].  reads is the panel that   *)
(* is read last ("none"); saw holds the kernel as it was when it served the *)
(* request under way; live is FALSE once the tab was left.                  *)

Idle == [fn |-> "none", ops |-> <<>>, reads |-> "none", prev |-> <<>>, saw |-> <<>>,
         ok |-> FALSE, live |-> TRUE]

Load(panel) == [Idle EXCEPT !.fn = "load", !.reads = panel]

Post(fn, ops, panel) == [Idle EXCEPT !.fn = fn, !.ops = ops, !.reads = panel]

UnderWay == {c \in DOMAIN calls : calls[c] # Idle}

Rests(c) == calls' = [calls EXCEPT ![c] = Idle]

\* The calls some event starts, each in the lowest slot that is free.
Launched(slots, new) ==
    LET free == {c \in DOMAIN slots : slots[c] = Idle}
        rank(c) == Cardinality({d \in free : d <= c})
    IN  [c \in DOMAIN slots |-> IF c \in free /\ rank(c) <= Len(new) THEN new[rank(c)] ELSE slots[c]]

Launch(new) ==
    /\ Len(new) + Cardinality(UnderWay) <= MaxCalls
    /\ calls' = Launched(calls, new)
    /\ apart' = (apart \/ UnderWay # {})

Steps == steps < MaxSteps /\ steps' = steps + 1

\* The kernel, or the plugin, serves a POST: it refuses it or does it.  The run
\* of a proposal is answered only when its change has ended.
Serve(c) ==
    /\ calls[c].ops # <<>> /\ calls[c].saw = <<>> /\ ~ calls[c].ok
    /\ LET op == Head(calls[c].ops) IN
       \/ /\ calls' = [calls EXCEPT ![c].saw = <<kernel>>]
          /\ UNCHANGED kernel
       \/ /\ op.kind # "run" \/ ~ kernel.task
          /\ kernel' \in Effects(kernel, op)
          /\ calls' = [calls EXCEPT ![c].ok = TRUE,
                                    ![c].saw = IF op.kind = "run" THEN <<>> ELSE <<kernel'>>]
    /\ UNCHANGED <<tab, shown, running, busy, apart, slipped, steps>>

\* A GET; the plugin's looks at the triggers first.
Answer(c) ==
    /\ calls[c] # Idle /\ calls[c].ops = <<>> /\ calls[c].saw = <<>>
    /\ kernel' = IF calls[c].reads = "proposals" THEN Synced(kernel) ELSE kernel
    /\ calls' = [calls EXCEPT ![c].saw = <<kernel'>>]
    /\ UNCHANGED <<tab, shown, running, busy, apart, slipped, steps>>
-----------------------------------------------------------------------------
(* What a panel does with an answer.                                       *)

Arrived(c, post) == calls[c].saw # <<>> /\ (calls[c].ops # <<>>) = post

\* The flag that is released when the answer to its POST is there.
FlagOf(fn) == CASE fn = "trigger" -> {"card"}
                [] fn \in {"switch", "save", "analyze"} -> {fn}
                [] OTHER -> {}

\* The self-healing switch asks on whatever the answer was; the panel is read
\* again by what is still mounted, an edited trigger only if it was saved.
PostArrives(c) ==
    /\ Arrived(c, TRUE)
    /\ LET call == calls[c]
           more == Tail(call.ops)
           reads == call.live /\ call.reads # "none" /\ (call.fn = "trigger" => call.ok)
       IN  /\ IF more # <<>> \/ reads
              THEN calls' = [calls EXCEPT ![c].ops = more, ![c].saw = <<>>, ![c].ok = FALSE]
              ELSE Rests(c)
           /\ shown' = IF call.live THEN Answered(shown, call) ELSE shown
           /\ busy' = IF call.live THEN busy \ FlagOf(call.fn) ELSE busy
           /\ running' = (running /\ ~ (call.live /\ call.fn = "run" /\ ~ call.ok))
    /\ UNCHANGED <<kernel, tab, apart, slipped, steps>>

\* The Automation card is mounted, and read, once Settings has its draft.
GetArrives(c) ==
    /\ Arrived(c, FALSE)
    /\ shown' = Read(shown, calls[c].reads, calls[c].saw[1])
    /\ busy' = IF calls[c].fn = "selfheal" THEN busy \ {"heal"} ELSE busy
    /\ IF calls[c].reads = "settings"
       THEN calls' = [calls EXCEPT ![c] = Load("card")] ELSE Rests(c)
    /\ UNCHANGED <<kernel, tab, running, apart, slipped, steps>>

\* The flags a function releases although it throws.
Thrown(fn) == CASE fn = "selfheal" -> {"heal"}
                [] fn = "analyze"  -> {fn}
                [] OTHER -> {}

\* fetch throws.  The Advisor's analysis and run read the proposals all the
\* same; the others end there, and their flag stays.
Lose(c) ==
    /\ Steps
    /\ calls[c] # Idle
    /\ LET call == calls[c] IN
       /\ IF call.live /\ call.ops # <<>> /\ call.fn \in {"analyze", "run"}
          THEN calls' = [calls EXCEPT ![c] = Load("proposals")] ELSE Rests(c)
       /\ shown' = IF call.live /\ call.ops = <<>> THEN Unread(shown, call.reads) ELSE shown
       /\ busy' = IF call.live THEN busy \ Thrown(call.fn) ELSE busy
       /\ slipped' = (slipped \/ call.fn = "selfheal")
    /\ apart' = TRUE
    /\ UNCHANGED <<kernel, tab, running>>

\* The change of a proposal ends: the run is answered, and the "done" of the
\* event stream, if it finds the tab running, has the proposals read again,
\* beside whatever else is under way.
TaskEnds ==
    /\ kernel.task
    /\ kernel' = [kernel EXCEPT !.task = FALSE]
    /\ LET answered == [c \in DOMAIN calls |->
                          IF calls[c].ops # <<>> /\ Head(calls[c].ops).kind = "run" /\ calls[c].ok
                          THEN [calls[c] EXCEPT !.saw = <<kernel'>>] ELSE calls[c]]
           new == IF running THEN <<Load("proposals")>> ELSE <<>>
       IN  /\ Len(new) + Cardinality(UnderWay) <= MaxCalls
           /\ calls' = Launched(answered, new)
    /\ apart' = (apart \/ (running /\ \E c \in UnderWay : calls[c].fn # "run"))
    /\ running' = FALSE
    /\ UNCHANGED <<tab, shown, busy, slipped, steps>>
-----------------------------------------------------------------------------
(* The operator.                                                            *)

\* A plausible slip: what the tab was reading still lands after it was left.
LeftCallsListening ==
    [c \in DOMAIN calls |->
        IF calls[c].ops = <<>> THEN calls[c] ELSE [calls[c] EXCEPT !.live = FALSE]]

\* The tab is left: its reads have nobody to show them to, its operations go
\* on.  What such a read still does to the plugin is one of Others' steps.
LeftCalls ==
    [c \in DOMAIN calls |->
        IF calls[c].ops = <<>> THEN Idle ELSE [calls[c] EXCEPT !.live = FALSE]]

ReadsOnMount(t) ==
    CASE t = "modify"   -> <<Load("gates"), Load("proposals")>>
      [] t = "settings" -> <<Load("settings")>>
      [] t = "errors"   -> <<Load("heal")>>
      [] t = "other"    -> <<>>

\* One tab is mounted at a time; a change under way is found again by GET /task.
SelectTab(t) ==
    /\ t # tab
    /\ tab' = t
    /\ shown' = Blank /\ busy' = {} /\ running' = (t = "modify" /\ kernel.task)
    /\ LET left == {c \in DOMAIN calls : LeftCalls[c] # Idle} IN
       /\ Len(ReadsOnMount(t)) + Cardinality(left) <= MaxCalls
       /\ calls' = Launched(LeftCalls, ReadsOnMount(t))
       /\ apart' = (left # {})
    /\ slipped' = (slipped \/ \E c \in UnderWay : calls[c].fn = "selfheal")
    /\ UNCHANGED <<kernel, steps>>

\* The boxes are disabled until the settings are there.
GateOffered(g) == shown.gates # <<>> /\ g \in {"require_approval", "verifier"}

\* A box is ticked: it is shown so before the kernel answered.
ToggleGate(g) ==
    /\ GateOffered(g)
    /\ LET next == ~ shown.gates[1][g] IN
       /\ shown' = [shown EXCEPT !.gates[1][g] = next]
       /\ Launch(<<Post("gate", <<Op("patch", g, next)>>, "none")>>)
    /\ Steps
    /\ UNCHANGED <<kernel, tab, running, busy, slipped>>

\* The warning of the scripted engine has the button.
EngineOffered == shown.gates # <<>> /\ ~ shown.gates[1]["real"] /\ "switch" \notin busy

SwitchEngine ==
    /\ EngineOffered
    /\ busy' = busy \cup {"switch"}
    /\ Launch(<<Post("switch", <<Op("patch", "real", TRUE)>>, "none")>>)
    /\ Steps
    /\ UNCHANGED <<kernel, tab, shown, running, slipped>>

\* The Advisor's card is there once its proposals could be read.
AnalysisOffered == shown.proposals # <<>> /\ "analyze" \notin busy

Analyze ==
    /\ AnalysisOffered
    /\ busy' = busy \cup {"analyze"}
    /\ Launch(<<Post("analyze", <<Op("analyze", 0, TRUE)>>, "proposals")>>)
    /\ Steps
    /\ UNCHANGED <<kernel, tab, shown, running, slipped>>

\* The buttons of a suggestion, by the status it is shown with.
Buttons(p) ==
    IF shown.proposals = <<>> THEN {}
    ELSE CASE shown.proposals[1][p] = "scheduled" -> {"unschedule"}
           [] shown.proposals[1][p] = "open" ->
                {"schedule", "dismiss"} \cup (IF running THEN {} ELSE {"run"})
           [] OTHER -> {}

ActOnProposal(p) ==
    /\ \E kind \in Buttons(p) \ {"run"} :
         Launch(<<Post(kind, <<Op(kind, p, TRUE)>>, "proposals")>>)
    /\ Steps
    /\ UNCHANGED <<kernel, tab, shown, running, busy, slipped>>

\* Run: the proposal is shown as run at once.
RunProposal(p) ==
    /\ "run" \in Buttons(p)
    /\ running' = TRUE
    /\ shown' = [shown EXCEPT !.proposals[1][p] = "run"]
    /\ Launch(<<Post("run", <<Op("run", p, TRUE)>>, "proposals")>>)
    /\ Steps
    /\ UNCHANGED <<kernel, tab, busy, slipped>>

\* The form of the agent settings edits a draft, read when the tab was mounted.
EditDraft ==
    /\ shown.draft # <<>>
    /\ shown' = [shown EXCEPT !.draft = <<~ @[1]>>]
    /\ Steps
    /\ UNCHANGED <<kernel, tab, running, busy, calls, apart, slipped>>

\* Save posts the whole draft.
SaveSettings ==
    /\ shown.draft # <<>> /\ "save" \notin busy
    /\ busy' = busy \cup {"save"}
    /\ Launch(<<Post("save", <<Op("patch", "real", shown.draft[1])>>, "none")>>)
    /\ Steps
    /\ UNCHANGED <<kernel, tab, shown, running, slipped>>

\* Full-auto is offered only while automation and the verification gate are
\* shown to be on.
PatchOffered(key) ==
    /\ shown.card # <<>>
    /\ \/ key = "automation"
       \/ key = "auto_promote" /\ shown.card[1]["automation"] /\ shown.card[1]["verifier"]

PatchConfig(key) ==
    /\ PatchOffered(key)
    /\ LET next == ~ shown.card[1][key] IN
       /\ shown' = [shown EXCEPT !.card[1][key] = next]
       /\ Launch(<<[Post("patch", <<Op("patch", key, next)>>, "none") EXCEPT !.prev = shown.card]>>)
    /\ Steps
    /\ UNCHANGED <<kernel, tab, running, busy, slipped>>

\* The editor, of a new trigger or of a listed one.
EditorOps ==
    {Op("new", "schedule", TRUE)} \cup {Op("edit", t, TRUE) : t \in DOMAIN shown.list}

SaveTrigger ==
    /\ shown.card # <<>> /\ "card" \notin busy
    /\ busy' = busy \cup {"card"}
    /\ \E op \in EditorOps : Launch(<<Post("trigger", <<op>>, "card")>>)
    /\ Steps
    /\ UNCHANGED <<kernel, tab, shown, running, slipped>>

\* The buttons of a row of the table.
RowOps(t) == {Op("toggle", t, ~ shown.list[t]), Op("delete", t, TRUE)}

ActOnTrigger(t) ==
    /\ shown.card # <<>>
    /\ \E op \in RowOps(t) : Launch(<<Post("row", <<op>>, "card")>>)
    /\ Steps
    /\ UNCHANGED <<kernel, tab, shown, running, busy, slipped>>

\* What one click of the self-healing switch asks for, by what is shown: the
\* trigger made or enabled, then the master switch; or the trigger disabled.
HealOps(heal) ==
    IF IsOn(heal) THEN <<Op("toggle", heal.trigger, FALSE)>>
    ELSE (CASE heal.trigger = 0 -> <<Op("new", "error_spike", TRUE)>>
            [] heal.trigger # 0 /\ ~ heal.armed -> <<Op("toggle", heal.trigger, TRUE)>>
            [] OTHER -> <<>>)
         \o (IF heal.automation THEN <<>> ELSE <<Op("patch", "automation", TRUE)>>)

\* A plausible slip: the switch is not guarded by its flag.
MayHealTwice == shown.heal # <<>>

MayHeal == shown.heal # <<>> /\ "heal" \notin busy

ToggleSelfheal ==
    /\ MayHeal
    /\ busy' = busy \cup {"heal"}
    /\ Launch(<<Post("selfheal", HealOps(shown.heal[1]), "heal")>>)
    /\ Steps
    /\ UNCHANGED <<kernel, tab, shown, running, slipped>>
-----------------------------------------------------------------------------
(* Everybody else: another page or client, and the clock of triggers.       *)

OtherOps ==
    {Op("patch", key, on) : key \in Keys, on \in BOOLEAN}
    \cup {Op("new", "error_spike", TRUE)}
    \cup {Op("toggle", t, on) : t \in DOMAIN kernel.triggers, on \in BOOLEAN}
    \cup {Op("delete", t, TRUE) : t \in DOMAIN kernel.triggers}
    \cup {Op("dismiss", p, TRUE) : p \in Proposals}

Others ==
    /\ Steps
    /\ kernel' \in ({Synced(kernel)} \cup UNION {Effects(kernel, op) : op \in OtherOps}) \ {kernel}
    /\ apart' = TRUE
    /\ slipped' = (slipped \/ kernel'.triggers # kernel.triggers)
    /\ UNCHANGED <<tab, shown, running, busy, calls>>

\* A scheduled proposal's one-shot fires.
Fires ==
    /\ Steps
    /\ kernel.cfg["automation"]
    /\ \E t \in DOMAIN kernel.triggers :
         /\ kernel.triggers[t].once /\ kernel.triggers[t].on
         /\ kernel' = [kernel EXCEPT !.triggers[t] = Recorded(@, 0, 1)]
    /\ apart' = TRUE
    /\ UNCHANGED <<tab, shown, running, busy, calls, slipped>>

Init ==
    /\ kernel \in Starts
    /\ tab = "other" /\ shown = Blank /\ running = FALSE /\ busy = {}
    /\ calls = [c \in 1..MaxCalls |-> Idle]
    /\ apart = FALSE /\ slipped = FALSE
    /\ steps = 0

Modify ==
    \/ \E g \in Keys : ToggleGate(g)
    \/ SwitchEngine \/ Analyze
    \/ \E p \in Proposals : ActOnProposal(p) \/ RunProposal(p)

Settings ==
    \/ EditDraft \/ SaveSettings \/ SaveTrigger
    \/ \E key \in {"automation", "auto_promote"} : PatchConfig(key)
    \/ \E t \in DOMAIN shown.list : ActOnTrigger(t)

Progress(c) == Serve(c) \/ Answer(c) \/ PostArrives(c) \/ GetArrives(c)

Next ==
    \/ \E c \in 1..MaxCalls : Progress(c) \/ Lose(c)
    \/ \E t \in Tabs : SelectTab(t)
    \/ Modify \/ Settings \/ ToggleSelfheal
    \/ TaskEnds \/ Others \/ Fires

Spec == Init /\ [][Next]_vars
-----------------------------------------------------------------------------
\* What is shown belongs to the tab that is mounted, and the flags too.
TypeOK ==
    /\ IsKernel(kernel) /\ tab \in Tabs
    /\ shown.gates # <<>> \/ shown.proposals # <<>> \/ running => tab = "modify"
    /\ shown.card # <<>> => shown.draft # <<>>
    /\ shown.draft # <<>> => tab = "settings"
    /\ shown.heal # <<>> => tab = "errors"
    /\ busy \subseteq CASE tab = "modify" -> {"switch", "analyze"} [] tab = "settings" -> {"save", "card"}
                        [] tab = "errors" -> {"heal"} [] OTHER -> {}
    /\ {running, apart, slipped} \subseteq BOOLEAN

\* Once its calls have come to rest, no two of them having overlapped, none
\* having been lost and nobody else having changed anything since the tab was
\* mounted, every panel shows what the kernel and the plugin hold, the refused
\* operations included, and no button is left disabled (patchConfig, the
\* toggles of Self-Modify, runProposal, toggleSelfheal).
PanelsAgree ==
    (UnderWay = {} /\ ~ apart) =>
        /\ tab = "modify" => /\ shown.gates = <<GatesOf(kernel)>>
                             /\ shown.proposals = <<StatusesOf(kernel)>>
        /\ tab = "settings" => shown.card = <<CardOf(kernel)>> /\ shown.list = ListOf(kernel)
        /\ tab = "errors" => shown.heal = <<HealOf(kernel)>>
        /\ busy = {}

\* However the switch of the Errors tab is clicked, refused half way or found
\* again on another visit, there is one self-healing trigger, as long as its
\* function is not left, lost or overtaken by another client (toggleSelfheal).
OneSelfHeal == ~ slipped => Cardinality(SelfHealing(kernel)) <= 1
=============================================================================
