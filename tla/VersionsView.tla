---------------------------- MODULE VersionsView ----------------------------
(***************************************************************************)
(* The Versions tab (app/frontend/src/tabs/VersionsTab.jsx), the graph it   *)
(* draws (components/VersionGraph.jsx) and what App.jsx keeps for it, in    *)
(* front of the kernel's version history.                                   *)
(*                                                                          *)
(* The tab never hears of a change: it shows the answers of its GETs, read  *)
(* one after the other, some page by page, each at its own instant.  A call *)
(* is one run of an async function of the tab; between two of its awaits    *)
(* anything may happen: other calls, other clients, the tab left or         *)
(* switched between its two views.  A version is its number in the history. *)
(***************************************************************************)
EXTENDS Naturals, FiniteSets, SequencesExt

CONSTANTS
    Starts,       \* the histories the page may be opened on
    Lines,        \* names of lines
    Page,         \* rows per GET in the list view (50)
    GraphLimit,   \* rows per GET in the graph view (500)
    GraphCap,     \* rows after which the graph asks for no more (1500)
    MaxVersions,  \* bound: versions in the history
    MaxCalls,     \* bound: async functions of the tab under way at once
    MaxSteps      \* bound: the operator's clicks (the tab's coming and going
                  \* apart), steps of other clients and lost requests

ASSUME VersionsAssumption ==
    /\ {Page, GraphLimit, GraphCap, MaxCalls} \subseteq Nat \ {0}
    /\ Page <= GraphCap
    /\ {MaxVersions, MaxSteps} \subseteq Nat

VARIABLES
    kernel,       \* the history as the kernel has it
    tab,          \* the tab that is mounted, "versions" or another
    view,         \* "graph" or "list", kept in localStorage
    rows, total,  \* setVersions, setTotal
    pending,      \* setPending: versions held for approval
    shown,        \* setLines, setPreviews
    busy,         \* whether the action buttons are disabled
    status,       \* App's copy of the kernel's status
    calls,        \* the calls under way
    reconnecting, \* whether beginReconnect polls for the new slot
    apart,        \* history: whether something besides one call at a time happened
    lost,         \* history: whether a request was lost
    composer,     \* Self-Modify's continue banner, <<>> or <<[sha, branch]>>
    steps         \* what MaxSteps bounds

vars == <<kernel, tab, view, rows, total, pending, shown, busy, status,
          calls, reconnecting, apart, lost, composer, steps>>
listing == <<rows, total, pending, shown>>
app     == <<tab, view, status, reconnecting, composer>>
-----------------------------------------------------------------------------
(* The kernel.  parent[v] is the version v was made from, 0 for the seed.  *)

Count(k) == Len(k.parent)

\* A history: its versions are numbered as they were made.
IsKernel(k) ==
    /\ DOMAIN k = {"parent", "main", "undo", "held", "tip", "previews"}
    /\ k.parent \in Seq(0..MaxVersions) /\ Count(k) <= MaxVersions
    /\ k.main \in 1..MaxVersions /\ k.undo \in Seq(1..MaxVersions)
    /\ k.held \subseteq 1..MaxVersions /\ k.tip \in [Lines -> 0..MaxVersions]
    /\ k.previews \subseteq 1..MaxVersions \cup Lines

ASSUME StartsAssumption == \A k \in Starts : IsKernel(k)

Ancestors(parent, tip) ==
    LET line[v \in 0..Len(parent)] == IF v = 0 THEN {} ELSE {v} \cup line[parent[v]]
    IN  line[tip]

\* The active line: what `git rev-list main` lists.
OnLine(k) == Ancestors(k.parent, k.main)

Row(k, v) == [sha |-> v, parent |-> k.parent[v], onMain |-> v \in OnLine(k),
              held |-> v \in k.held]

\* All versions, newest first; a GET answers a slice of them.
Listing(k) == [i \in 1..Count(k) |-> Row(k, Count(k) + 1 - i)]

Slice(k, limit, offset) ==
    SubSeq(Listing(k), offset + 1, Min({offset + limit, Count(k)}))

StatusOf(k) == [active |-> k.main, undoDepth |-> Len(k.undo)]

\* A version goes live: main moves, what it leaves goes on the undo stack.
Promoted(k, v) ==
    [k EXCEPT !.main = v,
              !.undo = IF v = k.main \/ (@ # <<>> /\ Last(@) = k.main)
                       THEN @ ELSE Append(@, k.main),
              !.held = @ \ {v}]

\* rollback_to and a preview's promotion leave the pending list alone.
Rebooted(k, v) == [Promoted(k, v) EXCEPT !.held = k.held]

Committed(k, base) == [k EXCEPT !.parent = Append(@, base)]

\* A git operation builds a version on the active line: it goes live, or
\* stays in the history because a gate refused it.
Built(k) ==
    IF Count(k) = MaxVersions THEN {}
    ELSE LET c == Committed(k, k.main) IN {Promoted(c, Count(c)), c}

Without(k, x) == [k EXCEPT !.previews = @ \ {x}]

\* What an operation may do when nothing fails: the histories it can leave.
Effects(k, op) ==
    LET x == op.arg IN
    CASE op.kind = "approve" -> IF x \in k.held THEN {Promoted(k, x)} ELSE {}
      [] op.kind = "reject" -> IF x \in k.held THEN {[k EXCEPT !.held = @ \ {x}]} ELSE {}
      [] op.kind = "rollback_to" -> {Rebooted(k, x)}
      [] op.kind = "rollback" ->
            IF k.undo = <<>> THEN {}
            ELSE {[k EXCEPT !.main = Last(k.undo), !.undo = Front(@)]}
      [] op.kind = "revert" ->
            IF x \in OnLine(k) /\ k.parent[x] # 0 THEN Built(k) ELSE {}
      [] op.kind = "reapply" ->
            IF x \notin OnLine(k) \cup k.held THEN Built(k) ELSE {}
      [] op.kind = "preview" -> {[k EXCEPT !.previews = @ \cup {x}]}
      [] op.kind = "respawn" ->
            IF k.tip[x] # 0 THEN {[k EXCEPT !.previews = @ \cup {x}]} ELSE {}
      [] op.kind = "stop" -> {Without(k, x)}
      [] op.kind = "preview_promote" ->
            IF x \notin k.previews THEN {}
            ELSE {Without(IF x \in k.held THEN Promoted(k, x) ELSE Rebooted(k, x), x)}
      [] op.kind = "line_promote" ->
            IF k.tip[x] = 0 THEN {}
            ELSE {IF k.tip[x] = k.main THEN k ELSE Without(Rebooted(k, k.tip[x]), x)}
      [] op.kind = "line_delete" ->
            IF k.tip[x] = 0 THEN {} ELSE {Without([k EXCEPT !.tip[x] = 0], x)}
      [] op.kind = "label" -> {k}

\* The answer says ok only when the operation did what it is for; a version
\* that a gate refused stays in the history all the same.
Outcomes(k, op) ==
    {[ok |-> FALSE, after |-> k]}
    \cup {[ok |-> op.kind \notin {"revert", "reapply"} \/ a.main = Count(a),
           after |-> a] : a \in Effects(k, op)}
-----------------------------------------------------------------------------
(* The graph's layout: rows newest first, each on a lane; the lane of a     *)
(* version off the active line is handed down to its parent.                *)

\* A lane for a version nobody reserved one for: the lowest freed, or a new one.
Alloc(acc) ==
    IF acc.free # {}
    THEN [acc EXCEPT !.lane = Min(acc.free), !.free = @ \ {Min(acc.free)}]
    ELSE [acc EXCEPT !.lane = acc.top + 1, !.top = @ + 1]

Reserved(acc, v) == {r \in acc.reserved : r[1] = v}

Placed(acc, r) ==
    CASE r.onMain -> [acc EXCEPT !.lane = 0]
      [] ~ r.onMain /\ Reserved(acc, r.sha) # {} ->
            LET own == CHOOSE x \in Reserved(acc, r.sha) : TRUE
            IN  [acc EXCEPT !.lane = own[2], !.reserved = @ \ {own}]
      [] OTHER -> Alloc(acc)

\* A plausible slip: the lane is freed as soon as it is handed down.
HandedDownAndFreed(listed, acc, r) ==
    IF r.parent = 0 \/ r.onMain THEN acc
    ELSE [acc EXCEPT !.free = @ \cup ({acc.lane} \ {0}),
                     !.reserved = IF \E p \in listed : p.sha = r.parent /\ ~ p.onMain
                                  THEN @ \cup {<<r.parent, acc.lane>>} ELSE @]

\* The chain goes on into a parent off the line that no child claimed yet;
\* otherwise it ends here and its lane is free again.
HandedDown(listed, acc, r) ==
    IF r.parent = 0 \/ r.onMain THEN acc
    ELSE IF /\ \E p \in listed : p.sha = r.parent /\ ~ p.onMain
            /\ Reserved(acc, r.parent) = {}
         THEN [acc EXCEPT !.reserved = @ \cup {<<r.parent, acc.lane>>}]
         ELSE [acc EXCEPT !.free = @ \cup ({acc.lane} \ {0})]

Ordered(rs) == SortSeq(rs, LAMBDA a, b : a.sha > b.sha)

\* The lane of every row, from the newest down.
Lanes(rs) ==
    LET sorted == Ordered(rs)
        listed == ToSet(rs)
        lay(acc, r) == LET at == Placed(acc, r)
                       IN  [HandedDown(listed, at, r) EXCEPT !.lanes = Append(@, at.lane)]
    IN  FoldLeft(lay, [lane |-> 0, top |-> 0, free |-> {}, reserved |-> {}, lanes |-> <<>>],
                 sorted).lanes

\* What the drawing promises: lane 0 is the active line's, and the edge from a
\* version off it down to the parent in the same lane passes no other version.
IsDrawable(rs) ==
    LET sorted == Ordered(rs)
        lane == Lanes(rs)
    IN  /\ \A i \in DOMAIN sorted : lane[i] = 0 <=> sorted[i].onMain
        /\ \A i, j \in DOMAIN sorted :
             (sorted[i].parent = sorted[j].sha /\ lane[i] = lane[j] /\ lane[i] # 0)
             => \A m \in i + 1 .. j - 1 : lane[m] # lane[i]
-----------------------------------------------------------------------------
(* Calls: [fn, at, op, off, all, saw, ok].  saw holds what the kernel had   *)
(* when it answered the request under way (<<>>: not answered yet).         *)

Idle == [fn |-> "none", at |-> "none", op |-> <<>>, off |-> 0, all |-> <<>>,
         saw |-> <<>>, ok |-> FALSE, live |-> FALSE]

UnderWay == {c \in DOMAIN calls : calls[c] # Idle}

Rests(c) == calls' = [calls EXCEPT ![c] = Idle]

Proceeds(c, at) == calls' = [calls EXCEPT ![c].at = at, ![c].saw = <<>>]

Loading(fn, off) == [Idle EXCEPT !.fn = fn, !.at = "versions", !.off = off, !.live = TRUE]

\* reload is a closure of the render the click came from: it loads for the
\* view of that moment.
Reloading == Loading(IF view = "graph" THEN "graph" ELSE "list", 0)

\* The lowest idle slot starts a call; a load that has the page to itself
\* makes what it shows the kernel's again.
Launch(call) ==
    LET c == Min(DOMAIN calls \ UnderWay)
    IN  /\ UnderWay # DOMAIN calls
        /\ calls' = [calls EXCEPT ![c] = call]
        /\ apart' = (UnderWay # {} \/ (apart /\ ~ (call.op = <<>> /\ call.off = 0)))

Steps == steps < MaxSteps /\ steps' = steps + 1

\* A freshly mounted tab.
Blank ==
    /\ rows' = <<>> /\ total' = 0 /\ pending' = {} /\ busy' = FALSE
    /\ shown' = [tip |-> [l \in Lines |-> 0], previews |-> {}]

Init ==
    /\ kernel \in Starts
    /\ tab = "other" /\ view \in {"graph", "list"}
    /\ rows = <<>> /\ total = 0 /\ pending = {} /\ busy = FALSE
    /\ shown = [tip |-> [l \in Lines |-> 0], previews |-> {}]
    /\ status = StatusOf(kernel)
    /\ calls = [c \in 1..MaxCalls |-> Idle]
    /\ reconnecting = FALSE /\ apart = FALSE /\ lost = FALSE /\ composer = <<>>
    /\ steps = 0
-----------------------------------------------------------------------------
(* Requests: the kernel answers, or the network loses them.                *)

\* GET /versions, /pending, /lines and /previews.
Answer(c) ==
    /\ calls[c].at \in {"versions", "rest"} /\ calls[c].saw = <<>>
    /\ calls[c].live
    /\ calls' = [calls EXCEPT ![c].saw = <<kernel>>]
    /\ UNCHANGED <<kernel, listing, busy, app, apart, lost, steps>>

\* The POST of an operation.
Serve(c) ==
    /\ calls[c].at = "post" /\ calls[c].saw = <<>>
    /\ \E o \in Outcomes(kernel, calls[c].op[1]) :
         /\ kernel' = o.after
         /\ calls' = [calls EXCEPT ![c].saw = <<o.after>>, ![c].ok = o.ok]
    /\ UNCHANGED <<listing, busy, app, apart, lost, steps>>

\* App.refresh: asked when the page is loaded and when a tab says that something
\* changed (onStatus), never by itself.  Its answer comes in the same step.
AppRefresh == status' = StatusOf(kernel)

Reboots(op) == op.kind \in {"approve", "rollback_to", "rollback", "revert", "reapply",
                            "preview_promote", "line_promote"}

\* A plausible slip: a tab that was left no longer waits for the new slot.
FinishOfTheTab(c) ==
    /\ Rests(c)
    /\ IF calls[c].op # <<>> /\ Reboots(calls[c].op[1]) /\ calls[c].live
       THEN /\ AppRefresh
            /\ reconnecting' = (reconnecting \/ calls[c].ok)
       ELSE UNCHANGED <<status, reconnecting>>

\* The last lines of runReboot: App asks for the status again, and a reboot
\* is waited for.
Finish(c) ==
    /\ Rests(c)
    /\ IF calls[c].op # <<>> /\ Reboots(calls[c].op[1])
       THEN /\ AppRefresh
            /\ reconnecting' = (reconnecting \/ calls[c].ok)
       ELSE UNCHANGED <<status, reconnecting>>

\* fetch throws, and so does the function that awaits it, busy or not.
Lose(c) ==
    /\ Steps
    /\ calls[c] # Idle
    /\ lost' = TRUE /\ apart' = TRUE
    /\ Rests(c)
    /\ UNCHANGED <<kernel, listing, busy, app>>
-----------------------------------------------------------------------------
(* What the tab does with an answer.                                       *)

Arrived(c, at) ==
    calls[c].at = at /\ calls[c].saw # <<>> /\ (calls[c].live \/ at = "post")

\* load: the page replaces the list, or is appended to what is listed now.
Listed(c) ==
    LET got == Slice(calls[c].saw[1], Page, calls[c].off)
    IN  IF calls[c].off = 0 THEN got ELSE rows \o got

ListArrives(c) ==
    /\ calls[c].fn = "list" /\ Arrived(c, "versions")
    /\ rows' = Listed(c) /\ total' = Count(calls[c].saw[1])
    /\ Proceeds(c, "rest")
    /\ UNCHANGED <<kernel, pending, shown, busy, app, apart, lost, steps>>

\* loadGraph: page after page until it has as many as the last total or GraphCap.
GraphArrives(c) ==
    /\ calls[c].fn = "graph" /\ Arrived(c, "versions")
    /\ LET k == calls[c].saw[1]
           batch == Slice(k, GraphLimit, calls[c].off)
           all == calls[c].all \o batch
       IN  IF batch = <<>> \/ Len(all) >= Count(k) \/ Len(all) >= GraphCap
           THEN rows' = all /\ total' = Count(k) /\ Proceeds(c, "rest")
           ELSE /\ calls' = [calls EXCEPT ![c].off = @ + Len(batch), ![c].all = all,
                                          ![c].saw = <<>>]
                /\ UNCHANGED <<rows, total>>
    /\ UNCHANGED <<kernel, pending, shown, busy, app, apart, lost, steps>>

\* loadPending: the versions held, the lines and the previews (the three GETs
\* as one).
RestArrives(c) ==
    /\ Arrived(c, "rest")
    /\ pending' = calls[c].saw[1].held
    /\ shown' = [tip |-> calls[c].saw[1].tip, previews |-> calls[c].saw[1].previews]
    /\ Finish(c)
    /\ UNCHANGED <<kernel, rows, total, busy, tab, view, composer, apart, lost, steps>>

\* The tab was left: what an operation reads again changes nothing any more,
\* but the operation is still finished.
LeftFinishes(c) ==
    /\ calls[c].at \in {"versions", "rest"} /\ ~ calls[c].live
    /\ Finish(c)
    /\ UNCHANGED <<kernel, listing, busy, tab, view, composer, apart, lost, steps>>

\* A plausible slip: an operation that was refused leaves the list alone.
ReadsAgainIfOk(op, ok) ==
    CASE ~ ok -> "nothing"
      [] ok /\ op.kind \in {"stop", "preview", "respawn"} -> "rest"
      [] OTHER -> "versions"

\* What an operation reads again once it is answered.
ReadsAgain(op, ok) ==
    CASE op.kind = "stop" \/ (op.kind \in {"preview", "respawn"} /\ ok) -> "rest"
      [] op.kind \in {"preview", "respawn"} /\ ~ ok -> "nothing"
      [] OTHER -> "versions"

\* The buttons are released before anything is read again.
PostArrives(c) ==
    /\ Arrived(c, "post")
    /\ LET op == calls[c].op[1]
           again == ReadsAgain(op, calls[c].ok)
       IN  /\ busy' = (busy /\ (op.kind = "label" \/ ~ calls[c].live))
           /\ IF again = "nothing" \/ ~ calls[c].live THEN Finish(c)
              ELSE Proceeds(c, again) /\ UNCHANGED <<status, reconnecting>>
    /\ UNCHANGED <<kernel, listing, tab, view, composer, apart, lost, steps>>
-----------------------------------------------------------------------------
(* What the tab offers, and the operator's clicks.                         *)

Op(kind, x) == [kind |-> kind, arg |-> x]

\* The buttons of one version, by the row it was read as and App's status.
OfferedOn(r) ==
    LET isActive == r.sha = status.active
    IN  {Op("preview", r.sha), Op("label", 0)}
        \cup (IF r.onMain /\ r.parent # 0 /\ ~ isActive THEN {Op("revert", r.sha)} ELSE {})
        \cup (IF ~ r.onMain /\ ~ r.held /\ r.sha \notin pending
              THEN {Op("reapply", r.sha)} ELSE {})
        \cup (IF r.onMain /\ ~ isActive THEN {Op("rollback_to", r.sha)} ELSE {})

\* The graph's detail panel decides on a version that is held as well; it shows
\* whichever version was clicked.
OfferedInGraph(r) ==
    OfferedOn(r) \cup (IF r.sha \in pending
                       THEN {Op("approve", r.sha), Op("reject", r.sha)} ELSE {})

OfferedPending == {Op(kind, v) : kind \in {"preview", "approve", "reject"}, v \in pending}

OfferedLines ==
    LET there == {l \in Lines : shown.tip[l] # 0}
    IN  {Op(kind, l) : kind \in {"line_promote", "line_delete"}, l \in there}
        \cup {Op("respawn", l) : l \in there \ shown.previews}

OfferedPreviews ==
    {Op(kind, v) : kind \in {"preview_promote", "stop"}, v \in shown.previews \ Lines}

OfferedRollback == IF status.undoDepth > 0 THEN {Op("rollback", 0)} ELSE {}

Offered ==
    (UNION {IF view = "graph" THEN OfferedInGraph(r) ELSE OfferedOn(r) : r \in ToSet(rows)})
    \cup OfferedPending \cup OfferedLines \cup OfferedPreviews \cup OfferedRollback

Usable == tab = "versions" /\ ~ reconnecting

\* A button, its dialog answered yes.  (What the dialog's delay lets become
\* stale, a list that is read only now and then lets become stale as well.)
\* The label's button is never disabled.
Click(op) ==
    /\ Usable /\ op \in Offered
    /\ op.kind = "label" \/ ~ busy
    /\ busy' = (busy \/ op.kind # "label")
    /\ Launch([Idle EXCEPT !.fn = Reloading.fn, !.at = "post", !.op = <<op>>, !.live = TRUE])
    /\ Steps
    /\ UNCHANGED <<kernel, listing, app, lost>>

\* The tab is unmounted: its loads have nobody to show them to.
Unmount ==
    /\ Blank
    /\ tab' = "other"
    /\ calls' = [c \in DOMAIN calls |->
                   IF calls[c].op = <<>> THEN Idle ELSE [calls[c] EXCEPT !.live = FALSE]]

\* continueVersion: whether it branches is decided by App's status.
Intent(r) == [sha |-> r.sha, branch |-> r.sha # status.active]

\* The intent is left in localStorage; Self-Modify takes it out when it mounts.
Continue(r) ==
    /\ Usable /\ ~ busy
    /\ Unmount
    /\ composer' = <<Intent(r)>>
    /\ UNCHANGED <<kernel, view, status, reconnecting, apart, lost, steps>>

\* The banner goes with the change that is filed, or with the tab.
Leave ==
    /\ tab = "versions" \/ composer # <<>>
    /\ ~ reconnecting
    /\ Unmount
    /\ composer' = <<>>
    /\ UNCHANGED <<kernel, view, status, reconnecting, apart, lost, steps>>

Mount ==
    /\ tab # "versions" /\ ~ reconnecting
    /\ tab' = "versions" /\ composer' = <<>>
    /\ Launch(Reloading)
    /\ UNCHANGED <<kernel, view, listing, busy, status, reconnecting, lost, steps>>

\* setView, and the effect that completes the list for the graph.
Toggle ==
    /\ Usable
    /\ view' = IF view = "graph" THEN "list" ELSE "graph"
    /\ IF view' = "graph" /\ Len(rows) < total
       THEN Launch(Loading("graph", 0))
       ELSE calls' = calls /\ apart' = (apart \/ UnderWay # {})
    /\ Steps
    /\ UNCHANGED <<kernel, rows, total, pending, shown, busy, tab, status,
                   reconnecting, composer, lost>>

Refresh ==
    /\ Usable /\ Launch(Reloading) /\ Steps
    /\ UNCHANGED <<kernel, listing, busy, app, lost>>

\* "Load more" asks for what comes after what is listed, however often.
LoadMore ==
    /\ Usable /\ view = "list" /\ Len(rows) < total
    /\ Launch(Loading("list", Len(rows))) /\ Steps
    /\ UNCHANGED <<kernel, listing, busy, app, lost>>

\* The new slot answers /health: the page is loaded again, on the Run tab.
Reload ==
    /\ reconnecting /\ reconnecting' = FALSE
    /\ Blank /\ tab' = "other" /\ composer' = <<>>
    /\ AppRefresh
    /\ calls' = [c \in DOMAIN calls |-> Idle]
    /\ apart' = FALSE
    /\ UNCHANGED <<kernel, view, lost, steps>>
-----------------------------------------------------------------------------
(* Other clients: an operation of their own, a change that goes live, is    *)
(* held, fails a gate or lands on a line, a line that is made.              *)

OtherOps(k) ==
    {Op(kind, x) : kind \in {"approve", "reject", "rollback_to"}, x \in 1..Count(k)}
    \cup {Op("rollback", 0)}

ChangeEffects(k) ==
    LET c == Committed(k, k.main)
        v == Count(k) + 1
    IN  IF Count(k) = MaxVersions THEN {}
        ELSE {Promoted(c, v), [c EXCEPT !.held = @ \cup {v}], c}
             \cup {[Committed(k, k.tip[l]) EXCEPT !.tip[l] = v] :
                       l \in {l \in Lines : k.tip[l] # 0}}

LineEffects(k) ==
    {[k EXCEPT !.tip[l] = k.main, !.previews = @ \cup {l}] : l \in {l \in Lines : k.tip[l] = 0}}

OtherEffects(k) ==
    (UNION {Effects(k, op) : op \in OtherOps(k)}) \cup ChangeEffects(k) \cup LineEffects(k)

Others ==
    /\ Steps
    /\ kernel' \in OtherEffects(kernel) \ {kernel}
    /\ apart' = TRUE
    /\ UNCHANGED <<listing, busy, app, calls, lost>>

Progress(c) ==
    \/ Answer(c) \/ Serve(c) \/ ListArrives(c) \/ GraphArrives(c) \/ RestArrives(c)
     \/ LeftFinishes(c) \/ PostArrives(c)

Operator ==
    \/ \E op \in Offered : Click(op)
    \/ \E r \in ToSet(rows) : Continue(r)
    \/ Mount \/ Toggle \/ Refresh \/ LoadMore \/ Leave

Next ==
    \/ \E c \in DOMAIN calls : Progress(c) \/ Lose(c)
    \/ Operator \/ Reload \/ Others

Spec == Init /\ [][Next]_vars

\* Requests are answered, promises resumed and /health polled until it answers.
Fairness ==
    /\ \A c \in 1..MaxCalls : WF_vars(Progress(c))
    /\ WF_vars(Reload)

FairSpec == Spec /\ Fairness
-----------------------------------------------------------------------------
Rows == [sha : 1..MaxVersions, parent : 0..MaxVersions, onMain : BOOLEAN, held : BOOLEAN]

\* What is listed are rows of the history, by the tab that is mounted, and a
\* graph load stops at its cap.
TypeOK ==
    /\ IsKernel(kernel)
    /\ rows \in Seq(Rows) /\ total \in 0..MaxVersions
    /\ pending \subseteq 1..MaxVersions
    /\ shown \in [tip : [Lines -> 0..MaxVersions], previews : SUBSET (1..MaxVersions \cup Lines)]
    /\ view \in {"graph", "list"} /\ tab \in {"versions", "other"}
    /\ {busy, reconnecting, apart, lost} \subseteq BOOLEAN
    /\ tab = "other" => rows = <<>> /\ ~ busy
    /\ Len(composer) <= 1
    /\ \A c \in DOMAIN calls : calls[c].all \in Seq(Rows) /\ Len(calls[c].all) < GraphCap

\* Once the tab's calls have come to rest, nobody else having changed the
\* history and no two of its calls having overlapped since it last read
\* everything, it shows the kernel's history: the newest versions in order,
\* each once and as it is now, all of them in the graph, the versions held, the
\* lines and previews, with the buttons enabled unless a request was lost -- whatever its operations
\* did, the refused ones included (load, loadGraph, loadPending, runReboot).
ListingAgrees ==
    (UnderWay = {} /\ tab = "versions" /\ ~ apart) =>
        /\ rows = SubSeq(Listing(kernel), 1, Len(rows))
        /\ Len(rows) >= Min({Count(kernel), IF view = "graph" THEN GraphCap ELSE Page})
        /\ total = Count(kernel) /\ pending = kernel.held
        /\ shown = [tip |-> kernel.tip, previews |-> kernel.previews]
        /\ busy => lost

\* Whatever instants the pages of the list were read at, the graph can be drawn
\* from it unless a version is in it twice (computeLayout).
GraphIsDrawable == IsInjective([i \in DOMAIN rows |-> rows[i].sha]) => IsDrawable(rows)

\* ... and what the tab holds is well formed (TypeOK).
GraphInv == TypeOK /\ GraphIsDrawable

\* Whether an operation that reboots the app was done and not yet followed up.
Shipped == \E c \in DOMAIN calls :
    /\ calls[c].op # <<>> /\ Reboots(calls[c].op[1])
    /\ calls[c].ok /\ calls[c].saw # <<>>

\* A promotion this page asked for is waited for and the page loaded again,
\* the tab being left meanwhile or not, unless a request was lost (runReboot).
RebootIsFollowed == Shipped ~> (reconnecting \/ lost)

\* Refuted by this model (see the README), so checked by no run of the project:
\* a change continued from a version of a list that is up to date is announced
\* as a branch unless the version is the running one (continueVersion: "anything
\* but the running version branches the line").
BranchIsAnnounced ==
    (composer # <<>> /\ ~ apart /\ ~ composer[1].branch) => composer[1].sha = kernel.main
=============================================================================
