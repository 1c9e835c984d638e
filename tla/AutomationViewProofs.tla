------------------------ MODULE AutomationViewProofs ------------------------
(***************************************************************************)
(* For every instance: the panels' state is of its types and belongs to the *)
(* tab that is mounted, the switch of the Errors tab makes at most one      *)
(* self-healing trigger, and a tab whose calls have come to rest agrees     *)
(* with the kernel.                                                         *)
(*                                                                          *)
(* The switch posts a new trigger when it shows none.  What it shows is an  *)
(* answer of the past: it holds now because nobody but the switch makes     *)
(* such a trigger (another client that does sets slipped), because its      *)
(* function runs once at a time, its flag set from the click to the answer  *)
(* of its last read (HealersOK), and because what the flag guards is what   *)
(* that read found (HealShown).                                             *)
(*                                                                          *)
(* The panels agree because each of them is tracked at every moment: a call *)
(* under way will read it, or will leave it right whatever becomes of its   *)
(* request, or nobody is changing anything and it is right already          *)
(* (Tracked).  A read that was answered must still hold when it arrives     *)
(* (SawTrue): the calls that overlap, the reads of a mounted tab and those  *)
(* that follow a run, change nothing but the listing of the proposals, and  *)
(* a second listing finds nothing new (Kept, Settled, Runs).                *)
(***************************************************************************)
EXTENDS AutomationView, FiniteSetTheorems, SequenceTheorems, TLAPS

Fields == {"fn", "ops", "reads", "prev", "saw", "ok", "live"}
Panels == {"gates", "proposals", "settings", "card", "heal"}

\* What a function reads last, and the tab it belongs to.
ReadBy(fn) ==
    CASE fn \in {"gate", "switch", "save", "patch", "none"} -> {"none"}
      [] fn \in {"analyze", "schedule", "unschedule", "dismiss", "run"} -> {"proposals"}
      [] fn \in {"trigger", "row"} -> {"card"}
      [] fn = "selfheal" -> {"heal"}
      [] OTHER -> Panels

TabOf(fn, reads) ==
    CASE reads \in {"gates", "proposals"} \/ fn \in {"gate", "switch"} -> "modify"
      [] reads = "heal" -> "errors"
      [] OTHER -> "settings"

IsHeal(op) == op.kind = "new" /\ op.arg = "error_spike"

\* A request the kernel understands; only the switch makes a
\* self-healing trigger, and only the Advisor's run is answered late.
OpOK(fn, op) ==
    /\ op.kind \in {"patch", "new", "edit", "toggle", "delete", "analyze", "unschedule",
                    "dismiss", "run", "schedule"}
    /\ op.on \in BOOLEAN
    /\ op.kind = "patch" => op.arg \in Keys
    /\ op.kind = "new" => op.arg \in Kinds
    /\ op.kind \in {"unschedule", "dismiss", "run", "schedule"} => op.arg \in Proposals
    /\ op.kind = "run" => fn = "run"
    /\ IsHeal(op) => fn = "selfheal"

OpsOK(fn, ops) ==
    \/ ops = <<>>
    \/ ops = <<ops[1]>> /\ OpOK(fn, ops[1])
    \/ ops = <<ops[1], ops[2]>> /\ OpOK(fn, ops[1]) /\ OpOK(fn, ops[2]) /\ ~ IsHeal(ops[2])

\* A call of its function; only an operation outlives its tab.
CallOK(call) ==
    /\ DOMAIN call = Fields
    /\ call.fn \in {"none", "load", "gate", "switch", "save", "patch", "analyze", "schedule",
                    "unschedule", "dismiss", "run", "trigger", "row", "selfheal"}
    /\ call.reads \in ReadBy(call.fn)
    /\ OpsOK(call.fn, call.ops)
    /\ call.ops # <<>> => call.fn \notin {"none", "load"}
    /\ call.saw # <<>> => call.saw = <<call.saw[1]>> /\ IsKernel(call.saw[1])
    /\ call.ops = <<>> => call = Idle \/ (call.live /\ call.reads # "none")
    /\ call.live \in BOOLEAN

\* What is mounted owns its live calls; the card's follow the draft.
Owned(call, t, s) ==
    call.live /\ call.fn # "none" =>
        /\ t = TabOf(call.fn, call.reads)
        /\ call.reads = "card" \/ call.fn = "patch" => s.draft # <<>>

CallsOK ==
    /\ DOMAIN calls = 1..MaxCalls
    /\ \A c \in 1..MaxCalls : CallOK(calls[c]) /\ Owned(calls[c], tab, shown)

ShownOK ==
    /\ DOMAIN shown = {"gates", "proposals", "draft", "card", "list", "heal"}
    /\ shown.draft = <<>> \/ shown.draft = <<TRUE>> \/ shown.draft = <<FALSE>>

TypeInv == TypeOK /\ CallsOK /\ ShownOK

NoHeal(k) == SelfHealing(k) = {}

\* A call that reads the switch's panel is its load or its function, which is
\* live and has set the flag.
HealerOK(call, s, flags) ==
    \/ call.fn = "load" /\ call.ops = <<>> /\ s.heal = <<>>
    \/ call.fn = "selfheal" /\ call.live /\ "heal" \in flags

\* A trigger about to be made is the only one; an answer that shows none is true.
HealerKnows(call, k) ==
    /\ call.ops = <<>> /\ call.saw # <<>> /\ NoHeal(call.saw[1]) => NoHeal(k)
    /\ call.ops # <<>> /\ IsHeal(call.ops[1]) /\ call.saw = <<>> /\ ~ call.ok => NoHeal(k)

Healers(cs) == {c \in 1..MaxCalls : cs[c].reads = "heal"}

HealersOK ==
    /\ \A c, d \in Healers(calls) : c = d
    /\ \A c \in Healers(calls) : HealerOK(calls[c], shown, busy) /\ HealerKnows(calls[c], kernel)

HealShown ==
    shown.heal # <<>> /\ "heal" \notin busy /\ shown.heal[1].trigger = 0 => NoHeal(kernel)

HealInv ==
    ~ slipped => Cardinality(SelfHealing(kernel)) <= 1 /\ HealersOK /\ HealShown

IInv == TypeInv /\ HealInv
-----------------------------------------------------------------------------
(* The kernel: what serves a request keeps it a kernel, and only a request   *)
(* for a self-healing trigger makes one.                                     *)

Status == {"none", "open", "scheduled", "run", "dismissed"}

\* A proposal is a status and the trigger made for it.
LEMMA ProposalsTyped ==
    ASSUME NEW k, IsKernel(k), NEW p, NEW s \in Status, NEW t \in 0..k.made
    PROVE  /\ IsKernel(WithProposal(k, p, s, t))
           /\ SelfHealing(WithProposal(k, p, s, t)) = SelfHealing(k)
<1> DEFINE r == [status |-> s, trigger |-> t]
           k2 == WithProposal(k, p, s, t)
<1>1. r \in [status : Status, trigger : 0..k.made]
  OBVIOUS
<1>2. k.proposals \in [Proposals -> [status : Status, trigger : 0..k.made]]
  BY DEF IsKernel, Status
<1>3. [k.proposals EXCEPT ![p] = r] \in [Proposals -> [status : Status, trigger : 0..k.made]]
  BY <1>1, <1>2
<1>4. DOMAIN k = {"cfg", "triggers", "made", "task", "proposals"}
  BY DEF IsKernel
<1>5. /\ DOMAIN k2 = DOMAIN k /\ k2.cfg = k.cfg /\ k2.made = k.made /\ k2.triggers = k.triggers
      /\ k2.proposals = [k.proposals EXCEPT ![p] = r]
  BY <1>4 DEF WithProposal
<1> HIDE DEF k2
<1>6. IsKernel(k2)
  BY <1>3, <1>5 DEF IsKernel, Status
<1>7. SelfHealing(k2) = SelfHealing(k)
  BY <1>5 DEF SelfHealing
<1> QED BY <1>6, <1>7 DEF k2

\* A new trigger is the last of the kernel's.
LEMMA MadeTyped ==
    ASSUME NEW k, IsKernel(k), NEW kind \in Kinds, NEW once \in BOOLEAN, NEW of \in Nat
    PROVE  /\ IsKernel(Made(k, kind, once, of))
           /\ Made(k, kind, once, of).made = k.made + 1
           /\ SelfHealing(Made(k, kind, once, of))
                \subseteq SelfHealing(k) \cup (IF kind = "error_spike" THEN {k.made + 1} ELSE {})
<1> DEFINE k2 == Made(k, kind, once, of)
           r == New(kind, once, of)
           ts == Created(k.triggers, k.made + 1, r)
<1>1. r \in Entries /\ r.kind = kind
  <2>1. [i \in Items |-> 0] \in [Items -> Nat]
    OBVIOUS
  <2> QED BY <2>1 DEF New, Entries
<1> HIDE DEF r
<1>2. /\ DOMAIN k = {"cfg", "triggers", "made", "task", "proposals"}
      /\ k.made \in Nat /\ DOMAIN k.triggers \subseteq 1..k.made
      /\ \A t \in DOMAIN k.triggers : k.triggers[t] \in Entries
  BY DEF IsKernel
<1>3. /\ DOMAIN ts = DOMAIN k.triggers \cup {k.made + 1}
      /\ \A t \in DOMAIN ts : ts[t] = IF t = k.made + 1 THEN r ELSE k.triggers[t]
  BY DEF Created
<1> HIDE DEF ts
<1>4. /\ DOMAIN k2 = DOMAIN k /\ k2.cfg = k.cfg /\ k2.made = k.made + 1 /\ k2.triggers = ts
      /\ k2.proposals = k.proposals
  BY <1>2 DEF Made, ts, r
<1> HIDE DEF k2
<1>5. DOMAIN ts \subseteq 1..(k.made + 1) /\ \A t \in DOMAIN ts : ts[t] \in Entries
  BY <1>1, <1>2, <1>3
<1>6. k.proposals \in [Proposals -> [status : Status, trigger : 0..(k.made + 1)]]
  <2>1. k.proposals \in [Proposals -> [status : Status, trigger : 0..k.made]]
    BY DEF IsKernel, Status
  <2>2. 0..k.made \subseteq 0..(k.made + 1)
    BY <1>2
  <2> QED BY <2>1, <2>2
<1>7. IsKernel(k2)
  <2>1. k2.cfg \in [Keys -> BOOLEAN] /\ k.made + 1 \in Nat
    BY <1>2, <1>4 DEF IsKernel
  <2> QED BY <1>2, <1>4, <1>5, <1>6, <2>1 DEF IsKernel, Status
<1>8. SelfHealing(k2) \subseteq SelfHealing(k) \cup (IF kind = "error_spike" THEN {k.made + 1} ELSE {})
  BY <1>1, <1>3, <1>4 DEF SelfHealing
<1> QED BY <1>4, <1>7, <1>8 DEF k2

\* Triggers that are only changed or deleted, none of another kind.
LEMMA TriggersTyped ==
    ASSUME NEW k, IsKernel(k), NEW ts, DOMAIN ts \subseteq DOMAIN k.triggers,
           \A t \in DOMAIN ts : ts[t] \in Entries /\ ts[t].kind = k.triggers[t].kind
    PROVE  /\ IsKernel([k EXCEPT !.triggers = ts])
           /\ SelfHealing([k EXCEPT !.triggers = ts]) \subseteq SelfHealing(k)
<1> DEFINE k2 == [k EXCEPT !.triggers = ts]
<1>1. DOMAIN k = {"cfg", "triggers", "made", "task", "proposals"}
  BY DEF IsKernel
<1>2. /\ DOMAIN k2 = DOMAIN k /\ k2.cfg = k.cfg /\ k2.made = k.made /\ k2.triggers = ts
      /\ k2.proposals = k.proposals
  BY <1>1
<1> HIDE DEF k2
<1>3. IsKernel(k2)
  BY <1>2 DEF IsKernel
<1>4. SelfHealing(k2) \subseteq SelfHealing(k)
  BY <1>2 DEF SelfHealing
<1> QED BY <1>3, <1>4 DEF k2

\* The record of a fire changes no kind.
LEMMA RecordedTyped ==
    ASSUME NEW r \in Entries PROVE Recorded(r, 0, 1) \in Entries /\ Recorded(r, 0, 1).kind = r.kind
<1>1. /\ r.day \in Nat /\ r.count \in Nat /\ r.fired \in [Items -> Nat] /\ r.kind \in Kinds
      /\ r.once \in BOOLEAN /\ r.of \in Nat /\ r.on \in BOOLEAN
      /\ r = [kind |-> r.kind, on |-> r.on, once |-> r.once, of |-> r.of, day |-> r.day,
              count |-> r.count, fired |-> r.fired]
  BY DEF Entries
<1> DEFINE n == IF r.day = 1 THEN r.count + 1 ELSE 1
           b == r.on /\ ~ r.once
           f == IF 0 = 0 THEN r.fired ELSE [r.fired EXCEPT ![0] = 1]
<1>2. n \in Nat /\ f = r.fired
  BY <1>1
<1>3. b \in BOOLEAN
  BY <1>1
<1>4. Recorded(r, 0, 1) = [r EXCEPT !.day = 1, !.count = n, !.on = b, !.fired = f]
  BY DEF Recorded
<1> HIDE DEF n, b, f
<1>5. Recorded(r, 0, 1) = [kind |-> r.kind, on |-> b, once |-> r.once, of |-> r.of, day |-> 1,
                           count |-> n, fired |-> f]
  BY <1>1, <1>4
<1> QED BY <1>1, <1>2, <1>3, <1>5 DEF Entries

\* The listing looks at the triggers and changes proposals only.
LEMMA SyncedTyped ==
    ASSUME NEW k, IsKernel(k)
    PROVE  IsKernel(Synced(k)) /\ SelfHealing(Synced(k)) = SelfHealing(k) /\ Synced(k).triggers = k.triggers
<1> DEFINE ps == Reconciled(k.proposals, k.triggers)
           P == [status : Status, trigger : 0..k.made]
           k2 == Synced(k)
<1>1. /\ DOMAIN k = {"cfg", "triggers", "made", "task", "proposals"}
      /\ k.made \in Nat /\ k.proposals \in [Proposals -> P]
  BY DEF IsKernel, Status
<1>2. Open \in P
  BY <1>1 DEF Open, Status
<1>3. ASSUME NEW p \in Proposals PROVE ps[p] \in P
  <2>1. k.proposals[p] \in P
    BY <1>1
  <2>2. [k.proposals[p] EXCEPT !.status = "run"] \in P
    BY <2>1 DEF Status
  <2>3. ps[p] \in {k.proposals[p], [k.proposals[p] EXCEPT !.status = "run"], Open}
    BY DEF Reconciled
  <2> QED BY <1>2, <2>1, <2>2, <2>3
<1>4. ps \in [Proposals -> P]
  BY <1>3 DEF Reconciled
<1> HIDE DEF ps
<1>5. /\ DOMAIN k2 = DOMAIN k /\ k2.cfg = k.cfg /\ k2.made = k.made /\ k2.triggers = k.triggers
      /\ k2.proposals = ps
  BY <1>1 DEF Synced, ps
<1> HIDE DEF k2
<1>6. IsKernel(k2)
  BY <1>4, <1>5 DEF IsKernel, Status
<1>7. SelfHealing(k2) = SelfHealing(k)
  BY <1>5 DEF SelfHealing
<1> QED BY <1>5, <1>6, <1>7 DEF k2

\* A trigger's switch and its edit keep its kind.
LEMMA EntryChanged ==
    ASSUME NEW r \in Entries, NEW on \in BOOLEAN
    PROVE  /\ [r EXCEPT !.on = on] \in Entries /\ [r EXCEPT !.on = on].kind = r.kind
           /\ [r EXCEPT !.on = TRUE, !.once = FALSE] \in Entries
           /\ [r EXCEPT !.on = TRUE, !.once = FALSE].kind = r.kind
<1>1. /\ r.day \in Nat /\ r.count \in Nat /\ r.fired \in [Items -> Nat] /\ r.kind \in Kinds
      /\ r.once \in BOOLEAN /\ r.of \in Nat /\ r.on \in BOOLEAN
      /\ r = [kind |-> r.kind, on |-> r.on, once |-> r.once, of |-> r.of, day |-> r.day,
              count |-> r.count, fired |-> r.fired]
  BY DEF Entries
<1>2. [r EXCEPT !.on = on] = [kind |-> r.kind, on |-> on, once |-> r.once, of |-> r.of, day |-> r.day,
              count |-> r.count, fired |-> r.fired]
  BY <1>1
<1>3. ASSUME NEW a \in BOOLEAN, NEW b \in BOOLEAN
      PROVE [r EXCEPT !.on = a, !.once = b] \in Entries /\ [r EXCEPT !.on = a, !.once = b].kind = r.kind
  <2> DEFINE e == [r EXCEPT !.on = a]
  <2>1. [r EXCEPT !.on = a, !.once = b] = [e EXCEPT !.once = b]
    BY Zenon
  <2>2. e = [kind |-> r.kind, on |-> a, once |-> r.once, of |-> r.of, day |-> r.day,
             count |-> r.count, fired |-> r.fired]
    BY <1>1
  <2> HIDE DEF e
  <2>3. [e EXCEPT !.once = b]
          = [kind |-> r.kind, on |-> a, once |-> b, of |-> r.of, day |-> r.day,
             count |-> r.count, fired |-> r.fired]
    BY <2>2
  <2> QED BY <1>1, <2>1, <2>3 DEF Entries
<1>4. TRUE \in BOOLEAN /\ FALSE \in BOOLEAN
  OBVIOUS
<1>5. /\ [r EXCEPT !.on = TRUE, !.once = FALSE] \in Entries
      /\ [r EXCEPT !.on = TRUE, !.once = FALSE].kind = r.kind
  BY <1>3, <1>4, Zenon
<1> QED BY <1>1, <1>2, <1>5 DEF Entries

\* What serves a request that is not refused.
LEMMA EffectTyped ==
    ASSUME NEW k, IsKernel(k), NEW fn, NEW op, OpOK(fn, op), NEW k2 \in Effects(k, op)
    PROVE  /\ IsKernel(k2)
           /\ SelfHealing(k2) \subseteq SelfHealing(k) \cup (IF IsHeal(op) THEN {k.made + 1} ELSE {})
<1> DEFINE x == op.arg
<1>1. /\ DOMAIN k = {"cfg", "triggers", "made", "task", "proposals"}
      /\ k.made \in Nat /\ \A t \in DOMAIN k.triggers : k.triggers[t] \in Entries
      /\ DOMAIN k.triggers \subseteq 1..k.made
  BY DEF IsKernel
<1>2. 0 \in 0..k.made /\ k.made + 1 \in 0..(k.made + 1)
  BY <1>1
<1>3. CASE op.kind = "patch"
  <2>1. k2 = [k EXCEPT !.cfg[x] = op.on]
    BY <1>3 DEF Effects
  <2>2. [k.cfg EXCEPT ![x] = op.on] \in [Keys -> BOOLEAN]
    BY <1>3 DEF IsKernel, OpOK
  <2>3. /\ DOMAIN k2 = DOMAIN k /\ k2.cfg = [k.cfg EXCEPT ![x] = op.on] /\ k2.made = k.made
        /\ k2.triggers = k.triggers /\ k2.proposals = k.proposals
    BY <1>1, <2>1
  <2>4. IsKernel(k2)
    BY <2>2, <2>3 DEF IsKernel
  <2> QED BY <2>3, <2>4 DEF SelfHealing
<1>4. CASE op.kind = "new"
  <2>1. k2 = Made(k, x, FALSE, 0) /\ x \in Kinds
    BY <1>4 DEF Effects, OpOK
  <2>2. FALSE \in BOOLEAN /\ 0 \in Nat
    OBVIOUS
  <2>3. /\ IsKernel(k2)
        /\ SelfHealing(k2) \subseteq SelfHealing(k) \cup (IF x = "error_spike" THEN {k.made + 1} ELSE {})
    BY <2>1, <2>2, MadeTyped, Zenon
  <2> QED BY <1>4, <2>3 DEF IsHeal
<1>5. CASE op.kind \in {"edit", "toggle", "delete"}
  <2>1. \E ts : /\ k2 = [k EXCEPT !.triggers = ts] /\ x \in DOMAIN k.triggers
                /\ ts \in {Edited(k.triggers, x, TRUE, FALSE), Toggled(k.triggers, x, op.on),
                           Deleted(k.triggers, x)}
    <3>1. CASE op.kind = "edit"
      BY <3>1 DEF Effects
    <3>2. CASE op.kind = "toggle"
      BY <3>2 DEF Effects
    <3>3. CASE op.kind = "delete"
      BY <3>3 DEF Effects
    <3> QED BY <1>5, <3>1, <3>2, <3>3
  <2>2. PICK ts : /\ k2 = [k EXCEPT !.triggers = ts] /\ x \in DOMAIN k.triggers
                  /\ ts \in {Edited(k.triggers, x, TRUE, FALSE), Toggled(k.triggers, x, op.on),
                             Deleted(k.triggers, x)}
    BY <2>1
  <2>3. k.triggers[x] \in Entries /\ op.on \in BOOLEAN
    BY <1>1, <2>2 DEF OpOK
  <2>4. /\ DOMAIN ts \subseteq DOMAIN k.triggers
        /\ \A t \in DOMAIN ts : ts[t] \in Entries /\ ts[t].kind = k.triggers[t].kind
    <3>1. CASE ts = Edited(k.triggers, x, TRUE, FALSE)
      <4>1. ts = [k.triggers EXCEPT ![x] = [@ EXCEPT !.on = TRUE, !.once = FALSE]]
        BY <2>2, <3>1 DEF Edited
      <4> DEFINE r == [k.triggers[x] EXCEPT !.on = TRUE, !.once = FALSE]
      <4>2. r \in Entries /\ r.kind = k.triggers[x].kind
        BY <2>3, EntryChanged, Zenon
      <4>3. ts = [k.triggers EXCEPT ![x] = r]
        BY <4>1
      <4> HIDE DEF r
      <4> QED BY <1>1, <4>2, <4>3
    <3>2. CASE ts = Toggled(k.triggers, x, op.on)
      <4> DEFINE r == [k.triggers[x] EXCEPT !.on = op.on]
      <4>1. r \in Entries /\ r.kind = k.triggers[x].kind
        BY <2>3, EntryChanged, Zenon
      <4>2. ts = [k.triggers EXCEPT ![x] = r]
        BY <2>2, <3>2 DEF Toggled
      <4> HIDE DEF r
      <4> QED BY <1>1, <4>1, <4>2
    <3>3. CASE ts = Deleted(k.triggers, x)
      BY <1>1, <3>3 DEF Deleted
    <3> QED BY <2>2, <3>1, <3>2, <3>3
  <2> QED BY <2>2, <2>4, TriggersTyped
<1>6. CASE op.kind = "analyze"
  <2>1. k2 = k \/ \E p \in Proposals : k2 = WithProposal(k, p, "open", 0)
    BY <1>6 DEF Effects
  <2> QED BY <1>2, <2>1, ProposalsTyped DEF Status
<1>7. CASE op.kind = "unschedule"
  <2> DEFINE s == Synced(k)
             ts == Deleted(s.triggers, s.proposals[x].trigger)
             d == [s EXCEPT !.triggers = ts]
  <2>1. k2 = Unscheduled(s, x)
    BY <1>7 DEF Effects
  <2>2. k2 = s \/ k2 = WithProposal(d, x, "open", 0)
    BY <2>1 DEF Unscheduled
  <2>3. IsKernel(s) /\ SelfHealing(s) = SelfHealing(k)
    BY SyncedTyped
  <2>4. \A t \in DOMAIN s.triggers : s.triggers[t] \in Entries
    BY <2>3 DEF IsKernel
  <2>5. DOMAIN ts \subseteq DOMAIN s.triggers
        /\ \A t \in DOMAIN ts : ts[t] \in Entries /\ ts[t].kind = s.triggers[t].kind
    BY <2>4 DEF Deleted
  <2> HIDE DEF s, ts
  <2>6. IsKernel(d) /\ SelfHealing(d) \subseteq SelfHealing(k)
    BY <2>3, <2>5, TriggersTyped
  <2> HIDE DEF d
  <2>7. 0 \in 0..d.made /\ "open" \in Status
    BY <2>6 DEF IsKernel, Status
  <2>8. IsKernel(WithProposal(d, x, "open", 0)) /\ SelfHealing(WithProposal(d, x, "open", 0)) = SelfHealing(d)
    BY <2>6, <2>7, ProposalsTyped
  <2> QED BY <2>2, <2>3, <2>6, <2>8
<1>8. CASE op.kind = "dismiss"
  <2>1. k2 = WithProposal(k, x, "dismissed", 0)
    BY <1>8 DEF Effects
  <2> QED BY <1>2, <2>1, ProposalsTyped DEF Status
<1>9. CASE op.kind = "run"
  <2> DEFINE w == WithProposal(k, x, "run", 0)
  <2>1. k2 = [w EXCEPT !.task = TRUE]
    BY <1>9 DEF Effects
  <2>2. IsKernel(w) /\ SelfHealing(w) = SelfHealing(k)
    BY <1>2, ProposalsTyped DEF Status
  <2> HIDE DEF w
  <2>3. DOMAIN w = {"cfg", "triggers", "made", "task", "proposals"}
    BY <2>2 DEF IsKernel
  <2>4. /\ DOMAIN k2 = DOMAIN w /\ k2.cfg = w.cfg /\ k2.made = w.made /\ k2.triggers = w.triggers
        /\ k2.proposals = w.proposals
    BY <2>1, <2>3
  <2>5. IsKernel(k2)
    BY <2>2, <2>4 DEF IsKernel
  <2> QED BY <2>2, <2>4, <2>5 DEF SelfHealing
<1>10. CASE op.kind = "schedule"
  <2> DEFINE w == Made(k, "schedule", TRUE, x)
  <2>1. k2 = WithProposal(w, x, "scheduled", k.made + 1)
    BY <1>10 DEF Effects
  <2>2. "schedule" \in Kinds /\ TRUE \in BOOLEAN /\ x \in Nat
    BY <1>10, ItemsAssumption DEF OpOK, Kinds, Items
  <2>3. /\ IsKernel(w) /\ w.made = k.made + 1
        /\ SelfHealing(w) \subseteq SelfHealing(k)
                 \cup (IF "schedule" = "error_spike" THEN {k.made + 1} ELSE {})
    BY <2>2, MadeTyped, Zenon
  <2> HIDE DEF w
  <2>4. SelfHealing(w) \subseteq SelfHealing(k)
    BY <2>3
  <2>5. k.made + 1 \in 0..w.made /\ "scheduled" \in Status
    BY <1>2, <2>3 DEF Status
  <2> QED BY <2>1, <2>3, <2>4, <2>5, ProposalsTyped
<1> QED BY <1>3, <1>4, <1>5, <1>6, <1>7, <1>8, <1>9, <1>10 DEF OpOK
-----------------------------------------------------------------------------
(* Calls.                                                                   *)

Functions == {"gate", "switch", "save", "patch", "analyze", "schedule", "unschedule", "dismiss",
              "run", "trigger", "row", "selfheal"}

\* A launch fills idle slots with its calls, one of each.
Filled(slots, new, then) ==
    /\ DOMAIN then = 1..MaxCalls
    /\ \A c \in 1..MaxCalls :
         \/ then[c] = slots[c]
         \/ slots[c] = Idle /\ \E i \in 1..Len(new) : then[c] = new[i]
    /\ Len(new) = 1 =>
         \A c, d \in 1..MaxCalls : then[c] # slots[c] /\ then[d] # slots[d] => c = d

LEMMA LaunchedCalls ==
    ASSUME NEW slots, DOMAIN slots = 1..MaxCalls, NEW new, Len(new) \in Nat
    PROVE  Filled(slots, new, Launched(slots, new))
<1> DEFINE free == {c \in DOMAIN slots : slots[c] = Idle}
           upTo(c) == {d \in free : d <= c}
           rank(c) == Cardinality(upTo(c))
           L == Launched(slots, new)
<1>1. MaxCalls \in Nat /\ free \subseteq 1..MaxCalls
  BY AutomationViewAssumption
<1>2. IsFiniteSet(1..MaxCalls)
  BY <1>1, FS_Interval
<1>3. ASSUME NEW c \in free PROVE IsFiniteSet(upTo(c)) /\ rank(c) \in Nat /\ rank(c) >= 1
  <2>1. upTo(c) \subseteq 1..MaxCalls /\ c \in upTo(c)
    BY <1>1
  <2>2. IsFiniteSet(upTo(c)) /\ rank(c) \in Nat
    BY <1>2, <2>1, FS_Subset, FS_CardinalityType
  <2>3. rank(c) # 0
    BY <2>1, <2>2, FS_EmptySet
  <2> QED BY <2>2, <2>3
<1>4. \A c \in 1..MaxCalls : L[c] = IF c \in free /\ rank(c) <= Len(new) THEN new[rank(c)] ELSE slots[c]
  BY DEF Launched
<1>5. DOMAIN L = 1..MaxCalls
  BY DEF Launched
<1>b. ASSUME NEW c \in free, NEW d \in free, c <= d PROVE c \in upTo(d)
  BY <1>b
<1> HIDE DEF L, rank, upTo, free
<1>6. ASSUME NEW c \in 1..MaxCalls
      PROVE L[c] = slots[c] \/ (slots[c] = Idle /\ \E i \in 1..Len(new) : L[c] = new[i])
  <2>1. CASE c \in free /\ rank(c) <= Len(new)
    <3>1. L[c] = new[rank(c)] /\ rank(c) \in 1..Len(new)
      BY <1>3, <1>4, <2>1
    <3> QED BY <2>1, <3>1 DEF free
  <2>2. CASE ~ (c \in free /\ rank(c) <= Len(new))
    <3>1. L[c] = slots[c]
      BY <1>4, <2>2, Zenon
    <3> QED BY <3>1
  <2> QED BY <2>1, <2>2
<1>7. ASSUME Len(new) = 1, NEW c \in 1..MaxCalls, NEW d \in 1..MaxCalls,
             L[c] # slots[c], L[d] # slots[d], c < d
      PROVE  FALSE
  <2>1. c \in free /\ d \in free /\ rank(c) <= 1 /\ rank(d) <= 1
    BY <1>4, <1>7
  <2>2. c \in upTo(d) /\ d \in upTo(d) /\ c # d
    BY <1>1, <1>7, <1>b, <2>1
  <2>3. IsFiniteSet({c}) /\ Cardinality({c}) = 1
    BY FS_Singleton
  <2> DEFINE pair == {c} \cup {d}
  <2>4. Cardinality(pair) = 1 + 1
    <3>1. d \notin {c}
      BY <2>2
    <3> QED BY <2>3, <3>1, FS_AddElement
  <2>5. Cardinality(pair) <= Cardinality(upTo(d))
    <3>1. {c} \cup {d} \subseteq upTo(d)
      BY <2>2
    <3> QED BY <1>3, <2>1, <3>1, FS_Subset
  <2> HIDE DEF pair
  <2>6. Cardinality(upTo(d)) = rank(d)
    BY DEF rank
  <2>7. rank(d) >= 2
    BY <2>4, <2>5, <2>6
  <2> QED BY <1>3, <2>1, <2>7
<1>8. Len(new) = 1 => \A c, d \in 1..MaxCalls : L[c] # slots[c] /\ L[d] # slots[d] => c = d
  BY <1>1, <1>7
<1> QED BY <1>5, <1>6, <1>8 DEF L, Filled

\* The fields of a new call.
LEMMA NewCall ==
    ASSUME NEW fn, NEW ops, NEW panel
    PROVE  LET p == Post(fn, ops, panel)
           IN  /\ DOMAIN p = Fields /\ p.fn = fn /\ p.ops = ops /\ p.reads = panel
               /\ p.saw = <<>> /\ p.live /\ ~ p.ok
  BY DEF Post, Idle, Fields

LEMMA NewLoad ==
    ASSUME NEW panel
    PROVE  LET p == Load(panel)
           IN  /\ DOMAIN p = Fields /\ p.fn = "load" /\ p.ops = <<>> /\ p.reads = panel
               /\ p.saw = <<>> /\ p.live /\ ~ p.ok
  BY DEF Load, Idle, Fields

LEMMA IdleOK == /\ CallOK(Idle) /\ Idle.reads # "heal" /\ Idle.fn = "none" /\ Idle.ops = <<>>
                /\ \A t, s : Owned(Idle, t, s)
<1>1. /\ DOMAIN Idle = Fields /\ Idle.fn = "none" /\ Idle.ops = <<>> /\ Idle.reads = "none"
      /\ Idle.saw = <<>>
  BY DEF Idle, Fields
<1>2. Idle.live \in BOOLEAN
  BY DEF Idle
<1>3. CallOK(Idle)
  BY <1>1, <1>2 DEF CallOK, ReadBy, OpsOK
<1> QED BY <1>1, <1>3 DEF Owned

\* A load reads its panel for the tab that has it.
LEMMA LoadOK ==
    ASSUME NEW panel \in Panels
    PROVE  CallOK(Load(panel))
<1>1. /\ DOMAIN Load(panel) = Fields /\ Load(panel).fn = "load" /\ Load(panel).ops = <<>>
      /\ Load(panel).reads = panel /\ Load(panel).saw = <<>> /\ Load(panel).live
  BY NewLoad
<1>2. Load(panel).live \in BOOLEAN
  BY DEF Load, Idle
<1>3. panel # "none" /\ Load(panel).reads \in ReadBy("load")
  BY <1>1 DEF Panels, ReadBy
<1> QED BY <1>1, <1>2, <1>3 DEF CallOK, OpsOK

\* An operation posts a request of its function.
LEMMA PostOK ==
    ASSUME NEW fn \in Functions, NEW op, OpOK(fn, op), NEW panel \in ReadBy(fn)
    PROVE  CallOK(Post(fn, <<op>>, panel))
<1> DEFINE p == Post(fn, <<op>>, panel)
<1>1. /\ DOMAIN p = Fields /\ p.fn = fn /\ p.ops = <<op>> /\ p.reads = panel /\ p.saw = <<>>
      /\ p.live
  BY NewCall
<1>2. p.live \in BOOLEAN
  BY DEF Post, Idle
<1> HIDE DEF p
<1>3. OpsOK(fn, p.ops) /\ p.ops # <<>>
  BY <1>1 DEF OpsOK
<1>4. CallOK(p)
  BY <1>1, <1>2, <1>3 DEF CallOK, Functions
<1> QED BY <1>4 DEF p

\* A step's calls are those there were, idle ones and well-formed ones of the tab.
LEMMA CallsKept ==
    ASSUME CallsOK, tab' = tab, shown.draft # <<>> => shown'.draft # <<>>,
           DOMAIN calls' = 1..MaxCalls,
           \A c \in 1..MaxCalls : \/ calls'[c] = calls[c] \/ calls'[c] = Idle
                                  \/ CallOK(calls'[c]) /\ Owned(calls'[c], tab, shown')
    PROVE  CallsOK'
<1>1. ASSUME NEW c \in 1..MaxCalls PROVE CallOK(calls'[c]) /\ Owned(calls'[c], tab, shown')
  <2>1. CallOK(calls[c]) /\ Owned(calls[c], tab, shown')
    BY DEF CallsOK, Owned
  <2> QED BY <2>1, IdleOK
<1> QED BY <1>1 DEF CallsOK
-----------------------------------------------------------------------------
(* What a step has to show.                                                 *)

Flags(t) == CASE t = "modify" -> {"switch", "analyze"} [] t = "settings" -> {"save", "card"}
              [] t = "errors" -> {"heal"} [] OTHER -> {}

\* The state of the panels and the flags belongs to tab t.
Belongs(t, s, r, flags) ==
    /\ s.gates # <<>> \/ s.proposals # <<>> \/ r => t = "modify"
    /\ s.card # <<>> => s.draft # <<>>
    /\ s.draft # <<>> => t = "settings"
    /\ s.heal # <<>> => t = "errors"
    /\ flags \subseteq Flags(t)

LEMMA TypeParts ==
    /\ TypeOK <=> /\ IsKernel(kernel) /\ tab \in Tabs /\ Belongs(tab, shown, running, busy)
                  /\ running \in BOOLEAN /\ apart \in BOOLEAN /\ slipped \in BOOLEAN
    /\ TypeOK' <=> /\ IsKernel(kernel') /\ tab' \in Tabs /\ Belongs(tab', shown', running', busy')
                   /\ running' \in BOOLEAN /\ apart' \in BOOLEAN /\ slipped' \in BOOLEAN
<1>1. /\ {running, apart, slipped} \subseteq BOOLEAN
           <=> running \in BOOLEAN /\ apart \in BOOLEAN /\ slipped \in BOOLEAN
      /\ {running', apart', slipped'} \subseteq BOOLEAN
           <=> running' \in BOOLEAN /\ apart' \in BOOLEAN /\ slipped' \in BOOLEAN
  BY Zenon
<1>2. /\ TypeOK <=> /\ IsKernel(kernel) /\ tab \in Tabs /\ Belongs(tab, shown, running, busy)
                    /\ {running, apart, slipped} \subseteq BOOLEAN
      /\ TypeOK' <=> /\ IsKernel(kernel') /\ tab' \in Tabs /\ Belongs(tab', shown', running', busy')
                     /\ {running', apart', slipped'} \subseteq BOOLEAN
  BY Zenon DEF TypeOK, Belongs, Flags, IsKernel
<1> QED BY <1>1, <1>2, Zenon

\* A step within the tab keeps the types.
LEMMA TypeKept ==
    ASSUME TypeInv, tab' = tab, IsKernel(kernel'), Belongs(tab, shown', running', busy'),
           running' \in BOOLEAN, apart' \in BOOLEAN, slipped' \in BOOLEAN, ShownOK', CallsOK'
    PROVE  TypeInv'
<1>1. tab' \in Tabs /\ Belongs(tab', shown', running', busy')
  <2>1. tab \in Tabs
    BY TypeParts, Zenon DEF TypeInv
  <2> QED BY <2>1
<1> QED BY <1>1, TypeParts, Zenon DEF TypeInv

\* A smaller set of self-healing triggers is as finite, and as empty.
LEMMA FewerHeal ==
    ASSUME NEW k, IsKernel(k), NEW S, S \subseteq SelfHealing(k)
    PROVE  /\ IsFiniteSet(S) /\ Cardinality(S) \in Nat /\ IsFiniteSet(SelfHealing(k))
           /\ Cardinality(S) <= Cardinality(SelfHealing(k)) /\ Cardinality(SelfHealing(k)) \in Nat
<1>1. IsFiniteSet(SelfHealing(k))
  <2>1. k.made \in Nat /\ SelfHealing(k) \subseteq 1..k.made
    BY DEF IsKernel, SelfHealing
  <2>2. IsFiniteSet(1..k.made)
    BY <2>1, FS_Interval
  <2> QED BY <2>1, <2>2, FS_Subset
<1> QED BY <1>1, FS_Subset, FS_CardinalityType

LEMMA FewerStill ==
    ASSUME NEW k, IsKernel(k), NEW k2, SelfHealing(k2) \subseteq SelfHealing(k)
    PROVE  /\ Cardinality(SelfHealing(k)) <= 1 => Cardinality(SelfHealing(k2)) <= 1
           /\ NoHeal(k) => NoHeal(k2)
  BY FewerHeal DEF NoHeal

\* A step that makes no self-healing trigger and has nothing to do with the
\* switch and its calls.
LEMMA HealKept ==
    ASSUME HealInv, IsKernel(kernel), ~ slipped' => ~ slipped,
           SelfHealing(kernel') \subseteq SelfHealing(kernel) \/ slipped',
           shown'.heal = shown.heal, "heal" \in busy' <=> "heal" \in busy,
           \A c \in 1..MaxCalls : calls'[c].reads = "heal" => calls'[c] = calls[c]
    PROVE  HealInv'
<1> SUFFICES ASSUME ~ slipped'
             PROVE  Cardinality(SelfHealing(kernel')) <= 1 /\ HealersOK' /\ HealShown'
  BY DEF HealInv
<1>1. /\ SelfHealing(kernel') \subseteq SelfHealing(kernel)
      /\ Cardinality(SelfHealing(kernel)) <= 1 /\ HealersOK /\ HealShown
  BY DEF HealInv
<1>2. /\ Cardinality(SelfHealing(kernel')) <= 1
      /\ NoHeal(kernel) => NoHeal(kernel')
  BY <1>1, FewerStill
<1>3. HealShown'
  BY <1>1, <1>2 DEF HealShown
<1>4. \A c \in Healers(calls') : c \in Healers(calls) /\ calls'[c] = calls[c]
  BY DEF Healers
<1>5. ASSUME NEW c \in Healers(calls')
      PROVE  HealerOK(calls'[c], shown', busy') /\ HealerKnows(calls'[c], kernel')
  <2>1. HealerOK(calls[c], shown, busy) /\ HealerKnows(calls[c], kernel)
    BY <1>1, <1>4 DEF HealersOK
  <2>2. HealerOK(calls'[c], shown', busy')
    BY <1>4, <2>1 DEF HealerOK
  <2>3. HealerKnows(calls'[c], kernel')
    BY <1>2, <1>4, <2>1 DEF HealerKnows
  <2> QED BY <2>2, <2>3
<1>6. \A c, d \in Healers(calls') : c = d
  BY <1>1, <1>4 DEF HealersOK
<1> QED BY <1>2, <1>3, <1>5, <1>6 DEF HealersOK

\* A launch of one call: the others are as they were.
LEMMA LaunchedOne ==
    ASSUME CallsOK, NEW p, Launch(<<p>>)
    PROVE  /\ DOMAIN calls' = 1..MaxCalls
           /\ \A c \in 1..MaxCalls : calls'[c] = calls[c] \/ calls'[c] = p
           /\ \A c, d \in 1..MaxCalls : calls'[c] # calls[c] /\ calls'[d] # calls[d] => c = d
           /\ apart' \in BOOLEAN
<1>1. DOMAIN calls = 1..MaxCalls /\ calls' = Launched(calls, <<p>>)
  BY DEF CallsOK, Launch
<1>2. Len(<<p>>) = 1 /\ \A i \in 1..1 : <<p>>[i] = p
  OBVIOUS
<1>3. apart' \in BOOLEAN
  BY Zenon DEF Launch
<1> DEFINE new == <<p>>
<1>4. /\ DOMAIN calls' = 1..MaxCalls
      /\ \A c \in 1..MaxCalls :
           \/ calls'[c] = calls[c]
           \/ calls[c] = Idle /\ \E i \in 1..Len(new) : calls'[c] = new[i]
      /\ \A c, d \in 1..MaxCalls : calls'[c] # calls[c] /\ calls'[d] # calls[d] => c = d
  <2>1. Len(new) \in Nat /\ Len(new) = 1 /\ calls' = Launched(calls, new)
    BY <1>1, <1>2
  <2> HIDE DEF new
  <2>2. Filled(calls, new, Launched(calls, new))
    BY <1>1, <2>1, LaunchedCalls
  <2>3. Filled(calls, new, calls')
    BY <2>1, <2>2
  <2> QED BY <2>1, <2>3 DEF Filled
<1> QED BY <1>2, <1>3, <1>4

\* The operator asks for something that is not the switch's.
LEMMA Clicked ==
    ASSUME IInv, NEW p, CallOK(p), Owned(p, tab, shown'), p.reads # "heal", Launch(<<p>>),
           UNCHANGED <<kernel, tab, slipped>>, running' \in BOOLEAN,
           Belongs(tab, shown', running', busy'), ShownOK',
           shown.draft # <<>> => shown'.draft # <<>>,
           shown'.heal = shown.heal, "heal" \in busy' <=> "heal" \in busy
    PROVE  IInv'
<1>1. /\ IsKernel(kernel) /\ slipped \in BOOLEAN /\ CallsOK /\ TypeInv /\ HealInv
  BY TypeParts, Zenon DEF IInv, TypeInv
<1>2. /\ DOMAIN calls' = 1..MaxCalls
      /\ \A c \in 1..MaxCalls : calls'[c] = calls[c] \/ calls'[c] = p
      /\ apart' \in BOOLEAN
  BY <1>1, LaunchedOne
<1>3. CallsOK'
  BY <1>1, <1>2, CallsKept
<1>4. TypeInv'
  <2>1. IsKernel(kernel') /\ slipped' \in BOOLEAN
    BY <1>1
  <2> QED BY <1>1, <1>2, <1>3, <2>1, TypeKept, Zenon
<1>5. HealInv'
  <2>1. \A c \in 1..MaxCalls : calls'[c].reads = "heal" => calls'[c] = calls[c]
    BY <1>2
  <2>2. SelfHealing(kernel') \subseteq SelfHealing(kernel) /\ (~ slipped' => ~ slipped)
    OBVIOUS
  <2> QED BY <1>1, <2>1, <2>2, HealKept
<1> QED BY <1>4, <1>5 DEF IInv
-----------------------------------------------------------------------------
(* The operator's clicks, the switch of the Errors tab apart.               *)

LEMMA Facts ==
    ASSUME IInv
    PROVE  /\ IsKernel(kernel) /\ tab \in Tabs /\ Belongs(tab, shown, running, busy)
           /\ running \in BOOLEAN /\ apart \in BOOLEAN /\ slipped \in BOOLEAN
           /\ CallsOK /\ ShownOK /\ TypeInv /\ HealInv
           /\ DOMAIN shown = {"gates", "proposals", "draft", "card", "list", "heal"}
<1>1. TypeInv /\ HealInv /\ TypeOK /\ CallsOK /\ ShownOK
  BY DEF IInv, TypeInv
<1>2. /\ IsKernel(kernel) /\ tab \in Tabs /\ Belongs(tab, shown, running, busy)
      /\ running \in BOOLEAN /\ apart \in BOOLEAN /\ slipped \in BOOLEAN
  BY <1>1, TypeParts, Zenon
<1>3. DOMAIN shown = {"gates", "proposals", "draft", "card", "list", "heal"}
  BY <1>1 DEF ShownOK
<1> QED BY <1>1, <1>2, <1>3

LEMMA RequestOK ==
    ASSUME NEW fn \in Functions, NEW kind, NEW arg, NEW on \in BOOLEAN,
           OpOK(fn, [kind |-> kind, arg |-> arg, on |-> on]), NEW panel \in ReadBy(fn)
    PROVE  LET p == Post(fn, <<Op(kind, arg, on)>>, panel)
           IN  /\ CallOK(p) /\ p.reads = panel
               /\ \A t, s : t = TabOf(fn, panel) /\ (panel = "card" \/ fn = "patch" => s.draft # <<>>)
                               => Owned(p, t, s)
<1> DEFINE op == Op(kind, arg, on)
           p == Post(fn, <<op>>, panel)
<1>1. OpOK(fn, op)
  BY DEF Op
<1> HIDE DEF op
<1>2. CallOK(p)
  BY <1>1, PostOK
<1>3. p.fn = fn /\ p.reads = panel
  BY NewCall
<1> HIDE DEF p
<1>4. \A t, s : t = TabOf(fn, panel) /\ (panel = "card" \/ fn = "patch" => s.draft # <<>>)
                   => Owned(p, t, s)
  BY <1>3 DEF Owned
<1> QED BY <1>2, <1>3, <1>4 DEF p, op

\* What OpOK asks of a request, by its kind.
LEMMA RequestKinds ==
    ASSUME NEW fn, NEW arg, NEW on \in BOOLEAN
    PROVE  /\ arg \in Keys => OpOK(fn, [kind |-> "patch", arg |-> arg, on |-> on])
           /\ arg \in Proposals =>
                \A kind \in {"unschedule", "dismiss", "run", "schedule"} :
                    (kind = "run" => fn = "run") => OpOK(fn, [kind |-> kind, arg |-> arg, on |-> on])
           /\ arg = "schedule" \/ (arg = "error_spike" /\ fn = "selfheal") =>
                OpOK(fn, [kind |-> "new", arg |-> arg, on |-> on])
           /\ \A kind \in {"edit", "toggle", "delete", "analyze"} :
                OpOK(fn, [kind |-> kind, arg |-> arg, on |-> on])
  BY DEF OpOK, IsHeal, Kinds

\* A box of the gates.
LEMMA ToggleGateKept ==
    ASSUME IInv, NEW g, ToggleGate(g) PROVE IInv'
<1> DEFINE next == ~ shown.gates[1][g]
           p == Post("gate", <<Op("patch", g, next)>>, "none")
<1>1. /\ shown.gates # <<>> /\ g \in Keys /\ next \in BOOLEAN /\ Launch(<<p>>)
      /\ shown' = [shown EXCEPT !.gates[1][g] = next]
      /\ UNCHANGED <<kernel, tab, running, busy, slipped>>
  BY DEF ToggleGate, GateOffered, Keys
<1>2. tab = "modify"
  BY <1>1, Facts DEF Belongs
<1>3. /\ DOMAIN shown' = DOMAIN shown /\ shown'.draft = shown.draft /\ shown'.card = shown.card
      /\ shown'.heal = shown.heal
  BY <1>1, Facts
<1> HIDE DEF next
<1>4. OpOK("gate", [kind |-> "patch", arg |-> g, on |-> next])
  BY <1>1, RequestKinds
<1>5. "gate" \in Functions /\ "none" \in ReadBy("gate") /\ TabOf("gate", "none") = "modify"
  BY DEF Functions, ReadBy, TabOf
<1>6. CallOK(p) /\ Owned(p, tab, shown') /\ p.reads # "heal"
  BY <1>1, <1>2, <1>4, <1>5, RequestOK
<1>7. ShownOK' /\ (shown.draft # <<>> => shown'.draft # <<>>)
  BY <1>3, Facts DEF ShownOK
<1>8. Belongs(tab, shown', running', busy') /\ running' \in BOOLEAN
  BY <1>1, <1>2, <1>3, Facts DEF Belongs
<1> HIDE DEF p
<1> QED BY <1>1, <1>3, <1>6, <1>7, <1>8, Clicked

\* A click that changes no panel, only its flag, of the tab's flags.
LEMMA PlainClick ==
    ASSUME IInv, NEW p, CallOK(p), Owned(p, tab, shown), p.reads # "heal", Launch(<<p>>),
           UNCHANGED <<kernel, tab, shown, running, slipped>>,
           busy' = busy \/ \E f \in Flags(tab) \ {"heal"} : busy' = busy \cup {f}
    PROVE  IInv'
<1>1. Belongs(tab, shown', running', busy') /\ running' \in BOOLEAN /\ ShownOK'
  BY Facts DEF Belongs, ShownOK
<1>2. "heal" \in busy' <=> "heal" \in busy
  OBVIOUS
<1>3. shown' = shown
  OBVIOUS
<1>4. Owned(p, tab, shown') /\ shown'.heal = shown.heal /\ (shown.draft # <<>> => shown'.draft # <<>>)
  BY <1>3
<1> QED BY <1>1, <1>2, <1>4, Clicked

\* The button of the scripted engine.
LEMMA SwitchEngineKept ==
    ASSUME IInv, SwitchEngine PROVE IInv'
<1> DEFINE p == Post("switch", <<Op("patch", "real", TRUE)>>, "none")
<1>1. /\ shown.gates # <<>> /\ Launch(<<p>>) /\ busy' = busy \cup {"switch"}
      /\ UNCHANGED <<kernel, tab, shown, running, slipped>>
  BY DEF SwitchEngine, EngineOffered
<1>2. tab = "modify" /\ "switch" \in Flags(tab) \ {"heal"}
  BY <1>1, Facts DEF Belongs, Flags
<1>3. /\ "switch" \in Functions /\ "none" \in ReadBy("switch") /\ TabOf("switch", "none") = "modify"
      /\ "real" \in Keys
  BY DEF Functions, ReadBy, TabOf, Keys
<1>4. TRUE \in BOOLEAN
  OBVIOUS
<1>5. OpOK("switch", [kind |-> "patch", arg |-> "real", on |-> TRUE])
  BY <1>3, <1>4, RequestKinds, Zenon
<1>6. CallOK(p) /\ p.reads = "none" /\ Owned(p, tab, shown)
  <2>1. /\ CallOK(p) /\ p.reads = "none"
        /\ \A t, s : t = TabOf("switch", "none")
                       /\ ("none" = "card" \/ "switch" = "patch" => s.draft # <<>>) => Owned(p, t, s)
    BY <1>3, <1>4, <1>5, RequestOK, Zenon
  <2> HIDE DEF p
  <2> QED BY <1>2, <1>3, <2>1
<1> HIDE DEF p
<1> QED BY <1>1, <1>2, <1>6, PlainClick

\* The Advisor's analysis.
LEMMA AnalyzeKept ==
    ASSUME IInv, Analyze PROVE IInv'
<1> DEFINE p == Post("analyze", <<Op("analyze", 0, TRUE)>>, "proposals")
<1>1. /\ shown.proposals # <<>> /\ Launch(<<p>>) /\ busy' = busy \cup {"analyze"}
      /\ UNCHANGED <<kernel, tab, shown, running, slipped>>
  BY DEF Analyze, AnalysisOffered
<1>2. tab = "modify" /\ "analyze" \in Flags(tab) \ {"heal"}
  BY <1>1, Facts DEF Belongs, Flags
<1>3. /\ "analyze" \in Functions /\ "proposals" \in ReadBy("analyze")
      /\ TabOf("analyze", "proposals") = "modify"
      /\ "analyze" \in {"edit", "toggle", "delete", "analyze"}
  BY DEF Functions, ReadBy, TabOf
<1>4. TRUE \in BOOLEAN
  OBVIOUS
<1>5. OpOK("analyze", [kind |-> "analyze", arg |-> 0, on |-> TRUE])
  BY <1>3, <1>4, RequestKinds, Zenon
<1>6. CallOK(p) /\ p.reads = "proposals" /\ Owned(p, tab, shown)
  <2>1. /\ CallOK(p) /\ p.reads = "proposals"
        /\ \A t, s : t = TabOf("analyze", "proposals")
                       /\ ("proposals" = "card" \/ "analyze" = "patch" => s.draft # <<>>) => Owned(p, t, s)
    BY <1>3, <1>4, <1>5, RequestOK, Zenon
  <2> HIDE DEF p
  <2> QED BY <1>2, <1>3, <2>1
<1> HIDE DEF p
<1> QED BY <1>1, <1>2, <1>6, PlainClick

\* A suggestion dismissed, scheduled or no longer scheduled.
LEMMA ActOnProposalKept ==
    ASSUME IInv, NEW n \in Proposals, ActOnProposal(n) PROVE IInv'
<1>1. PICK kind \in Buttons(n) \ {"run"} : Launch(<<Post(kind, <<Op(kind, n, TRUE)>>, "proposals")>>)
  BY DEF ActOnProposal
<1> DEFINE p == Post(kind, <<Op(kind, n, TRUE)>>, "proposals")
<1>2. /\ shown.proposals # <<>> /\ kind \in {"unschedule", "dismiss", "schedule"}
      /\ UNCHANGED <<kernel, tab, shown, running, busy, slipped>>
  BY <1>1 DEF ActOnProposal, Buttons
<1>3. tab = "modify"
  BY <1>2, Facts DEF Belongs
<1>4. /\ kind \in Functions /\ "proposals" \in ReadBy(kind) /\ TabOf(kind, "proposals") = "modify"
      /\ kind \in {"unschedule", "dismiss", "run", "schedule"} /\ kind # "patch" /\ kind # "run"
  BY <1>2 DEF Functions, ReadBy, TabOf
<1>5. TRUE \in BOOLEAN
  OBVIOUS
<1>6. OpOK(kind, [kind |-> kind, arg |-> n, on |-> TRUE])
  BY <1>4, <1>5, RequestKinds, Zenon
<1>7. CallOK(p) /\ p.reads = "proposals" /\ Owned(p, tab, shown)
  <2>1. /\ CallOK(p) /\ p.reads = "proposals"
        /\ \A t, s : t = TabOf(kind, "proposals")
                       /\ ("proposals" = "card" \/ kind = "patch" => s.draft # <<>>) => Owned(p, t, s)
    BY <1>4, <1>5, <1>6, RequestOK, Zenon
  <2> HIDE DEF p
  <2> QED BY <1>3, <1>4, <2>1
<1>8. Launch(<<p>>)
  BY <1>1
<1> HIDE DEF p
<1> QED BY <1>2, <1>7, <1>8, PlainClick

\* A suggestion run at once.
LEMMA RunProposalKept ==
    ASSUME IInv, NEW n \in Proposals, RunProposal(n) PROVE IInv'
<1> DEFINE p == Post("run", <<Op("run", n, TRUE)>>, "proposals")
<1>1. /\ shown.proposals # <<>> /\ Launch(<<p>>) /\ running' = TRUE
      /\ shown' = [shown EXCEPT !.proposals[1][n] = "run"]
      /\ UNCHANGED <<kernel, tab, busy, slipped>>
  BY DEF RunProposal, Buttons
<1>2. tab = "modify"
  BY <1>1, Facts DEF Belongs
<1>3. /\ DOMAIN shown' = DOMAIN shown /\ shown'.draft = shown.draft /\ shown'.card = shown.card
      /\ shown'.heal = shown.heal
  BY <1>1, Facts
<1>4. /\ "run" \in Functions /\ "proposals" \in ReadBy("run") /\ TabOf("run", "proposals") = "modify"
      /\ "run" \in {"unschedule", "dismiss", "run", "schedule"}
  BY DEF Functions, ReadBy, TabOf
<1>5. TRUE \in BOOLEAN
  OBVIOUS
<1>6. OpOK("run", [kind |-> "run", arg |-> n, on |-> TRUE])
  BY <1>4, <1>5, RequestKinds, Zenon
<1>7. CallOK(p) /\ p.reads = "proposals" /\ Owned(p, tab, shown')
  <2>1. /\ CallOK(p) /\ p.reads = "proposals"
        /\ \A t, s : t = TabOf("run", "proposals")
                       /\ ("proposals" = "card" \/ "run" = "patch" => s.draft # <<>>) => Owned(p, t, s)
    BY <1>4, <1>5, <1>6, RequestOK, Zenon
  <2> HIDE DEF p
  <2> QED BY <1>2, <1>4, <2>1
<1>8. ShownOK' /\ (shown.draft # <<>> => shown'.draft # <<>>)
  BY <1>3, Facts DEF ShownOK
<1>9. Belongs(tab, shown', running', busy')
  BY <1>1, <1>2, <1>3, Facts DEF Belongs
<1>10. running' \in BOOLEAN
  BY <1>1
<1> HIDE DEF p
<1> QED BY <1>1, <1>3, <1>7, <1>8, <1>9, <1>10, Clicked

\* The form's draft; no call starts.
LEMMA EditDraftKept ==
    ASSUME IInv, EditDraft PROVE IInv'
<1>1. /\ shown.draft # <<>> /\ shown' = [shown EXCEPT !.draft = <<~ @[1]>>]
      /\ UNCHANGED <<kernel, tab, running, busy, calls, apart, slipped>>
  BY DEF EditDraft
<1>2. /\ DOMAIN shown' = DOMAIN shown /\ shown'.draft = <<~ shown.draft[1]>>
      /\ shown'.card = shown.card /\ shown'.heal = shown.heal
      /\ shown'.gates = shown.gates /\ shown'.proposals = shown.proposals
  BY <1>1, Facts
<1>3. shown'.draft # <<>>
  BY <1>2
<1>4. shown'.draft = <<TRUE>> \/ shown'.draft = <<FALSE>>
  BY <1>2
<1>5. ShownOK'
  BY <1>2, <1>4, Facts DEF ShownOK
<1>6. Belongs(tab, shown', running', busy')
  BY <1>1, <1>2, <1>3, Facts DEF Belongs
<1>7. CallsOK'
  <2>1. CallsOK /\ DOMAIN calls' = 1..MaxCalls
    BY <1>1, Facts DEF CallsOK
  <2> QED BY <1>1, <1>3, <2>1, CallsKept
<1>8. TypeInv'
  <2>1. IsKernel(kernel') /\ running' \in BOOLEAN /\ apart' \in BOOLEAN /\ slipped' \in BOOLEAN
    BY <1>1, Facts
  <2> QED BY <1>1, <1>5, <1>6, <1>7, <2>1, Facts, TypeKept
<1>9. HealInv'
  BY <1>1, <1>2, Facts, HealKept
<1> QED BY <1>8, <1>9 DEF IInv

\* Save posts the draft.
LEMMA SaveSettingsKept ==
    ASSUME IInv, SaveSettings PROVE IInv'
<1> DEFINE b == shown.draft[1]
           p == Post("save", <<Op("patch", "real", b)>>, "none")
<1>1. /\ shown.draft # <<>> /\ Launch(<<p>>) /\ busy' = busy \cup {"save"}
      /\ UNCHANGED <<kernel, tab, shown, running, slipped>>
  BY DEF SaveSettings
<1>2. tab = "settings" /\ "save" \in Flags(tab) \ {"heal"}
  BY <1>1, Facts DEF Belongs, Flags
<1>3. /\ "save" \in Functions /\ "none" \in ReadBy("save") /\ TabOf("save", "none") = "settings"
      /\ "real" \in Keys
  BY DEF Functions, ReadBy, TabOf, Keys
<1>4. b \in BOOLEAN
  <2>1. shown.draft = <<TRUE>> \/ shown.draft = <<FALSE>>
    BY <1>1, Facts DEF ShownOK
  <2>2. b = TRUE \/ b = FALSE
    BY <2>1
  <2> QED BY <2>2
<1> HIDE DEF b
<1>5. OpOK("save", [kind |-> "patch", arg |-> "real", on |-> b])
  BY <1>3, <1>4, RequestKinds, Zenon
<1>6. CallOK(p) /\ p.reads = "none" /\ Owned(p, tab, shown)
  <2>1. /\ CallOK(p) /\ p.reads = "none"
        /\ \A t, s : t = TabOf("save", "none")
                       /\ ("none" = "card" \/ "save" = "patch" => s.draft # <<>>) => Owned(p, t, s)
    BY <1>3, <1>4, <1>5, RequestOK
  <2> HIDE DEF p
  <2> QED BY <1>2, <1>3, <2>1
<1> HIDE DEF p
<1> QED BY <1>1, <1>2, <1>6, PlainClick

\* A box of the card, shown ticked at once.
LEMMA PatchConfigKept ==
    ASSUME IInv, NEW key \in {"automation", "auto_promote"}, PatchConfig(key) PROVE IInv'
<1> DEFINE next == ~ shown.card[1][key]
           q == Post("patch", <<Op("patch", key, next)>>, "none")
           p == [q EXCEPT !.prev = shown.card]
<1>1. /\ shown.card # <<>> /\ next \in BOOLEAN /\ Launch(<<p>>)
      /\ shown' = [shown EXCEPT !.card[1][key] = next]
      /\ UNCHANGED <<kernel, tab, running, busy, slipped>>
  BY DEF PatchConfig, PatchOffered
<1>2. shown.draft # <<>> /\ tab = "settings"
  BY <1>1, Facts DEF Belongs
<1>3. /\ DOMAIN shown' = DOMAIN shown /\ shown'.draft = shown.draft /\ shown'.heal = shown.heal
      /\ shown'.gates = shown.gates /\ shown'.proposals = shown.proposals
  BY <1>1, Facts
<1>4. /\ "patch" \in Functions /\ "none" \in ReadBy("patch") /\ TabOf("patch", "none") = "settings"
      /\ key \in Keys
  BY DEF Functions, ReadBy, TabOf, Keys
<1> HIDE DEF next
<1>5. OpOK("patch", [kind |-> "patch", arg |-> key, on |-> next])
  BY <1>1, <1>4, RequestKinds
<1>6. CallOK(q) /\ q.reads = "none" /\ Owned(q, tab, shown')
  <2>1. /\ CallOK(q) /\ q.reads = "none"
        /\ \A t, s : t = TabOf("patch", "none")
                       /\ ("none" = "card" \/ "patch" = "patch" => s.draft # <<>>) => Owned(q, t, s)
    BY <1>1, <1>4, <1>5, RequestOK
  <2> HIDE DEF q
  <2> QED BY <1>2, <1>3, <1>4, <2>1
<1>7. /\ DOMAIN q = Fields /\ q.fn = "patch" /\ q.ops = <<Op("patch", key, next)>> /\ q.saw = <<>>
  BY NewCall
<1> HIDE DEF q
<1>8. /\ DOMAIN p = Fields /\ p.fn = q.fn /\ p.ops = q.ops /\ p.reads = q.reads /\ p.saw = q.saw
      /\ p.live = q.live
  BY <1>7 DEF Fields
<1> HIDE DEF p
<1>9. CallOK(p) /\ Owned(p, tab, shown') /\ p.reads # "heal"
  <2>1. p.ops # <<>>
    BY <1>7, <1>8
  <2> QED BY <1>6, <1>8, <2>1 DEF CallOK, Owned
<1>10. ShownOK' /\ (shown.draft # <<>> => shown'.draft # <<>>)
  BY <1>3, Facts DEF ShownOK
<1>11. Belongs(tab, shown', running', busy') /\ running' \in BOOLEAN
  BY <1>1, <1>2, <1>3, Facts DEF Belongs
<1> QED BY <1>1, <1>3, <1>9, <1>10, <1>11, Clicked

\* A request of the card's table or of its editor.
LEMMA CardRequest ==
    ASSUME IInv, shown.card # <<>>, NEW fn \in {"trigger", "row"}, NEW op,
           op.kind \in {"edit", "toggle", "delete"} \/ (op.kind = "new" /\ op.arg = "schedule"),
           op.on \in BOOLEAN
    PROVE  LET p == Post(fn, <<op>>, "card")
           IN  CallOK(p) /\ Owned(p, tab, shown) /\ p.reads # "heal" /\ "card" \in Flags(tab) \ {"heal"}
<1> DEFINE p == Post(fn, <<op>>, "card")
<1>1. shown.draft # <<>> /\ tab = "settings"
  BY Facts DEF Belongs
<1>2. fn \in Functions /\ "card" \in ReadBy(fn) /\ TabOf(fn, "card") = "settings"
  BY DEF Functions, ReadBy, TabOf
<1>3. OpOK(fn, op)
  BY DEF OpOK, IsHeal, Kinds
<1>4. CallOK(p)
  BY <1>2, <1>3, PostOK
<1>5. p.fn = fn /\ p.reads = "card"
  BY NewCall
<1> HIDE DEF p
<1>6. Owned(p, tab, shown) /\ p.reads # "heal" /\ "card" \in Flags(tab) \ {"heal"}
  BY <1>1, <1>2, <1>5 DEF Owned, Flags
<1> QED BY <1>4, <1>6 DEF p

LEMMA SaveTriggerKept ==
    ASSUME IInv, SaveTrigger PROVE IInv'
<1>1. /\ shown.card # <<>> /\ busy' = busy \cup {"card"}
      /\ UNCHANGED <<kernel, tab, shown, running, slipped>>
  BY DEF SaveTrigger
<1>2. PICK op \in EditorOps : Launch(<<Post("trigger", <<op>>, "card")>>)
  BY DEF SaveTrigger
<1>3. op.kind = "edit" \/ (op.kind = "new" /\ op.arg = "schedule")
  BY <1>2 DEF EditorOps, Op
<1>4. op.on \in BOOLEAN
  <2>1. op.on = TRUE
    <3>1. CASE op = Op("new", "schedule", TRUE)
      BY <3>1 DEF Op
    <3>2. ASSUME NEW t \in DOMAIN shown.list, op = Op("edit", t, TRUE) PROVE op.on = TRUE
      BY <3>2 DEF Op
    <3> QED BY <1>2, <3>1, <3>2 DEF EditorOps
  <2> QED BY <2>1
<1> DEFINE p == Post("trigger", <<op>>, "card")
<1>5. CallOK(p) /\ Owned(p, tab, shown) /\ p.reads # "heal" /\ "card" \in Flags(tab) \ {"heal"}
  BY <1>1, <1>3, <1>4, CardRequest
<1>6. Launch(<<p>>)
  BY <1>2
<1> HIDE DEF p
<1> QED BY <1>1, <1>5, <1>6, PlainClick

LEMMA ActOnTriggerKept ==
    ASSUME IInv, NEW t \in DOMAIN shown.list, ActOnTrigger(t) PROVE IInv'
<1>1. shown.card # <<>> /\ UNCHANGED <<kernel, tab, shown, running, busy, slipped>>
  BY DEF ActOnTrigger
<1>2. PICK op \in RowOps(t) : Launch(<<Post("row", <<op>>, "card")>>)
  BY DEF ActOnTrigger
<1>3. op.kind \in {"toggle", "delete"}
  BY <1>2 DEF RowOps, Op
<1>4. op.on \in BOOLEAN
  <2>1. CASE op = Op("toggle", t, ~ shown.list[t])
    BY <2>1 DEF Op
  <2>2. CASE op = Op("delete", t, TRUE)
    BY <2>2 DEF Op
  <2> QED BY <1>2, <2>1, <2>2 DEF RowOps
<1> DEFINE p == Post("row", <<op>>, "card")
<1>5. CallOK(p) /\ Owned(p, tab, shown) /\ p.reads # "heal"
  BY <1>1, <1>3, <1>4, CardRequest
<1>6. Launch(<<p>>)
  BY <1>2
<1> HIDE DEF p
<1> QED BY <1>1, <1>5, <1>6, PlainClick
-----------------------------------------------------------------------------
(* The steps of a call.                                                     *)

\* A call that saw the kernel.
LEMMA SawFields ==
    ASSUME CallsOK, NEW c \in 1..MaxCalls, NEW x, calls' = [calls EXCEPT ![c].saw = x]
    PROVE  LET d == calls'[c] IN
           /\ DOMAIN calls' = 1..MaxCalls /\ \A e \in 1..MaxCalls : e # c => calls'[e] = calls[e]
           /\ DOMAIN d = Fields /\ d.fn = calls[c].fn /\ d.ops = calls[c].ops
           /\ d.reads = calls[c].reads /\ d.live = calls[c].live /\ d.ok = calls[c].ok /\ d.saw = x
<1>1. DOMAIN calls = 1..MaxCalls /\ DOMAIN calls[c] = Fields
  BY DEF CallsOK, CallOK
<1> DEFINE d == [calls[c] EXCEPT !.saw = x]
<1>2. /\ DOMAIN d = Fields /\ d.fn = calls[c].fn /\ d.ops = calls[c].ops
      /\ d.reads = calls[c].reads /\ d.live = calls[c].live /\ d.ok = calls[c].ok /\ d.saw = x
  BY <1>1 DEF Fields
<1>3. calls' = [calls EXCEPT ![c] = d]
  OBVIOUS
<1> HIDE DEF d
<1> QED BY <1>1, <1>2, <1>3

\* A call whose request was done.
LEMMA DoneFields ==
    ASSUME CallsOK, NEW c \in 1..MaxCalls, NEW x, calls' = [calls EXCEPT ![c].ok = TRUE, ![c].saw = x]
    PROVE  LET d == calls'[c] IN
           /\ DOMAIN calls' = 1..MaxCalls /\ \A e \in 1..MaxCalls : e # c => calls'[e] = calls[e]
           /\ DOMAIN d = Fields /\ d.fn = calls[c].fn /\ d.ops = calls[c].ops
           /\ d.reads = calls[c].reads /\ d.live = calls[c].live /\ d.ok /\ d.saw = x
<1>1. DOMAIN calls = 1..MaxCalls /\ DOMAIN calls[c] = Fields
  BY DEF CallsOK, CallOK
<1> DEFINE b == [calls[c] EXCEPT !.ok = TRUE]
           d == [b EXCEPT !.saw = x]
           e1 == [calls EXCEPT ![c] = b]
<1>2. /\ DOMAIN b = Fields /\ b.fn = calls[c].fn /\ b.ops = calls[c].ops
      /\ b.reads = calls[c].reads /\ b.live = calls[c].live
  BY <1>1 DEF Fields
<1>3. b.ok
  BY <1>1 DEF Fields
<1>4. calls' = [e1 EXCEPT ![c] = [e1[c] EXCEPT !.saw = x]]
  BY Zenon
<1>5. DOMAIN e1 = 1..MaxCalls /\ e1[c] = b /\ \A e \in 1..MaxCalls : e # c => e1[e] = calls[e]
  <2> HIDE DEF b
  <2> QED BY <1>1
<1> HIDE DEF e1, b
<1>6. /\ DOMAIN d = Fields /\ d.fn = b.fn /\ d.ops = b.ops
      /\ d.reads = b.reads /\ d.live = b.live /\ d.ok = b.ok /\ d.saw = x
  BY <1>2 DEF Fields
<1>7. calls' = [e1 EXCEPT ![c] = d]
  BY <1>4, <1>5
<1> HIDE DEF d
<1>8. DOMAIN calls' = 1..MaxCalls /\ calls'[c] = d /\ \A e \in 1..MaxCalls : e # c => calls'[e] = calls[e]
  BY <1>5, <1>7
<1> QED BY <1>2, <1>3, <1>6, <1>8

\* A call that goes on to its next request.
LEMMA MoreFields ==
    ASSUME CallsOK, NEW c \in 1..MaxCalls, NEW ops,
           calls' = [calls EXCEPT ![c].ops = ops, ![c].saw = <<>>, ![c].ok = FALSE]
    PROVE  LET d == calls'[c] IN
           /\ DOMAIN calls' = 1..MaxCalls /\ \A e \in 1..MaxCalls : e # c => calls'[e] = calls[e]
           /\ DOMAIN d = Fields /\ d.fn = calls[c].fn /\ d.ops = ops
           /\ d.reads = calls[c].reads /\ d.live = calls[c].live /\ d.saw = <<>>
<1>1. DOMAIN calls = 1..MaxCalls /\ DOMAIN calls[c] = Fields
  BY DEF CallsOK, CallOK
<1> DEFINE a == [calls[c] EXCEPT !.ops = ops]
           b == [a EXCEPT !.saw = <<>>]
           d == [b EXCEPT !.ok = FALSE]
           e1 == [calls EXCEPT ![c] = a]
           e2 == [e1 EXCEPT ![c] = [e1[c] EXCEPT !.saw = <<>>]]
<1>2. calls' = [e2 EXCEPT ![c] = [e2[c] EXCEPT !.ok = FALSE]]
  BY Zenon
<1>3. /\ DOMAIN a = Fields /\ a.fn = calls[c].fn /\ a.ops = ops
      /\ a.reads = calls[c].reads /\ a.live = calls[c].live
  BY <1>1 DEF Fields
<1> HIDE DEF a
<1>4. /\ DOMAIN b = Fields /\ b.fn = calls[c].fn /\ b.ops = ops
      /\ b.reads = calls[c].reads /\ b.live = calls[c].live /\ b.saw = <<>>
  BY <1>3 DEF Fields
<1>5. e1[c] = a /\ DOMAIN e1 = 1..MaxCalls /\ \A e \in 1..MaxCalls : e # c => e1[e] = calls[e]
  BY <1>1
<1>6. e2[c] = b /\ DOMAIN e2 = 1..MaxCalls /\ \A e \in 1..MaxCalls : e # c => e2[e] = calls[e]
  <2> HIDE DEF e1
  <2>1. e2 = [e1 EXCEPT ![c] = b]
    BY <1>5
  <2> HIDE DEF e2, b
  <2> QED BY <1>5, <2>1
<1> HIDE DEF e2, b
<1>7. /\ DOMAIN d = Fields /\ d.fn = calls[c].fn /\ d.ops = ops
      /\ d.reads = calls[c].reads /\ d.live = calls[c].live /\ d.saw = <<>>
  BY <1>4 DEF Fields
<1>8. calls' = [e2 EXCEPT ![c] = d]
  BY <1>2, <1>6
<1> HIDE DEF d
<1>9. DOMAIN calls' = 1..MaxCalls /\ calls'[c] = d /\ \A e \in 1..MaxCalls : e # c => calls'[e] = calls[e]
  BY <1>6, <1>8
<1> QED BY <1>7, <1>9

\* A step of the one call that reads the switch's panel.
LEMMA HealerStep ==
    ASSUME HealersOK, NEW c \in Healers(calls),
           \A e \in 1..MaxCalls : e # c => calls'[e] = calls[e],
           Cardinality(SelfHealing(kernel')) <= 1, HealShown',
           calls'[c].reads = "heal" =>
               HealerOK(calls'[c], shown', busy') /\ HealerKnows(calls'[c], kernel')
    PROVE  HealInv'
<1>1. \A e \in Healers(calls') : e = c
  BY DEF Healers, HealersOK
<1>2. HealersOK'
  <2>1. \A a, b \in Healers(calls') : a = b
    BY <1>1
  <2>2. \A e \in Healers(calls') : HealerOK(calls'[e], shown', busy') /\ HealerKnows(calls'[e], kernel')
    BY <1>1 DEF Healers
  <2> QED BY <2>1, <2>2 DEF HealersOK
<1> QED BY <1>2 DEF HealInv

\* A step of one call within its tab, the kernel's triggers growing by no other.
LEMMA OneCallStep ==
    ASSUME IInv, NEW c \in 1..MaxCalls, tab' = tab, IsKernel(kernel'),
           DOMAIN calls' = 1..MaxCalls, \A e \in 1..MaxCalls : e # c => calls'[e] = calls[e],
           CallOK(calls'[c]), Owned(calls'[c], tab, shown'),
           running' \in BOOLEAN, apart' \in BOOLEAN, slipped' \in BOOLEAN,
           Belongs(tab, shown', running', busy'), ShownOK', shown.draft # <<>> => shown'.draft # <<>>
    PROVE  TypeInv'
<1>1. CallsOK /\ TypeInv
  BY Facts
<1>2. CallsOK'
  BY <1>1, CallsKept
<1> QED BY <1>1, <1>2, TypeKept, Zenon

\* The kernel serves a request: only the switch's makes a self-healing trigger,
\* and it knows that there is none.
LEMMA ServeKept ==
    ASSUME IInv, NEW c \in 1..MaxCalls, Serve(c) PROVE IInv'
<1> DEFINE call == calls[c]
           op == Head(call.ops)
           saw == IF op.kind = "run" THEN <<>> ELSE <<kernel'>>
<1>1. /\ call.ops # <<>> /\ call.saw = <<>> /\ ~ call.ok
      /\ UNCHANGED <<tab, shown, running, busy, apart, slipped, steps>>
  BY DEF Serve
<1>2. \/ calls' = [calls EXCEPT ![c].saw = <<kernel>>] /\ kernel' = kernel
      \/ /\ kernel' \in Effects(kernel, op)
         /\ calls' = [calls EXCEPT ![c].ok = TRUE, ![c].saw = saw]
  BY Zenon DEF Serve
<1>3. /\ CallOK(call) /\ Owned(call, tab, shown) /\ CallsOK /\ IsKernel(kernel)
  BY Facts DEF CallsOK
<1>4. OpOK(call.fn, op) /\ op = call.ops[1]
  BY <1>1, <1>3 DEF CallOK, OpsOK
<1> HIDE DEF op
<1>5. /\ IsKernel(kernel')
      /\ SelfHealing(kernel') \subseteq SelfHealing(kernel) \cup (IF IsHeal(op) THEN {kernel.made + 1} ELSE {})
  <2>1. kernel' = kernel \/ kernel' \in Effects(kernel, op)
    BY <1>2
  <2> QED BY <1>3, <1>4, <2>1, EffectTyped
<1> DEFINE d == calls'[c]
<1>6. /\ DOMAIN calls' = 1..MaxCalls /\ \A e \in 1..MaxCalls : e # c => calls'[e] = calls[e]
      /\ DOMAIN d = Fields /\ d.fn = call.fn /\ d.ops = call.ops
      /\ d.reads = call.reads /\ d.live = call.live
      /\ d.ok \/ d.saw # <<>>
      /\ d.saw # <<>> => d.saw = <<kernel'>>
  <2>1. CASE calls' = [calls EXCEPT ![c].saw = <<kernel>>] /\ kernel' = kernel
    <3>1. /\ DOMAIN calls' = 1..MaxCalls /\ \A e \in 1..MaxCalls : e # c => calls'[e] = calls[e]
          /\ DOMAIN d = Fields /\ d.fn = call.fn /\ d.ops = call.ops
          /\ d.reads = call.reads /\ d.live = call.live /\ d.saw = <<kernel>>
      BY <1>3, <2>1, SawFields, Zenon
    <3> QED BY <2>1, <3>1
  <2>2. CASE calls' = [calls EXCEPT ![c].ok = TRUE, ![c].saw = saw]
    <3>1. /\ DOMAIN calls' = 1..MaxCalls /\ \A e \in 1..MaxCalls : e # c => calls'[e] = calls[e]
          /\ DOMAIN d = Fields /\ d.fn = call.fn /\ d.ops = call.ops
          /\ d.reads = call.reads /\ d.live = call.live /\ d.ok /\ d.saw = saw
      <4> HIDE DEF saw
      <4> QED BY <1>3, <2>2, DoneFields, Zenon
    <3> QED BY <3>1
  <2> QED BY <1>2, <2>1, <2>2
<1> HIDE DEF d
<1>7. CallOK(d) /\ Owned(d, tab, shown)
  BY <1>1, <1>3, <1>5, <1>6 DEF CallOK, Owned
<1>8. TypeInv'
  <2>1. Belongs(tab, shown', running', busy') /\ ShownOK'
    BY <1>1, Facts DEF Belongs, ShownOK
  <2>2. /\ running' \in BOOLEAN /\ apart' \in BOOLEAN /\ slipped' \in BOOLEAN
        /\ tab' = tab /\ shown' = shown
    BY <1>1, Facts
  <2> QED BY <1>5, <1>6, <1>7, <2>1, <2>2, OneCallStep DEF d
<1>9. HealInv'
  <2>1. CASE c \notin Healers(calls)
    <3>1. call.reads # "heal" /\ ~ IsHeal(op)
      BY <1>3, <1>4, <2>1 DEF Healers, OpOK, CallOK, ReadBy
    <3>2. \A e \in 1..MaxCalls : calls'[e].reads = "heal" => calls'[e] = calls[e]
      BY <1>6, <3>1 DEF d
    <3>3. SelfHealing(kernel') \subseteq SelfHealing(kernel)
      BY <1>5, <3>1
    <3>4. shown'.heal = shown.heal /\ ("heal" \in busy' <=> "heal" \in busy) /\ slipped' = slipped
      BY <1>1
    <3> QED BY <1>3, <3>2, <3>3, <3>4, Facts, HealKept
  <2>2. CASE c \in Healers(calls)
    <3> SUFFICES ASSUME ~ slipped' PROVE HealInv'
      BY DEF HealInv
    <3>1. HealersOK /\ HealShown /\ Cardinality(SelfHealing(kernel)) <= 1
      BY <1>1, Facts DEF HealInv
    <3>2. HealerOK(call, shown, busy) /\ HealerKnows(call, kernel)
      BY <2>2, <3>1 DEF HealersOK
    <3>3. call.fn = "selfheal" /\ call.live /\ "heal" \in busy
      BY <1>1, <3>2 DEF HealerOK
    <3>4. Cardinality(SelfHealing(kernel')) <= 1
      <4>1. CASE IsHeal(op)
        <5>1. SelfHealing(kernel) = {}
          BY <1>1, <1>4, <3>2, <4>1 DEF HealerKnows, NoHeal
        <5>2. SelfHealing(kernel') \subseteq {kernel.made + 1}
          BY <1>5, <4>1, <5>1
        <5>3. IsFiniteSet({kernel.made + 1}) /\ Cardinality({kernel.made + 1}) = 1
          BY FS_Singleton
        <5>4. Cardinality(SelfHealing(kernel')) <= Cardinality({kernel.made + 1})
          BY <5>2, <5>3, FS_Subset
        <5> QED BY <5>3, <5>4
      <4>2. CASE ~ IsHeal(op)
        BY <1>3, <1>5, <3>1, <4>2, FewerStill
      <4> QED BY <4>1, <4>2
    <3>5. HealShown'
      BY <1>1, <3>3 DEF HealShown
    <3>6. HealerOK(d, shown', busy') /\ HealerKnows(d, kernel')
      BY <1>1, <1>6, <3>3 DEF HealerOK, HealerKnows
    <3> QED BY <1>6, <2>2, <3>1, <3>4, <3>5, <3>6, HealerStep DEF d
  <2> QED BY <2>1, <2>2
<1> QED BY <1>8, <1>9 DEF IInv

\* A GET is answered with what the kernel is.
LEMMA AnswerKept ==
    ASSUME IInv, NEW c \in 1..MaxCalls, Answer(c) PROVE IInv'
<1> DEFINE call == calls[c]
           d == calls'[c]
<1>1. /\ call # Idle /\ call.ops = <<>> /\ call.saw = <<>>
      /\ kernel' = kernel \/ kernel' = Synced(kernel)
      /\ calls' = [calls EXCEPT ![c].saw = <<kernel'>>]
      /\ UNCHANGED <<tab, shown, running, busy, apart, slipped, steps>>
  BY DEF Answer
<1>2. CallOK(call) /\ Owned(call, tab, shown) /\ CallsOK /\ IsKernel(kernel)
  BY Facts DEF CallsOK
<1>3. IsKernel(kernel') /\ SelfHealing(kernel') = SelfHealing(kernel)
  BY <1>1, <1>2, SyncedTyped
<1>4. /\ DOMAIN calls' = 1..MaxCalls /\ \A e \in 1..MaxCalls : e # c => calls'[e] = calls[e]
      /\ DOMAIN d = Fields /\ d.fn = call.fn /\ d.ops = call.ops
      /\ d.reads = call.reads /\ d.live = call.live /\ d.saw = <<kernel'>>
  BY <1>1, <1>2, SawFields
<1> HIDE DEF d
<1>5. d.saw[1] = kernel'
  BY <1>4
<1>6. CallOK(d) /\ Owned(d, tab, shown)
  BY <1>1, <1>2, <1>3, <1>4, <1>5 DEF CallOK, Owned
<1>7. TypeInv'
  <2>1. Belongs(tab, shown', running', busy') /\ ShownOK'
    BY <1>1, Facts DEF Belongs, ShownOK
  <2>2. /\ running' \in BOOLEAN /\ apart' \in BOOLEAN /\ slipped' \in BOOLEAN
        /\ tab' = tab /\ shown' = shown
    BY <1>1, Facts
  <2> QED BY <1>3, <1>4, <1>6, <2>1, <2>2, OneCallStep DEF d
<1>8. HealInv'
  <2>1. CASE c \notin Healers(calls)
    <3>1. \A e \in 1..MaxCalls : calls'[e].reads = "heal" => calls'[e] = calls[e]
      BY <1>4, <2>1 DEF d, Healers
    <3>2. shown'.heal = shown.heal /\ ("heal" \in busy' <=> "heal" \in busy) /\ slipped' = slipped
      BY <1>1
    <3> QED BY <1>2, <1>3, <3>1, <3>2, Facts, HealKept
  <2>2. CASE c \in Healers(calls)
    <3> SUFFICES ASSUME ~ slipped' PROVE HealInv'
      BY DEF HealInv
    <3>1. HealersOK /\ HealShown /\ Cardinality(SelfHealing(kernel)) <= 1
      BY <1>1, Facts DEF HealInv
    <3>2. HealerOK(call, shown, busy)
      BY <2>2, <3>1 DEF HealersOK
    <3>3. HealShown'
      BY <1>1, <1>3, <3>1 DEF HealShown, NoHeal
    <3>4. HealerOK(d, shown', busy') /\ HealerKnows(d, kernel')
      BY <1>1, <1>4, <1>5, <3>2 DEF HealerOK, HealerKnows
    <3> QED BY <1>3, <1>4, <2>2, <3>1, <3>3, <3>4, HealerStep DEF d
  <2> QED BY <2>1, <2>2
<1> QED BY <1>7, <1>8 DEF IInv

\* What the answer of a POST changes of the panels.
LEMMA AnsweredPanels ==
    ASSUME NEW s, DOMAIN s = {"gates", "proposals", "draft", "card", "list", "heal"}, NEW call
    PROVE  LET n == Answered(s, call) IN
           /\ DOMAIN n = DOMAIN s /\ n.draft = s.draft /\ n.heal = s.heal /\ n.proposals = s.proposals
           /\ n.gates = s.gates \/ call.fn \in {"gate", "switch"}
           /\ n.card = s.card \/ call.fn = "patch"
<1> DEFINE n == Answered(s, call)
<1>1. \/ n = s
      \/ call.fn \in {"gate", "switch"} /\ \E g : n = [s EXCEPT !.gates = g]
      \/ call.fn = "patch" /\ \E r : n = [s EXCEPT !.card = r]
  <2>1. CASE call.fn \in {"gate", "switch"}
    BY <2>1, Zenon DEF Answered
  <2>2. CASE call.fn = "patch"
    <3>1. n = [s EXCEPT !.card = call.prev] \/ n = s
      BY <2>2 DEF Answered
    <3> QED BY <2>2, <3>1
  <2>3. CASE call.fn \notin {"gate", "switch", "patch"}
    BY <2>3 DEF Answered
  <2> QED BY <2>1, <2>2, <2>3
<1> HIDE DEF n
<1>2. /\ DOMAIN n = DOMAIN s /\ n.draft = s.draft /\ n.heal = s.heal /\ n.proposals = s.proposals
      /\ n.gates = s.gates \/ call.fn \in {"gate", "switch"}
      /\ n.card = s.card \/ call.fn = "patch"
  BY <1>1
<1> QED BY <1>2 DEF n

LEMMA Tails == \A a, b : Tail(<<a>>) = <<>> /\ Tail(<<a, b>>) = <<b>>
  OBVIOUS

\* The tail of a call's requests; none of them makes a self-healing trigger.
LEMMA TailOK ==
    ASSUME NEW fn, NEW ops, OpsOK(fn, ops), ops # <<>>
    PROVE  OpsOK(fn, Tail(ops)) /\ (Tail(ops) # <<>> => ~ IsHeal(Tail(ops)[1]))
<1>1. CASE ops = <<ops[1]>>
  <2> DEFINE a == ops[1]
  <2>a. ops = <<a>>
    BY <1>1
  <2> HIDE DEF a
  <2>1. Tail(ops) = <<>>
    BY <2>a, Tails
  <2> QED BY <2>1 DEF OpsOK
<1>2. CASE ops = <<ops[1], ops[2]>> /\ OpOK(fn, ops[2]) /\ ~ IsHeal(ops[2])
  <2> DEFINE a == ops[1]
             b == ops[2]
  <2>a. ops = <<a, b>> /\ OpOK(fn, b) /\ ~ IsHeal(b)
    BY <1>2
  <2> HIDE DEF a, b
  <2>1. Tail(ops) = <<b>>
    BY <2>a, Tails
  <2>2. <<b>>[1] = b
    OBVIOUS
  <2>3. Tail(ops)[1] = b
    BY <2>1, <2>2, Zenon
  <2>4. Tail(ops) = <<Tail(ops)[1]>> /\ OpOK(fn, Tail(ops)[1]) /\ ~ IsHeal(Tail(ops)[1])
    BY <2>a, <2>1, <2>3, Zenon
  <2> QED BY <2>4, Zenon DEF OpsOK
<1> QED BY <1>1, <1>2 DEF OpsOK

\* The answer of a POST: the call goes on, or rests.
LEMMA PostArrivesKept ==
    ASSUME IInv, NEW c \in 1..MaxCalls, PostArrives(c) PROVE IInv'
<1> DEFINE call == calls[c]
           d == calls'[c]
           more == Tail(call.ops)
           reads == call.live /\ call.reads # "none" /\ (call.fn = "trigger" => call.ok)
<1>1. /\ call.ops # <<>> /\ call.saw # <<>>
      /\ shown' = IF call.live THEN Answered(shown, call) ELSE shown
      /\ busy' = IF call.live THEN busy \ FlagOf(call.fn) ELSE busy
      /\ UNCHANGED <<kernel, tab, apart, slipped, steps>>
  BY Zenon DEF PostArrives, Arrived
<1>2. IF more # <<>> \/ reads
      THEN calls' = [calls EXCEPT ![c].ops = more, ![c].saw = <<>>, ![c].ok = FALSE]
      ELSE calls' = [calls EXCEPT ![c] = Idle]
  BY Zenon DEF PostArrives, Rests
<1>3. running' \in BOOLEAN /\ (running' => running)
  BY Zenon DEF PostArrives
<1>4. CallOK(call) /\ Owned(call, tab, shown) /\ CallsOK /\ IsKernel(kernel)
  BY Facts DEF CallsOK
<1>5. OpsOK(call.fn, more) /\ (more # <<>> => ~ IsHeal(more[1]))
  BY <1>1, <1>4, TailOK DEF CallOK
<1>6. /\ DOMAIN calls' = 1..MaxCalls /\ \A e \in 1..MaxCalls : e # c => calls'[e] = calls[e]
      /\ \/ d = Idle
         \/ /\ more # <<>> \/ reads
            /\ DOMAIN d = Fields /\ d.fn = call.fn /\ d.ops = more
            /\ d.reads = call.reads /\ d.live = call.live /\ d.saw = <<>>
  <2>1. CASE more # <<>> \/ reads
    <3>1. calls' = [calls EXCEPT ![c].ops = more, ![c].saw = <<>>, ![c].ok = FALSE]
      BY <1>2, <2>1, Zenon
    <3> HIDE DEF more
    <3>2. /\ DOMAIN calls' = 1..MaxCalls /\ \A e \in 1..MaxCalls : e # c => calls'[e] = calls[e]
          /\ DOMAIN d = Fields /\ d.fn = call.fn /\ d.ops = more
          /\ d.reads = call.reads /\ d.live = call.live /\ d.saw = <<>>
      BY <1>4, <3>1, MoreFields, Zenon
    <3> QED BY <2>1, <3>2, Zenon
  <2>2. CASE ~ (more # <<>> \/ reads)
    <3>1. calls' = [calls EXCEPT ![c] = Idle] /\ DOMAIN calls = 1..MaxCalls
      BY <1>2, <1>4, <2>2, Zenon DEF CallsOK
    <3>2. DOMAIN calls' = 1..MaxCalls /\ d = Idle /\ \A e \in 1..MaxCalls : e # c => calls'[e] = calls[e]
      BY <3>1
    <3> QED BY <3>2
  <2> QED BY <2>1, <2>2
<1> HIDE DEF d, more
<1>7. /\ DOMAIN shown' = DOMAIN shown /\ shown'.draft = shown.draft /\ shown'.heal = shown.heal
      /\ shown'.proposals = shown.proposals
      /\ shown'.gates = shown.gates \/ (call.live /\ call.fn \in {"gate", "switch"})
      /\ shown'.card = shown.card \/ (call.live /\ call.fn = "patch")
  <2>1. CASE call.live
    <3>1. shown' = Answered(shown, call)
      BY <1>1, <2>1
    <3> QED BY <2>1, <3>1, Facts, AnsweredPanels
  <2>2. CASE ~ call.live
    BY <1>1, <2>2
  <2> QED BY <2>1, <2>2
<1>8. /\ call.live /\ call.fn \in {"gate", "switch"} => tab = "modify"
      /\ call.live /\ call.fn = "patch" => shown.draft # <<>>
  BY <1>4 DEF Owned, TabOf, CallOK, ReadBy
<1>9. busy' \subseteq busy /\ ("heal" \in busy' <=> "heal" \in busy)
  BY <1>1 DEF FlagOf
<1>10. Belongs(tab, shown', running', busy') /\ ShownOK'
  BY <1>3, <1>7, <1>8, <1>9, Facts DEF Belongs, ShownOK
<1>11. CallOK(d) /\ Owned(d, tab, shown')
  <2>1. CASE d = Idle
    BY <2>1, IdleOK
  <2>2. CASE /\ more # <<>> \/ reads
             /\ DOMAIN d = Fields /\ d.fn = call.fn /\ d.ops = more
             /\ d.reads = call.reads /\ d.live = call.live /\ d.saw = <<>>
    BY <1>1, <1>4, <1>5, <1>7, <2>2 DEF CallOK, Owned
  <2> QED BY <1>6, <2>1, <2>2
<1>12. TypeInv'
  <2>1. /\ apart' \in BOOLEAN /\ slipped' \in BOOLEAN /\ IsKernel(kernel')
        /\ tab' = tab /\ shown'.draft = shown.draft
    BY <1>1, <1>7, Facts
  <2> QED BY <1>3, <1>6, <1>10, <1>11, <2>1, OneCallStep DEF d
<1>13. HealInv'
  <2>1. CASE c \notin Healers(calls)
    <3>1. \A e \in 1..MaxCalls : calls'[e].reads = "heal" => calls'[e] = calls[e]
      BY <1>6, <2>1, IdleOK DEF d, Healers
    <3> QED BY <1>1, <1>4, <1>7, <1>9, <3>1, Facts, HealKept
  <2>2. CASE c \in Healers(calls)
    <3> SUFFICES ASSUME ~ slipped' PROVE HealInv'
      BY DEF HealInv
    <3>1. HealersOK /\ HealShown /\ Cardinality(SelfHealing(kernel)) <= 1
      BY <1>1, Facts DEF HealInv
    <3>2. call.fn = "selfheal" /\ call.live /\ "heal" \in busy
      BY <1>1, <2>2, <3>1 DEF HealersOK, HealerOK
    <3>3. HealShown' /\ Cardinality(SelfHealing(kernel')) <= 1
      BY <1>1, <1>9, <3>1, <3>2 DEF HealShown
    <3>4. ASSUME d.reads = "heal"
          PROVE  HealerOK(d, shown', busy') /\ HealerKnows(d, kernel')
      <4>1. d.fn = "selfheal" /\ d.live /\ d.ops = more /\ d.saw = <<>>
        BY <1>6, <3>2, <3>4, IdleOK
      <4> QED BY <1>5, <1>9, <3>2, <4>1 DEF HealerOK, HealerKnows
    <3> QED BY <1>6, <2>2, <3>1, <3>3, <3>4, HealerStep DEF d
  <2> QED BY <2>1, <2>2
<1> QED BY <1>12, <1>13 DEF IInv

\* The least trigger exists.
LEMMA LeastNat ==
    ASSUME NEW T \in SUBSET Nat, T # {} PROVE \E m \in T : \A k \in T : m <= k
<1> DEFINE R == OpToRel(<, Nat)
<1>1. IsWellFoundedOn(R, Nat)
  BY NatLessThanWellFounded
<1>2. \A x, y \in Nat : x < y => <<x, y>> \in R
  BY DEF OpToRel
<1> HIDE DEF R
<1>3. PICK x \in T : \A y \in T : ~ (<<y, x>> \in R)
  BY <1>1, WFMin
<1>4. \A y \in T : ~ (y < x)
  BY <1>2, <1>3
<1>5. \A y \in T : x <= y
  BY <1>4
<1> QED BY <1>5

\* The switch shows a trigger when the kernel has one.
LEMMA HealOfFinds ==
    ASSUME NEW k, IsKernel(k), HealOf(k).trigger = 0 PROVE NoHeal(k)
<1> DEFINE all == SelfHealing(k)
<1>1. all \subseteq Nat \ {0}
  BY DEF SelfHealing, IsKernel
<1>2. ASSUME all # {} PROVE FALSE
  <2>1. \E x \in all : \A y \in all : x <= y
    <3>1. all \in SUBSET Nat /\ all # {}
      BY <1>1, <1>2
    <3> HIDE DEF all
    <3> QED BY <3>1, LeastNat
  <2>2. Min(all) \in all
    BY <2>1 DEF Min
  <2>3. HealOf(k).trigger = Min(all)
    BY <1>2 DEF HealOf
  <2> HIDE DEF all
  <2> QED BY <1>1, <2>2, <2>3
<1> QED BY <1>2 DEF NoHeal

\* What a read shows: the panel that was read, and no other.
LEMMA ReadPanels ==
    ASSUME NEW s, DOMAIN s = {"gates", "proposals", "draft", "card", "list", "heal"}, NEW k,
           NEW panel \in Panels
    PROVE  LET n == Read(s, panel, k) IN
           /\ DOMAIN n = DOMAIN s
           /\ n.gates = s.gates \/ panel = "gates"
           /\ n.proposals = s.proposals \/ panel = "proposals"
           /\ IF panel = "settings" THEN n.draft = <<k.cfg["real"]>> ELSE n.draft = s.draft
           /\ n.card = s.card \/ panel = "card"
           /\ IF panel = "heal" THEN n.heal = <<HealOf(k)>> ELSE n.heal = s.heal
<1>1. CASE panel = "gates"
  BY <1>1 DEF Read
<1>2. CASE panel = "proposals"
  BY <1>2 DEF Read
<1>3. CASE panel = "settings"
  BY <1>3 DEF Read
<1>4. CASE panel = "card"
  BY <1>4 DEF Read
<1>5. CASE panel = "heal"
  BY <1>5 DEF Read
<1> QED BY <1>1, <1>2, <1>3, <1>4, <1>5 DEF Panels

\* A call whose POSTs are answered and that is not idle reads a panel of its tab.
LEMMA ReaderOwned ==
    ASSUME NEW call, CallOK(call), NEW t, NEW s, Owned(call, t, s), call.ops = <<>>, call # Idle
    PROVE  /\ call.live /\ call.reads \in Panels
           /\ t = CASE call.reads \in {"gates", "proposals"} -> "modify"
                    [] call.reads = "heal" -> "errors"
                    [] OTHER -> "settings"
           /\ call.reads = "card" => s.draft # <<>>
           /\ call.reads = "heal" => call.fn \in {"load", "selfheal"}
           /\ call.fn = "selfheal" => call.reads = "heal"
<1>1. call.live /\ call.reads # "none" /\ call.fn # "none"
  BY DEF CallOK, ReadBy
<1>2. call.reads \in Panels /\ call.fn \notin {"gate", "switch"}
  BY <1>1 DEF CallOK, ReadBy, Panels
<1> QED BY <1>1, <1>2 DEF CallOK, ReadBy, Owned, TabOf, Panels

\* The answer of a GET: the panel shows it, the flag of the switch is released.
LEMMA GetArrivesKept ==
    ASSUME IInv, NEW c \in 1..MaxCalls, GetArrives(c) PROVE IInv'
<1> DEFINE call == calls[c]
           d == calls'[c]
           k == call.saw[1]
<1>1. /\ call.ops = <<>> /\ call.saw # <<>>
      /\ shown' = Read(shown, call.reads, k)
      /\ busy' = IF call.fn = "selfheal" THEN busy \ {"heal"} ELSE busy
      /\ calls' = [calls EXCEPT ![c] = IF call.reads = "settings" THEN Load("card") ELSE Idle]
      /\ UNCHANGED <<kernel, tab, running, apart, slipped, steps>>
  BY DEF GetArrives, Arrived, Rests
<1>2. CallOK(call) /\ Owned(call, tab, shown) /\ CallsOK /\ IsKernel(kernel)
  BY Facts DEF CallsOK
<1>3. IsKernel(k) /\ call # Idle
  BY <1>1, <1>2 DEF CallOK, Idle
<1>4. /\ call.live /\ call.reads \in Panels
      /\ tab = CASE call.reads \in {"gates", "proposals"} -> "modify"
                 [] call.reads = "heal" -> "errors"
                 [] OTHER -> "settings"
      /\ call.reads = "card" => shown.draft # <<>>
      /\ call.reads = "heal" => call.fn \in {"load", "selfheal"}
      /\ call.fn = "selfheal" => call.reads = "heal"
  BY <1>1, <1>2, <1>3, ReaderOwned
<1>5. /\ DOMAIN calls' = 1..MaxCalls /\ \A e \in 1..MaxCalls : e # c => calls'[e] = calls[e]
      /\ d = IF call.reads = "settings" THEN Load("card") ELSE Idle
  BY <1>1, <1>2 DEF CallsOK
<1> HIDE DEF d
<1>6. /\ DOMAIN shown' = DOMAIN shown
      /\ shown'.gates = shown.gates \/ call.reads = "gates"
      /\ shown'.proposals = shown.proposals \/ call.reads = "proposals"
      /\ IF call.reads = "settings" THEN shown'.draft = <<k.cfg["real"]>> ELSE shown'.draft = shown.draft
      /\ shown'.card = shown.card \/ call.reads = "card"
      /\ IF call.reads = "heal" THEN shown'.heal = <<HealOf(k)>> ELSE shown'.heal = shown.heal
  <2> HIDE DEF k
  <2> QED BY <1>1, <1>4, Facts, ReadPanels
<1>7. ShownOK' /\ (shown.draft # <<>> => shown'.draft # <<>>)
      /\ (call.reads = "settings" => shown'.draft # <<>>)
  <2>1. CASE call.reads = "settings"
    <3>1. k.cfg["real"] \in BOOLEAN
      BY <1>3 DEF IsKernel, Keys
    <3> DEFINE b == k.cfg["real"]
    <3>2. b = TRUE \/ b = FALSE
      BY <3>1
    <3> HIDE DEF b
    <3>3. shown'.draft = <<b>>
      BY <1>6, <2>1 DEF b
    <3>4. shown'.draft = <<TRUE>> \/ shown'.draft = <<FALSE>>
      BY <3>2, <3>3, Zenon
    <3>5. shown'.draft # <<>>
      BY <3>3
    <3> QED BY <1>6, <3>4, <3>5, Facts DEF ShownOK
  <2>2. CASE call.reads # "settings"
    BY <1>6, <2>2, Facts DEF ShownOK
  <2> QED BY <2>1, <2>2
<1>8. Belongs(tab, shown', running', busy')
  <2>1. busy' \subseteq busy
    BY <1>1
  <2> QED BY <1>1, <1>4, <1>6, <1>7, <2>1, Facts DEF Belongs
<1>9. CallOK(d) /\ Owned(d, tab, shown')
  <2>1. CASE call.reads = "settings"
    <3>1. d = Load("card") /\ tab = "settings" /\ "card" \in Panels
      BY <1>4, <1>5, <2>1 DEF Panels
    <3>2. d.fn = "load" /\ d.reads = "card"
      BY <3>1, NewLoad
    <3>3. CallOK(d)
      BY <3>1, LoadOK
    <3> QED BY <1>7, <2>1, <3>1, <3>2, <3>3 DEF Owned, TabOf
  <2>2. CASE call.reads # "settings"
    BY <1>5, <2>2, IdleOK
  <2> QED BY <2>1, <2>2
<1>10. TypeInv'
  <2>1. /\ apart' \in BOOLEAN /\ slipped' \in BOOLEAN /\ running' \in BOOLEAN /\ IsKernel(kernel')
        /\ tab' = tab
    BY <1>1, Facts
  <2> QED BY <1>5, <1>7, <1>8, <1>9, <2>1, OneCallStep DEF d
<1>11. d.reads # "heal"
  BY <1>5, NewLoad, IdleOK
<1>12. HealInv'
  <2>1. CASE c \notin Healers(calls)
    <3>1. \A e \in 1..MaxCalls : calls'[e].reads = "heal" => calls'[e] = calls[e]
      BY <1>5, <1>11 DEF d
    <3>2. call.reads # "heal"
      BY <2>1 DEF Healers
    <3>3. shown'.heal = shown.heal /\ ("heal" \in busy' <=> "heal" \in busy)
      BY <1>1, <1>4, <1>6, <3>2
    <3>4. slipped' = slipped /\ kernel' = kernel
      BY <1>1
    <3> QED BY <1>2, <3>1, <3>3, <3>4, Facts, HealKept
  <2>2. CASE c \in Healers(calls)
    <3> SUFFICES ASSUME ~ slipped' PROVE HealInv'
      BY DEF HealInv
    <3>1. HealersOK /\ HealShown /\ Cardinality(SelfHealing(kernel)) <= 1
      BY <1>1, Facts DEF HealInv
    <3>2. HealerKnows(call, kernel) /\ call.reads = "heal"
      BY <2>2, <3>1 DEF HealersOK, Healers
    <3>3. HealShown'
      <4>1. shown'.heal = <<HealOf(k)>> /\ kernel' = kernel
        BY <1>1, <1>6, <3>2
      <4>2. shown'.heal[1] = HealOf(k)
        BY <4>1
      <4>3. HealOf(k).trigger = 0 => NoHeal(k)
        BY <1>3, HealOfFinds
      <4>4. NoHeal(k) => NoHeal(kernel)
        BY <1>1, <3>2 DEF HealerKnows
      <4> QED BY <4>1, <4>2, <4>3, <4>4 DEF HealShown
    <3>4. Cardinality(SelfHealing(kernel')) <= 1
      BY <1>1, <3>1
    <3> QED BY <1>5, <1>11, <2>2, <3>1, <3>3, <3>4, HealerStep DEF d
  <2> QED BY <2>1, <2>2
<1> QED BY <1>10, <1>12 DEF IInv

\* fetch throws: the call is gone, and the switch's function counts as a slip.
LEMMA LoseKept ==
    ASSUME IInv, NEW c \in 1..MaxCalls, Lose(c) PROVE IInv'
<1> DEFINE call == calls[c]
           d == calls'[c]
           again == call.live /\ call.ops # <<>> /\ call.fn \in {"analyze", "run"}
<1>1. /\ call # Idle
      /\ IF again THEN calls' = [calls EXCEPT ![c] = Load("proposals")]
                  ELSE calls' = [calls EXCEPT ![c] = Idle]
      /\ shown' = IF call.live /\ call.ops = <<>> THEN Unread(shown, call.reads) ELSE shown
      /\ busy' = IF call.live THEN busy \ Thrown(call.fn) ELSE busy
      /\ UNCHANGED <<kernel, tab, running>>
  BY DEF Lose, Rests
<1>2. apart' = TRUE /\ slipped' = (slipped \/ call.fn = "selfheal")
  BY Zenon DEF Lose
<1>3. apart' \in BOOLEAN /\ slipped' \in BOOLEAN /\ (~ slipped' => ~ slipped /\ call.fn # "selfheal")
  BY <1>2, Zenon
<1>4. CallOK(call) /\ Owned(call, tab, shown) /\ CallsOK /\ IsKernel(kernel)
  BY Facts DEF CallsOK
<1>5. /\ DOMAIN calls' = 1..MaxCalls /\ \A e \in 1..MaxCalls : e # c => calls'[e] = calls[e]
      /\ d = IF again THEN Load("proposals") ELSE Idle
  <2> HIDE DEF again
  <2> QED BY <1>1, <1>4 DEF CallsOK
<1> HIDE DEF d
<1>6. /\ DOMAIN shown' = DOMAIN shown /\ shown'.draft = shown.draft /\ shown'.card = shown.card
      /\ shown'.gates = shown.gates
      /\ shown'.proposals = shown.proposals \/ shown'.proposals = <<>>
      /\ shown'.heal = shown.heal \/ (shown'.heal = <<>> /\ call.reads = "heal")
      /\ call.reads = "heal" /\ call.live /\ call.ops = <<>> => shown'.heal = <<>>
  <2>1. CASE call.live /\ call.ops = <<>>
    <3>1. shown' = Unread(shown, call.reads)
      BY <1>1, <2>1
    <3>2. CASE call.reads = "proposals"
      BY <3>1, <3>2, Facts DEF Unread
    <3>3. CASE call.reads = "heal"
      BY <3>1, <3>3, Facts DEF Unread
    <3>4. CASE call.reads \notin {"proposals", "heal"}
      BY <3>1, <3>4, Facts DEF Unread
    <3> QED BY <3>2, <3>3, <3>4
  <2>2. CASE ~ (call.live /\ call.ops = <<>>)
    BY <1>1, <2>2
  <2> QED BY <2>1, <2>2
<1>7. ShownOK' /\ busy' \subseteq busy
  BY <1>1, <1>6, Facts DEF ShownOK
<1>8. Belongs(tab, shown', running', busy')
  BY <1>1, <1>6, <1>7, Facts DEF Belongs
<1>9. CallOK(d) /\ Owned(d, tab, shown') /\ d.reads # "heal"
  <2>1. CASE again
    <3>1. d = Load("proposals") /\ "proposals" \in Panels
      BY <1>5, <2>1 DEF Panels
    <3>2. d.fn = "load" /\ d.reads = "proposals"
      BY <3>1, NewLoad
    <3>3. CallOK(d)
      BY <3>1, LoadOK
    <3>4. tab = "modify"
      BY <1>4, <2>1 DEF Owned, TabOf, CallOK, ReadBy
    <3> QED BY <3>2, <3>3, <3>4 DEF Owned, TabOf
  <2>2. CASE ~ again
    BY <1>5, <2>2, IdleOK
  <2> QED BY <2>1, <2>2
<1>10. TypeInv'
  <2>1. running' \in BOOLEAN /\ IsKernel(kernel') /\ tab' = tab
    BY <1>1, Facts
  <2> QED BY <1>3, <1>5, <1>6, <1>7, <1>8, <1>9, <2>1, OneCallStep DEF d
<1>11. HealInv'
  <2> SUFFICES ASSUME ~ slipped' PROVE HealInv'
    BY DEF HealInv
  <2>1. ~ slipped /\ call.fn # "selfheal"
    BY <1>3
  <2>2. "heal" \in busy' <=> "heal" \in busy
    BY <1>1, <2>1 DEF Thrown
  <2>3. \A e \in 1..MaxCalls : calls'[e].reads = "heal" => calls'[e] = calls[e]
    BY <1>5, <1>9 DEF d
  <2>4. CASE c \notin Healers(calls)
    <3>1. shown'.heal = shown.heal
      BY <1>6, <2>4 DEF Healers
    <3> QED BY <1>1, <1>4, <2>1, <2>2, <2>3, <3>1, Facts, HealKept
  <2>5. CASE c \in Healers(calls)
    <3>1. HealersOK /\ HealShown /\ Cardinality(SelfHealing(kernel)) <= 1
      BY <2>1, Facts DEF HealInv
    <3>2. call.reads = "heal" /\ call.ops = <<>>
      BY <2>1, <2>5, <3>1 DEF HealersOK, HealerOK, Healers
    <3>3. call.live
      BY <1>1, <1>4, <3>2 DEF CallOK
    <3>4. HealShown'
      BY <1>6, <3>2, <3>3 DEF HealShown
    <3>5. Cardinality(SelfHealing(kernel')) <= 1
      BY <1>1, <3>1
    <3> QED BY <1>5, <1>9, <2>5, <3>1, <3>4, <3>5, HealerStep DEF d
  <2> QED BY <2>4, <2>5
<1> QED BY <1>10, <1>11 DEF IInv
-----------------------------------------------------------------------------
(* The other steps.                                                         *)

\* The change of a proposal ends: its run is answered, the proposals are read.
LEMMA TaskEndsKept ==
    ASSUME IInv, TaskEnds PROVE IInv'
<1> DEFINE k == [kernel EXCEPT !.task = FALSE]
           waits(c) == calls[c].ops # <<>> /\ Head(calls[c].ops).kind = "run" /\ calls[c].ok
           answered == [c \in DOMAIN calls |->
                          IF waits(c) THEN [calls[c] EXCEPT !.saw = <<k>>] ELSE calls[c]]
           new == IF running THEN <<Load("proposals")>> ELSE <<>>
<1>1. /\ kernel' = k /\ running' = FALSE
      /\ UNCHANGED <<tab, shown, busy, slipped, steps>>
  BY DEF TaskEnds
<1>a. apart' \in BOOLEAN
  BY Zenon DEF TaskEnds
<1>2. calls' = Launched(answered, new)
  <2>1. calls' = Launched([c \in DOMAIN calls |->
                    IF waits(c) THEN [calls[c] EXCEPT !.saw = <<kernel'>>] ELSE calls[c]], new)
    BY Zenon DEF TaskEnds
  <2> HIDE DEF waits, new, k
  <2> QED BY <1>1, <2>1
<1>3. /\ IsKernel(kernel) /\ CallsOK /\ DOMAIN calls = 1..MaxCalls
      /\ \A c \in 1..MaxCalls : CallOK(calls[c]) /\ Owned(calls[c], tab, shown)
  BY Facts DEF CallsOK
<1>4. IsKernel(k) /\ SelfHealing(k) = SelfHealing(kernel)
  <2>1. /\ DOMAIN k = DOMAIN kernel /\ k.cfg = kernel.cfg /\ k.made = kernel.made
        /\ k.triggers = kernel.triggers /\ k.proposals = kernel.proposals
    BY <1>3 DEF IsKernel
  <2> HIDE DEF k
  <2>2. IsKernel(k)
    BY <1>3, <2>1 DEF IsKernel
  <2> QED BY <2>1, <2>2 DEF SelfHealing
<1> HIDE DEF k
<1>5. ASSUME NEW c \in 1..MaxCalls, waits(c)
      PROVE  /\ CallOK(answered[c]) /\ Owned(answered[c], tab, shown) /\ answered[c].reads # "heal"
  <2>1. OpOK(calls[c].fn, Head(calls[c].ops))
    BY <1>3, <1>5 DEF CallOK, OpsOK
  <2>2. calls[c].fn = "run" /\ calls[c].ops # <<>>
    BY <1>5, <2>1 DEF OpOK
  <2> DEFINE d == [calls[c] EXCEPT !.saw = <<k>>]
  <2>3. DOMAIN calls[c] = Fields
    BY <1>3 DEF CallOK
  <2>4. /\ DOMAIN d = Fields /\ d.fn = calls[c].fn /\ d.ops = calls[c].ops
        /\ d.reads = calls[c].reads /\ d.live = calls[c].live /\ d.saw = <<k>>
    BY <2>3 DEF Fields
  <2>5. answered[c] = d
    BY <1>3, <1>5, Zenon
  <2> HIDE DEF d
  <2>6. d.saw[1] = k
    BY <2>4
  <2>7. CallOK(d) /\ Owned(d, tab, shown) /\ d.reads # "heal"
    BY <1>3, <1>4, <2>2, <2>4, <2>6 DEF CallOK, Owned, ReadBy
  <2> HIDE DEF answered
  <2> QED BY <2>5, <2>7
<1>6. \A c \in 1..MaxCalls : ~ waits(c) => answered[c] = calls[c]
  <2> HIDE DEF waits
  <2> QED BY <1>3
<1>7. DOMAIN answered = 1..MaxCalls
  BY <1>3
<1> HIDE DEF answered, waits
<1>8. running => tab = "modify"
  BY Facts DEF Belongs
<1>9. /\ CallOK(Load("proposals")) /\ Load("proposals").reads = "proposals"
      /\ running => Owned(Load("proposals"), tab, shown)
  <2>1. CallOK(Load("proposals"))
    BY LoadOK DEF Panels
  <2>2. Load("proposals").fn = "load" /\ Load("proposals").reads = "proposals"
    BY NewLoad
  <2> QED BY <1>8, <2>1, <2>2 DEF Owned, TabOf
<1>10. Len(new) \in Nat /\ \A i \in 1..Len(new) : running /\ new[i] = Load("proposals")
  <2>1. CASE running
    <3>1. new = <<Load("proposals")>>
      BY <2>1
    <3> HIDE DEF new
    <3>2. Len(new) = 1 /\ \A i \in 1..1 : new[i] = Load("proposals")
      BY <3>1
    <3> QED BY <2>1, <3>2
  <2>2. CASE ~ running
    <3>1. new = <<>>
      BY <2>2
    <3> HIDE DEF new
    <3>2. Len(new) = 0
      BY <3>1
    <3> QED BY <3>2
  <2> QED BY <2>1, <2>2
<1> HIDE DEF new
<1>11. /\ DOMAIN calls' = 1..MaxCalls
       /\ \A c \in 1..MaxCalls :
            \/ calls'[c] = answered[c]
            \/ answered[c] = Idle /\ \E i \in 1..Len(new) : calls'[c] = new[i]
  <2>1. Len(new) \in Nat
    BY <1>10
  <2>2. Filled(answered, new, Launched(answered, new))
    BY <1>7, <2>1, LaunchedCalls
  <2>3. Filled(answered, new, calls')
    BY <1>2, <2>2
  <2> QED BY <2>3 DEF Filled
<1>12. \A c \in 1..MaxCalls :
          \/ calls'[c] = calls[c]
          \/ CallOK(calls'[c]) /\ Owned(calls'[c], tab, shown) /\ calls'[c].reads # "heal"
  <2> SUFFICES ASSUME NEW c \in 1..MaxCalls
               PROVE \/ calls'[c] = calls[c]
                     \/ CallOK(calls'[c]) /\ Owned(calls'[c], tab, shown) /\ calls'[c].reads # "heal"
    OBVIOUS
  <2>1. CASE calls'[c] = answered[c]
    BY <1>5, <1>6, <2>1
  <2>2. CASE \E i \in 1..Len(new) : calls'[c] = new[i]
    BY <1>9, <1>10, <2>2
  <2> QED BY <1>11, <2>1, <2>2
<1>13. TypeInv'
  <2>1. CallsOK'
    BY <1>1, <1>3, <1>11, <1>12, CallsKept
  <2>2. Belongs(tab, shown', running', busy') /\ ShownOK'
    BY <1>1, Facts DEF Belongs, ShownOK
  <2>3. running' \in BOOLEAN /\ apart' \in BOOLEAN /\ slipped' \in BOOLEAN /\ IsKernel(kernel') /\ tab' = tab
    BY <1>1, <1>4, <1>a, Facts
  <2> QED BY <2>1, <2>2, <2>3, Facts, TypeKept
<1>14. HealInv'
  <2>1. \A c \in 1..MaxCalls : calls'[c].reads = "heal" => calls'[c] = calls[c]
    BY <1>12
  <2> QED BY <1>1, <1>3, <1>4, <2>1, Facts, HealKept
<1> QED BY <1>13, <1>14 DEF IInv

\* Which panels a tab reads when it is mounted, each its own.
LEMMA MountReads ==
    ASSUME NEW t \in Tabs
    PROVE  /\ Len(ReadsOnMount(t)) \in Nat
           /\ \A i \in 1..Len(ReadsOnMount(t)) :
                \E panel \in Panels :
                    /\ ReadsOnMount(t)[i] = Load(panel) /\ TabOf("load", panel) = t /\ panel # "card"
                    /\ panel = "heal" => Len(ReadsOnMount(t)) = 1
<1> DEFINE r == ReadsOnMount(t)
<1>1. CASE t = "modify"
  <2>1. r = <<Load("gates"), Load("proposals")>>
    BY <1>1 DEF ReadsOnMount
  <2> HIDE DEF r
  <2>2. Len(r) = 2 /\ r[1] = Load("gates") /\ r[2] = Load("proposals")
    BY <2>1
  <2>3. /\ "gates" \in Panels /\ TabOf("load", "gates") = "modify"
        /\ "proposals" \in Panels /\ TabOf("load", "proposals") = "modify"
    BY DEF Panels, TabOf
  <2>4. \A i \in 1..Len(r) : i = 1 \/ i = 2
    BY <2>2
  <2>5. \A i \in 1..Len(r) :
           \E panel \in Panels : /\ r[i] = Load(panel) /\ TabOf("load", panel) = t /\ panel # "card"
                                 /\ panel = "heal" => Len(r) = 1
    BY <1>1, <2>2, <2>3, <2>4
  <2> QED BY <2>2, <2>5 DEF r
<1>2. ASSUME NEW panel \in {"settings", "heal"}, r = <<Load(panel)>>, TabOf("load", panel) = t
      PROVE  /\ Len(r) \in Nat
             /\ \A i \in 1..Len(r) :
                  \E q \in Panels : /\ r[i] = Load(q) /\ TabOf("load", q) = t /\ q # "card"
                                    /\ q = "heal" => Len(r) = 1
  <2> HIDE DEF r
  <2>1. Len(r) = 1 /\ r[1] = Load(panel) /\ panel \in Panels
    BY <1>2 DEF Panels
  <2>2. \A i \in 1..Len(r) : i = 1
    BY <2>1
  <2> QED BY <1>2, <2>1, <2>2
<1>3. CASE t = "settings"
  <2>1. r = <<Load("settings")>> /\ TabOf("load", "settings") = t
    BY <1>3 DEF ReadsOnMount, TabOf
  <2> HIDE DEF r
  <2> QED BY <1>2, <2>1 DEF r
<1>4. CASE t = "errors"
  <2>1. r = <<Load("heal")>> /\ TabOf("load", "heal") = t
    BY <1>4 DEF ReadsOnMount, TabOf
  <2> HIDE DEF r
  <2> QED BY <1>2, <2>1 DEF r
<1>5. CASE t = "other"
  <2>1. r = <<>>
    BY <1>5 DEF ReadsOnMount
  <2> HIDE DEF r
  <2>2. Len(r) = 0
    BY <2>1
  <2> QED BY <2>2 DEF r
<1> QED BY <1>1, <1>3, <1>4, <1>5 DEF Tabs

\* A tab is left and another mounted: the operations go on unheard, the reads
\* of the new tab start.
LEMMA SelectTabKept ==
    ASSUME IInv, NEW t \in Tabs, SelectTab(t) PROVE IInv'
<1> DEFINE new == ReadsOnMount(t)
           slots == LeftCalls
<1>1. /\ tab' = t /\ shown' = Blank /\ busy' = {} /\ kernel' = kernel
      /\ calls' = Launched(slots, new)
  BY DEF SelectTab
<1>2. /\ running' = (t = "modify" /\ kernel.task)
      /\ apart' = ({c \in DOMAIN calls : LeftCalls[c] # Idle} # {})
      /\ slipped' = (slipped \/ \E c \in UnderWay : calls[c].fn = "selfheal")
  BY DEF SelectTab
<1>3. /\ running' \in BOOLEAN /\ apart' \in BOOLEAN /\ slipped' \in BOOLEAN
      /\ running' => t = "modify"
  BY <1>2, Zenon
<1>4. ~ slipped' => ~ slipped /\ ~ \E c \in UnderWay : calls[c].fn = "selfheal"
  BY <1>2, Zenon
<1>5. /\ IsKernel(kernel) /\ CallsOK /\ DOMAIN calls = 1..MaxCalls
      /\ \A c \in 1..MaxCalls : CallOK(calls[c])
  BY Facts DEF CallsOK
<1>6. /\ DOMAIN slots = 1..MaxCalls
      /\ \A c \in 1..MaxCalls :
           slots[c] = IF calls[c].ops = <<>> THEN Idle ELSE [calls[c] EXCEPT !.live = FALSE]
  BY <1>5 DEF LeftCalls
<1> HIDE DEF slots
<1>7. ASSUME NEW c \in 1..MaxCalls
      PROVE  /\ CallOK(slots[c]) /\ \A s : Owned(slots[c], t, s)
             /\ slots[c].reads = "heal" => calls[c].ops # <<>> /\ calls[c].reads = "heal"
  <2>1. CASE calls[c].ops = <<>>
    <3>1. slots[c] = Idle
      BY <1>6, <2>1
    <3> QED BY <3>1, IdleOK
  <2>2. CASE calls[c].ops # <<>>
    <3> DEFINE d == [calls[c] EXCEPT !.live = FALSE]
    <3>1. DOMAIN calls[c] = Fields /\ slots[c] = d
      BY <1>5, <1>6, <2>2 DEF CallOK
    <3>2. /\ DOMAIN d = Fields /\ d.fn = calls[c].fn /\ d.ops = calls[c].ops
          /\ d.reads = calls[c].reads /\ d.saw = calls[c].saw
      BY <3>1 DEF Fields
    <3>3. d.live = FALSE
      BY <3>1 DEF Fields
    <3>4. ~ d.live /\ d.live \in BOOLEAN
      BY <3>3, Zenon
    <3> HIDE DEF d
    <3>5. CallOK(d) /\ \A s : Owned(d, t, s)
      BY <1>5, <2>2, <3>2, <3>4 DEF CallOK, Owned
    <3> QED BY <2>2, <3>1, <3>2, <3>5
  <2> QED BY <2>1, <2>2
<1>8. /\ Len(new) \in Nat
      /\ \A i \in 1..Len(new) :
           \E panel \in Panels :
              /\ new[i] = Load(panel) /\ TabOf("load", panel) = t /\ panel # "card"
              /\ panel = "heal" => Len(new) = 1
  BY MountReads
<1> HIDE DEF new
<1>9. /\ DOMAIN calls' = 1..MaxCalls
      /\ \A c \in 1..MaxCalls :
           \/ calls'[c] = slots[c]
           \/ slots[c] = Idle /\ \E i \in 1..Len(new) : calls'[c] = new[i]
      /\ Len(new) = 1 =>
           \A c, d \in 1..MaxCalls : calls'[c] # slots[c] /\ calls'[d] # slots[d] => c = d
  <2>1. DOMAIN slots = 1..MaxCalls /\ Len(new) \in Nat
    BY <1>6, <1>8
  <2>2. Filled(slots, new, Launched(slots, new))
    BY <2>1, LaunchedCalls
  <2>3. Filled(slots, new, calls')
    BY <1>1, <2>2
  <2> QED BY <2>3 DEF Filled
<1>10. ASSUME NEW c \in 1..MaxCalls
       PROVE \/ calls'[c] = slots[c]
             \/ \E panel \in Panels :
                   /\ calls'[c] = Load(panel) /\ TabOf("load", panel) = t /\ panel # "card"
                   /\ panel = "heal" => Len(new) = 1
  <2>1. CASE calls'[c] = slots[c]
    BY <2>1
  <2>2. ASSUME NEW i \in 1..Len(new), calls'[c] = new[i]
        PROVE  \E panel \in Panels :
                  /\ calls'[c] = Load(panel) /\ TabOf("load", panel) = t /\ panel # "card"
                  /\ panel = "heal" => Len(new) = 1
    BY <1>8, <2>2
  <2> QED BY <1>9, <2>1, <2>2
<1>11. ShownOK' /\ Belongs(tab', shown', running', busy') /\ shown'.heal = <<>>
  <2>1. /\ DOMAIN shown' = {"gates", "proposals", "draft", "card", "list", "heal"}
        /\ shown'.gates = <<>> /\ shown'.proposals = <<>> /\ shown'.draft = <<>>
        /\ shown'.card = <<>> /\ shown'.heal = <<>>
    BY <1>1 DEF Blank
  <2> QED BY <1>1, <1>3, <2>1 DEF ShownOK, Belongs
<1>12. CallsOK'
  <2>1. ASSUME NEW c \in 1..MaxCalls PROVE CallOK(calls'[c]) /\ Owned(calls'[c], t, shown')
    <3>1. CASE calls'[c] = slots[c]
      BY <1>7, <3>1
    <3>2. ASSUME NEW panel \in Panels, calls'[c] = Load(panel), TabOf("load", panel) = t, panel # "card"
          PROVE  CallOK(calls'[c]) /\ Owned(calls'[c], t, shown')
      <4>1. CallOK(calls'[c])
        BY <3>2, LoadOK
      <4>2. calls'[c].fn = "load" /\ calls'[c].reads = panel
        BY <3>2, NewLoad
      <4> QED BY <3>2, <4>1, <4>2 DEF Owned
    <3> QED BY <1>10, <3>1, <3>2
  <2> QED BY <1>1, <1>9, <2>1 DEF CallsOK
<1>13. TypeInv'
  <2>1. TypeOK'
    <3>1. IsKernel(kernel') /\ tab' \in Tabs
      BY <1>1, <1>5
    <3> QED BY <1>3, <1>11, <3>1, TypeParts, Zenon
  <2> QED BY <1>11, <1>12, <2>1 DEF TypeInv
<1>14. HealInv'
  <2> SUFFICES ASSUME ~ slipped' PROVE HealInv'
    BY DEF HealInv
  <2>1. HealersOK /\ Cardinality(SelfHealing(kernel)) <= 1
    BY <1>4, Facts DEF HealInv
  <2>2. ASSUME NEW c \in 1..MaxCalls, slots[c].reads = "heal" PROVE FALSE
    <3>1. calls[c].ops # <<>> /\ calls[c].reads = "heal"
      BY <1>7, <2>2
    <3>2. calls[c].fn = "selfheal"
      BY <2>1, <3>1 DEF HealersOK, HealerOK, Healers
    <3>3. c \in UnderWay
      BY <1>5, <3>1, IdleOK DEF UnderWay
    <3> QED BY <1>4, <3>2, <3>3
  <2>3. \A c \in 1..MaxCalls :
           calls'[c].reads = "heal" =>
              calls'[c] # slots[c] /\ Len(new) = 1 /\ calls'[c] = Load("heal")
    <3> SUFFICES ASSUME NEW c \in 1..MaxCalls, calls'[c].reads = "heal"
                 PROVE calls'[c] # slots[c] /\ Len(new) = 1 /\ calls'[c] = Load("heal")
      OBVIOUS
    <3>1. calls'[c] # slots[c]
      BY <2>2
    <3>2. PICK panel \in Panels : calls'[c] = Load(panel) /\ (panel = "heal" => Len(new) = 1)
      BY <1>10, <3>1
    <3>3. panel = "heal"
      BY <3>2, NewLoad
    <3> QED BY <3>1, <3>2, <3>3
  <2>4. HealersOK'
    <3>1. \A c, d \in Healers(calls') : c = d
      BY <1>9, <2>3 DEF Healers
    <3>2. Load("heal").fn = "load" /\ Load("heal").ops = <<>> /\ Load("heal").saw = <<>>
      BY NewLoad
    <3>3. \A c \in Healers(calls') : HealerOK(calls'[c], shown', busy') /\ HealerKnows(calls'[c], kernel')
      BY <1>11, <2>3, <3>2 DEF Healers, HealerOK, HealerKnows
    <3> QED BY <3>1, <3>3 DEF HealersOK
  <2>5. HealShown'
    BY <1>11 DEF HealShown
  <2> QED BY <1>1, <2>1, <2>4, <2>5 DEF HealInv
<1> QED BY <1>13, <1>14 DEF IInv

\* What the switch asks for: a new trigger only when it shows none.
LEMMA HealOpsOK ==
    ASSUME NEW heal
    PROVE  /\ OpsOK("selfheal", HealOps(heal))
           /\ HealOps(heal) # <<>> /\ IsHeal(HealOps(heal)[1]) => heal.trigger = 0
<1> DEFINE off == Op("toggle", heal.trigger, FALSE)
           on == Op("toggle", heal.trigger, TRUE)
           make == Op("new", "error_spike", TRUE)
           master == Op("patch", "automation", TRUE)
           first == CASE heal.trigger = 0 -> <<make>>
                      [] heal.trigger # 0 /\ ~ heal.armed -> <<on>>
                      [] OTHER -> <<>>
           second == IF heal.automation THEN <<>> ELSE <<master>>
<1>1. /\ OpOK("selfheal", off) /\ OpOK("selfheal", on)
      /\ OpOK("selfheal", make) /\ OpOK("selfheal", master)
  BY DEF Op, OpOK, IsHeal, Kinds, Keys
<1>2. ~ IsHeal(off) /\ ~ IsHeal(on) /\ ~ IsHeal(master)
  BY DEF Op, IsHeal
<1>3. HealOps(heal) = <<off>> \/ HealOps(heal) = first \o second
  BY DEF HealOps, IsOn
<1>4. \/ heal.trigger = 0 /\ first = <<make>>
      \/ first = <<on>> \/ first = <<>>
  BY Zenon
<1>5. second = <<>> \/ second = <<master>>
  BY Zenon
<1> HIDE DEF off, on, make, master, first, second
<1>6. \A a, b : <<a>> \o <<b>> = <<a, b>> /\ <<a>> \o <<>> = <<a>> /\ <<>> \o <<b>> = <<b>>
  <2> SUFFICES ASSUME NEW a, NEW b
               PROVE <<a>> \o <<b>> = <<a, b>> /\ <<a>> \o <<>> = <<a>> /\ <<>> \o <<b>> = <<b>>
    OBVIOUS
  <2>1. <<a>> \o <<b>> = <<a, b>>
    <3> DEFINE s == <<a>>
               t == <<b>>
               u == <<a, b>>
               S == {a, b}
    <3>1. /\ s \in Seq(S) /\ t \in Seq(S) /\ u \in Seq(S)
          /\ Len(s) = 1 /\ Len(t) = 1 /\ Len(u) = 2
          /\ s[1] = a /\ t[1] = b /\ u[1] = a /\ u[2] = b
      OBVIOUS
    <3> HIDE DEF s, t, u, S
    <3>2. s \o t \in Seq(S) /\ Len(s \o t) = 2 /\ (s \o t)[1] = a /\ (s \o t)[2] = b
      <4>1. s \in Seq(S) /\ t \in Seq(S)
        BY <3>1
      <4>2. /\ s \o t \in Seq(S) /\ Len(s \o t) = Len(s) + Len(t)
            /\ \A i \in 1..(Len(s) + Len(t)) :
                 (s \o t)[i] = IF i <= Len(s) THEN s[i] ELSE t[i - Len(s)]
        BY <4>1, ConcatProperties
      <4> QED BY <3>1, <4>2
    <3> DEFINE v == s \o t
    <3> HIDE DEF v
    <3>3. v \in Seq(S) /\ Len(v) = 2 /\ v[1] = u[1] /\ v[2] = u[2]
      BY <3>1, <3>2 DEF v
    <3>4. \A i \in 1..2 : v[i] = u[i]
      BY <3>3
    <3>5. v = u
      BY <3>1, <3>3, <3>4
    <3> QED BY <3>5 DEF v, s, t, u
  <2>2. <<a>> \o <<>> = <<a>>
    OBVIOUS
  <2>3. <<>> \o <<b>> = <<b>>
    OBVIOUS
  <2> QED BY <2>1, <2>2, <2>3
<1>7. <<>> \o <<>> = <<>>
  OBVIOUS
<1>8. ASSUME NEW a, OpOK("selfheal", a), HealOps(heal) = <<a>>, IsHeal(a) => heal.trigger = 0
      PROVE  /\ OpsOK("selfheal", HealOps(heal))
             /\ HealOps(heal) # <<>> /\ IsHeal(HealOps(heal)[1]) => heal.trigger = 0
  <2> DEFINE h == HealOps(heal)
  <2>1. h = <<a>>
    BY <1>8
  <2> HIDE DEF h
  <2>2. h[1] = a
    BY <2>1
  <2>3. h = <<h[1]>> /\ OpOK("selfheal", h[1])
    BY <1>8, <2>1, <2>2, Zenon
  <2>4. OpsOK("selfheal", h)
    BY <2>3, Zenon DEF OpsOK
  <2>5. IsHeal(h[1]) => heal.trigger = 0
    BY <1>8, <2>2, Zenon
  <2> QED BY <2>4, <2>5, Zenon DEF h
<1>9. ASSUME NEW a, OpOK("selfheal", a), HealOps(heal) = <<a, master>>, IsHeal(a) => heal.trigger = 0
      PROVE  /\ OpsOK("selfheal", HealOps(heal))
             /\ HealOps(heal) # <<>> /\ IsHeal(HealOps(heal)[1]) => heal.trigger = 0
  <2> DEFINE h == HealOps(heal)
  <2>1. h = <<a, master>>
    BY <1>9
  <2> HIDE DEF h
  <2>2. h[1] = a /\ h[2] = master
    BY <2>1
  <2>3. h = <<h[1], h[2]>> /\ OpOK("selfheal", h[1]) /\ OpOK("selfheal", h[2]) /\ ~ IsHeal(h[2])
    BY <1>1, <1>2, <1>9, <2>1, <2>2, Zenon
  <2>4. OpsOK("selfheal", h)
    BY <2>3, Zenon DEF OpsOK
  <2>5. IsHeal(h[1]) => heal.trigger = 0
    BY <1>9, <2>2, Zenon
  <2> QED BY <2>4, <2>5, Zenon DEF h
<1>10. ASSUME HealOps(heal) = <<>>
       PROVE  /\ OpsOK("selfheal", HealOps(heal))
              /\ HealOps(heal) # <<>> /\ IsHeal(HealOps(heal)[1]) => heal.trigger = 0
  BY <1>10, Zenon DEF OpsOK
<1>11. CASE HealOps(heal) = <<off>>
  BY <1>1, <1>2, <1>8, <1>11
<1>12. CASE HealOps(heal) = first \o second
  <2>1. CASE heal.trigger = 0 /\ first = <<make>>
    <3>1. HealOps(heal) = <<make>> \/ HealOps(heal) = <<make, master>>
      BY <1>5, <1>6, <1>12, <2>1, Zenon
    <3> QED BY <1>1, <1>8, <1>9, <2>1, <3>1, Zenon
  <2>2. CASE first = <<on>>
    <3>1. HealOps(heal) = <<on>> \/ HealOps(heal) = <<on, master>>
      BY <1>5, <1>6, <1>12, <2>2, Zenon
    <3> QED BY <1>1, <1>2, <1>8, <1>9, <3>1, Zenon
  <2>3. CASE first = <<>>
    <3>1. HealOps(heal) = <<>> \/ HealOps(heal) = <<master>>
      BY <1>5, <1>6, <1>7, <1>12, <2>3, Zenon
    <3> QED BY <1>1, <1>2, <1>8, <1>10, <3>1, Zenon
  <2> QED BY <1>4, <2>1, <2>2, <2>3
<1> QED BY <1>3, <1>11, <1>12

\* The switch is clicked: none of its calls is under way, and a new trigger is
\* asked for only if there is none.
LEMMA ToggleSelfhealKept ==
    ASSUME IInv, ToggleSelfheal PROVE IInv'
<1> DEFINE ops == HealOps(shown.heal[1])
           p == Post("selfheal", ops, "heal")
<1>1. /\ shown.heal # <<>> /\ "heal" \notin busy /\ busy' = busy \cup {"heal"} /\ Launch(<<p>>)
      /\ UNCHANGED <<kernel, tab, shown, running, slipped>>
  BY DEF ToggleSelfheal, MayHeal
<1>2. OpsOK("selfheal", ops) /\ (ops # <<>> /\ IsHeal(ops[1]) => shown.heal[1].trigger = 0)
  BY HealOpsOK
<1> HIDE DEF ops
<1>3. /\ DOMAIN p = Fields /\ p.fn = "selfheal" /\ p.ops = ops /\ p.reads = "heal" /\ p.saw = <<>>
      /\ p.live
  BY NewCall
<1>4. p.live \in BOOLEAN
  BY DEF Post, Idle
<1>5. tab = "errors"
  BY <1>1, Facts DEF Belongs
<1> HIDE DEF p
<1>6. CallOK(p) /\ Owned(p, tab, shown)
  BY <1>2, <1>3, <1>4, <1>5 DEF CallOK, ReadBy, Owned, TabOf
<1>7. IsKernel(kernel) /\ CallsOK
  BY Facts
<1>8. /\ DOMAIN calls' = 1..MaxCalls
      /\ \A c \in 1..MaxCalls : calls'[c] = calls[c] \/ calls'[c] = p
      /\ \A c, d \in 1..MaxCalls : calls'[c] # calls[c] /\ calls'[d] # calls[d] => c = d
      /\ apart' \in BOOLEAN
  BY <1>1, <1>7, LaunchedOne
<1>9. TypeInv'
  <2>1. CallsOK'
    BY <1>1, <1>6, <1>7, <1>8, CallsKept
  <2>2. Belongs(tab, shown', running', busy') /\ ShownOK'
    BY <1>1, <1>5, Facts DEF Belongs, ShownOK, Flags
  <2>3. running' \in BOOLEAN /\ slipped' \in BOOLEAN /\ IsKernel(kernel') /\ tab' = tab
    BY <1>1, Facts
  <2> QED BY <1>8, <2>1, <2>2, <2>3, Facts, TypeKept
<1>10. HealInv'
  <2> SUFFICES ASSUME ~ slipped' PROVE HealInv'
    BY DEF HealInv
  <2>1. HealersOK /\ HealShown /\ Cardinality(SelfHealing(kernel)) <= 1
    BY <1>1, Facts DEF HealInv
  <2>2. \A c \in 1..MaxCalls : calls[c].reads # "heal"
    BY <1>1, <2>1 DEF HealersOK, HealerOK, Healers
  <2>3. \A c \in Healers(calls') : calls'[c] = p /\ calls'[c] # calls[c]
    BY <1>8, <2>2 DEF Healers
  <2>4. HealerOK(p, shown', busy')
    BY <1>1, <1>3 DEF HealerOK
  <2>5. HealerKnows(p, kernel')
    BY <1>1, <1>2, <1>3, <2>1 DEF HealerKnows, HealShown
  <2>6. HealersOK'
    <3>1. \A c, d \in Healers(calls') : c = d
      BY <1>8, <2>3 DEF Healers
    <3> QED BY <2>3, <2>4, <2>5, <3>1 DEF HealersOK
  <2>7. HealShown'
    BY <1>1 DEF HealShown
  <2> QED BY <1>1, <2>1, <2>6, <2>7 DEF HealInv
<1> QED BY <1>9, <1>10 DEF IInv

\* A step of the kernel's only.
LEMMA KernelStep ==
    ASSUME IInv, UNCHANGED <<tab, shown, running, busy, calls>>, IsKernel(kernel'),
           apart' \in BOOLEAN, slipped' \in BOOLEAN, ~ slipped' => ~ slipped,
           SelfHealing(kernel') \subseteq SelfHealing(kernel) \/ slipped'
    PROVE  IInv'
<1>1. CallsOK /\ DOMAIN calls' = 1..MaxCalls /\ IsKernel(kernel) /\ HealInv
  BY Facts DEF CallsOK
<1>2. CallsOK'
  BY <1>1, CallsKept
<1>3. Belongs(tab, shown', running', busy') /\ ShownOK' /\ running' \in BOOLEAN
  BY Facts DEF Belongs, ShownOK
<1>4. TypeInv'
  BY <1>2, <1>3, Facts, TypeKept
<1>5. HealInv'
  BY <1>1, HealKept
<1> QED BY <1>4, <1>5 DEF IInv

\* Another client: a trigger it saves counts as a slip.
LEMMA OthersKept ==
    ASSUME IInv, Others PROVE IInv'
<1>1. /\ UNCHANGED <<tab, shown, running, busy, calls>>
      /\ kernel' = Synced(kernel) \/ \E op \in OtherOps : kernel' \in Effects(kernel, op)
  BY DEF Others
<1>2. apart' = TRUE /\ slipped' = (slipped \/ kernel'.triggers # kernel.triggers)
  BY Zenon DEF Others
<1>3. /\ apart' \in BOOLEAN /\ slipped' \in BOOLEAN
      /\ ~ slipped' => ~ slipped /\ kernel'.triggers = kernel.triggers
  BY <1>2, Zenon
<1>4. ASSUME NEW op \in OtherOps PROVE OpOK("selfheal", op)
  <2>1. ASSUME NEW key \in Keys, NEW on \in BOOLEAN, op = Op("patch", key, on)
        PROVE OpOK("selfheal", op)
    BY <2>1 DEF Op, OpOK, IsHeal
  <2>2. CASE op = Op("new", "error_spike", TRUE)
    BY <2>2 DEF Op, OpOK, Kinds
  <2>3. ASSUME NEW n \in DOMAIN kernel.triggers, NEW on \in BOOLEAN, op = Op("toggle", n, on)
        PROVE OpOK("selfheal", op)
    BY <2>3 DEF Op, OpOK, IsHeal
  <2>4. ASSUME NEW n, op = Op("delete", n, TRUE) PROVE OpOK("selfheal", op)
    BY <2>4 DEF Op, OpOK, IsHeal
  <2>5. ASSUME NEW n \in Proposals, op = Op("dismiss", n, TRUE) PROVE OpOK("selfheal", op)
    BY <2>5 DEF Op, OpOK, IsHeal
  <2>6. \/ \E key \in Keys, on \in BOOLEAN : op = Op("patch", key, on)
        \/ op = Op("new", "error_spike", TRUE)
        \/ \E n \in DOMAIN kernel.triggers, on \in BOOLEAN : op = Op("toggle", n, on)
        \/ \E n \in DOMAIN kernel.triggers : op = Op("delete", n, TRUE)
        \/ \E n \in Proposals : op = Op("dismiss", n, TRUE)
    <3> DEFINE A == {Op("patch", key, on) : key \in Keys, on \in BOOLEAN}
               B == {Op("toggle", n, on) : n \in DOMAIN kernel.triggers, on \in BOOLEAN}
               C == {Op("delete", n, TRUE) : n \in DOMAIN kernel.triggers}
               D == {Op("dismiss", n, TRUE) : n \in Proposals}
    <3>1. op \in A => \E key \in Keys, on \in BOOLEAN : op = Op("patch", key, on)
      OBVIOUS
    <3>2. op \in B => \E n \in DOMAIN kernel.triggers, on \in BOOLEAN : op = Op("toggle", n, on)
      OBVIOUS
    <3>3. op \in C => \E n \in DOMAIN kernel.triggers : op = Op("delete", n, TRUE)
      BY Zenon
    <3>4. op \in D => \E n \in Proposals : op = Op("dismiss", n, TRUE)
      BY Zenon
    <3>5. op \in A \cup {Op("new", "error_spike", TRUE)} \cup B \cup C \cup D
      <4>1. OtherOps = A \cup {Op("new", "error_spike", TRUE)} \cup B \cup C \cup D
        BY DEF OtherOps
      <4> HIDE DEF A, B, C, D
      <4> QED BY <4>1
    <3> HIDE DEF A, B, C, D
    <3> QED BY <3>1, <3>2, <3>3, <3>4, <3>5, Zenon
  <2> QED BY <2>1, <2>2, <2>3, <2>4, <2>5, <2>6, Zenon
<1>5. IsKernel(kernel')
  <2>1. IsKernel(kernel)
    BY Facts
  <2> QED BY <1>1, <1>4, <2>1, EffectTyped, SyncedTyped
<1>6. SelfHealing(kernel') \subseteq SelfHealing(kernel) \/ slipped'
  BY <1>3 DEF SelfHealing
<1> QED BY <1>1, <1>3, <1>5, <1>6, KernelStep

\* A one-shot fires: its trigger stays what it is.
LEMMA FiresKept ==
    ASSUME IInv, Fires PROVE IInv'
<1>1. PICK n \in DOMAIN kernel.triggers : kernel' = [kernel EXCEPT !.triggers[n] = Recorded(@, 0, 1)]
  BY DEF Fires
<1>2. apart' = TRUE /\ UNCHANGED <<tab, shown, running, busy, calls, slipped>>
  BY DEF Fires
<1>3. IsKernel(kernel) /\ \A m \in DOMAIN kernel.triggers : kernel.triggers[m] \in Entries
  BY Facts DEF IsKernel
<1> DEFINE r == Recorded(kernel.triggers[n], 0, 1)
           ts == [kernel.triggers EXCEPT ![n] = r]
<1>4. r \in Entries /\ r.kind = kernel.triggers[n].kind
  BY <1>3, RecordedTyped
<1>5. kernel' = [kernel EXCEPT !.triggers = ts]
  BY <1>1
<1> HIDE DEF r
<1>6. /\ DOMAIN ts \subseteq DOMAIN kernel.triggers
      /\ \A m \in DOMAIN ts : ts[m] \in Entries /\ ts[m].kind = kernel.triggers[m].kind
  BY <1>3, <1>4
<1> HIDE DEF ts
<1>7. IsKernel(kernel') /\ SelfHealing(kernel') \subseteq SelfHealing(kernel)
  BY <1>3, <1>5, <1>6, TriggersTyped
<1>8. apart' \in BOOLEAN /\ slipped' \in BOOLEAN /\ (~ slipped' => ~ slipped)
  BY <1>2, Facts
<1> QED BY <1>2, <1>7, <1>8, KernelStep

\* A session starts with no tab that shows anything.
LEMMA InitOK == Init => IInv
<1> SUFFICES ASSUME Init PROVE IInv
  OBVIOUS
<1>1. /\ kernel \in Starts /\ tab = "other" /\ shown = Blank /\ running = FALSE /\ busy = {}
      /\ calls = [c \in 1..MaxCalls |-> Idle] /\ apart = FALSE /\ slipped = FALSE
  BY DEF Init
<1>2. IsKernel(kernel) /\ Cardinality(SelfHealing(kernel)) <= 1
  BY <1>1, StartsAssumption
<1>3. /\ DOMAIN shown = {"gates", "proposals", "draft", "card", "list", "heal"}
      /\ shown.gates = <<>> /\ shown.proposals = <<>> /\ shown.draft = <<>>
      /\ shown.card = <<>> /\ shown.heal = <<>>
  BY <1>1 DEF Blank
<1>4. CallsOK
  BY <1>1, IdleOK DEF CallsOK
<1>5. ShownOK
  BY <1>3 DEF ShownOK
<1>6. TypeOK
  <2>1. tab \in Tabs /\ running \in BOOLEAN /\ apart \in BOOLEAN /\ slipped \in BOOLEAN
    BY <1>1 DEF Tabs
  <2>2. ~ running
    BY <1>1
  <2>3. Belongs(tab, shown, running, busy)
    BY <1>1, <1>3, <2>2 DEF Belongs
  <2> QED BY <1>2, <2>1, <2>3, TypeParts, Zenon
<1>7. HealInv
  <2>1. Healers(calls) = {}
    BY <1>1, IdleOK DEF Healers
  <2> QED BY <1>2, <1>3, <2>1 DEF HealInv, HealersOK, HealShown
<1> QED BY <1>4, <1>5, <1>6, <1>7 DEF IInv, TypeInv

\* The invariant is kept by every step.
LEMMA StepOK == IInv /\ [Next]_vars => IInv'
<1> SUFFICES ASSUME IInv, [Next]_vars PROVE IInv'
  OBVIOUS
<1>1. ASSUME NEW c \in 1..MaxCalls, Progress(c) \/ Lose(c) PROVE IInv'
  BY <1>1, ServeKept, AnswerKept, PostArrivesKept, GetArrivesKept, LoseKept DEF Progress
<1>2. ASSUME NEW t \in Tabs, SelectTab(t) PROVE IInv'
  BY <1>2, SelectTabKept
<1>3. CASE Modify
  BY <1>3, ToggleGateKept, SwitchEngineKept, AnalyzeKept, ActOnProposalKept, RunProposalKept DEF Modify
<1>4. CASE Settings
  BY <1>4, EditDraftKept, SaveSettingsKept, SaveTriggerKept, PatchConfigKept, ActOnTriggerKept
     DEF Settings
<1>5. CASE ToggleSelfheal
  BY <1>5, ToggleSelfhealKept
<1>6. CASE TaskEnds
  BY <1>6, TaskEndsKept
<1>7. CASE Others
  BY <1>7, OthersKept
<1>8. CASE Fires
  BY <1>8, FiresKept
<1>9. CASE UNCHANGED vars
  <2>1. UNCHANGED <<tab, shown, running, busy, calls>> /\ kernel' = kernel /\ apart' = apart /\ slipped' = slipped
    BY <1>9 DEF vars
  <2>2. /\ IsKernel(kernel') /\ apart' \in BOOLEAN /\ slipped' \in BOOLEAN /\ (~ slipped' => ~ slipped)
        /\ SelfHealing(kernel') \subseteq SelfHealing(kernel)
    BY <2>1, Facts
  <2> QED BY <2>1, <2>2, KernelStep
<1> QED BY <1>1, <1>2, <1>3, <1>4, <1>5, <1>6, <1>7, <1>8, <1>9 DEF Next

THEOREM Invariant == Spec => []IInv
  BY InitOK, StepOK, PTL DEF Spec

\* What a panel shows, and the flags that disable its buttons, belong to the tab
\* that is mounted, for every number of calls under way (the unmounting of a tab
\* in App.jsx and the guards of its panels).
THEOREM TypeCorrect == Spec => []TypeOK
<1>1. IInv => TypeOK
  BY DEF IInv, TypeInv
<1> QED BY Invariant, <1>1, PTL

\* The switch of the Errors tab makes no second self-healing trigger, however its
\* clicks, the answers and the visits of the tab interleave (toggleSelfheal).
THEOREM OneSelfHealCorrect == Spec => []OneSelfHeal
<1>1. IInv => OneSelfHeal
  BY DEF IInv, HealInv, OneSelfHeal
<1> QED BY Invariant, <1>1, PTL
-----------------------------------------------------------------------------
(* What the panels show.                                                    *)

\* The panels of a tab that are to agree with the kernel.
PanelsOf(t) ==
    CASE t = "modify" -> {"gates", "proposals"}
      [] t = "settings" -> {"card"}
      [] t = "errors" -> {"heal"}
      [] OTHER -> {}

\* A panel as the tab shows it, and as it is in the kernel.
Part(panel, s) ==
    CASE panel = "gates" -> s.gates
      [] panel = "proposals" -> s.proposals
      [] panel = "card" -> <<s.card, s.list>>
      [] panel = "heal" -> s.heal
      [] OTHER -> <<>>

View(panel, k) ==
    CASE panel = "gates" -> <<GatesOf(k)>>
      [] panel = "proposals" -> <<StatusesOf(k)>>
      [] panel = "card" -> << <<CardOf(k)>>, ListOf(k)>>
      [] panel = "heal" -> <<HealOf(k)>>
      [] OTHER -> <<>>

\* After a listing every schedule has its trigger, and after two of them a
\* further one finds nothing new in the triggers.
Kept(k) ==
    \A p \in Proposals : k.proposals[p].status = "scheduled" => k.proposals[p].trigger \in DOMAIN k.triggers

Settled(k) == Reconciled(k.proposals, k.triggers) = k.proposals

ShowsTrue(panel, s, k) ==
    Part(panel, s) = View(panel, k) /\ (panel = "proposals" => Kept(k))

\* The answer a read is under way with still holds.
SawTrue(call, k) ==
    call.ops = <<>> /\ call.saw # <<>> =>
        /\ View(call.reads, call.saw[1]) = View(call.reads, k)
        /\ call.reads = "proposals" => Kept(k)

\* A call that will read a panel, whatever becomes of its request.
Rereads(call, panel) ==
    \/ call.reads = panel /\ (call.fn = "trigger" /\ call.ops # <<>> => call.ok)
    \/ call.reads = "settings" /\ panel = "card"

\* What a request makes of the settings, if it is not refused.
Outcome(k, op, k2) ==
    /\ k2.cfg = IF op.kind = "patch" THEN [k.cfg EXCEPT ![op.arg] = op.on] ELSE k.cfg
    /\ op.kind = "patch" => k2.triggers = k.triggers /\ k2.proposals = k.proposals

Done(call, k2) ==
    [call EXCEPT !.ok = TRUE, !.saw = IF call.ops[1].kind = "run" THEN <<>> ELSE <<k2>>]

\* Once its answer arrives a panel is shown as it is, or is read.
Ends(call, panel, s, k) == Rereads(call, panel) \/ ShowsTrue(panel, Answered(s, call), k)

Goes(call, panel, s, k) ==
    /\ call.ops # <<>>
    /\ Ends(call, panel, s, k)
    /\ call.saw = <<>> /\ ~ call.ok =>
         \A k2 : Outcome(k, call.ops[1], k2) => Ends(Done(call, k2), panel, s, k2)

Tracked(panel) ==
    \/ \E c \in UnderWay : Rereads(calls[c], panel)
    \/ \E c \in UnderWay : Goes(calls[c], panel, shown, kernel)
    \/ (\A c \in UnderWay : calls[c].ops = <<>>) /\ ShowsTrue(panel, shown, kernel)

\* A proposal's run was answered, its change having ended.
Ended(call) == call.fn = "run" /\ call.ok /\ call.saw # <<>>

\* Only the switch has two requests; until a run is served no change is under way.
Fits(call) ==
    /\ call.live
    /\ call.ops # <<>> /\ call.fn # "selfheal" => call.ops = <<call.ops[1]>>
    /\ call.ops # <<>> /\ call.fn = "run" =>
         call.ops[1].kind = "run" /\ (call.ok \/ (~ kernel.task /\ running))

\* Two calls overlap when the tab is mounted and when a run has ended.
Pairs ==
    \A c, d \in UnderWay :
        c # d => /\ tab = "modify"
                 /\ calls[c].fn \in {"load", "run"}
                 /\ calls[c].ops # <<>> => Ended(calls[c])
                 /\ calls[c].fn = calls[d].fn => calls[c].fn = "load" /\ calls[c].reads # calls[d].reads

Lists(call) == call.reads = "proposals" /\ call.ops = <<>> /\ call.saw # <<>>

Runs ==
    (\E c \in UnderWay : calls[c].fn = "run") =>
        Kept(kernel) /\ ((\E d \in UnderWay : Lists(calls[d])) => Settled(kernel))

Holds(call, b) ==
    IF b = "heal" THEN call.fn = "selfheal" ELSE b \in FlagOf(call.fn) /\ call.ops # <<>>

Agrees ==
    /\ \A c \in UnderWay : Fits(calls[c]) /\ SawTrue(calls[c], kernel)
    /\ tab = "modify" /\ kernel.task => running
    /\ Pairs
    /\ Runs
    /\ \A panel \in PanelsOf(tab) : Tracked(panel)
    /\ \A b \in busy : \E c \in UnderWay : Holds(calls[c], b)

AInv == ~ apart => Agrees
-----------------------------------------------------------------------------
\* A panel of the kernel follows from its settings, triggers and proposals.
LEMMA SameView ==
    ASSUME NEW k, NEW k2, NEW panel, k2.cfg = k.cfg,
           panel \in {"card", "heal"} => k2.triggers = k.triggers,
           panel = "proposals" => k2.proposals = k.proposals
    PROVE  View(panel, k2) = View(panel, k)
<1>1. CASE panel = "gates"
  BY <1>1 DEF View, GatesOf
<1>2. CASE panel = "proposals"
  BY <1>2 DEF View, StatusesOf
<1>3. CASE panel = "card"
  BY <1>3 DEF View, CardOf, ListOf
<1>4. CASE panel = "heal"
  <2>1. k2.cfg["automation"] = k.cfg["automation"] /\ SelfHealing(k2) = SelfHealing(k)
    BY <1>4 DEF SelfHealing
  <2>2. k2.triggers = k.triggers
    BY <1>4
  <2>3. HealOf(k2) = HealOf(k)
    BY <2>1, <2>2, Zenon DEF HealOf
  <2> QED BY <1>4, <2>3 DEF View
<1> QED BY <1>1, <1>2, <1>3, <1>4 DEF View

\* The fields of a kernel that another one was made of.
LEMMA SyncedFields ==
    ASSUME NEW k, IsKernel(k)
    PROVE  /\ Synced(k).cfg = k.cfg /\ Synced(k).triggers = k.triggers /\ Synced(k).task = k.task
           /\ Synced(k).proposals = Reconciled(k.proposals, k.triggers)
  BY DEF IsKernel, Synced

\* What one listing leaves: no schedule without its trigger; if there was none
\* before, the next listing finds nothing.
LEMMA ReconciledOnce ==
    ASSUME NEW k, IsKernel(k)
    PROVE  /\ Kept(Synced(k))
           /\ Kept(k) => Settled(Synced(k))
           /\ Settled(k) => Synced(k).proposals = k.proposals
<1> DEFINE ps == Reconciled(k.proposals, k.triggers)
           filed(p) == \E t \in DOMAIN k.triggers : k.triggers[t].kind = "advisor" /\ k.triggers[t].fired[p] # 0
           gone(p) == k.proposals[p].trigger \notin DOMAIN k.triggers
           P == [status : Status, trigger : 0..k.made]
<1>1. k.proposals \in [Proposals -> P]
  BY DEF IsKernel, Status
<1>2. /\ Synced(k).triggers = k.triggers /\ Synced(k).proposals = ps
  BY SyncedFields
<1>3. ASSUME NEW p \in Proposals
      PROVE  ps[p] = CASE k.proposals[p].status = "open" /\ filed(p) -> [k.proposals[p] EXCEPT !.status = "run"]
                       [] k.proposals[p].status = "scheduled" /\ gone(p) -> Open
                       [] k.proposals[p].status = "scheduled" /\ ~ gone(p) /\ k.triggers[k.proposals[p].trigger].day # 0
                            -> [k.proposals[p] EXCEPT !.status = "run"]
                       [] OTHER -> k.proposals[p]
  BY DEF Reconciled
<1>4. ASSUME NEW p \in Proposals
      PROVE  /\ [k.proposals[p] EXCEPT !.status = "run"].status = "run"
             /\ Open.status = "open"
  BY <1>1 DEF Open
<1> HIDE DEF ps, filed
<1>5. ASSUME NEW p \in Proposals, ps[p].status = "scheduled" PROVE ps[p] = k.proposals[p] /\ ~ gone(p)
  BY <1>3, <1>4, <1>5
<1>6. Kept(Synced(k))
  BY <1>2, <1>5 DEF Kept
<1>7. ASSUME Kept(k) PROVE Settled(Synced(k))
  <2> DEFINE qs == Reconciled(ps, k.triggers)
  <2>1. ASSUME NEW p \in Proposals
        PROVE  /\ ps[p].status = "open" => ~ filed(p)
               /\ ps[p].status = "scheduled" =>
                    ps[p].trigger \in DOMAIN k.triggers /\ k.triggers[ps[p].trigger].day = 0
    <3>1. k.proposals[p].status = "scheduled" => ~ gone(p)
      BY <1>7 DEF Kept
    <3> QED BY <1>3, <1>4, <3>1
  <2>2. ASSUME NEW p \in Proposals PROVE qs[p] = ps[p]
    BY <2>1 DEF Reconciled, filed
  <2>3. \A st : /\ DOMAIN Reconciled(st, k.triggers) = Proposals
               /\ Reconciled(st, k.triggers)
                    = [p \in DOMAIN Reconciled(st, k.triggers) |-> Reconciled(st, k.triggers)[p]]
    BY DEF Reconciled
  <2>4. /\ DOMAIN qs = Proposals /\ DOMAIN ps = Proposals
        /\ qs = [p \in DOMAIN qs |-> qs[p]] /\ ps = [p \in DOMAIN ps |-> ps[p]]
    BY <2>3, Zenon DEF ps
  <2> HIDE DEF qs
  <2>5. qs = ps
    BY <2>2, <2>4
  <2> QED BY <1>2, <2>5 DEF Settled, qs
<1>8. Settled(k) => Synced(k).proposals = k.proposals
  BY <1>2 DEF Settled, ps
<1> QED BY <1>6, <1>7, <1>8

KernelFields == {"cfg", "triggers", "made", "task", "proposals"}

\* The settings and the change under way are left alone.
Beside(k, k2) == DOMAIN k2 = KernelFields /\ k2.cfg = k.cfg /\ k2.task = k.task

LEMMA WithFields ==
    ASSUME NEW k, DOMAIN k = KernelFields, NEW p, NEW s, NEW t
    PROVE  /\ Beside(k, WithProposal(k, p, s, t))
           /\ WithProposal(k, p, s, t).triggers = k.triggers
           /\ WithProposal(k, p, s, t).proposals = [k.proposals EXCEPT ![p] = [status |-> s, trigger |-> t]]
<1> DEFINE r == [status |-> s, trigger |-> t]
           ps == [k.proposals EXCEPT ![p] = r]
           w == WithProposal(k, p, s, t)
<1>1. w = [k EXCEPT !.proposals = ps]
  BY DEF WithProposal
<1> HIDE DEF ps, w
<1>2. Beside(k, w) /\ w.triggers = k.triggers /\ w.proposals = ps
  BY <1>1 DEF KernelFields, Beside
<1> QED BY <1>2 DEF ps, w

LEMMA MadeFields ==
    ASSUME NEW k, DOMAIN k = KernelFields, NEW kind, NEW once, NEW of
    PROVE  Beside(k, Made(k, kind, once, of))
  BY DEF Made, KernelFields, Beside

\* What serves a request, by what the panels are made of.
LEMMA OutcomeOf ==
    ASSUME NEW k, IsKernel(k), NEW fn, NEW op, OpOK(fn, op), NEW k2 \in Effects(k, op)
    PROVE  /\ Outcome(k, op, k2)
           /\ op.kind # "run" => k2.task = k.task
           /\ op.kind = "run" /\ Kept(k) => Kept(k2)
<1> DEFINE x == op.arg
<1>1. DOMAIN k = KernelFields
  BY DEF IsKernel, KernelFields
<1>4. CASE op.kind = "patch"
  <2>1. k2 = [k EXCEPT !.cfg[x] = op.on]
    BY <1>4 DEF Effects
  <2>2. /\ k2.cfg = [k.cfg EXCEPT ![x] = op.on] /\ k2.task = k.task
        /\ k2.triggers = k.triggers /\ k2.proposals = k.proposals
    BY <1>1, <2>1 DEF KernelFields
  <2> QED BY <1>4, <2>2 DEF Outcome
<1>5. CASE op.kind = "new"
  <2>1. k2 = Made(k, x, FALSE, 0)
    BY <1>5 DEF Effects
  <2>2. Beside(k, k2)
    BY <1>1, <2>1, MadeFields, Zenon
  <2> QED BY <1>5, <2>2 DEF Outcome, Beside
<1>6. CASE op.kind \in {"edit", "toggle", "delete"}
  <2>1. \E ts : k2 = [k EXCEPT !.triggers = ts]
    <3>1. CASE op.kind = "edit"
      BY <3>1 DEF Effects
    <3>2. CASE op.kind = "toggle"
      BY <3>2 DEF Effects
    <3>3. CASE op.kind = "delete"
      BY <3>3 DEF Effects
    <3> QED BY <1>6, <3>1, <3>2, <3>3
  <2>2. k2.cfg = k.cfg /\ k2.task = k.task
    BY <1>1, <2>1 DEF KernelFields
  <2> QED BY <1>6, <2>2 DEF Outcome
<1>7. CASE op.kind = "analyze"
  <2>1. k2 = k \/ \E p \in Proposals : k2 = WithProposal(k, p, "open", 0)
    BY <1>7 DEF Effects
  <2>2. ASSUME NEW p PROVE Beside(k, WithProposal(k, p, "open", 0))
    BY <1>1, WithFields, Zenon
  <2>3. Beside(k, k2)
    BY <1>1, <2>1, <2>2 DEF Beside
  <2> QED BY <1>7, <2>3 DEF Outcome, Beside
<1>8. CASE op.kind = "unschedule"
  <2> DEFINE s == Synced(k)
             ts == Deleted(s.triggers, s.proposals[x].trigger)
             d == [s EXCEPT !.triggers = ts]
  <2>1. k2 = Unscheduled(s, x)
    BY <1>8 DEF Effects
  <2>2. k2 = s \/ k2 = WithProposal(d, x, "open", 0)
    BY <2>1 DEF Unscheduled
  <2>3. Beside(k, s)
    BY <1>1 DEF Synced, KernelFields, Beside
  <2> HIDE DEF s, ts
  <2>4. Beside(k, d)
    BY <2>3 DEF KernelFields, Beside
  <2> HIDE DEF d
  <2>a. DOMAIN d = KernelFields
    BY <2>4 DEF Beside
  <2>5. Beside(d, WithProposal(d, x, "open", 0))
    BY <2>a, WithFields, Zenon
  <2>6. Beside(k, k2)
    BY <2>2, <2>3, <2>4, <2>5 DEF Beside
  <2> QED BY <1>8, <2>6 DEF Outcome, Beside
<1>9. CASE op.kind = "dismiss"
  <2>1. k2 = WithProposal(k, x, "dismissed", 0)
    BY <1>9 DEF Effects
  <2>2. Beside(k, k2)
    BY <1>1, <2>1, WithFields, Zenon
  <2> QED BY <1>9, <2>2 DEF Outcome, Beside
<1>10. CASE op.kind = "run"
  <2> DEFINE w == WithProposal(k, x, "run", 0)
  <2>1. k2 = [w EXCEPT !.task = TRUE]
    BY <1>10 DEF Effects
  <2>2. /\ Beside(k, w) /\ w.triggers = k.triggers
        /\ w.proposals = [k.proposals EXCEPT ![x] = [status |-> "run", trigger |-> 0]]
    BY <1>1, WithFields
  <2> HIDE DEF w
  <2>3. k2.cfg = k.cfg /\ k2.triggers = k.triggers /\ k2.proposals = w.proposals
    BY <2>1, <2>2 DEF KernelFields, Beside
  <2>4. k.proposals \in [Proposals -> [status : Status, trigger : 0..k.made]]
    BY DEF IsKernel, Status
  <2>5. \A p \in Proposals : k2.proposals[p].status = "scheduled" => k2.proposals[p] = k.proposals[p]
    BY <2>2, <2>3, <2>4
  <2>6. Kept(k) => Kept(k2)
    BY <2>3, <2>5 DEF Kept
  <2> QED BY <1>10, <2>3, <2>6 DEF Outcome
<1>11. CASE op.kind = "schedule"
  <2> DEFINE w == Made(k, "schedule", TRUE, x)
  <2>1. k2 = WithProposal(w, x, "scheduled", k.made + 1)
    BY <1>11 DEF Effects
  <2>2. Beside(k, w)
    BY <1>1, MadeFields, Zenon
  <2> HIDE DEF w
  <2>a. DOMAIN w = KernelFields
    BY <2>2 DEF Beside
  <2>3. Beside(w, k2)
    BY <2>1, <2>a, WithFields, Zenon
  <2> QED BY <1>11, <2>2, <2>3 DEF Outcome, Beside
<1> QED BY <1>4, <1>5, <1>6, <1>7, <1>8, <1>9, <1>10, <1>11 DEF OpOK

ShownFields == {"gates", "proposals", "draft", "card", "list", "heal"}

\* What an answer makes of the panels, one by one.
LEMMA AnsweredParts ==
    ASSUME NEW s, DOMAIN s = ShownFields, NEW call
    PROVE  LET n == Answered(s, call)
               op == call.ops[1]
           IN  /\ n.proposals = s.proposals /\ n.heal = s.heal /\ n.list = s.list
               /\ n.gates = IF call.fn = "gate" /\ ~ call.ok THEN <<[s.gates[1] EXCEPT ![op.arg] = ~ op.on]>>
                            ELSE IF call.fn \in {"gate", "switch"} /\ call.ok
                            THEN <<[s.gates[1] EXCEPT !["real"] = call.saw[1].cfg["real"]]>>
                            ELSE s.gates
               /\ n.card = IF call.fn = "patch" /\ ~ call.ok THEN call.prev ELSE s.card
<1> DEFINE n == Answered(s, call)
           op == call.ops[1]
<1>1. CASE call.fn = "gate" /\ ~ call.ok
  <2>1. n = [s EXCEPT !.gates = <<[s.gates[1] EXCEPT ![op.arg] = ~ op.on]>>]
    BY <1>1 DEF Answered
  <2> QED BY <1>1, <2>1 DEF ShownFields
<1>2. CASE call.fn \in {"gate", "switch"} /\ call.ok
  <2>1. n = [s EXCEPT !.gates = <<[s.gates[1] EXCEPT !["real"] = call.saw[1].cfg["real"]]>>]
    BY <1>2 DEF Answered
  <2> QED BY <1>2, <2>1 DEF ShownFields
<1>3. CASE call.fn = "patch" /\ ~ call.ok
  <2>1. n = [s EXCEPT !.card = call.prev]
    BY <1>3 DEF Answered
  <2> QED BY <1>3, <2>1 DEF ShownFields
<1>4. CASE /\ ~ (call.fn = "gate" /\ ~ call.ok) /\ ~ (call.fn \in {"gate", "switch"} /\ call.ok)
           /\ ~ (call.fn = "patch" /\ ~ call.ok)
  <2>1. n = s
    BY <1>4, Zenon DEF Answered
  <2> QED BY <1>4, <2>1
<1> QED BY <1>1, <1>2, <1>3, <1>4

\* It makes the same of the same panel.
LEMMA AnsweredSame ==
    ASSUME NEW s, DOMAIN s = ShownFields, NEW s2, DOMAIN s2 = ShownFields, NEW panel,
           Part(panel, s2) = Part(panel, s), NEW call
    PROVE  Part(panel, Answered(s2, call)) = Part(panel, Answered(s, call))
<1>1. CASE panel = "gates"
  <2>1. s2.gates = s.gates
    BY <1>1 DEF Part
  <2> DEFINE G(g) == IF call.fn = "gate" /\ ~ call.ok THEN <<[g[1] EXCEPT ![call.ops[1].arg] = ~ call.ops[1].on]>>
                     ELSE IF call.fn \in {"gate", "switch"} /\ call.ok
                     THEN <<[g[1] EXCEPT !["real"] = call.saw[1].cfg["real"]]>>
                     ELSE g
  <2>2. Answered(s2, call).gates = G(s2.gates) /\ Answered(s, call).gates = G(s.gates)
    BY AnsweredParts, Zenon
  <2> HIDE DEF G
  <2> QED BY <1>1, <2>1, <2>2 DEF Part
<1>2. CASE panel = "proposals"
  BY <1>2, AnsweredParts DEF Part
<1>3. CASE panel = "card"
  <2>1. s2.card = s.card /\ s2.list = s.list
    BY <1>3 DEF Part
  <2> DEFINE C(x) == IF call.fn = "patch" /\ ~ call.ok THEN call.prev ELSE x
  <2>2. /\ Answered(s2, call).card = C(s2.card) /\ Answered(s2, call).list = s2.list
        /\ Answered(s, call).card = C(s.card) /\ Answered(s, call).list = s.list
    BY AnsweredParts, Zenon
  <2> HIDE DEF C
  <2> QED BY <1>3, <2>1, <2>2 DEF Part
<1>4. CASE panel = "heal"
  BY <1>4, AnsweredParts DEF Part
<1> QED BY <1>1, <1>2, <1>3, <1>4 DEF Part

\* A function that shows nothing before its answer leaves the panels.
LEMMA AnsweredNone ==
    ASSUME NEW s, NEW call, call.fn \notin {"gate", "switch", "patch"}
    PROVE  Answered(s, call) = s
  BY Zenon DEF Answered

\* A panel that was read is shown as it was; the others as they were.
LEMMA ReadParts ==
    ASSUME NEW s, DOMAIN s = ShownFields, NEW k, NEW read \in Panels, NEW panel
    PROVE  /\ DOMAIN Read(s, read, k) = ShownFields
           /\ panel = read /\ panel # "settings" => Part(panel, Read(s, read, k)) = View(panel, k)
           /\ panel # read => Part(panel, Read(s, read, k)) = Part(panel, s)
<1> DEFINE n == Read(s, read, k)
<1>1. CASE read = "gates"
  <2>1. n = [s EXCEPT !.gates = <<GatesOf(k)>>]
    BY <1>1 DEF Read
  <2> QED BY <1>1, <2>1 DEF ShownFields, Part, View
<1>2. CASE read = "proposals"
  <2>1. n = [s EXCEPT !.proposals = <<StatusesOf(k)>>]
    BY <1>2 DEF Read
  <2> QED BY <1>2, <2>1 DEF ShownFields, Part, View
<1>3. CASE read = "settings"
  <2>1. n = [s EXCEPT !.draft = <<k.cfg["real"]>>]
    BY <1>3 DEF Read
  <2> QED BY <1>3, <2>1 DEF ShownFields, Part, View
<1>4. CASE read = "card"
  <2>1. n = [s EXCEPT !.card = <<CardOf(k)>>, !.list = ListOf(k)]
    BY <1>4 DEF Read
  <2> QED BY <1>4, <2>1 DEF ShownFields, Part, View
<1>5. CASE read = "heal"
  <2>1. n = [s EXCEPT !.heal = <<HealOf(k)>>]
    BY <1>5 DEF Read
  <2> QED BY <1>5, <2>1 DEF ShownFields, Part, View
<1> QED BY <1>1, <1>2, <1>3, <1>4, <1>5 DEF Panels

\* A refused request is answered with the same whether it was served or not.
LEMMA AnsweredRefused ==
    ASSUME NEW s, DOMAIN s = ShownFields, NEW call, NEW d, ~ call.ok, ~ d.ok,
           d.fn = call.fn, d.ops = call.ops, d.prev = call.prev, NEW panel
    PROVE  Part(panel, Answered(s, d)) = Part(panel, Answered(s, call))
<1> DEFINE n == Answered(s, call)
           m == Answered(s, d)
<1>1. /\ n.proposals = s.proposals /\ n.heal = s.heal /\ n.list = s.list
      /\ n.gates = IF call.fn = "gate" THEN <<[s.gates[1] EXCEPT ![call.ops[1].arg] = ~ call.ops[1].on]>>
                   ELSE s.gates
      /\ n.card = IF call.fn = "patch" THEN call.prev ELSE s.card
  BY AnsweredParts, Zenon
<1>2. /\ m.proposals = s.proposals /\ m.heal = s.heal /\ m.list = s.list
      /\ m.gates = IF d.fn = "gate" THEN <<[s.gates[1] EXCEPT ![d.ops[1].arg] = ~ d.ops[1].on]>>
                   ELSE s.gates
      /\ m.card = IF d.fn = "patch" THEN d.prev ELSE s.card
  BY AnsweredParts, Zenon
<1> HIDE DEF n, m
<1>3. /\ m.proposals = n.proposals /\ m.heal = n.heal /\ m.list = n.list
      /\ m.gates = n.gates /\ m.card = n.card
  BY <1>1, <1>2
<1>4. Part(panel, m) = Part(panel, n)
  BY <1>3 DEF Part
<1> QED BY <1>4 DEF n, m

\* The calls under way, typed.
LEMMA CallFacts ==
    ASSUME IInv
    PROVE  /\ DOMAIN calls = 1..MaxCalls /\ UnderWay \subseteq 1..MaxCalls
           /\ \A c \in 1..MaxCalls :
                /\ CallOK(calls[c]) /\ Owned(calls[c], tab, shown)
                /\ c \in UnderWay <=> calls[c] # Idle
           /\ DOMAIN shown = ShownFields /\ IsKernel(kernel)
  BY Facts DEF CallsOK, UnderWay, ShownFields

LEMMA UnderWayNext ==
    ASSUME DOMAIN calls' = 1..MaxCalls
    PROVE  /\ UnderWay' \subseteq 1..MaxCalls
           /\ \A c \in 1..MaxCalls : c \in UnderWay' <=> calls'[c] # Idle
  BY DEF UnderWay

\* Of two calls under way neither waits for the kernel.
LEMMA Alone ==
    ASSUME IInv, Agrees, NEW c \in UnderWay, calls[c].ops # <<>>, ~ Ended(calls[c])
    PROVE  UnderWay = {c}
  BY DEF Agrees, Pairs

\* One call under way, with a request, and what it holds.
LEMMA AgreesAlone ==
    ASSUME NEW c, UnderWay' = {c}, calls'[c].ops # <<>>,
           Fits(calls[c])',
           (tab = "modify" /\ kernel.task => running)',
           calls'[c].fn = "run" => Kept(kernel'),
           \A panel \in PanelsOf(tab') :
              Rereads(calls'[c], panel) \/ Goes(calls'[c], panel, shown', kernel'),
           \A b \in busy' : Holds(calls'[c], b)
    PROVE  Agrees'
<1>1. SawTrue(calls'[c], kernel')
  BY DEF SawTrue
<1>2. Pairs'
  BY DEF Pairs
<1>3. Runs'
  BY DEF Runs, Lists
<1>4. \A panel \in PanelsOf(tab') : Tracked(panel)'
  BY DEF Tracked
<1> QED BY <1>1, <1>2, <1>3, <1>4 DEF Agrees

\* A request is refused.
LEMMA RefusedAgrees ==
    ASSUME IInv, Agrees, NEW c \in 1..MaxCalls, calls[c].ops # <<>>, calls[c].saw = <<>>, ~ calls[c].ok,
           calls' = [calls EXCEPT ![c].saw = <<kernel>>],
           UNCHANGED <<kernel, tab, shown, running, busy>>
    PROVE  Agrees'
<1> DEFINE call == calls[c]
           d == [call EXCEPT !.saw = <<kernel>>]
<1>1. /\ DOMAIN call = Fields /\ DOMAIN calls = 1..MaxCalls /\ c \in UnderWay
      /\ DOMAIN shown = ShownFields
  BY CallFacts, IdleOK DEF CallOK
<1>2. UnderWay = {c}
  BY <1>1, Alone DEF Ended
<1>3. /\ d.fn = call.fn /\ d.ops = call.ops /\ d.prev = call.prev /\ d.reads = call.reads
      /\ d.live = call.live /\ d.ok = call.ok /\ d.saw = <<kernel>>
  BY <1>1 DEF Fields
<1>4. /\ calls'[c] = d /\ DOMAIN calls' = 1..MaxCalls
      /\ \A e \in 1..MaxCalls : e # c => calls'[e] = calls[e]
  <2> HIDE DEF d
  <2>1. calls' = [calls EXCEPT ![c] = d]
    BY DEF d
  <2> QED BY <1>1, <2>1
<1> HIDE DEF d
<1>5. UnderWay' = {c}
  <2>1. \A e \in 1..MaxCalls : e # c => calls'[e] = Idle
    BY <1>2, <1>4, CallFacts
  <2>2. calls'[c] # Idle
    BY <1>3, <1>4, IdleOK
  <2> QED BY <1>4, <2>1, <2>2, UnderWayNext
<1>6. Fits(call) /\ (tab = "modify" /\ kernel.task => running)
  BY <1>1 DEF Agrees
<1>7. Fits(calls[c])'
  BY <1>3, <1>4, <1>6 DEF Fits
<1>8. call.fn = "run" => Kept(kernel)
  BY <1>1 DEF Agrees, Runs
<1>9. ASSUME NEW panel \in PanelsOf(tab)
      PROVE  Rereads(d, panel) \/ Goes(d, panel, shown, kernel)
  <2>1. Tracked(panel)
    BY DEF Agrees
  <2>2. Rereads(call, panel) \/ Goes(call, panel, shown, kernel)
    BY <1>2, <2>1 DEF Tracked
  <2>3. Rereads(call, panel) => Rereads(d, panel)
    BY <1>3 DEF Rereads
  <2>4. Part(panel, Answered(shown, d)) = Part(panel, Answered(shown, call))
    BY <1>1, <1>3, AnsweredRefused
  <2>5. ShowsTrue(panel, Answered(shown, call), kernel) => ShowsTrue(panel, Answered(shown, d), kernel)
    BY <2>4 DEF ShowsTrue
  <2>6. d.ops # <<>> /\ d.saw # <<>>
    BY <1>3
  <2> QED BY <2>2, <2>3, <2>5, <2>6 DEF Goes, Ends
<1>10. \A b \in busy : Holds(d, b)
  BY <1>2, <1>3 DEF Agrees, Holds
<1> HIDE DEF call
<1>11. d.ops # <<>>
  BY <1>3 DEF call
<1> QED BY <1>3, <1>4, <1>5, <1>6, <1>7, <1>8, <1>9, <1>10, <1>11, AgreesAlone

\* A request is done.
LEMMA DoneAgrees ==
    ASSUME IInv, Agrees, NEW c \in 1..MaxCalls, calls[c].ops # <<>>, calls[c].saw = <<>>, ~ calls[c].ok,
           kernel' \in Effects(kernel, calls[c].ops[1]),
           calls' = [calls EXCEPT ![c].ok = TRUE,
                                  ![c].saw = IF calls[c].ops[1].kind = "run" THEN <<>> ELSE <<kernel'>>],
           UNCHANGED <<tab, shown, running, busy>>
    PROVE  Agrees'
<1> DEFINE call == calls[c]
           op == call.ops[1]
           x == IF op.kind = "run" THEN <<>> ELSE <<kernel'>>
           d == Done(call, kernel')
<1>1. /\ DOMAIN call = Fields /\ DOMAIN calls = 1..MaxCalls /\ c \in UnderWay
      /\ DOMAIN shown = ShownFields /\ IsKernel(kernel)
  BY CallFacts, IdleOK DEF CallOK
<1>2. UnderWay = {c}
  BY <1>1, Alone DEF Ended
<1>3. /\ d.fn = call.fn /\ d.ops = call.ops /\ d.reads = call.reads
      /\ d.live = call.live /\ d.ok
  <2> HIDE DEF x
  <2>1. d = [call EXCEPT !.ok = TRUE, !.saw = x]
    BY DEF Done, x
  <2> QED BY <1>1, <2>1 DEF Fields
<1>4. /\ calls'[c] = d /\ DOMAIN calls' = 1..MaxCalls
      /\ \A e \in 1..MaxCalls : e # c => calls'[e] = calls[e]
  <2>1. calls' = [calls EXCEPT ![c].ok = TRUE, ![c].saw = x]
    OBVIOUS
  <2>2. calls'[c] = [call EXCEPT !.ok = TRUE, !.saw = x]
    <3> HIDE DEF x
    <3> QED BY <1>1, <2>1
  <2>3. calls'[c] = d
    BY <2>2 DEF Done
  <2>4. DOMAIN calls' = 1..MaxCalls /\ \A e \in 1..MaxCalls : e # c => calls'[e] = calls[e]
    BY <1>1, <2>1
  <2> QED BY <2>3, <2>4
<1> HIDE DEF d, x
<1>5. UnderWay' = {c}
  <2>1. \A e \in 1..MaxCalls : e # c => calls'[e] = Idle
    BY <1>2, <1>4, CallFacts
  <2>2. calls'[c] # Idle
    <3>1. d.ops # <<>>
      BY <1>3
    <3> HIDE DEF call
    <3> QED BY <1>4, <3>1, IdleOK
  <2> QED BY <1>4, <2>1, <2>2, UnderWayNext
<1>6. Fits(call) /\ (tab = "modify" /\ kernel.task => running)
  BY <1>1 DEF Agrees
<1>7. Fits(calls[c])'
  BY <1>3, <1>4, <1>6 DEF Fits
<1>8. OpOK(call.fn, op)
  BY CallFacts DEF CallOK, OpsOK
<1>9. /\ Outcome(kernel, op, kernel')
      /\ op.kind # "run" => kernel'.task = kernel.task
      /\ op.kind = "run" /\ Kept(kernel) => Kept(kernel')
  BY <1>1, <1>8, OutcomeOf
<1>10. tab = "modify" /\ kernel'.task => running
  <2>1. op.kind = "run" => call.fn = "run"
    BY <1>8 DEF OpOK
  <2>2. op.kind = "run" => running
    BY <1>6, <2>1 DEF Fits
  <2> QED BY <1>6, <1>9, <2>2
<1>11. call.fn = "run" => Kept(kernel')
  <2>1. call.fn = "run" => Kept(kernel) /\ op.kind = "run"
    BY <1>1, <1>6 DEF Agrees, Runs, Fits
  <2> QED BY <1>9, <2>1
<1>12. ASSUME NEW panel \in PanelsOf(tab)
       PROVE  Rereads(d, panel) \/ Goes(d, panel, shown, kernel')
  <2>1. Tracked(panel)
    BY DEF Agrees
  <2>2. Rereads(call, panel) \/ Goes(call, panel, shown, kernel)
    BY <1>2, <2>1 DEF Tracked
  <2>3. Rereads(call, panel) => Rereads(d, panel)
    BY <1>3 DEF Rereads
  <2>4. Goes(call, panel, shown, kernel) => Ends(d, panel, shown, kernel')
    BY <1>9 DEF Goes, d
  <2>5. d.ops # <<>> /\ d.ok
    BY <1>3
  <2> QED BY <2>2, <2>3, <2>4, <2>5 DEF Goes
<1>13. \A b \in busy : Holds(d, b)
  BY <1>2, <1>3 DEF Agrees, Holds
<1>14. d.ops # <<>>
  BY <1>3
<1> HIDE DEF call, op
<1> QED BY <1>3, <1>4, <1>5, <1>7, <1>10, <1>11, <1>12, <1>13, <1>14, AgreesAlone

LEMMA ServeAgrees ==
    ASSUME IInv, Agrees, NEW c \in 1..MaxCalls, Serve(c) PROVE Agrees'
<1> DEFINE op == Head(calls[c].ops)
<1>1. /\ calls[c].ops # <<>> /\ calls[c].saw = <<>> /\ ~ calls[c].ok
      /\ UNCHANGED <<tab, shown, running, busy>>
  BY DEF Serve
<1>2. \/ calls' = [calls EXCEPT ![c].saw = <<kernel>>] /\ kernel' = kernel
      \/ /\ kernel' \in Effects(kernel, op)
         /\ calls' = [calls EXCEPT ![c].ok = TRUE,
                                   ![c].saw = IF op.kind = "run" THEN <<>> ELSE <<kernel'>>]
  BY Zenon DEF Serve
<1>3. op = calls[c].ops[1]
  BY <1>1, CallFacts DEF CallOK, OpsOK
<1> HIDE DEF op
<1> QED BY <1>1, <1>2, <1>3, RefusedAgrees, DoneAgrees

\* A listing leaves every panel but the proposals.
LEMMA SyncedViews ==
    ASSUME NEW k, IsKernel(k)
    PROVE  /\ \A panel : panel # "proposals" => View(panel, Synced(k)) = View(panel, k)
           /\ Settled(k) => \A panel : View(panel, Synced(k)) = View(panel, k)
<1>1. /\ Synced(k).cfg = k.cfg /\ Synced(k).triggers = k.triggers
      /\ Settled(k) => Synced(k).proposals = k.proposals
  BY SyncedFields, ReconciledOnce
<1> QED BY <1>1, SameView

\* Another call's panel, its request answered, stays what it ends with.
LEMMA GoesKept ==
    ASSUME NEW call, NEW panel, NEW s, DOMAIN s = ShownFields, NEW s2, DOMAIN s2 = ShownFields,
           NEW k, NEW k2, Goes(call, panel, s, k), Ended(call),
           Part(panel, s2) = Part(panel, s), View(panel, k2) = View(panel, k), panel # "proposals"
    PROVE  Goes(call, panel, s2, k2)
<1>1. Part(panel, Answered(s2, call)) = Part(panel, Answered(s, call))
  BY AnsweredSame
<1> QED BY <1>1 DEF Goes, Ends, ShowsTrue, Ended

\* A read is answered with what the kernel is.
LEMMA AnswerAgrees ==
    ASSUME IInv, Agrees, NEW c \in 1..MaxCalls, Answer(c) PROVE Agrees'
<1> DEFINE call == calls[c]
           d == calls'[c]
           listing == call.reads = "proposals"
<1>1. /\ call # Idle /\ call.ops = <<>> /\ call.saw = <<>>
      /\ kernel' = IF listing THEN Synced(kernel) ELSE kernel
      /\ calls' = [calls EXCEPT ![c].saw = <<kernel'>>]
      /\ UNCHANGED <<tab, shown, running, busy>>
  BY DEF Answer
<1>2. /\ DOMAIN calls = 1..MaxCalls /\ c \in UnderWay /\ UnderWay \subseteq 1..MaxCalls
      /\ DOMAIN shown = ShownFields /\ IsKernel(kernel) /\ CallsOK
  BY <1>1, CallFacts, Facts
<1>3. /\ DOMAIN calls' = 1..MaxCalls /\ \A e \in 1..MaxCalls : e # c => calls'[e] = calls[e]
      /\ d.fn = call.fn /\ d.ops = call.ops
      /\ d.reads = call.reads /\ d.live = call.live /\ d.ok = call.ok /\ d.saw = <<kernel'>>
  BY <1>1, <1>2, SawFields
<1> HIDE DEF d
<1>4. UnderWay' = UnderWay
  <2>1. d # Idle
    <3>1. Idle.saw = <<>> /\ d.saw # <<>>
      BY <1>3 DEF Idle
    <3> QED BY <3>1
  <2> QED BY <1>2, <1>3, <2>1, CallFacts, UnderWayNext DEF d
<1>5. /\ ~ listing => kernel' = kernel
      /\ kernel'.cfg = kernel.cfg /\ kernel'.triggers = kernel.triggers /\ kernel'.task = kernel.task
      /\ \A panel : panel # "proposals" => View(panel, kernel') = View(panel, kernel)
      /\ Settled(kernel) => \A panel : View(panel, kernel') = View(panel, kernel)
  BY <1>1, <1>2, SyncedFields, SyncedViews
<1>6. /\ listing => Kept(kernel')
      /\ listing /\ Kept(kernel) => Settled(kernel')
  BY <1>1, <1>2, ReconciledOnce
<1>7. \A e \in UnderWay : Fits(calls[e]) /\ SawTrue(calls[e], kernel)
  BY DEF Agrees
<1>8. ASSUME NEW e \in UnderWay PROVE Fits(calls[e])'
  <2>1. CASE e = c
    BY <1>1, <1>3, <1>7, <2>1 DEF Fits, d
  <2>2. CASE e # c
    <3>1. calls'[e] = calls[e]
      BY <1>2, <1>3, <2>2
    <3> QED BY <1>1, <1>5, <1>7, <3>1 DEF Fits
  <2> QED BY <2>1, <2>2
<1>9. ASSUME NEW e \in UnderWay, e # c, listing, Lists(calls[e])
      PROVE  Settled(kernel) /\ Kept(kernel)
  <2>1. /\ calls[e].fn \in {"load", "run"} /\ call.fn \in {"load", "run"}
        /\ ~ (calls[e].fn = "load" /\ call.fn = "load")
    BY <1>2, <1>9 DEF Agrees, Pairs, Lists
  <2> QED BY <1>2, <1>9, <2>1 DEF Agrees, Runs
<1>10. ASSUME NEW e \in UnderWay PROVE SawTrue(calls'[e], kernel')
  <2>1. CASE e = c
    <3>1. calls'[e].saw[1] = kernel' /\ calls'[e].reads = call.reads
      BY <1>3, <2>1 DEF d
    <3> QED BY <1>6, <3>1 DEF SawTrue
  <2>2. CASE e # c
    <3>1. calls'[e] = calls[e]
      BY <1>2, <1>3, <2>2
    <3>2. SawTrue(calls[e], kernel)
      BY <1>7
    <3>3. CASE ~ listing
      BY <1>5, <3>1, <3>2, <3>3
    <3>4. CASE listing /\ calls[e].reads # "proposals"
      BY <1>5, <3>1, <3>2, <3>4 DEF SawTrue
    <3>5. CASE listing /\ Lists(calls[e])
      BY <1>5, <1>6, <1>9, <2>2, <3>1, <3>2, <3>5 DEF SawTrue
    <3> QED BY <3>1, <3>3, <3>4, <3>5 DEF SawTrue, Lists
  <2> QED BY <2>1, <2>2
<1>11. Pairs'
  <2>1. \A e \in UnderWay :
           /\ calls'[e].fn = calls[e].fn /\ calls'[e].ops = calls[e].ops /\ calls'[e].reads = calls[e].reads
           /\ calls[e].ops # <<>> => calls'[e] = calls[e]
    BY <1>1, <1>2, <1>3 DEF d
  <2>2. Pairs
    BY DEF Agrees
  <2> QED BY <1>1, <1>4, <2>1, <2>2 DEF Pairs
<1>12. Runs'
  <2> SUFFICES ASSUME NEW e \in UnderWay, calls'[e].fn = "run"
               PROVE  /\ Kept(kernel')
                      /\ (\E h \in UnderWay : Lists(calls'[h])) => Settled(kernel')
    BY <1>4 DEF Runs
  <2>1. calls[e].fn = "run"
    BY <1>2, <1>3 DEF d
  <2>2. Kept(kernel) /\ ((\E h \in UnderWay : Lists(calls[h])) => Settled(kernel))
    BY <2>1 DEF Agrees, Runs
  <2>3. CASE listing
    BY <1>6, <2>2, <2>3
  <2>4. CASE ~ listing
    <3>1. \A h \in UnderWay : Lists(calls'[h]) => Lists(calls[h])
      BY <1>2, <1>3, <2>4 DEF Lists, d
    <3> QED BY <1>5, <2>2, <2>4, <3>1
  <2> QED BY <2>3, <2>4
<1>13. ASSUME NEW panel \in PanelsOf(tab) PROVE Tracked(panel)'
  <2>1. Tracked(panel)
    BY DEF Agrees
  <2>2. \A e \in UnderWay : Rereads(calls[e], panel) => Rereads(calls'[e], panel)
    BY <1>2, <1>3 DEF Rereads, d
  <2>3. CASE \E e \in UnderWay : Rereads(calls[e], panel)
    BY <1>4, <2>2, <2>3 DEF Tracked
  <2>4. CASE listing /\ panel = "proposals"
    <3>1. Rereads(call, panel)
      BY <1>1, <2>4 DEF Rereads
    <3> QED BY <1>2, <1>4, <2>2, <3>1 DEF Tracked
  <2>5. CASE ~ listing \/ panel # "proposals"
    <3>1. View(panel, kernel') = View(panel, kernel) /\ (panel = "proposals" => Kept(kernel') = Kept(kernel))
      BY <1>5, <2>5
    <3>2. CASE \E e \in UnderWay : Goes(calls[e], panel, shown, kernel)
      <4>1. PICK e \in UnderWay : Goes(calls[e], panel, shown, kernel)
        BY <3>2
      <4>2. e # c /\ calls'[e] = calls[e]
        BY <1>1, <1>2, <1>3, <4>1 DEF Goes
      <4>3. Ended(calls[e])
        BY <1>2, <4>1, <4>2 DEF Agrees, Pairs, Goes
      <4>4. CASE panel # "proposals"
        <5>1. Goes(calls[e], panel, shown, kernel')
          BY <1>2, <3>1, <4>1, <4>3, <4>4, GoesKept
        <5> QED BY <1>1, <1>4, <4>2, <5>1 DEF Tracked
      <4>5. CASE panel = "proposals"
        <5>1. Goes(calls'[e], panel, shown', kernel')
          BY <1>1, <1>5, <2>5, <4>1, <4>2, <4>5
        <5> QED BY <1>4, <5>1 DEF Tracked
      <4> QED BY <4>4, <4>5
    <3>3. CASE (\A e \in UnderWay : calls[e].ops = <<>>) /\ ShowsTrue(panel, shown, kernel)
      <4>1. \A e \in UnderWay : calls'[e].ops = <<>>
        BY <1>2, <1>3, <3>3 DEF d
      <4>2. ShowsTrue(panel, shown', kernel')
        BY <1>1, <3>1, <3>3 DEF ShowsTrue
      <4> QED BY <1>4, <4>1, <4>2 DEF Tracked
    <3> QED BY <2>1, <2>3, <3>2, <3>3 DEF Tracked
  <2> QED BY <2>4, <2>5
<1>14. \A b \in busy : \E e \in UnderWay : Holds(calls'[e], b)
  <2>1. \A b \in busy : \E e \in UnderWay : Holds(calls[e], b)
    BY DEF Agrees
  <2>2. \A e \in UnderWay, b \in busy : Holds(calls[e], b) => Holds(calls'[e], b)
    BY <1>2, <1>3 DEF Holds, d
  <2> QED BY <2>1, <2>2
<1>15. tab = "modify" /\ kernel'.task => running
  BY <1>5 DEF Agrees
<1> QED BY <1>1, <1>4, <1>8, <1>10, <1>11, <1>12, <1>13, <1>14, <1>15 DEF Agrees

\* The answer of a request: the panel is right, or is read.
LEMMA PostArrivesAgrees ==
    ASSUME IInv, Agrees, NEW c \in 1..MaxCalls, PostArrives(c) PROVE Agrees'
<1> DEFINE call == calls[c]
           d == calls'[c]
           more == Tail(call.ops)
           reads == call.live /\ call.reads # "none" /\ (call.fn = "trigger" => call.ok)
<1>1. /\ call.ops # <<>> /\ call.saw # <<>>
      /\ shown' = IF call.live THEN Answered(shown, call) ELSE shown
      /\ busy' = IF call.live THEN busy \ FlagOf(call.fn) ELSE busy
      /\ UNCHANGED <<kernel, tab>>
  BY Zenon DEF PostArrives, Arrived
<1>2. IF more # <<>> \/ reads
      THEN calls' = [calls EXCEPT ![c].ops = more, ![c].saw = <<>>, ![c].ok = FALSE]
      ELSE calls' = [calls EXCEPT ![c] = Idle]
  BY Zenon DEF PostArrives, Rests
<1>3. running' = (running /\ ~ (call.live /\ call.fn = "run" /\ ~ call.ok))
  BY Zenon DEF PostArrives
<1>4. /\ DOMAIN calls = 1..MaxCalls /\ c \in UnderWay /\ UnderWay \subseteq 1..MaxCalls
      /\ DOMAIN shown = ShownFields /\ IsKernel(kernel) /\ CallsOK /\ CallOK(call)
  BY <1>1, CallFacts, IdleOK, Facts
<1>5. Fits(call) /\ call.live
  BY <1>4 DEF Agrees, Fits
<1>6. shown' = Answered(shown, call) /\ busy' = busy \ FlagOf(call.fn)
  BY <1>1, <1>5
<1>7. call.fn # "selfheal" => more = <<>>
  <2>1. call.fn # "selfheal" => call.ops = <<call.ops[1]>>
    BY <1>1, <1>5 DEF Fits
  <2> DEFINE a == call.ops[1]
  <2>2. call.fn # "selfheal" => call.ops = <<a>>
    BY <2>1
  <2> HIDE DEF a
  <2> QED BY <2>2, Tails
<1>8. /\ DOMAIN calls' = 1..MaxCalls /\ \A e \in 1..MaxCalls : e # c => calls'[e] = calls[e]
      /\ \/ ~ reads /\ more = <<>> /\ d = Idle
         \/ /\ more # <<>> \/ reads
            /\ d.fn = call.fn /\ d.ops = more
            /\ d.reads = call.reads /\ d.live = call.live /\ d.saw = <<>>
  <2>1. CASE more # <<>> \/ reads
    <3>1. calls' = [calls EXCEPT ![c].ops = more, ![c].saw = <<>>, ![c].ok = FALSE]
      BY <1>2, <2>1, Zenon
    <3> HIDE DEF more
    <3>2. /\ DOMAIN calls' = 1..MaxCalls /\ \A e \in 1..MaxCalls : e # c => calls'[e] = calls[e]
          /\ d.fn = call.fn /\ d.ops = more
          /\ d.reads = call.reads /\ d.live = call.live /\ d.saw = <<>>
      BY <1>4, <3>1, MoreFields, Zenon
    <3> QED BY <2>1, <3>2, Zenon
  <2>2. CASE ~ (more # <<>> \/ reads)
    <3>1. calls' = [calls EXCEPT ![c] = Idle]
      BY <1>2, <2>2, Zenon
    <3>2. DOMAIN calls' = 1..MaxCalls /\ d = Idle /\ \A e \in 1..MaxCalls : e # c => calls'[e] = calls[e]
      BY <1>4, <3>1
    <3> QED BY <2>2, <3>2
  <2> QED BY <2>1, <2>2
<1> HIDE DEF d, more, reads
<1>9. /\ UnderWay' \subseteq UnderWay
      /\ \A e \in UnderWay : e # c => e \in UnderWay' /\ calls'[e] = calls[e]
      /\ c \in UnderWay' => /\ more # <<>> \/ reads
                            /\ d.fn = call.fn /\ d.ops = more
                            /\ d.reads = call.reads /\ d.live = call.live /\ d.saw = <<>>
  BY <1>4, <1>8, CallFacts, UnderWayNext DEF d
<1>10. reads => c \in UnderWay'
  <2>1. reads => d.fn # "none" 
    BY <1>1, <1>4, <1>8 DEF CallOK
  <2> QED BY <1>8, <2>1, UnderWayNext, IdleOK DEF d
<1>11. ASSUME NEW e \in UnderWay, e # c
       PROVE  call.fn = "run" /\ calls[e].fn = "load" /\ calls[e].ops = <<>> /\ tab = "modify" /\ Ended(call)
  <2>1. /\ tab = "modify" /\ Ended(call) /\ calls[e].fn \in {"load", "run"}
        /\ ~ (calls[e].fn = "run" /\ call.fn = "run")
    BY <1>1, <1>4, <1>11 DEF Agrees, Pairs
  <2>2. call.fn = "run" /\ calls[e].fn = "load"
    BY <2>1 DEF Ended
  <2>3. CallOK(calls[e])
    BY <1>4, CallFacts
  <2> QED BY <2>1, <2>2, <2>3 DEF CallOK
<1>12. ASSUME NEW e \in UnderWay' PROVE Fits(calls[e])' /\ SawTrue(calls'[e], kernel')
  <2>1. CASE e = c
    <3>1. d.live /\ d.saw = <<>> /\ (d.ops = <<>> \/ d.fn = "selfheal") /\ d.ops = more /\ d.fn = call.fn
      BY <1>5, <1>7, <1>9, <2>1
    <3>2. SawTrue(d, kernel')
      BY <3>1 DEF SawTrue
    <3>3. d.ops # <<>> /\ d.fn = "run" => FALSE
      BY <3>1
    <3> QED BY <2>1, <3>1, <3>2, <3>3 DEF Fits, d
  <2>2. CASE e # c
    <3>1. calls'[e] = calls[e] /\ calls[e].ops = <<>> /\ e \in UnderWay
      BY <1>9, <1>11, <2>2
    <3>2. Fits(calls[e]) /\ SawTrue(calls[e], kernel)
      BY <3>1 DEF Agrees
    <3> QED BY <1>1, <3>1, <3>2 DEF Fits
  <2> QED BY <2>1, <2>2
<1>13. tab = "modify" /\ kernel.task => running'
  <2>1. tab = "modify" /\ kernel.task => running
    BY DEF Agrees
  <2>2. call.fn = "run" /\ ~ call.ok => ~ kernel.task
    BY <1>1, <1>5 DEF Fits
  <2> QED BY <1>3, <2>1, <2>2, Zenon
<1>14. Pairs'
  <2> SUFFICES ASSUME NEW e \in UnderWay', NEW h \in UnderWay', e # h
               PROVE  /\ tab = "modify" /\ calls'[e].fn \in {"load", "run"}
                      /\ calls'[e].ops # <<>> => Ended(calls'[e])
                      /\ calls'[e].fn = calls'[h].fn =>
                            calls'[e].fn = "load" /\ calls'[e].reads # calls'[h].reads
    BY <1>1 DEF Pairs
  <2>1. ASSUME NEW g \in UnderWay'
        PROVE  g \in UnderWay /\ calls'[g].fn = calls[g].fn /\ calls'[g].reads = calls[g].reads
    BY <1>9 DEF d
  <2>2. /\ tab = "modify" /\ calls[e].fn \in {"load", "run"}
        /\ calls[e].fn = calls[h].fn => calls[e].fn = "load" /\ calls[e].reads # calls[h].reads
    BY <2>1 DEF Agrees, Pairs
  <2>3. calls'[e].ops = <<>>
    <3>1. CASE e = c
      BY <1>7, <1>9, <2>2, <3>1 DEF d
    <3>2. CASE e # c
      BY <1>9, <1>11, <2>1, <3>2
    <3> QED BY <3>1, <3>2
  <2> QED BY <2>1, <2>2, <2>3
<1>15. Runs'
  <2>1. \A e \in UnderWay' : e \in UnderWay /\ calls'[e].fn = calls[e].fn
    BY <1>9 DEF d
  <2>2. \A e \in UnderWay' : Lists(calls'[e]) => Lists(calls[e])
    <3>1. ~ Lists(d) \/ c \notin UnderWay'
      BY <1>9 DEF Lists
    <3> QED BY <1>9, <3>1 DEF d
  <2>3. Runs /\ kernel' = kernel
    BY <1>1 DEF Agrees
  <2> QED BY <2>1, <2>2, <2>3 DEF Runs
<1>16. ASSUME NEW panel \in PanelsOf(tab) PROVE Tracked(panel)'
  <2>1. Tracked(panel)
    BY DEF Agrees
  <2>2. call.fn \notin {"none", "load"}
    BY <1>1, <1>4 DEF CallOK
  <2>3. call.reads # "settings"
    BY <1>4, <2>2 DEF CallOK, ReadBy
  <2>4. panel # "none"
    BY DEF PanelsOf
  <2>5. ASSUME Rereads(call, panel) PROVE Tracked(panel)'
    <3>1. call.reads = panel /\ (call.fn = "trigger" => call.ok)
      BY <1>1, <2>3, <2>5 DEF Rereads
    <3>2. c \in UnderWay'
      BY <1>5, <1>10, <2>4, <3>1 DEF reads
    <3>3. d.fn = call.fn /\ d.ops = more /\ d.reads = call.reads
      BY <1>9, <3>2
    <3>4. Rereads(d, panel)
      BY <1>7, <3>1, <3>3 DEF Rereads
    <3> QED BY <3>2, <3>4 DEF Tracked, d
  <2>6. CASE \E e \in UnderWay : Rereads(calls[e], panel)
    <3>1. PICK e \in UnderWay : Rereads(calls[e], panel)
      BY <2>6
    <3>2. CASE e = c
      BY <2>5, <3>1, <3>2
    <3>3. CASE e # c
      BY <1>9, <3>1, <3>3 DEF Tracked
    <3> QED BY <3>2, <3>3
  <2>7. CASE \E e \in UnderWay : Goes(calls[e], panel, shown, kernel)
    <3>1. PICK e \in UnderWay : Goes(calls[e], panel, shown, kernel)
      BY <2>7
    <3>2. e = c
      BY <1>11, <3>1 DEF Goes
    <3>3. Rereads(call, panel) \/ ShowsTrue(panel, Answered(shown, call), kernel)
      BY <3>1, <3>2 DEF Goes, Ends
    <3>4. CASE ~ Rereads(call, panel)
      <4>1. ShowsTrue(panel, shown', kernel')
        BY <1>1, <1>6, <3>3, <3>4
      <4>2. call.fn # "selfheal"
        <5>1. call.fn = "selfheal" => call.reads = "heal" /\ tab = "errors"
          BY <1>4, <1>5, CallFacts DEF CallOK, ReadBy, Owned, TabOf
        <5>2. tab = "errors" => panel = "heal"
          BY DEF PanelsOf
        <5>3. call.fn = "selfheal" => Rereads(call, panel)
          BY <5>1, <5>2 DEF Rereads
        <5> QED BY <3>4, <5>3
      <4>3. \A h \in UnderWay' : calls'[h].ops = <<>>
        BY <1>7, <1>9, <1>11, <4>2 DEF d
      <4> QED BY <4>1, <4>3 DEF Tracked
    <3> QED BY <2>5, <3>4
  <2> QED BY <1>1, <1>4, <2>1, <2>6, <2>7 DEF Tracked
<1>17. ASSUME NEW b \in busy' PROVE \E e \in UnderWay' : Holds(calls'[e], b)
  <2>1. b \in busy /\ b \notin FlagOf(call.fn)
    BY <1>6
  <2>2. PICK e \in UnderWay : Holds(calls[e], b)
    BY <2>1 DEF Agrees
  <2>3. CASE e # c
    BY <1>9, <2>2, <2>3
  <2>4. CASE e = c
    <3>1. b = "heal" /\ call.fn = "selfheal"
      BY <2>1, <2>2, <2>4 DEF Holds
    <3>2. reads
      BY <1>4, <1>5, <3>1 DEF CallOK, ReadBy, reads
    <3>3. c \in UnderWay' /\ d.fn = "selfheal"
      BY <1>9, <1>10, <3>1, <3>2
    <3>4. Holds(d, b)
      BY <3>1, <3>3 DEF Holds
    <3> QED BY <3>3, <3>4 DEF d
  <2> QED BY <2>3, <2>4
<1> QED BY <1>1, <1>12, <1>13, <1>14, <1>15, <1>16, <1>17 DEF Agrees

\* The answer of a read is shown; the Automation card is read after the draft.
LEMMA GetArrivesAgrees ==
    ASSUME IInv, Agrees, NEW c \in 1..MaxCalls, GetArrives(c) PROVE Agrees'
<1> DEFINE call == calls[c]
           d == calls'[c]
           seen == call.saw[1]
<1>1. /\ call.ops = <<>> /\ call.saw # <<>>
      /\ shown' = Read(shown, call.reads, seen)
      /\ busy' = IF call.fn = "selfheal" THEN busy \ {"heal"} ELSE busy
      /\ UNCHANGED <<kernel, tab, running>>
  BY DEF GetArrives, Arrived
<1>2. /\ DOMAIN calls = 1..MaxCalls /\ c \in UnderWay /\ UnderWay \subseteq 1..MaxCalls
      /\ DOMAIN shown = ShownFields /\ IsKernel(kernel) /\ CallOK(call) /\ call # Idle
  <2>1. call # Idle
    BY <1>1 DEF Idle
  <2> QED BY <2>1, CallFacts
<1>3. /\ call.reads \in Panels
      /\ call.reads = "settings" => tab # "modify"
  <2>1. Owned(call, tab, shown)
    BY CallFacts
  <2> QED BY <1>1, <1>2, <2>1, ReaderOwned
<1>4. /\ DOMAIN calls' = 1..MaxCalls /\ \A e \in 1..MaxCalls : e # c => calls'[e] = calls[e]
      /\ d = IF call.reads = "settings" THEN Load("card") ELSE Idle
  <2>1. calls' = [calls EXCEPT ![c] = IF call.reads = "settings" THEN Load("card") ELSE Idle]
    BY Zenon DEF GetArrives, Rests
  <2> QED BY <1>2, <2>1
<1>5. LET l == Load("card") IN
      l.fn = "load" /\ l.ops = <<>> /\ l.reads = "card" /\ l.saw = <<>> /\ l.live /\ l # Idle
  BY NewLoad, IdleOK
<1> HIDE DEF d
<1>6. /\ UnderWay' \subseteq UnderWay
      /\ \A e \in UnderWay : e # c => e \in UnderWay' /\ calls'[e] = calls[e]
      /\ c \in UnderWay' <=> call.reads = "settings"
  BY <1>2, <1>4, <1>5, CallFacts, UnderWayNext DEF d
<1>7. ASSUME NEW e \in UnderWay, e # c
      PROVE /\ tab = "modify" /\ call.reads # "settings" /\ calls[e].fn \in {"load", "run"}
            /\ calls[e].ops # <<>> => Ended(calls[e])
  BY <1>2, <1>3, <1>7 DEF Agrees, Pairs
<1>8. ASSUME NEW e \in UnderWay' PROVE Fits(calls[e])' /\ SawTrue(calls'[e], kernel')
  <2>1. CASE e = c
    BY <1>4, <1>5, <1>6, <2>1 DEF Fits, SawTrue, d
  <2>2. CASE e # c
    <3>1. calls'[e] = calls[e] /\ e \in UnderWay
      BY <1>6, <2>2
    <3>2. Fits(calls[e]) /\ SawTrue(calls[e], kernel)
      BY <3>1 DEF Agrees
    <3> QED BY <1>1, <3>1, <3>2 DEF Fits
  <2> QED BY <2>1, <2>2
<1>9. ASSUME NEW e \in UnderWay', NEW h \in UnderWay', e # h
      PROVE  /\ e \in UnderWay /\ h \in UnderWay
             /\ calls'[e] = calls[e] /\ calls'[h] = calls[h]
  BY <1>6, <1>7, <1>9
<1>10. Pairs'
  BY <1>1, <1>9 DEF Agrees, Pairs
<1>11. Runs'
  <2>1. \A e \in UnderWay' : e = c \/ calls'[e] = calls[e]
    BY <1>6
  <2>2. c \in UnderWay' => d.fn = "load" /\ ~ Lists(d)
    BY <1>4, <1>5, <1>6 DEF Lists
  <2>3. \A e \in UnderWay' : /\ calls'[e].fn = "run" => calls[e].fn = "run"
                             /\ Lists(calls'[e]) => Lists(calls[e])
    BY <2>1, <2>2 DEF d
  <2> QED BY <1>1, <1>6, <2>3 DEF Agrees, Runs
<1>12. ASSUME NEW panel \in PanelsOf(tab) PROVE Tracked(panel)'
  <2>1. Tracked(panel) /\ panel # "settings"
    BY DEF Agrees, PanelsOf
  <2>2. ASSUME NEW e \in UnderWay, calls[e].ops # <<>>,
               ShowsTrue(panel, Answered(shown', calls[e]), kernel)
        PROVE  Tracked(panel)'
    <3>1. e # c
      BY <1>1, <2>2
    <3>2. Ended(calls[e]) /\ calls'[e] = calls[e] /\ e \in UnderWay'
      BY <1>6, <1>7, <2>2, <3>1
    <3>3. Goes(calls'[e], panel, shown', kernel')
      BY <1>1, <2>2, <3>2 DEF Goes, Ends, Ended
    <3> QED BY <3>2, <3>3 DEF Tracked
  <2>3. ASSUME \A e \in UnderWay : calls[e].ops = <<>>, ShowsTrue(panel, shown', kernel)
        PROVE  Tracked(panel)'
    <3>1. \A e \in UnderWay' : calls'[e].ops = <<>>
      BY <1>4, <1>5, <1>6, <2>3 DEF d
    <3> QED BY <1>1, <2>3, <3>1 DEF Tracked
  <2>4. CASE panel = call.reads
    <3>1. Part(panel, shown') = View(panel, seen)
      BY <1>1, <1>2, <1>3, <2>1, <2>4, ReadParts
    <3>2. SawTrue(call, kernel)
      BY <1>2 DEF Agrees
    <3>3. ShowsTrue(panel, shown', kernel)
      BY <1>1, <2>4, <3>1, <3>2 DEF ShowsTrue, SawTrue
    <3>4. ASSUME NEW e \in UnderWay, calls[e].ops # <<>> PROVE Answered(shown', calls[e]) = shown'
      <4>1. calls[e].fn \in {"load", "run"}
        BY <1>1, <1>7, <3>4
      <4> QED BY <4>1, AnsweredNone
    <3> QED BY <2>2, <2>3, <3>3, <3>4
  <2>5. CASE panel # call.reads
    <3>1. Part(panel, shown') = Part(panel, shown) /\ DOMAIN shown' = ShownFields
      BY <1>1, <1>2, <1>3, <2>5, ReadParts
    <3>2. CASE \E e \in UnderWay : Rereads(calls[e], panel)
      <4>1. PICK e \in UnderWay : Rereads(calls[e], panel)
        BY <3>2
      <4>2. CASE e = c
        <5>1. call.reads = "settings" /\ panel = "card"
          BY <2>5, <4>1, <4>2 DEF Rereads
        <5>2. Rereads(d, panel)
          BY <1>4, <1>5, <5>1 DEF Rereads
        <5> QED BY <1>6, <5>1, <5>2 DEF Tracked, d
      <4>3. CASE e # c
        BY <1>6, <4>1, <4>3 DEF Tracked
      <4> QED BY <4>2, <4>3
    <3>3. CASE \E e \in UnderWay : Goes(calls[e], panel, shown, kernel)
      <4>1. PICK e \in UnderWay : Goes(calls[e], panel, shown, kernel)
        BY <3>3
      <4>2. CASE Rereads(calls[e], panel)
        BY <3>2, <4>2
      <4>3. CASE ~ Rereads(calls[e], panel)
        <5>1. calls[e].ops # <<>> /\ ShowsTrue(panel, Answered(shown, calls[e]), kernel)
          BY <4>1, <4>3 DEF Goes, Ends
        <5>2. Part(panel, Answered(shown', calls[e])) = Part(panel, Answered(shown, calls[e]))
          BY <1>2, <3>1, AnsweredSame
        <5>3. ShowsTrue(panel, Answered(shown', calls[e]), kernel)
          BY <5>1, <5>2 DEF ShowsTrue
        <5> QED BY <2>2, <5>1, <5>3
      <4> QED BY <4>2, <4>3
    <3>4. CASE (\A e \in UnderWay : calls[e].ops = <<>>) /\ ShowsTrue(panel, shown, kernel)
      <4>1. ShowsTrue(panel, shown', kernel)
        BY <3>1, <3>4 DEF ShowsTrue
      <4> QED BY <2>3, <3>4, <4>1
    <3> QED BY <2>1, <3>2, <3>3, <3>4 DEF Tracked
  <2> QED BY <2>4, <2>5
<1>13. ASSUME NEW b \in busy' PROVE \E e \in UnderWay' : Holds(calls'[e], b)
  <2>1. b \in busy /\ (call.fn = "selfheal" => b # "heal")
    BY <1>1
  <2>2. PICK e \in UnderWay : Holds(calls[e], b)
    BY <2>1 DEF Agrees
  <2>3. e # c
    BY <1>1, <2>1, <2>2 DEF Holds
  <2> QED BY <1>6, <2>2, <2>3
<1>14. tab = "modify" /\ kernel.task => running
  BY DEF Agrees
<1> QED BY <1>1, <1>8, <1>10, <1>11, <1>12, <1>13, <1>14 DEF Agrees

\* With no call under way the new ones take the first slots.
LEMMA LaunchedRest ==
    ASSUME NEW slots, DOMAIN slots = 1..MaxCalls, \A c \in 1..MaxCalls : slots[c] = Idle,
           NEW new, Len(new) \in Nat
    PROVE  /\ DOMAIN Launched(slots, new) = 1..MaxCalls
           /\ \A c \in 1..MaxCalls : Launched(slots, new)[c] = IF c <= Len(new) THEN new[c] ELSE Idle
<1> DEFINE free == {c \in DOMAIN slots : slots[c] = Idle}
           upTo(c) == {d \in free : d <= c}
           rank(c) == Cardinality(upTo(c))
           L == Launched(slots, new)
<1>1. MaxCalls \in Nat /\ free = 1..MaxCalls
  BY AutomationViewAssumption
<1>2. \A c \in 1..MaxCalls : L[c] = IF c \in free /\ rank(c) <= Len(new) THEN new[rank(c)] ELSE slots[c]
  BY DEF Launched
<1>3. DOMAIN L = 1..MaxCalls
  BY DEF Launched
<1>4. ASSUME NEW c \in 1..MaxCalls PROVE rank(c) = c
  <2>1. upTo(c) = 1..c
    BY <1>1
  <2>2. Cardinality(1..c) = c
    <3>1. c \in Nat /\ 1 \in Int /\ c \in Int
      BY <1>1
    <3>2. Cardinality(1..c) = IF 1 > c THEN 0 ELSE c - 1 + 1
      BY <3>1, FS_Interval
    <3> QED BY <1>1, <3>2
  <2> QED BY <2>1, <2>2
<1> HIDE DEF L, rank, free
<1>5. \A c \in 1..MaxCalls : L[c] = IF c <= Len(new) THEN new[c] ELSE Idle
  BY <1>1, <1>2, <1>4
<1> QED BY <1>3, <1>5 DEF L

\* Beside one call, a new one takes another slot.
AnotherSlot(slots, r, p, then) ==
    /\ DOMAIN then = 1..MaxCalls
    /\ \E f \in 1..MaxCalls : /\ f # r /\ then[f] = p
                              /\ \A c \in 1..MaxCalls : c # f => then[c] = slots[c]

LEMMA LaunchedBeside ==
    ASSUME NEW slots, DOMAIN slots = 1..MaxCalls, NEW r \in 1..MaxCalls,
           \A c \in 1..MaxCalls : slots[c] = Idle <=> c # r, NEW p
    PROVE  AnotherSlot(slots, r, p, Launched(slots, <<p>>))
<1> DEFINE free == {c \in DOMAIN slots : slots[c] = Idle}
           upTo(c) == {d \in free : d <= c}
           rank(c) == Cardinality(upTo(c))
           new == <<p>>
           L == Launched(slots, new)
           f == IF r = 1 THEN 2 ELSE 1
<1>1. /\ MaxCalls \in Nat /\ MaxCalls >= 2 /\ f \in 1..MaxCalls /\ f # r
      /\ free = {c \in 1..MaxCalls : c # r}
  BY AutomationViewAssumption
<1>2. \A c \in 1..MaxCalls : L[c] = IF c \in free /\ rank(c) <= Len(new) THEN new[rank(c)] ELSE slots[c]
  BY DEF Launched
<1>3. DOMAIN L = 1..MaxCalls /\ Len(new) = 1 /\ new[1] = p
  BY DEF Launched
<1>4. rank(f) = 1 /\ f \in free
  <2>1. upTo(f) = {f}
    BY <1>1
  <2> QED BY <1>1, <2>1, FS_Singleton
<1>5. Filled(slots, new, L)
  <2>1. Len(new) \in Nat
    BY <1>3
  <2> HIDE DEF new
  <2> QED BY <2>1, LaunchedCalls
<1> HIDE DEF L, rank, new
<1>6. L[f] = p
  <2>1. rank(f) <= Len(new)
    BY <1>3, <1>4
  <2>2. L[f] = new[rank(f)]
    BY <1>1, <1>2, <1>4, <2>1
  <2> QED BY <1>3, <1>4, <2>2
<1>7. CASE p # Idle
  <2>1. L[f] # slots[f]
    BY <1>1, <1>6, <1>7
  <2>2. \A c \in 1..MaxCalls : c # f => L[c] = slots[c]
    BY <1>1, <1>3, <1>5, <2>1 DEF Filled
  <2> QED BY <1>1, <1>3, <1>6, <2>2 DEF AnotherSlot, L, new
<1>8. CASE p = Idle
  <2>1. \A i \in 1..Len(new) : new[i] = p
    BY <1>3
  <2>2. \A c \in 1..MaxCalls : c # f => L[c] = slots[c]
    BY <1>1, <1>5, <1>8, <2>1 DEF Filled
  <2> QED BY <1>1, <1>3, <1>6, <2>2 DEF AnotherSlot, L, new
<1> QED BY <1>7, <1>8

\* What is shown stays right while the kernel differs in its change only.
LEMMA SameShown ==
    ASSUME NEW k, NEW k2, k2.cfg = k.cfg, k2.triggers = k.triggers, k2.proposals = k.proposals
    PROVE  /\ \A panel, s : ShowsTrue(panel, s, k) <=> ShowsTrue(panel, s, k2)
           /\ \A call : SawTrue(call, k) => SawTrue(call, k2)
           /\ \A call, panel, s : Goes(call, panel, s, k) => Goes(call, panel, s, k2)
           /\ Kept(k) => Kept(k2)
           /\ Settled(k) => Settled(k2)
<1>1. \A panel : View(panel, k2) = View(panel, k)
  BY SameView
<1>2. Kept(k2) <=> Kept(k)
  BY DEF Kept
<1>3. \A panel, s : ShowsTrue(panel, s, k) <=> ShowsTrue(panel, s, k2)
  BY <1>1, <1>2 DEF ShowsTrue
<1>4. \A op, k3 : Outcome(k2, op, k3) => Outcome(k, op, k3)
  BY DEF Outcome
<1>5. \A call, panel, s : Goes(call, panel, s, k) => Goes(call, panel, s, k2)
  BY <1>3, <1>4 DEF Goes, Ends
<1>6. \A call : SawTrue(call, k) => SawTrue(call, k2)
  BY <1>1, <1>2 DEF SawTrue
<1>7. Settled(k) => Settled(k2)
  BY DEF Settled
<1> QED BY <1>2, <1>3, <1>5, <1>6, <1>7

\* A change ends, with no call under way but its run's.
LEMMA TaskEndsAgrees ==
    ASSUME IInv, Agrees, TaskEnds, ~ apart' PROVE Agrees'
<1> DEFINE k == [kernel EXCEPT !.task = FALSE]
           waits(c) == calls[c].ops # <<>> /\ Head(calls[c].ops).kind = "run" /\ calls[c].ok
           answered == [c \in DOMAIN calls |->
                          IF waits(c) THEN [calls[c] EXCEPT !.saw = <<k>>] ELSE calls[c]]
           load == Load("proposals")
           new == IF running THEN <<load>> ELSE <<>>
<1>1. kernel.task /\ kernel' = k /\ running' = FALSE /\ UNCHANGED <<tab, shown, busy>>
  BY DEF TaskEnds
<1>2. calls' = Launched(answered, new)
  <2>1. calls' = Launched([c \in DOMAIN calls |->
                    IF waits(c) THEN [calls[c] EXCEPT !.saw = <<kernel'>>] ELSE calls[c]], new)
    BY Zenon DEF TaskEnds
  <2> HIDE DEF waits, new, k
  <2> QED BY <1>1, <2>1
<1>3. running => \A c \in UnderWay : calls[c].fn = "run"
  <2>1. apart' = (apart \/ (running /\ \E c \in UnderWay : calls[c].fn # "run"))
    BY Zenon DEF TaskEnds
  <2> QED BY <2>1, Zenon
<1>4. /\ DOMAIN calls = 1..MaxCalls /\ UnderWay \subseteq 1..MaxCalls
      /\ DOMAIN shown = ShownFields /\ IsKernel(kernel)
  BY CallFacts
<1>5. /\ k.cfg = kernel.cfg /\ k.triggers = kernel.triggers /\ k.proposals = kernel.proposals
      /\ k.task = FALSE
  BY <1>4 DEF IsKernel
<1> HIDE DEF k
<1>6. ASSUME NEW c \in UnderWay
      PROVE  /\ Fits(calls[c]) /\ SawTrue(calls[c], kernel) /\ CallOK(calls[c])
             /\ Owned(calls[c], tab, shown) /\ calls[c] # Idle
             /\ calls[c].ops # <<>> /\ calls[c].fn = "run" => waits(c)
             /\ waits(c) => calls[c].fn = "run"
             /\ calls[c].fn = "run" => tab = "modify"
  <2>1. /\ Fits(calls[c]) /\ SawTrue(calls[c], kernel) /\ CallOK(calls[c])
        /\ Owned(calls[c], tab, shown) /\ calls[c] # Idle
    BY <1>4, CallFacts DEF Agrees
  <2>2. calls[c].ops # <<>> => Head(calls[c].ops) = calls[c].ops[1] /\ OpOK(calls[c].fn, calls[c].ops[1])
    BY <2>1 DEF CallOK, OpsOK
  <2>3. calls[c].ops # <<>> /\ calls[c].fn = "run" => waits(c)
    BY <1>1, <2>1, <2>2 DEF Fits
  <2>4. waits(c) => calls[c].fn = "run"
    BY <2>2 DEF OpOK
  <2>5. calls[c].fn = "run" => tab = "modify"
    BY <2>1 DEF Fits, CallOK, ReadBy, Owned, TabOf
  <2> QED BY <2>1, <2>3, <2>4, <2>5
<1>7. /\ DOMAIN answered = 1..MaxCalls
      /\ \A c \in 1..MaxCalls : ~ waits(c) => answered[c] = calls[c]
  <2> HIDE DEF waits
  <2> QED BY <1>4
<1>8. ASSUME NEW c \in 1..MaxCalls, waits(c)
      PROVE  LET d == answered[c] IN
             /\ d.fn = calls[c].fn /\ d.ops = calls[c].ops /\ d.reads = calls[c].reads
             /\ d.live = calls[c].live /\ d.ok = calls[c].ok /\ d.saw = <<k>>
             /\ c \in UnderWay /\ d # Idle
  <2> DEFINE d == [calls[c] EXCEPT !.saw = <<k>>]
  <2>1. DOMAIN calls[c] = Fields
    BY CallFacts DEF CallOK
  <2>2. /\ d.fn = calls[c].fn /\ d.ops = calls[c].ops /\ d.reads = calls[c].reads
        /\ d.live = calls[c].live /\ d.ok = calls[c].ok /\ d.saw = <<k>>
    BY <2>1 DEF Fields
  <2>3. answered[c] = d
    BY <1>4, <1>8, Zenon
  <2>4. calls[c].ops # <<>>
    BY <1>8
  <2> HIDE DEF d, answered, waits
  <2>5. c \in UnderWay /\ d # Idle
    BY <2>2, <2>4, CallFacts, IdleOK
  <2> QED BY <2>2, <2>3, <2>5
<1> HIDE DEF answered, waits
<1>9. /\ \A panel, s : ShowsTrue(panel, s, kernel) <=> ShowsTrue(panel, s, kernel')
      /\ \A call : SawTrue(call, kernel) => SawTrue(call, kernel')
      /\ \A call, panel, s : Goes(call, panel, s, kernel) => Goes(call, panel, s, kernel')
      /\ Kept(kernel) => Kept(kernel')
      /\ Settled(kernel) => Settled(kernel')
      /\ kernel'.task = FALSE
  BY <1>1, <1>5, SameShown
<1>10. CASE ~ running
  <2>1. tab # "modify"
    BY <1>1, <1>10 DEF Agrees
  <2>2. \A c \in 1..MaxCalls : ~ waits(c)
    BY <1>6, <1>8, <2>1
  <2>3. \A c \in 1..MaxCalls : answered[c] = calls[c]
    BY <1>7, <2>2
  <2>4. DOMAIN calls' = 1..MaxCalls /\ \A c \in 1..MaxCalls : calls'[c] = calls[c]
    <3>1. new = <<>>
      BY <1>10
    <3> HIDE DEF new
    <3>2. Len(new) = 0 /\ Len(new) \in Nat /\ 1..Len(new) = {}
      BY <3>1
    <3>3. Filled(answered, new, calls')
      BY <1>2, <1>7, <3>2, LaunchedCalls
    <3> QED BY <2>3, <3>2, <3>3 DEF Filled
  <2>5. UnderWay' = UnderWay
    BY <1>4, <2>4, CallFacts, UnderWayNext
  <2>6. \A c \in UnderWay : calls'[c] = calls[c] /\ calls[c].fn # "run"
    BY <1>4, <1>6, <2>1, <2>4
  <2>7. \A c \in UnderWay' : Fits(calls[c])' /\ SawTrue(calls'[c], kernel')
    BY <1>6, <1>9, <2>5, <2>6 DEF Fits
  <2>8. Pairs'
    BY <1>1, <2>5, <2>6 DEF Agrees, Pairs
  <2>9. Runs'
    BY <2>5, <2>6 DEF Runs
  <2>10. ASSUME NEW panel \in PanelsOf(tab) PROVE Tracked(panel)'
    <3>1. Tracked(panel)
      BY DEF Agrees
    <3> QED BY <1>1, <1>9, <2>5, <2>6, <3>1 DEF Tracked
  <2>11. \A b \in busy : \E c \in UnderWay' : Holds(calls'[c], b)
    BY <2>5, <2>6 DEF Agrees
  <2> QED BY <1>1, <2>1, <2>7, <2>8, <2>9, <2>10, <2>11 DEF Agrees
<1>11. CASE running
  <2>1. tab = "modify" /\ \A c \in UnderWay : calls[c].fn = "run"
    BY <1>3, <1>11, Facts DEF Belongs
  <2>2. \A c, d \in UnderWay : c = d
    BY <2>1 DEF Agrees, Pairs
  <2>3. /\ load.fn = "load" /\ load.ops = <<>> /\ load.reads = "proposals" /\ load.saw = <<>>
        /\ load.live
    BY NewLoad
  <2> HIDE DEF load
  <2>4. new = <<load>>
    BY <1>11
  <2>5. \A c \in 1..MaxCalls : answered[c] = Idle <=> c \notin UnderWay
    BY <1>7, <1>8, CallFacts
  <2> HIDE DEF new
  <2>6. /\ DOMAIN calls' = 1..MaxCalls
        /\ \E f \in 1..MaxCalls : /\ f \notin UnderWay /\ calls'[f] = load
                                  /\ \A c \in 1..MaxCalls : c # f => calls'[c] = answered[c]
    <3>1. CASE UnderWay = {}
      <4>1. Len(new) = 1 /\ new[1] = load
        BY <2>4
      <4>2. Len(new) \in Nat
        BY <4>1
      <4>3. /\ DOMAIN calls' = 1..MaxCalls
            /\ \A c \in 1..MaxCalls : calls'[c] = IF c <= 1 THEN new[c] ELSE Idle
        <5>1. \A c \in 1..MaxCalls : answered[c] = Idle
          BY <2>5, <3>1
        <5>2. /\ DOMAIN Launched(answered, new) = 1..MaxCalls
              /\ \A c \in 1..MaxCalls :
                   Launched(answered, new)[c] = IF c <= Len(new) THEN new[c] ELSE Idle
          BY <1>7, <4>2, <5>1, LaunchedRest
        <5> QED BY <1>2, <4>1, <5>2
      <4>4. 1 \in 1..MaxCalls /\ \A c \in 1..MaxCalls : c <= 1 <=> c = 1
        BY AutomationViewAssumption
      <4> QED BY <2>5, <3>1, <4>1, <4>3, <4>4
    <3>2. ASSUME NEW r \in UnderWay
          PROVE  /\ DOMAIN calls' = 1..MaxCalls
                 /\ \E f \in 1..MaxCalls : /\ f \notin UnderWay /\ calls'[f] = load
                                           /\ \A c \in 1..MaxCalls : c # f => calls'[c] = answered[c]
      <4>1. r \in 1..MaxCalls /\ \A c \in 1..MaxCalls : answered[c] = Idle <=> c # r
        BY <1>4, <2>2, <2>5, <3>2
      <4>2. calls' = Launched(answered, <<load>>)
        BY <1>2, <2>4
      <4>3. \A c \in UnderWay : c = r
        BY <2>2
      <4>4. AnotherSlot(answered, r, load, calls')
        <5>1. DOMAIN answered = 1..MaxCalls
          BY <1>7
        <5>2. AnotherSlot(answered, r, load, Launched(answered, <<load>>))
          BY <4>1, <5>1, LaunchedBeside
        <5> QED BY <4>2, <5>2
      <4>5. \A f \in 1..MaxCalls : f # r => f \notin UnderWay
        BY <4>3
      <4> QED BY <4>4, <4>5 DEF AnotherSlot
    <3> QED BY <3>1, <3>2
  <2>7. PICK f \in 1..MaxCalls : /\ f \notin UnderWay /\ calls'[f] = load
                                 /\ \A c \in 1..MaxCalls : c # f => calls'[c] = answered[c]
    BY <2>6
  <2>8. UnderWay' = UnderWay \cup {f}
    <3>1. load # Idle
      BY <2>3, IdleOK
    <3> QED BY <1>4, <2>5, <2>6, <2>7, <3>1, UnderWayNext
  <2>9. ASSUME NEW c \in UnderWay
        PROVE  LET d == calls'[c] IN
               /\ d.fn = "run" /\ d.ops = calls[c].ops /\ d.reads = calls[c].reads
               /\ d.live /\ d.ok = calls[c].ok
               /\ d.ops = <<>> => d = calls[c]
               /\ d.ops # <<>> => d.ops[1].kind = "run" /\ d.ops = <<d.ops[1]>> /\ d.ok /\ d.saw # <<>>
               /\ c # f
    <3>1. c # f /\ calls'[c] = answered[c] /\ c \in 1..MaxCalls
      BY <1>4, <2>7
    <3>2. calls[c].fn = "run" /\ calls[c].live
      BY <1>6, <2>1 DEF Fits
    <3>3. CASE waits(c)
      <4>1. calls[c].ops # <<>> /\ calls[c].ok
        BY <3>3 DEF waits
      <4>2. calls[c].ops[1].kind = "run" /\ calls[c].ops = <<calls[c].ops[1]>>
        BY <1>6, <3>2, <4>1 DEF Fits
      <4>3. /\ answered[c].fn = calls[c].fn /\ answered[c].ops = calls[c].ops
            /\ answered[c].reads = calls[c].reads /\ answered[c].live = calls[c].live
            /\ answered[c].ok = calls[c].ok /\ answered[c].saw = <<k>>
        BY <1>8, <3>1, <3>3
      <4>4. answered[c].saw # <<>>
        BY <4>3
      <4>5. answered[c].ops[1] = calls[c].ops[1] /\ answered[c].ops = <<answered[c].ops[1]>>
        BY <4>2, <4>3, Zenon
      <4> QED BY <3>1, <3>2, <4>1, <4>2, <4>3, <4>4, <4>5
    <3>4. CASE ~ waits(c)
      <4>1. calls'[c] = calls[c] /\ calls[c].ops = <<>>
        BY <1>6, <1>7, <3>1, <3>2, <3>4
      <4> QED BY <3>1, <3>2, <4>1
    <3> QED BY <3>3, <3>4
  <2>10. \A c \in UnderWay' : c \in UnderWay \/ (c = f /\ calls'[c] = load)
    BY <2>7, <2>8
  <2>11. ASSUME NEW c \in UnderWay' PROVE Fits(calls[c])' /\ SawTrue(calls'[c], kernel')
    <3>1. CASE c \in UnderWay
      <4>1. SawTrue(calls[c], kernel')
        BY <1>6, <1>9, <3>1
      <4>2. SawTrue(calls'[c], kernel')
        BY <2>9, <3>1, <4>1 DEF SawTrue
      <4> QED BY <2>9, <3>1, <4>2 DEF Fits
    <3>2. CASE calls'[c] = load
      BY <2>3, <3>2 DEF Fits, SawTrue
    <3> QED BY <2>10, <3>1, <3>2
  <2>12. ASSUME NEW c \in UnderWay', NEW d \in UnderWay', c # d
         PROVE  /\ calls'[c].fn \in {"load", "run"} /\ calls'[c].fn # calls'[d].fn
                /\ calls'[c].ops # <<>> => Ended(calls'[c])
    BY <2>2, <2>3, <2>9, <2>10, <2>12 DEF Ended
  <2>13. Pairs'
    BY <1>1, <2>1, <2>12 DEF Pairs
  <2>14. Runs'
    <3>1. (\E c \in UnderWay' : calls'[c].fn = "run") => \E c \in UnderWay : calls[c].fn = "run"
      BY <2>1, <2>3, <2>10
    <3>2. (\E c \in UnderWay' : Lists(calls'[c])) => \E c \in UnderWay : Lists(calls[c])
      <4>1. ~ Lists(load)
        BY <2>3 DEF Lists
      <4>2. \A c \in UnderWay : Lists(calls'[c]) => Lists(calls[c])
        BY <2>9 DEF Lists
      <4> QED BY <2>10, <4>1, <4>2
    <3> QED BY <1>9, <3>1, <3>2 DEF Agrees, Runs
  <2>15. ASSUME NEW panel \in PanelsOf(tab) PROVE Tracked(panel)'
    <3>1. Tracked(panel)
      BY DEF Agrees
    <3>2. CASE \E c \in UnderWay : Rereads(calls[c], panel)
      <4>1. PICK c \in UnderWay : Rereads(calls[c], panel)
        BY <3>2
      <4>2. Rereads(calls'[c], panel)
        BY <2>9, <4>1 DEF Rereads
      <4> QED BY <2>8, <4>2 DEF Tracked
    <3>3. CASE \E c \in UnderWay : Goes(calls[c], panel, shown, kernel)
      <4>1. PICK c \in UnderWay : Goes(calls[c], panel, shown, kernel)
        BY <3>3
      <4>2. calls[c].ops # <<>> /\ (Rereads(calls[c], panel) \/ ShowsTrue(panel, shown, kernel))
        <5>1. Answered(shown, calls[c]) = shown
          BY <2>1, AnsweredNone
        <5> QED BY <4>1, <5>1 DEF Goes, Ends
      <4>3. CASE Rereads(calls[c], panel)
        BY <3>2, <4>3
      <4>4. CASE ShowsTrue(panel, shown, kernel)
        <5>1. Answered(shown, calls'[c]) = shown
          BY <2>9, AnsweredNone
        <5>2. ShowsTrue(panel, Answered(shown', calls'[c]), kernel')
          BY <1>1, <1>9, <4>4, <5>1
        <5>3. Goes(calls'[c], panel, shown', kernel')
          BY <2>9, <4>2, <5>2 DEF Goes, Ends
        <5> QED BY <2>8, <5>3 DEF Tracked
      <4> QED BY <4>2, <4>3, <4>4
    <3>4. CASE (\A c \in UnderWay : calls[c].ops = <<>>) /\ ShowsTrue(panel, shown, kernel)
      <4>1. \A c \in UnderWay' : calls'[c].ops = <<>>
        BY <2>3, <2>9, <2>10, <3>4
      <4> QED BY <1>1, <1>9, <3>4, <4>1 DEF Tracked
    <3> QED BY <3>1, <3>2, <3>3, <3>4 DEF Tracked
  <2>16. busy = {}
    BY <2>1 DEF Agrees, Holds, FlagOf
  <2> QED BY <1>1, <1>9, <2>11, <2>13, <2>14, <2>15, <2>16 DEF Agrees
<1> QED BY <1>10, <1>11

\* A tab is mounted with nothing under way: it reads its panels, each once.
LEMMA SelectTabAgrees ==
    ASSUME IInv, NEW t \in Tabs, SelectTab(t), ~ apart' PROVE Agrees'
<1> DEFINE new == ReadsOnMount(t)
           slots == LeftCalls
<1>1. /\ tab' = t /\ busy' = {} /\ kernel' = kernel /\ calls' = Launched(slots, new)
      /\ running' = (t = "modify" /\ kernel.task)
  BY DEF SelectTab
<1>2. DOMAIN slots = 1..MaxCalls /\ \A c \in 1..MaxCalls : slots[c] = Idle
  <2>1. DOMAIN calls = 1..MaxCalls
    BY CallFacts
  <2>2. apart' = ({c \in DOMAIN calls : LeftCalls[c] # Idle} # {})
    BY DEF SelectTab
  <2>3. DOMAIN LeftCalls = DOMAIN calls
    BY DEF LeftCalls
  <2> HIDE DEF slots
  <2>4. \A c \in DOMAIN calls : LeftCalls[c] = Idle
    BY <2>2
  <2> QED BY <2>1, <2>3, <2>4 DEF slots
<1> HIDE DEF slots
<1>3. Len(new) \in Nat
  BY MountReads
<1> HIDE DEF new
<1>4. /\ DOMAIN calls' = 1..MaxCalls
      /\ \A c \in 1..MaxCalls : calls'[c] = IF c <= Len(new) THEN new[c] ELSE Idle
  <2>1. /\ DOMAIN Launched(slots, new) = 1..MaxCalls
        /\ \A c \in 1..MaxCalls : Launched(slots, new)[c] = IF c <= Len(new) THEN new[c] ELSE Idle
    BY <1>2, <1>3, LaunchedRest
  <2> QED BY <1>1, <2>1
<1>5. \A panel : LET l == Load(panel) IN
        l.fn = "load" /\ l.ops = <<>> /\ l.reads = panel /\ l.saw = <<>> /\ l.live /\ l # Idle
  BY NewLoad, IdleOK
<1>6. MaxCalls \in Nat /\ 1 \in 1..MaxCalls /\ 2 \in 1..MaxCalls
  BY AutomationViewAssumption
<1>7. UnderWay' \subseteq 1..MaxCalls /\ \A c \in 1..MaxCalls : c \in UnderWay' <=> calls'[c] # Idle
  BY <1>4, UnderWayNext
<1>8. /\ \A c \in UnderWay' : \E panel : calls'[c] = Load(panel)
      /\ \A c, d \in UnderWay' : c # d => t = "modify" /\ calls'[c].reads # calls'[d].reads
      /\ \A panel \in PanelsOf(t) : \E c \in UnderWay' : Rereads(calls'[c], panel)
  <2>1. CASE t = "modify"
    <3>1. new = <<Load("gates"), Load("proposals")>>
      BY <2>1 DEF ReadsOnMount, new
    <3>2. Len(new) = 2 /\ new[1] = Load("gates") /\ new[2] = Load("proposals")
      BY <3>1
    <3>3. calls'[1] = Load("gates") /\ calls'[2] = Load("proposals")
      BY <1>4, <1>6, <3>2
    <3>4. \A c \in UnderWay' : c = 1 \/ c = 2
      BY <1>4, <1>6, <1>7, <3>2
    <3>5. 1 \in UnderWay' /\ 2 \in UnderWay'
      BY <1>5, <1>6, <1>7, <3>3
    <3>6. calls'[1].reads = "gates" /\ calls'[2].reads = "proposals" /\ calls'[1].fn = "load" /\ calls'[2].fn = "load"
      BY <1>5, <3>3
    <3>7. Rereads(calls'[1], "gates") /\ Rereads(calls'[2], "proposals")
      BY <3>6 DEF Rereads
    <3>8. PanelsOf(t) = {"gates", "proposals"}
      BY <2>1 DEF PanelsOf
    <3>9. \A c, d \in UnderWay' : c # d => calls'[c].reads # calls'[d].reads
      BY <3>4, <3>6
    <3> QED BY <2>1, <3>3, <3>4, <3>5, <3>7, <3>8, <3>9
  <2>2. ASSUME NEW panel, new = <<Load(panel)>>, \A q \in PanelsOf(t) : Rereads(Load(panel), q)
        PROVE  /\ \A c \in UnderWay' : calls'[c] = Load(panel)
               /\ \A c, d \in UnderWay' : c = d
               /\ \A q \in PanelsOf(t) : \E c \in UnderWay' : Rereads(calls'[c], q)
    <3>1. Len(new) = 1 /\ new[1] = Load(panel)
      BY <2>2
    <3>2. calls'[1] = Load(panel)
      BY <1>4, <1>6, <3>1
    <3>3. \A c \in UnderWay' : c = 1
      BY <1>4, <1>6, <1>7, <3>1
    <3>4. 1 \in UnderWay'
      BY <1>5, <1>6, <1>7, <3>2
    <3> QED BY <2>2, <3>2, <3>3, <3>4
  <2>3. CASE t = "settings"
    <3>1. new = <<Load("settings")>>
      BY <2>3 DEF ReadsOnMount, new
    <3>2. \A q \in PanelsOf(t) : Rereads(Load("settings"), q)
      BY <1>5, <2>3 DEF PanelsOf, Rereads
    <3> QED BY <2>2, <3>1, <3>2
  <2>4. CASE t = "errors"
    <3>1. new = <<Load("heal")>>
      BY <2>4 DEF ReadsOnMount, new
    <3>2. \A q \in PanelsOf(t) : Rereads(Load("heal"), q)
      BY <1>5, <2>4 DEF PanelsOf, Rereads
    <3> QED BY <2>2, <3>1, <3>2
  <2>5. CASE t = "other"
    <3>1. new = <<>> /\ PanelsOf(t) = {}
      BY <2>5 DEF ReadsOnMount, new, PanelsOf
    <3>2. Len(new) = 0
      BY <3>1
    <3>3. UnderWay' = {}
      BY <1>4, <1>6, <1>7, <3>2
    <3> QED BY <3>1, <3>3
  <2> QED BY <2>1, <2>3, <2>4, <2>5 DEF Tabs
<1>9. ASSUME NEW c \in UnderWay'
      PROVE  /\ calls'[c].fn = "load" /\ calls'[c].ops = <<>> /\ calls'[c].saw = <<>>
             /\ calls'[c].live
  BY <1>5, <1>8
<1>10. \A c \in UnderWay' : Fits(calls[c])' /\ SawTrue(calls'[c], kernel')
  BY <1>9 DEF Fits, SawTrue
<1>11. Pairs'
  BY <1>1, <1>8, <1>9 DEF Pairs
<1>12. Runs'
  BY <1>9 DEF Runs
<1>13. \A panel \in PanelsOf(t) : Tracked(panel)'
  BY <1>8 DEF Tracked
<1>14. t = "modify" /\ kernel.task => running'
  BY <1>1
<1> QED BY <1>1, <1>10, <1>11, <1>12, <1>13, <1>14 DEF Agrees

\* A click with nothing under way finds the panels right and every button free.
LEMMA AtRest ==
    ASSUME IInv, AInv, NEW p, Launch(<<p>>), ~ apart'
    PROVE  /\ Agrees /\ UnderWay = {} /\ busy = {}
           /\ tab = "modify" /\ kernel.task => running
           /\ \A panel \in PanelsOf(tab) : ShowsTrue(panel, shown, kernel)
           /\ p # Idle => UnderWay' = {1} /\ calls'[1] = p
<1>1. apart' = (apart \/ UnderWay # {}) /\ calls' = Launched(calls, <<p>>)
  BY Zenon DEF Launch
<1>2. UnderWay = {} /\ Agrees
  BY <1>1, Zenon DEF AInv
<1>3. busy = {} /\ (tab = "modify" /\ kernel.task => running)
  BY <1>2 DEF Agrees
<1>4. \A panel \in PanelsOf(tab) : ShowsTrue(panel, shown, kernel)
  BY <1>2 DEF Agrees, Tracked
<1>5. DOMAIN calls = 1..MaxCalls /\ \A c \in 1..MaxCalls : calls[c] = Idle
  BY <1>2, CallFacts
<1>6. /\ DOMAIN calls' = 1..MaxCalls
      /\ \A c \in 1..MaxCalls : calls'[c] = IF c <= 1 THEN p ELSE Idle
  <2> DEFINE new == <<p>>
  <2>1. Len(new) = 1 /\ new[1] = p
    OBVIOUS
  <2> HIDE DEF new
  <2>2. Len(new) \in Nat
    BY <2>1
  <2>3. /\ DOMAIN Launched(calls, new) = 1..MaxCalls
        /\ \A c \in 1..MaxCalls : Launched(calls, new)[c] = IF c <= Len(new) THEN new[c] ELSE Idle
    BY <1>5, <2>2, LaunchedRest
  <2>4. calls' = Launched(calls, new)
    BY <1>1 DEF new
  <2>5. \A c \in 1..MaxCalls : c <= 1 => c = 1
    OBVIOUS
  <2> QED BY <2>1, <2>3, <2>4, <2>5
<1>7. p # Idle => UnderWay' = {1} /\ calls'[1] = p
  <2>1. MaxCalls \in Nat /\ 1 \in 1..MaxCalls /\ \A c \in 1..MaxCalls : c <= 1 <=> c = 1
    BY AutomationViewAssumption
  <2> QED BY <1>6, <2>1, UnderWayNext
<1> QED BY <1>2, <1>3, <1>4, <1>7

\* A click that posts, and what it must see to.
LEMMA ClickAgrees ==
    ASSUME IInv, AInv, NEW p, Launch(<<p>>), ~ apart', UNCHANGED <<kernel, tab>>,
           p.live, p.saw = <<>>, ~ p.ok, p.fn \in Functions,
           p.fn # "selfheal" => p.ops = <<p.ops[1]>>,
           p.fn = "run" => p.ops[1].kind = "run" /\ tab = "modify" /\ ~ running /\ running',
           running => running',
           \A panel \in PanelsOf(tab) : Rereads(p, panel) \/ Goes(p, panel, shown', kernel),
           \A b \in busy' : b \in busy \/ Holds(p, b)
    PROVE  Agrees'
<1>1. p # Idle
  BY IdleOK DEF Functions
<1>2. /\ Agrees /\ UnderWay = {} /\ busy = {}
      /\ tab = "modify" /\ kernel.task => running
      /\ \A panel \in PanelsOf(tab) : ShowsTrue(panel, shown, kernel)
      /\ UnderWay' = {1} /\ calls'[1] = p
  BY <1>1, AtRest
<1>3. p.fn = "run" => ~ kernel.task /\ Kept(kernel)
  <2>1. tab = "modify" => "proposals" \in PanelsOf(tab)
    BY DEF PanelsOf
  <2> QED BY <1>2, <2>1 DEF ShowsTrue
<1>4. Fits(calls[1])' /\ SawTrue(calls'[1], kernel')
  BY <1>2, <1>3 DEF Fits, SawTrue
<1>5. Pairs'
  BY <1>2 DEF Pairs
<1>6. Runs'
  BY <1>2, <1>3 DEF Runs, Lists, Kept
<1>7. \A panel \in PanelsOf(tab) : Tracked(panel)'
  BY <1>2 DEF Tracked
<1>8. (tab = "modify" /\ kernel.task => running)'
  BY <1>2
<1>9. \A b \in busy' : \E c \in UnderWay' : Holds(calls'[c], b)
  BY <1>2
<1> QED BY <1>2, <1>4, <1>5, <1>6, <1>7, <1>8, <1>9 DEF Agrees

\* The fields of a new request, and of a request that is done.
IsPost(p, fn, op, panel) ==
    /\ DOMAIN p = Fields /\ p.fn = fn /\ p.ops = <<op>> /\ p.ops[1] = op /\ p.ops # <<>>
    /\ p.reads = panel /\ p.saw = <<>> /\ p.live /\ ~ p.ok

LEMMA PostIs ==
    ASSUME NEW fn, NEW op, NEW panel PROVE IsPost(Post(fn, <<op>>, panel), fn, op, panel)
<1> DEFINE p == Post(fn, <<op>>, panel)
<1>1. /\ DOMAIN p = Fields /\ p.fn = fn /\ p.ops = <<op>> /\ p.reads = panel
      /\ p.saw = <<>> /\ p.live /\ ~ p.ok
  BY NewCall
<1> HIDE DEF p
<1>2. p.ops[1] = op /\ p.ops # <<>>
  BY <1>1
<1> QED BY <1>1, <1>2 DEF IsPost, p

LEMMA DoneCall ==
    ASSUME NEW p, NEW fn, NEW op, NEW panel, IsPost(p, fn, op, panel), NEW k2
    PROVE  LET d == Done(p, k2) IN
           /\ d.fn = fn /\ d.ops = <<op>> /\ d.ops[1] = op /\ d.reads = panel /\ d.ok
           /\ op.kind # "run" => d.saw[1] = k2
<1> DEFINE x == IF p.ops[1].kind = "run" THEN <<>> ELSE <<k2>>
<1>1. Done(p, k2) = [p EXCEPT !.ok = TRUE, !.saw = x]
  BY DEF Done
<1>2. op.kind # "run" => x[1] = k2
  BY DEF IsPost
<1> HIDE DEF x
<1> QED BY <1>1, <1>2 DEF Fields, IsPost

\* A request that changes no setting leaves the gates, one that changes a
\* setting the proposals.
LEMMA GatesLeft ==
    ASSUME NEW p, NEW fn, NEW op, NEW panel, IsPost(p, fn, op, panel),
           fn \notin {"gate", "switch", "patch"}, op.kind # "patch",
           NEW s, NEW k, ShowsTrue("gates", s, k)
    PROVE  Goes(p, "gates", s, k)
<1>1. Ends(p, "gates", s, k)
  <2>1. Answered(s, p) = s
    BY AnsweredNone DEF IsPost
  <2> QED BY <2>1 DEF Ends
<1>2. ASSUME NEW k2, Outcome(k, op, k2) PROVE Ends(Done(p, k2), "gates", s, k2)
  <2>1. Answered(s, Done(p, k2)) = s
    BY DoneCall, AnsweredNone
  <2>2. View("gates", k2) = View("gates", k)
    BY <1>2 DEF Outcome, View, GatesOf
  <2> QED BY <2>1, <2>2 DEF Ends, ShowsTrue
<1> QED BY <1>1, <1>2 DEF Goes, IsPost

LEMMA ProposalsLeft ==
    ASSUME NEW p, NEW fn, NEW op, NEW panel, IsPost(p, fn, op, panel), op.kind = "patch",
           NEW s, DOMAIN s = ShownFields, NEW k, ShowsTrue("proposals", s, k)
    PROVE  Goes(p, "proposals", s, k)
<1>1. \A call : Part("proposals", Answered(s, call)) = Part("proposals", s)
  BY AnsweredParts DEF Part
<1>2. Ends(p, "proposals", s, k)
  BY <1>1 DEF Ends, ShowsTrue
<1>3. ASSUME NEW k2, Outcome(k, op, k2) PROVE Ends(Done(p, k2), "proposals", s, k2)
  <2>1. k2.triggers = k.triggers /\ k2.proposals = k.proposals
    BY <1>3 DEF Outcome
  <2>2. View("proposals", k2) = View("proposals", k) /\ (Kept(k) => Kept(k2))
    BY <2>1 DEF View, StatusesOf, Kept
  <2> QED BY <1>1, <2>2 DEF Ends, ShowsTrue
<1> QED BY <1>2, <1>3 DEF Goes, IsPost

\* A box of the gates is ticked: refused it is taken back, done it stays.
LEMMA ToggleGateAgrees ==
    ASSUME IInv, AInv, NEW g, ToggleGate(g), ~ apart' PROVE Agrees'
<1> DEFINE next == ~ shown.gates[1][g]
           op == Op("patch", g, next)
           p == Post("gate", <<op>>, "none")
           G == GatesOf(kernel)
<1>1. /\ shown.gates # <<>> /\ g \in {"require_approval", "verifier"} /\ next \in BOOLEAN /\ Launch(<<p>>)
      /\ shown' = [shown EXCEPT !.gates[1][g] = next]
      /\ UNCHANGED <<kernel, tab, running, busy>>
  BY DEF ToggleGate, GateOffered
<1>2. tab = "modify"
  BY <1>1, Facts DEF Belongs
<1>3. PanelsOf(tab) = {"gates", "proposals"}
  BY <1>2 DEF PanelsOf
<1>4. ShowsTrue("gates", shown, kernel) /\ ShowsTrue("proposals", shown, kernel)
  BY <1>1, <1>3, AtRest
<1>5. shown.gates = <<G>> /\ DOMAIN shown = ShownFields /\ kernel.cfg \in [Keys -> BOOLEAN]
  BY <1>4, CallFacts DEF ShowsTrue, Part, View, IsKernel
<1>6. op.kind = "patch" /\ op.arg = g /\ op.on = next
  BY DEF Op
<1>7. IsPost(p, "gate", op, "none")
  BY PostIs
<1>8. /\ G = [x \in {"require_approval", "verifier", "real"} |-> kernel.cfg[x]]
      /\ G \in [{"require_approval", "verifier", "real"} -> BOOLEAN]
  BY <1>5 DEF GatesOf, Keys
<1>9. ~ next = G[g]
  BY <1>1, <1>5, <1>8
<1> HIDE DEF next, op, p, G
<1>10. /\ DOMAIN shown' = ShownFields /\ shown'.proposals = shown.proposals
       /\ shown'.gates[1] = [G EXCEPT ![g] = next]
  BY <1>1, <1>5 DEF ShownFields
<1>11. Goes(p, "gates", shown', kernel)
  <2>1. Ends(p, "gates", shown', kernel)
    <3>1. Answered(shown', p).gates = <<[shown'.gates[1] EXCEPT ![g] = ~ next]>>
      <4>1. p.fn = "gate" /\ ~ p.ok /\ p.ops[1] = op
        BY <1>7 DEF IsPost
      <4> QED BY <1>6, <1>10, <4>1, AnsweredParts
    <3>2. [[G EXCEPT ![g] = next] EXCEPT ![g] = ~ next] = G
      BY <1>1, <1>8, <1>9
    <3> QED BY <1>10, <3>1, <3>2 DEF Ends, ShowsTrue, Part, View, G
  <2>2. ASSUME NEW k2, Outcome(kernel, op, k2) PROVE Ends(Done(p, k2), "gates", shown', k2)
    <3> DEFINE d == Done(p, k2)
    <3>1. d.fn = "gate" /\ d.ok /\ d.saw[1] = k2
      BY <1>6, <1>7, DoneCall
    <3> HIDE DEF d
    <3>2. Answered(shown', d).gates = <<[shown'.gates[1] EXCEPT !["real"] = k2.cfg["real"]]>>
      BY <1>10, <3>1, AnsweredParts
    <3>3. k2.cfg = [kernel.cfg EXCEPT ![g] = next]
      BY <1>6, <2>2 DEF Outcome
    <3>4. GatesOf(k2) = [[G EXCEPT ![g] = next] EXCEPT !["real"] = k2.cfg["real"]]
      BY <1>1, <1>5, <1>8, <3>3 DEF GatesOf, Keys
    <3> QED BY <1>10, <3>2, <3>4 DEF Ends, ShowsTrue, Part, View, d
  <2> QED BY <1>7, <2>1, <2>2 DEF Goes, IsPost
<1>12. Goes(p, "proposals", shown', kernel)
  <2>1. ShowsTrue("proposals", shown', kernel)
    BY <1>4, <1>10 DEF ShowsTrue, Part
  <2> QED BY <1>6, <1>7, <1>10, <2>1, ProposalsLeft
<1>13. \A panel \in PanelsOf(tab) : Rereads(p, panel) \/ Goes(p, panel, shown', kernel)
  BY <1>3, <1>11, <1>12
<1>14. /\ p.live /\ p.saw = <<>> /\ ~ p.ok /\ p.fn \in Functions /\ p.fn # "run"
       /\ p.ops = <<p.ops[1]>>
  BY <1>7 DEF IsPost, Functions
<1> QED BY <1>1, <1>13, <1>14, ClickAgrees

\* The button of the scripted engine: done, the engine's box is the kernel's.
LEMMA SwitchEngineAgrees ==
    ASSUME IInv, AInv, SwitchEngine, ~ apart' PROVE Agrees'
<1> DEFINE op == Op("patch", "real", TRUE)
           p == Post("switch", <<op>>, "none")
           G == GatesOf(kernel)
<1>1. /\ shown.gates # <<>> /\ Launch(<<p>>) /\ busy' = busy \cup {"switch"}
      /\ UNCHANGED <<kernel, tab, shown, running>>
  BY DEF SwitchEngine, EngineOffered
<1>2. tab = "modify"
  BY <1>1, Facts DEF Belongs
<1>3. PanelsOf(tab) = {"gates", "proposals"}
  BY <1>2 DEF PanelsOf
<1>4. ShowsTrue("gates", shown, kernel) /\ ShowsTrue("proposals", shown, kernel)
  BY <1>1, <1>3, AtRest
<1>5. shown.gates = <<G>> /\ DOMAIN shown = ShownFields /\ kernel.cfg \in [Keys -> BOOLEAN]
  BY <1>4, CallFacts DEF ShowsTrue, Part, View, IsKernel
<1>6. op.kind = "patch" /\ op.arg = "real"
  BY DEF Op
<1>7. IsPost(p, "switch", op, "none")
  BY PostIs
<1> HIDE DEF op, p
<1>8. Goes(p, "gates", shown, kernel)
  <2>1. Ends(p, "gates", shown, kernel)
    <3>1. Answered(shown, p).gates = shown.gates
      <4>1. p.fn = "switch" /\ ~ p.ok
        BY <1>7 DEF IsPost
      <4> QED BY <1>5, <4>1, AnsweredParts
    <3> QED BY <1>5, <3>1 DEF Ends, ShowsTrue, Part, View
  <2>2. ASSUME NEW k2, Outcome(kernel, op, k2) PROVE Ends(Done(p, k2), "gates", shown, k2)
    <3> DEFINE d == Done(p, k2)
    <3>1. d.fn = "switch" /\ d.ok /\ d.saw[1] = k2
      BY <1>6, <1>7, DoneCall
    <3> HIDE DEF d, G
    <3>2. Answered(shown, d).gates = <<[G EXCEPT !["real"] = k2.cfg["real"]]>>
      <4>1. shown.gates[1] = G
        BY <1>5
      <4>2. Answered(shown, d).gates = <<[shown.gates[1] EXCEPT !["real"] = d.saw[1].cfg["real"]]>>
        BY <1>5, <3>1, AnsweredParts
      <4> QED BY <3>1, <4>1, <4>2
    <3>3. k2.cfg = [kernel.cfg EXCEPT !["real"] = op.on]
      BY <1>6, <2>2 DEF Outcome
    <3>4. GatesOf(k2) = [G EXCEPT !["real"] = k2.cfg["real"]]
      BY <1>5, <3>3 DEF GatesOf, Keys, G
    <3> QED BY <3>2, <3>4 DEF Ends, ShowsTrue, Part, View, d
  <2> QED BY <1>7, <2>1, <2>2 DEF Goes, IsPost
<1>9. Goes(p, "proposals", shown, kernel)
  BY <1>4, <1>5, <1>6, <1>7, ProposalsLeft
<1>10. \A panel \in PanelsOf(tab) : Rereads(p, panel) \/ Goes(p, panel, shown', kernel)
  BY <1>1, <1>3, <1>8, <1>9
<1>11. /\ p.live /\ p.saw = <<>> /\ ~ p.ok /\ p.fn \in Functions /\ p.fn # "run"
       /\ p.ops = <<p.ops[1]>> /\ Holds(p, "switch")
  BY <1>7 DEF IsPost, Functions, Holds, FlagOf
<1> QED BY <1>1, <1>10, <1>11, ClickAgrees

\* The Advisor's analysis: the proposals are read whatever came of it.
LEMMA AnalyzeAgrees ==
    ASSUME IInv, AInv, Analyze, ~ apart' PROVE Agrees'
<1> DEFINE op == Op("analyze", 0, TRUE)
           p == Post("analyze", <<op>>, "proposals")
<1>1. /\ shown.proposals # <<>> /\ Launch(<<p>>) /\ busy' = busy \cup {"analyze"}
      /\ UNCHANGED <<kernel, tab, shown, running>>
  BY DEF Analyze, AnalysisOffered
<1>2. PanelsOf(tab) = {"gates", "proposals"}
  BY <1>1, Facts DEF Belongs, PanelsOf
<1>3. ShowsTrue("gates", shown, kernel)
  BY <1>1, <1>2, AtRest
<1>4. op.kind = "analyze"
  BY DEF Op
<1>5. IsPost(p, "analyze", op, "proposals")
  BY PostIs
<1> HIDE DEF op, p
<1>6. Goes(p, "gates", shown, kernel)
  BY <1>3, <1>4, <1>5, GatesLeft
<1>7. Rereads(p, "proposals")
  BY <1>5 DEF IsPost, Rereads
<1>8. \A panel \in PanelsOf(tab) : Rereads(p, panel) \/ Goes(p, panel, shown', kernel)
  BY <1>1, <1>2, <1>6, <1>7
<1>9. /\ p.live /\ p.saw = <<>> /\ ~ p.ok /\ p.fn \in Functions /\ p.fn # "run"
      /\ p.ops = <<p.ops[1]>> /\ Holds(p, "analyze")
  BY <1>5 DEF IsPost, Functions, Holds, FlagOf
<1> QED BY <1>1, <1>8, <1>9, ClickAgrees

\* The buttons of a suggestion, its run apart.
LEMMA ActOnProposalAgrees ==
    ASSUME IInv, AInv, NEW n \in Proposals, ActOnProposal(n), ~ apart' PROVE Agrees'
<1>1. PICK kind \in Buttons(n) \ {"run"} : Launch(<<Post(kind, <<Op(kind, n, TRUE)>>, "proposals")>>)
  BY DEF ActOnProposal
<1> DEFINE op == Op(kind, n, TRUE)
           p == Post(kind, <<op>>, "proposals")
<1>2. UNCHANGED <<kernel, tab, shown, running, busy>> /\ Launch(<<p>>)
  BY <1>1 DEF ActOnProposal
<1>3. shown.proposals # <<>> /\ kind \in {"unschedule", "schedule", "dismiss"}
  BY <1>1 DEF Buttons
<1>4. PanelsOf(tab) = {"gates", "proposals"}
  BY <1>3, Facts DEF Belongs, PanelsOf
<1>5. ShowsTrue("gates", shown, kernel)
  BY <1>2, <1>4, AtRest
<1>6. op.kind = kind
  BY DEF Op
<1>7. IsPost(p, kind, op, "proposals")
  BY PostIs
<1> HIDE DEF op, p
<1>8. Goes(p, "gates", shown, kernel)
  <2>1. kind \notin {"gate", "switch", "patch"}
    BY <1>3
  <2> QED BY <1>5, <1>6, <1>7, <2>1, GatesLeft
<1>9. Rereads(p, "proposals")
  BY <1>3, <1>7 DEF IsPost, Rereads
<1>10. \A panel \in PanelsOf(tab) : Rereads(p, panel) \/ Goes(p, panel, shown', kernel)
  BY <1>2, <1>4, <1>8, <1>9
<1>11. /\ p.live /\ p.saw = <<>> /\ ~ p.ok /\ p.fn \in Functions /\ p.fn # "run"
       /\ p.ops = <<p.ops[1]>>
  BY <1>3, <1>7 DEF IsPost, Functions
<1> QED BY <1>2, <1>10, <1>11, ClickAgrees

\* Run: shown at once, read again when its change has ended.
LEMMA RunProposalAgrees ==
    ASSUME IInv, AInv, NEW n \in Proposals, RunProposal(n), ~ apart' PROVE Agrees'
<1> DEFINE op == Op("run", n, TRUE)
           p == Post("run", <<op>>, "proposals")
<1>1. /\ "run" \in Buttons(n) /\ running' = TRUE /\ Launch(<<p>>)
      /\ shown' = [shown EXCEPT !.proposals[1][n] = "run"]
      /\ UNCHANGED <<kernel, tab, busy>>
  BY DEF RunProposal
<1>2. shown.proposals # <<>> /\ ~ running
  BY <1>1 DEF Buttons
<1>3. tab = "modify" /\ PanelsOf(tab) = {"gates", "proposals"}
  BY <1>2, Facts DEF Belongs, PanelsOf
<1>4. ShowsTrue("gates", shown, kernel)
  BY <1>1, <1>3, AtRest
<1>5. shown'.gates = shown.gates
  BY <1>1, CallFacts DEF ShownFields
<1>6. op.kind = "run"
  BY DEF Op
<1>7. IsPost(p, "run", op, "proposals")
  BY PostIs
<1> HIDE DEF op, p
<1>8. Goes(p, "gates", shown', kernel)
  <2>1. ShowsTrue("gates", shown', kernel)
    BY <1>4, <1>5 DEF ShowsTrue, Part
  <2> QED BY <1>6, <1>7, <2>1, GatesLeft
<1>9. Rereads(p, "proposals")
  BY <1>7 DEF IsPost, Rereads
<1>10. \A panel \in PanelsOf(tab) : Rereads(p, panel) \/ Goes(p, panel, shown', kernel)
  BY <1>3, <1>8, <1>9
<1>11. /\ p.live /\ p.saw = <<>> /\ ~ p.ok /\ p.fn \in Functions /\ p.ops[1].kind = "run"
       /\ p.ops = <<p.ops[1]>>
  BY <1>6, <1>7 DEF IsPost, Functions
<1>12. running'
  BY <1>1
<1> QED BY <1>1, <1>2, <1>3, <1>10, <1>11, <1>12, ClickAgrees

\* Save: the card has no part in it.
LEMMA SaveSettingsAgrees ==
    ASSUME IInv, AInv, SaveSettings, ~ apart' PROVE Agrees'
<1> DEFINE op == Op("patch", "real", shown.draft[1])
           p == Post("save", <<op>>, "none")
<1>1. /\ shown.draft # <<>> /\ Launch(<<p>>) /\ busy' = busy \cup {"save"}
      /\ UNCHANGED <<kernel, tab, shown, running>>
  BY DEF SaveSettings
<1>2. PanelsOf(tab) = {"card"}
  BY <1>1, Facts DEF Belongs, PanelsOf
<1>3. ShowsTrue("card", shown, kernel)
  BY <1>1, <1>2, AtRest
<1>4. op.kind = "patch" /\ op.arg = "real"
  BY DEF Op
<1>5. IsPost(p, "save", op, "none")
  BY PostIs
<1> HIDE DEF op, p
<1>6. Goes(p, "card", shown, kernel)
  <2>1. Ends(p, "card", shown, kernel)
    <3>1. Answered(shown, p) = shown
      BY <1>5, AnsweredNone DEF IsPost
    <3> QED BY <1>3, <3>1 DEF Ends
  <2>2. ASSUME NEW k2, Outcome(kernel, op, k2) PROVE Ends(Done(p, k2), "card", shown, k2)
    <3>1. Answered(shown, Done(p, k2)) = shown
      BY <1>5, DoneCall, AnsweredNone
    <3>2. k2.cfg = [kernel.cfg EXCEPT !["real"] = op.on] /\ k2.triggers = kernel.triggers
      BY <1>4, <2>2 DEF Outcome
    <3>3. CardOf(k2) = CardOf(kernel)
      BY <3>2 DEF CardOf
    <3>4. ListOf(k2) = ListOf(kernel)
      BY <3>2 DEF ListOf
    <3> QED BY <1>3, <3>1, <3>3, <3>4 DEF Ends, ShowsTrue, View
  <2> QED BY <1>5, <2>1, <2>2 DEF Goes, IsPost
<1>7. \A panel \in PanelsOf(tab) : Rereads(p, panel) \/ Goes(p, panel, shown', kernel)
  BY <1>1, <1>2, <1>6
<1>8. /\ p.live /\ p.saw = <<>> /\ ~ p.ok /\ p.fn \in Functions /\ p.fn # "run"
      /\ p.ops = <<p.ops[1]>> /\ Holds(p, "save")
  BY <1>5 DEF IsPost, Functions, Holds, FlagOf
<1> QED BY <1>1, <1>7, <1>8, ClickAgrees

\* A box of the Automation card: refused, the card is what it was; done, what
\* it shows.
LEMMA PatchConfigAgrees ==
    ASSUME IInv, AInv, NEW key \in {"automation", "auto_promote"}, PatchConfig(key), ~ apart'
    PROVE  Agrees'
<1> DEFINE next == ~ shown.card[1][key]
           op == Op("patch", key, next)
           q == Post("patch", <<op>>, "none")
           p == [q EXCEPT !.prev = shown.card]
           C == CardOf(kernel)
<1>1. /\ shown.card # <<>> /\ Launch(<<p>>)
      /\ shown' = [shown EXCEPT !.card[1][key] = next]
      /\ UNCHANGED <<kernel, tab, running, busy>>
  BY DEF PatchConfig, PatchOffered
<1>2. PanelsOf(tab) = {"card"}
  BY <1>1, Facts DEF Belongs, PanelsOf
<1>3. ShowsTrue("card", shown, kernel)
  BY <1>1, <1>2, AtRest
<1>4. shown.card = <<C>> /\ shown.list = ListOf(kernel) /\ DOMAIN shown = ShownFields
  <2>1. <<shown.card, shown.list>> = << <<C>>, ListOf(kernel)>>
    BY <1>3 DEF ShowsTrue, Part, View
  <2> QED BY <2>1, CallFacts
<1>5. op.kind = "patch" /\ op.arg = key /\ op.on = next
  BY DEF Op
<1>6. IsPost(q, "patch", op, "none")
  BY PostIs
<1>7. C = [g \in {"automation", "auto_promote", "verifier"} |-> kernel.cfg[g]]
  BY DEF CardOf
<1> HIDE DEF next, op, q, C
<1>8. IsPost(p, "patch", op, "none") /\ p.prev = shown.card
  BY <1>6 DEF IsPost, Fields
<1> HIDE DEF p
<1>9. /\ DOMAIN shown' = ShownFields /\ shown'.list = shown.list
      /\ shown'.card = <<[C EXCEPT ![key] = next]>>
  <2>1. shown' = [shown EXCEPT !.card = [shown.card EXCEPT ![1] = [shown.card[1] EXCEPT ![key] = next]]]
    BY <1>1
  <2>2. [shown.card EXCEPT ![1] = [shown.card[1] EXCEPT ![key] = next]] = <<[C EXCEPT ![key] = next]>>
    <3>1. shown.card[1] = C
      BY <1>4
    <3> DEFINE e == [C EXCEPT ![key] = next]
    <3> HIDE DEF e
    <3>2. [shown.card EXCEPT ![1] = e] = <<e>>
      BY <1>4
    <3> QED BY <3>1, <3>2 DEF e
  <2> QED BY <1>4, <2>1, <2>2 DEF ShownFields
<1>10. Goes(p, "card", shown', kernel)
  <2>1. Ends(p, "card", shown', kernel)
    <3>1. p.fn = "patch" /\ ~ p.ok
      BY <1>8 DEF IsPost
    <3>2. Answered(shown', p).card = shown.card /\ Answered(shown', p).list = shown.list
      BY <1>8, <1>9, <3>1, AnsweredParts
    <3>3. Part("card", Answered(shown', p)) = View("card", kernel)
      BY <1>4, <3>2 DEF Part, View, C
    <3> QED BY <3>3 DEF Ends, ShowsTrue
  <2>2. ASSUME NEW k2, Outcome(kernel, op, k2) PROVE Ends(Done(p, k2), "card", shown', k2)
    <3> DEFINE d == Done(p, k2)
    <3>1. d.ok /\ d.fn = "patch"
      BY <1>8, DoneCall
    <3> HIDE DEF d
    <3>2. Answered(shown', d).card = shown'.card /\ Answered(shown', d).list = shown'.list
      BY <1>9, <3>1, AnsweredParts
    <3>3. k2.cfg = [kernel.cfg EXCEPT ![key] = next] /\ k2.triggers = kernel.triggers
      BY <1>5, <2>2 DEF Outcome
    <3>4. CardOf(k2) = [C EXCEPT ![key] = next]
      <4>1. kernel.cfg \in [Keys -> BOOLEAN]
        BY CallFacts DEF IsKernel
      <4> QED BY <1>7, <3>3, <4>1 DEF CardOf, Keys
    <3>5. ListOf(k2) = ListOf(kernel)
      BY <3>3 DEF ListOf
    <3>6. Part("card", Answered(shown', d)) = View("card", k2)
      BY <1>4, <1>9, <3>2, <3>4, <3>5 DEF Part, View
    <3> QED BY <3>6 DEF Ends, ShowsTrue, d
  <2> QED BY <1>8, <2>1, <2>2 DEF Goes, IsPost
<1>11. \A panel \in PanelsOf(tab) : Rereads(p, panel) \/ Goes(p, panel, shown', kernel)
  BY <1>2, <1>10
<1>12. /\ p.live /\ p.saw = <<>> /\ ~ p.ok /\ p.fn \in Functions /\ p.fn # "run"
       /\ p.ops = <<p.ops[1]>>
  BY <1>8 DEF IsPost, Functions
<1> QED BY <1>1, <1>11, <1>12, ClickAgrees

\* The editor: the card is read if the trigger was saved, right if it was not.
LEMMA SaveTriggerAgrees ==
    ASSUME IInv, AInv, SaveTrigger, ~ apart' PROVE Agrees'
<1>1. PICK op \in EditorOps : Launch(<<Post("trigger", <<op>>, "card")>>)
  BY DEF SaveTrigger
<1> DEFINE p == Post("trigger", <<op>>, "card")
<1>2. /\ shown.card # <<>> /\ Launch(<<p>>) /\ busy' = busy \cup {"card"}
      /\ UNCHANGED <<kernel, tab, shown, running>>
  BY <1>1 DEF SaveTrigger
<1>3. PanelsOf(tab) = {"card"}
  BY <1>2, Facts DEF Belongs, PanelsOf
<1>4. ShowsTrue("card", shown, kernel)
  BY <1>2, <1>3, AtRest
<1>5. IsPost(p, "trigger", op, "card")
  BY PostIs
<1> HIDE DEF p
<1>6. Goes(p, "card", shown, kernel)
  <2>1. Answered(shown, p) = shown
    BY <1>5, AnsweredNone DEF IsPost
  <2>2. \A k2 : Rereads(Done(p, k2), "card")
    BY <1>5, DoneCall DEF Rereads
  <2> QED BY <1>4, <1>5, <2>1, <2>2 DEF Goes, Ends, IsPost
<1>7. \A panel \in PanelsOf(tab) : Rereads(p, panel) \/ Goes(p, panel, shown', kernel)
  BY <1>2, <1>3, <1>6
<1>8. /\ p.live /\ p.saw = <<>> /\ ~ p.ok /\ p.fn \in Functions /\ p.fn # "run"
      /\ p.ops = <<p.ops[1]>> /\ Holds(p, "card")
  BY <1>5 DEF IsPost, Functions, Holds, FlagOf
<1> QED BY <1>2, <1>7, <1>8, ClickAgrees

\* The buttons of a row.
LEMMA ActOnTriggerAgrees ==
    ASSUME IInv, AInv, NEW t, ActOnTrigger(t), ~ apart' PROVE Agrees'
<1>1. PICK op \in RowOps(t) : Launch(<<Post("row", <<op>>, "card")>>)
  BY DEF ActOnTrigger
<1> DEFINE p == Post("row", <<op>>, "card")
<1>2. /\ shown.card # <<>> /\ Launch(<<p>>)
      /\ UNCHANGED <<kernel, tab, shown, running, busy>>
  BY <1>1 DEF ActOnTrigger
<1>3. PanelsOf(tab) = {"card"}
  BY <1>2, Facts DEF Belongs, PanelsOf
<1>4. IsPost(p, "row", op, "card")
  BY PostIs
<1> HIDE DEF p
<1>5. Rereads(p, "card")
  BY <1>4 DEF IsPost, Rereads
<1>6. \A panel \in PanelsOf(tab) : Rereads(p, panel) \/ Goes(p, panel, shown', kernel)
  BY <1>3, <1>5
<1>7. /\ p.live /\ p.saw = <<>> /\ ~ p.ok /\ p.fn \in Functions /\ p.fn # "run"
      /\ p.ops = <<p.ops[1]>>
  BY <1>4 DEF IsPost, Functions
<1> QED BY <1>2, <1>6, <1>7, ClickAgrees

\* The switch of the Errors tab: its panel is read at the end.
LEMMA ToggleSelfhealAgrees ==
    ASSUME IInv, AInv, ToggleSelfheal, ~ apart' PROVE Agrees'
<1> DEFINE ops == HealOps(shown.heal[1])
           p == Post("selfheal", ops, "heal")
<1>1. /\ shown.heal # <<>> /\ Launch(<<p>>) /\ busy' = busy \cup {"heal"}
      /\ UNCHANGED <<kernel, tab, shown, running>>
  BY DEF ToggleSelfheal, MayHeal
<1>2. PanelsOf(tab) = {"heal"}
  BY <1>1, Facts DEF Belongs, PanelsOf
<1> HIDE DEF ops
<1>3. p.fn = "selfheal" /\ p.reads = "heal" /\ p.saw = <<>> /\ p.live /\ ~ p.ok
  BY NewCall
<1> HIDE DEF p
<1>4. \A panel \in PanelsOf(tab) : Rereads(p, panel) \/ Goes(p, panel, shown', kernel)
  BY <1>2, <1>3 DEF Rereads
<1>5. p.fn \in Functions /\ p.fn # "run" /\ Holds(p, "heal")
  BY <1>3 DEF Functions, Holds
<1> QED BY <1>1, <1>3, <1>4, <1>5, ClickAgrees

\* A step that leaves the panels as they are.
LEMMA SameAgrees ==
    ASSUME IInv, Agrees, UNCHANGED <<kernel, tab, running, busy, calls>>, DOMAIN shown' = ShownFields,
           \A panel : Part(panel, shown') = Part(panel, shown)
    PROVE  Agrees'
<1>1. DOMAIN shown = ShownFields
  BY CallFacts
<1>2. \A panel, k : ShowsTrue(panel, shown, k) => ShowsTrue(panel, shown', k)
  BY DEF ShowsTrue
<1>3. \A panel, k, call : ShowsTrue(panel, Answered(shown, call), k) => ShowsTrue(panel, Answered(shown', call), k)
  <2>1. \A panel, call : Part(panel, Answered(shown', call)) = Part(panel, Answered(shown, call))
    BY <1>1, AnsweredSame
  <2> QED BY <2>1 DEF ShowsTrue
<1>4. \A panel, call : Goes(call, panel, shown, kernel) => Goes(call, panel, shown', kernel)
  BY <1>3 DEF Goes, Ends
<1>5. UnderWay' = UnderWay
  BY DEF UnderWay
<1>6. \A panel \in PanelsOf(tab) : Tracked(panel)'
  BY <1>2, <1>4, <1>5 DEF Agrees, Tracked
<1>7. /\ \A c \in UnderWay' : Fits(calls[c])' /\ SawTrue(calls'[c], kernel')
      /\ Pairs' /\ Runs' /\ (tab = "modify" /\ kernel.task => running)'
      /\ \A b \in busy' : \E c \in UnderWay' : Holds(calls'[c], b)
  BY <1>5 DEF Agrees, Fits, Pairs, Runs
<1> QED BY <1>6, <1>7 DEF Agrees

\* The draft is no panel's that is to agree.
LEMMA EditDraftAgrees ==
    ASSUME IInv, Agrees, EditDraft PROVE Agrees'
<1>1. /\ shown' = [shown EXCEPT !.draft = <<~ @[1]>>]
      /\ UNCHANGED <<kernel, tab, running, busy, calls>>
  BY DEF EditDraft
<1>2. /\ DOMAIN shown' = ShownFields
      /\ shown'.gates = shown.gates /\ shown'.proposals = shown.proposals /\ shown'.card = shown.card
      /\ shown'.list = shown.list /\ shown'.heal = shown.heal
  BY <1>1, CallFacts DEF ShownFields
<1>3. \A panel : Part(panel, shown') = Part(panel, shown)
  BY <1>2 DEF Part
<1> QED BY <1>1, <1>2, <1>3, SameAgrees

LEMMA InitAgrees == Init => AInv
<1> SUFFICES ASSUME Init PROVE Agrees
  BY DEF AInv
<1>1. /\ tab = "other" /\ busy = {} /\ calls = [c \in 1..MaxCalls |-> Idle]
  BY DEF Init
<1>2. UnderWay = {} /\ PanelsOf(tab) = {}
  BY <1>1 DEF UnderWay, PanelsOf
<1> QED BY <1>1, <1>2 DEF Agrees, Pairs, Runs

\* The panels' invariant is kept by every step.
LEMMA StepAgrees == IInv /\ AInv /\ [Next]_vars => AInv'
<1> SUFFICES ASSUME IInv, AInv, [Next]_vars, ~ apart' PROVE Agrees'
  BY DEF AInv
<1>1. apart \in BOOLEAN
  BY Facts
<1>2. ASSUME NEW c \in 1..MaxCalls, Progress(c) PROVE Agrees'
  <2>1. apart' = apart
    BY <1>2 DEF Progress, Serve, Answer, PostArrives, GetArrives
  <2>2. Agrees
    BY <2>1 DEF AInv
  <2> QED BY <1>2, <2>2, ServeAgrees, AnswerAgrees, PostArrivesAgrees, GetArrivesAgrees DEF Progress
<1>3. ASSUME NEW c \in 1..MaxCalls, Lose(c) PROVE Agrees'
  BY <1>3 DEF Lose
<1>4. ASSUME NEW t \in Tabs, SelectTab(t) PROVE Agrees'
  BY <1>4, SelectTabAgrees
<1>5. CASE Modify
  BY <1>5, ToggleGateAgrees, SwitchEngineAgrees, AnalyzeAgrees, ActOnProposalAgrees, RunProposalAgrees
     DEF Modify
<1>6. CASE Settings
  <2>1. CASE EditDraft
    <3>1. Agrees
      BY <2>1 DEF EditDraft, AInv
    <3> QED BY <2>1, <3>1, EditDraftAgrees
  <2> QED BY <1>6, <2>1, SaveSettingsAgrees, SaveTriggerAgrees, PatchConfigAgrees, ActOnTriggerAgrees
          DEF Settings
<1>7. CASE ToggleSelfheal
  BY <1>7, ToggleSelfhealAgrees
<1>8. CASE TaskEnds
  <2>1. apart' = (apart \/ (running /\ \E c \in UnderWay : calls[c].fn # "run"))
    BY <1>8, Zenon DEF TaskEnds
  <2>2. Agrees
    BY <2>1, Zenon DEF AInv
  <2> QED BY <1>8, <2>2, TaskEndsAgrees
<1>9. CASE Others
  BY <1>9 DEF Others
<1>10. CASE Fires
  BY <1>10 DEF Fires
<1>11. CASE UNCHANGED vars
  <2>1. UNCHANGED <<kernel, tab, running, busy, calls>> /\ apart' = apart /\ shown' = shown
    BY <1>11 DEF vars
  <2>2. Agrees /\ DOMAIN shown' = ShownFields
    BY <2>1, CallFacts DEF AInv
  <2> QED BY <2>1, <2>2, SameAgrees
<1> QED BY <1>2, <1>3, <1>4, <1>5, <1>6, <1>7, <1>8, <1>9, <1>10, <1>11 DEF Next

\* Whatever of its operations was refused or done, in whatever order the answers
\* came: a mounted tab whose calls have come to rest, no two having overlapped,
\* none lost and nobody else having stepped in, shows what the kernel and the
\* plugin hold and has no button left disabled (patchConfig, the toggles of
\* Self-Modify, runProposal, toggleSelfheal).
THEOREM PanelsAgreeCorrect == Spec => []PanelsAgree
<1>1. AInv => PanelsAgree
  <2> SUFFICES ASSUME AInv, UnderWay = {}, ~ apart
               PROVE  /\ tab = "modify" => /\ shown.gates = <<GatesOf(kernel)>>
                                           /\ shown.proposals = <<StatusesOf(kernel)>>
                      /\ tab = "settings" => shown.card = <<CardOf(kernel)>> /\ shown.list = ListOf(kernel)
                      /\ tab = "errors" => shown.heal = <<HealOf(kernel)>>
                      /\ busy = {}
    BY DEF PanelsAgree
  <2>1. Agrees
    BY DEF AInv
  <2>2. busy = {}
    BY <2>1 DEF Agrees
  <2>3. \A panel \in PanelsOf(tab) : Part(panel, shown) = View(panel, kernel)
    BY <2>1 DEF Agrees, Tracked, ShowsTrue
  <2>4. ASSUME tab = "modify" PROVE shown.gates = <<GatesOf(kernel)>> /\ shown.proposals = <<StatusesOf(kernel)>>
    BY <2>3, <2>4 DEF PanelsOf, Part, View
  <2>5. ASSUME tab = "settings" PROVE shown.card = <<CardOf(kernel)>> /\ shown.list = ListOf(kernel)
    <3>1. <<shown.card, shown.list>> = << <<CardOf(kernel)>>, ListOf(kernel)>>
      BY <2>3, <2>5 DEF PanelsOf, Part, View
    <3> QED BY <3>1
  <2>6. ASSUME tab = "errors" PROVE shown.heal = <<HealOf(kernel)>>
    BY <2>3, <2>6 DEF PanelsOf, Part, View
  <2> QED BY <2>2, <2>4, <2>5, <2>6
<1>2. Spec => []AInv
  BY InitAgrees, StepAgrees, Invariant, PTL DEF Spec
<1> QED BY <1>1, <1>2, PTL
=============================================================================
