------------------------------ MODULE Triggers ------------------------------
(***************************************************************************)
(* The kernel's store of autonomous triggers (state/triggers.json): what    *)
(* the requests and the fires of kernel/triggers.py make of it.  A store    *)
(* maps the identity of a trigger to its record                             *)
(*   [kind, on, once, of, day, count, fired]                                *)
(* where of is the proposal its prompt is about (0: none), day the last day *)
(* it fired (0: never), count its fires of that day, and fired the day it   *)
(* last fired for an item (0: never).                                       *)
(***************************************************************************)
EXTENDS Naturals, FiniteSets, SequencesExt

CONSTANTS
    Errors,      \* fingerprints of errors the app's tracker may report
    Proposals    \* the Advisor's proposals, numbered by age

Items == Errors \cup Proposals

ASSUME ItemsAssumption ==
    /\ IsFiniteSet(Items)
    /\ Items \subseteq Nat \ {0}
    /\ Errors \cap Proposals = {}

Kinds == {"schedule", "error_spike", "advisor", "webhook"}

New(kind, once, of) ==
    [kind |-> kind, on |-> TRUE, once |-> once, of |-> of, day |-> 0, count |-> 0,
     fired |-> [i \in Items |-> 0]]

Entries ==
    [kind : Kinds, on : BOOLEAN, once : BOOLEAN, of : Nat, day : Nat, count : Nat,
     fired : [Items -> Nat]]

Created(ts, id, r) == [t \in DOMAIN ts \cup {id} |-> IF t = id THEN r ELSE ts[t]]

Deleted(ts, id) == [t \in DOMAIN ts \ {id} |-> ts[t]]

Toggled(ts, id, on) == IF id \in DOMAIN ts THEN [ts EXCEPT ![id].on = on] ELSE ts

\* A saved edit: what the spec does not name takes its default, "enabled" and
\* the one-shot mark included.
Edited(ts, id, on, once) ==
    IF id \in DOMAIN ts THEN [ts EXCEPT ![id].on = on, ![id].once = once] ELSE ts

\* The bookkeeping of a fire for item fp (0: none): a one-shot is spent by it.
Recorded(r, fp, day) ==
    [r EXCEPT !.day = day,
              !.count = IF r.day = day THEN @ + 1 ELSE 1,
              !.on = @ /\ ~ r.once,
              !.fired = IF fp = 0 THEN @ ELSE [@ EXCEPT ![fp] = day]]

\* A daily schedule fires once a day.
ScheduleDue(r, day) == r.day < day

\* Errors fire again after their cooldown of a day, proposals after a month.
SpikeHits(r, groups, day) == {g \in groups : r.fired[g] < day}

AdvisorHits(r, open) ==
    LET fresh == {p \in open : r.fired[p] = 0}
    IN  IF fresh = {} THEN {} ELSE {Min(fresh)}
-----------------------------------------------------------------------------
(* The plugin's proposals, [status, trigger], beside the triggers.          *)

Open == [status |-> "open", trigger |-> 0]

\* What the triggers say of the proposals: an advisor trigger filed an open
\* one; a scheduled one's trigger is gone or has fired.
Reconciled(st, ts) ==
    [p \in Proposals |->
       CASE st[p].status = "open" /\ \E t \in DOMAIN ts : ts[t].kind = "advisor" /\ ts[t].fired[p] # 0
              -> [st[p] EXCEPT !.status = "run"]
         [] st[p].status = "scheduled" /\ st[p].trigger \notin DOMAIN ts -> Open
         [] st[p].status = "scheduled" /\ st[p].trigger \in DOMAIN ts /\ ts[st[p].trigger].day # 0
              -> [st[p] EXCEPT !.status = "run"]
         [] OTHER -> st[p]]
=============================================================================
