------------------------------ MODULE UndoStack ------------------------------
(***************************************************************************)
(* What the kernel promises about rolling back (kernel/core.py, rollback:   *)
(* "repeated rollbacks step v5 -> v4 -> v3"): the versions served form a    *)
(* stack.  Going to another version puts the one that is left on the stack, *)
(* one step of undo serves the top of the stack and takes it off.  Only the *)
(* last MaxHistory departed versions are remembered.                        *)
(***************************************************************************)
EXTENDS Integers, Sequences

CONSTANTS Versions, NoVersion, MaxHistory

VARIABLES
    active,    \* the version served
    undo,      \* the versions that were left, the newest last
    undoing    \* whether what is under way is one step of undo

Newest(h) == IF Len(h) > MaxHistory
             THEN SubSeq(h, Len(h) - MaxHistory + 1, Len(h)) ELSE h

Init == active = NoVersion /\ undo = <<>> /\ undoing = FALSE

Ask == undoing' \in BOOLEAN /\ UNCHANGED <<active, undo>>

FirstBoot ==
    /\ active = NoVersion
    /\ active' \in Versions
    /\ UNCHANGED <<undo, undoing>>

GoTo(v) ==
    /\ ~ undoing
    /\ v # active /\ active # NoVersion
    /\ active' = v
    /\ undo' = IF undo # <<>> /\ undo[Len(undo)] = active THEN undo
               ELSE Newest(Append(undo, active))
    /\ UNCHANGED undoing

Undo ==
    /\ undoing /\ undo # <<>>
    /\ active' = undo[Len(undo)]
    /\ active' # active
    /\ undo' = SubSeq(undo, 1, Len(undo) - 1)
    /\ UNCHANGED undoing

Next == Ask \/ FirstBoot \/ Undo \/ \E v \in Versions : GoTo(v)

Spec == Init /\ [][Next]_<<active, undo, undoing>>
=============================================================================
