------------------------- MODULE KernelUpdateProofs -------------------------
(***************************************************************************)
(* What the firmware guarantees of every kernel it runs, for any versions,  *)
(* any of them broken, any number of kills and failures: only approved      *)
(* kernels run, a kernel that answered is kept until its successor has, and *)
(* no version that failed its gate goes on to be called promoted.           *)
(***************************************************************************)
EXTENDS KernelUpdate, TLAPS

(* What is still to be written, part by part.                               *)
Writes ==
    /\ todo = [write |-> todo.write, what |-> todo.what, version |-> todo.version]
    /\ \/ todo.write = "none" /\ todo.what = "none" /\ todo.version = NoVersion
       \/ todo.write = "active" /\ todo.what \in {"approve", "rollback"}
          /\ todo.version \in Versions
       \/ todo.write = "pending" /\ todo.what \in {"approve", "hold", "reject"}
          /\ todo.version \in Versions
       \/ todo.write = "status" /\ todo.what \in {"approve", "hold", "reject", "report"}
          /\ todo.version \in Versions

LEMMA TodoParts == todo \in Todo <=> Writes
<1>1. ASSUME todo \in Todo PROVE Writes
  <2>1. CASE todo = NoTodo
    BY <2>1 DEF NoTodo, Writes
  <2>2. CASE todo # NoTodo
    BY <1>1, <2>2 DEF Todo, Writes
  <2> QED
    BY <2>1, <2>2
<1>2. ASSUME Writes PROVE todo \in Todo
  BY <1>2 DEF Writes, Todo, NoTodo
<1> QED
  BY <1>1, <1>2

(* A step of an approval moves it on.                                       *)
LEMMA Rewrites ==
    ASSUME Writes, NEW w
    PROVE  [todo EXCEPT !.write = w] = [write |-> w, what |-> todo.what, version |-> todo.version]
  BY DEF Writes

(* A new entry, or none, is of that form.                                   *)
LEMMA TodoWrites ==
    ASSUME NEW v \in Versions,
           \/ todo' = NoTodo
           \/ \E x \in {"approve", "rollback"} :
                 todo' = [write |-> "active", what |-> x, version |-> v]
           \/ \E x \in {"approve", "hold", "reject"} :
                 todo' = [write |-> "pending", what |-> x, version |-> v]
           \/ \E x \in {"approve", "hold", "reject", "report"} :
                 todo' = [write |-> "status", what |-> x, version |-> v]
    PROVE  Writes' /\ todo'.version \in {NoVersion, v}
<1>1. CASE todo' = NoTodo
  BY <1>1 DEF Writes, NoTodo
<1>2. ASSUME NEW x \in {"approve", "rollback"},
             todo' = [write |-> "active", what |-> x, version |-> v]
      PROVE  Writes' /\ todo'.version \in {NoVersion, v}
  BY <1>2 DEF Writes
<1>3. ASSUME NEW x \in {"approve", "hold", "reject"},
             todo' = [write |-> "pending", what |-> x, version |-> v]
      PROVE  Writes' /\ todo'.version \in {NoVersion, v}
  BY <1>3 DEF Writes
<1>4. ASSUME NEW x \in {"approve", "hold", "reject", "report"},
             todo' = [write |-> "status", what |-> x, version |-> v]
      PROVE  Writes' /\ todo'.version \in {NoVersion, v}
  BY <1>4 DEF Writes
<1> QED
  BY <1>1, <1>2, <1>3, <1>4

-----------------------------------------------------------------------------
(* Where the firmware has the candidate in place, the kernel that answered   *)
(* is the backup; everywhere else it is kernel/.                            *)
ProvenInPlace ==
    /\ Shipped \in proven
    /\ hurt # "now" => IF NotPastGate THEN backup \in proven ELSE live \in proven

(* Preserved by every action; a kill where the candidate is in place is what *)
(* the exception is about, and a container made anew ends it.               *)
LEMMA PlaceStep == ProvenInPlace /\ [Next]_vars => ProvenInPlace'
<1> SUFFICES ASSUME ProvenInPlace, [Next]_vars PROVE ProvenInPlace'
  OBVIOUS
<1> USE DEF ProvenInPlace, NotPastGate, disk, history
<1>1. CASE PrepareNothing
  BY <1>1 DEF PrepareNothing
<1>2. CASE StageSwap
  BY <1>2 DEF StageSwap
<1>3. CASE SwapOut
  BY <1>3 DEF SwapOut
<1>4. CASE SwapIn
  BY <1>4 DEF SwapIn
<1>5. CASE Launch
  BY <1>5 DEF Launch
<1>6. CASE GatePasses
  BY <1>6 DEF GatePasses, NoFault
<1>7. CASE GateFails
  BY <1>7 DEF GateFails
<1>8. CASE MoveAside
  BY <1>8 DEF MoveAside
<1>9. CASE Restore
  BY <1>9 DEF Restore
<1>10. CASE Revert
  BY <1>10 DEF Revert
<1>11. CASE DeployFails
  BY <1>11 DEF DeployFails
<1>12. ASSUME Exits PROVE ProvenInPlace'
  BY <1>12 DEF Exits, Supervise
<1>13. CASE NothingToRun \/ BrokenExits \/ HealthyExits
  BY <1>12, <1>13 DEF NothingToRun, BrokenExits, HealthyExits
<1>elsewhere. ASSUME UNCHANGED <<live, backup, at, swapped, proven, hurt>> PROVE ProvenInPlace'
  BY <1>elsewhere
<1>14. CASE TakeReport \/ Boots \/ WriteActive \/ WritePending \/ Stamp
  <2>1. UNCHANGED <<live, backup, at, swapped, proven, hurt>>
    BY <1>14 DEF TakeReport, Boots, WriteActive, WritePending, Stamp, firmware
  <2> QED
    BY <1>elsewhere, <2>1
<1>15. CASE Leave
  BY <1>15 DEF Leave
<1>16. CASE Operator
  <2>1. UNCHANGED <<live, backup, at, swapped, proven, hurt>>
    BY <1>16 DEF Operator, StageChange, Approve, Reject, DropChange, HoldChange, Rollback,
       firmware
  <2> QED
    BY <1>elsewhere, <2>1
<1>17. CASE Kill
  BY <1>17 DEF Kill
<1>18. CASE PowerOn
  BY <1>18 DEF PowerOn
<1>19. CASE Recreate
  BY <1>19 DEF Recreate
<1>20. CASE UNCHANGED vars
  BY <1>20 DEF vars, firmware
<1> QED
  BY <1>1, <1>2, <1>3, <1>4, <1>5, <1>6, <1>7, <1>8, <1>9, <1>10, <1>11, <1>13, <1>14,
     <1>15, <1>16, <1>17, <1>18, <1>19, <1>20 DEF Next, Firmware, Kernel

(* Unless the firmware was killed before a kernel it swapped in was past its *)
(* gate, that kernel's predecessor is there to be put back until it is, and  *)
(* nothing that never answered a gate runs outside of one.                  *)
THEOREM ProvenKept == Spec => []ProvenIsKept
<1>1. Init => ProvenInPlace
  BY DEF Init, ProvenInPlace, NotPastGate
<1>2. ProvenInPlace => ProvenIsKept
  BY DEF ProvenInPlace, ProvenIsKept, NotPastGate
<1> QED
  BY <1>1, PlaceStep, <1>2, PTL DEF Spec

-----------------------------------------------------------------------------
(* What is on disk, and what is said of it.                                 *)

(* A tree in the firmware's hands is one: what is staged, what is launched   *)
(* from a swap and what runs are there; and what answered is a version.      *)
InPlace ==
    /\ proven \subseteq Versions
    /\ at \in {"swap", "swapped out"} => incoming # NoVersion
    /\ at \in {"gate", "restore"} \/ (at = "launch" /\ swapped) => live # NoVersion
    /\ proc # "none" => live # NoVersion

TypeInv == TypeOK /\ InPlace /\ ProvenInPlace

(* The type invariant, conjunct by conjunct: what is on disk, how far the    *)
(* firmware and the kernel are, and what is still to be written.            *)
OnDisk ==
    /\ live \in Some /\ backup \in Some /\ incoming \in Some
    /\ active \in Some /\ prev \in Some /\ pending \in Some
    /\ crumb \in Some /\ work \in Some

Stages ==
    /\ status \in [Versions -> {"none", "active", "committed", "pending", "approved",
                                "rejected", "promoted", "failed"}]
    /\ at \in {"start", "swap", "swapped out", "launch", "gate", "restore", "moved aside",
               "revert", "run", "down"}
    /\ hurt \in {"never", "now", "once"}
    /\ proc \in {"none", "boots", "reports", "hangs", "up", "leaving"}

Counted == swapped \in BOOLEAN /\ failures \in 0..(MaxActiveFailures - 1)

Typed == OnDisk /\ Stages /\ Writes

Awaited ==
    /\ proc # "none" => at \in {"gate", "run"}
    /\ work # NoVersion => proc \in {"up", "leaving"}
    /\ todo # NoTodo => IF todo.what = "report" THEN proc = "reports"
                        ELSE proc \in {"up", "leaving"}
    /\ live = NoVersion /\ hurt # "now" => at \in {"swapped out", "moved aside"}

(* Only a kernel that serves has something to write, or one that boots, of a *)
(* report.                                                                  *)
LEMMA Writing ==
    ASSUME Awaited, todo.write # "none"
    PROVE  IF todo.what = "report" THEN proc = "reports" ELSE proc \in {"up", "leaving"}
<1>1. todo # NoTodo
  BY DEF NoTodo
<1> QED
  BY <1>1 DEF Awaited

(* What the three kinds of write do.                                        *)
LEMMA ActiveWritten ==
    ASSUME Writes, Awaited, WriteActive
    PROVE  /\ proc \in {"up", "leaving"} /\ todo.version \in Versions
           /\ active' = todo.version
           /\ \/ proc' = proc
                 /\ todo' = [write |-> "pending", what |-> "approve", version |-> todo.version]
              \/ proc' = "leaving" /\ todo' = NoTodo
           /\ UNCHANGED <<live, backup, incoming, prev, pending, status, crumb, at, swapped,
                          failures, work, approved, proven, hurt, lost, skipped, faults>>
<1>1. todo.write = "active" /\ todo.what # "report" /\ todo.version \in Versions
  BY DEF WriteActive, Writes
<1>2. proc \in {"up", "leaving"}
  BY <1>1, Writing
<1>3. UNCHANGED <<live, backup, incoming, prev, pending, status, crumb, at, swapped,
                  failures, work, approved, proven, hurt, lost, skipped, faults>>
  BY DEF WriteActive, disk, firmware, history
<1>4. \/ /\ proc' = proc
         /\ todo' = [write |-> "pending", what |-> "approve", version |-> todo.version]
      \/ proc' = "leaving" /\ todo' = NoTodo
  <2>1. CASE todo.what = "approve"
    BY <2>1, Rewrites DEF WriteActive
  <2>2. CASE todo.what # "approve"
    BY <2>2 DEF WriteActive
  <2> QED
    BY <2>1, <2>2
<1> QED
  BY <1>1, <1>2, <1>3, <1>4 DEF WriteActive

LEMMA PendingWritten ==
    ASSUME Writes, Awaited, WritePending
    PROVE  /\ proc \in {"up", "leaving"} /\ todo.version \in Versions
           /\ pending' \in {NoVersion, todo.version}
           /\ todo.what \in {"approve", "hold", "reject"}
           /\ todo' = [write |-> "status", what |-> todo.what, version |-> todo.version]
           /\ UNCHANGED <<live, backup, incoming, active, prev, status, crumb, at, swapped,
                          failures, proc, work, approved, proven, hurt, lost, skipped, faults>>
<1>1. /\ todo.write = "pending" /\ todo.what \in {"approve", "hold", "reject"}
      /\ todo.version \in Versions
  BY DEF WritePending, Writes
<1>2. proc \in {"up", "leaving"}
  BY <1>1, Writing
<1>3. /\ pending' \in {NoVersion, todo.version}
      /\ UNCHANGED <<live, backup, incoming, active, prev, status, crumb, at, swapped,
                     failures, proc, work, approved, proven, hurt, lost, skipped, faults>>
  BY DEF WritePending, disk, firmware, history
<1>4. todo' = [write |-> "status", what |-> todo.what, version |-> todo.version]
  BY Rewrites DEF WritePending
<1> QED
  BY <1>1, <1>2, <1>3, <1>4

LEMMA StatusWritten ==
    ASSUME Writes, Awaited, Stamp
    PROVE  /\ todo.version \in Versions /\ todo' = NoTodo
           /\ IF todo.what = "report"
              THEN /\ proc = "reports" /\ proc' = proc
                   /\ status' = [status EXCEPT ![todo.version] = "failed"]
              ELSE /\ proc \in {"up", "leaving"} /\ proc' \in {"up", "leaving"}
                   /\ \E s \in {"approved", "pending", "rejected"} :
                         status' = [status EXCEPT ![todo.version] = s]
           /\ UNCHANGED <<live, backup, incoming, active, prev, pending, crumb, at, swapped,
                          failures, work, approved, proven, hurt, lost, skipped, faults>>
<1>1. /\ todo.write = "status" /\ todo.what \in {"approve", "hold", "reject", "report"}
      /\ todo.version \in Versions
  BY DEF Stamp, Writes
<1>2. IF todo.what = "report" THEN proc = "reports" ELSE proc \in {"up", "leaving"}
  BY <1>1, Writing
<1>3. UNCHANGED <<live, backup, incoming, active, prev, pending, crumb, at, swapped,
                  failures, work, approved, proven, hurt, lost, skipped, faults>>
  BY DEF Stamp, disk, firmware, history
<1>4. /\ Stamped["approve"] = "approved" /\ Stamped["hold"] = "pending"
      /\ Stamped["reject"] = "rejected" /\ Stamped["report"] = "failed"
  BY DEF Stamped
<1>5. /\ status' = [status EXCEPT ![todo.version] = Stamped[todo.what]] /\ todo' = NoTodo
      /\ proc' = IF todo.what = "approve" THEN "leaving" ELSE proc
  BY DEF Stamp
<1> QED
  BY <1>1, <1>2, <1>3, <1>4, <1>5

(* Together they are the type invariant.                                    *)
LEMMA TypeParts == TypeOK <=> Typed /\ Awaited /\ Counted
  BY TodoParts DEF TypeOK, Typed, OnDisk, Stages, Awaited, Counted


(* Every action keeps the variables in their sets ...                       *)
LEMMA TypedStep ==
    ASSUME Typed, Awaited, [Next]_vars
    PROVE  Typed'
<1> USE VersionsAssumption
       DEF Typed, OnDisk, Stages, Writes, Awaited, Some, NoTodo, disk, state, firmware, kernel, history
<1>1. CASE PrepareNothing
  <2>1. OnDisk'
    BY <1>1 DEF PrepareNothing
  <2>2. Stages'
    BY <1>1 DEF PrepareNothing
  <2>3. Writes'
    BY <1>1 DEF PrepareNothing
  <2> QED
    BY <2>1, <2>2, <2>3
<1>2. CASE StageSwap
  <2>1. OnDisk'
    BY <1>2 DEF StageSwap, InSync
  <2>2. Stages'
    BY <1>2 DEF StageSwap, InSync
  <2>3. Writes'
    BY <1>2 DEF StageSwap, InSync
  <2> QED
    BY <2>1, <2>2, <2>3
<1>3. CASE SwapOut
  <2>1. OnDisk'
    BY <1>3 DEF SwapOut
  <2>2. Stages'
    BY <1>3 DEF SwapOut
  <2>3. Writes'
    BY <1>3 DEF SwapOut
  <2> QED
    BY <2>1, <2>2, <2>3
<1>4. CASE SwapIn
  <2>1. OnDisk'
    BY <1>4 DEF SwapIn
  <2>2. Stages'
    BY <1>4 DEF SwapIn
  <2>3. Writes'
    BY <1>4 DEF SwapIn
  <2> QED
    BY <2>1, <2>2, <2>3
<1>5. CASE Launch
  <2>1. OnDisk'
    BY <1>5 DEF Launch
  <2>2. Stages'
    BY <1>5 DEF Launch
  <2>3. Writes'
    BY <1>5 DEF Launch
  <2> QED
    BY <2>1, <2>2, <2>3
<1>6. CASE GatePasses
  <2>1. OnDisk'
    BY <1>6 DEF GatePasses, NoFault
  <2>2. Stages'
    BY <1>6 DEF GatePasses, NoFault
  <2>3. Writes'
    BY <1>6 DEF GatePasses, NoFault
  <2> QED
    BY <2>1, <2>2, <2>3
<1>7. CASE GateFails
  <2>1. OnDisk'
    BY <1>7 DEF GateFails, KernelGone, ReportLost
  <2>2. Stages'
    BY <1>7 DEF GateFails, KernelGone, ReportLost
  <2>3. Writes'
    BY <1>7 DEF GateFails, KernelGone, ReportLost
  <2> QED
    BY <2>1, <2>2, <2>3
<1>8. CASE MoveAside
  <2>1. OnDisk'
    BY <1>8 DEF MoveAside
  <2>2. Stages'
    BY <1>8 DEF MoveAside
  <2>3. Writes'
    BY <1>8 DEF MoveAside
  <2> QED
    BY <2>1, <2>2, <2>3
<1>9. CASE Restore
  <2>1. OnDisk'
    BY <1>9 DEF Restore
  <2>2. Stages'
    BY <1>9 DEF Restore
  <2>3. Writes'
    BY <1>9 DEF Restore
  <2> QED
    BY <2>1, <2>2, <2>3
<1>10. CASE Revert
  <2>1. OnDisk'
    BY <1>10 DEF Revert
  <2>2. Stages'
    BY <1>10 DEF Revert
  <2>3. Writes'
    BY <1>10 DEF Revert
  <2> QED
    BY <2>1, <2>2, <2>3
<1>11. CASE DeployFails
  <2>1. OnDisk'
    BY <1>11 DEF DeployFails, Fault
  <2>2. Stages'
    BY <1>11 DEF DeployFails, Fault
  <2>3. Writes'
    BY <1>11 DEF DeployFails, Fault
  <2> QED
    BY <2>1, <2>2, <2>3
<1>12. CASE Boots
  <2>1. OnDisk'
    BY <1>12 DEF Boots, Reconciled
  <2>2. Stages'
    BY <1>12 DEF Boots, Reconciled
  <2>3. Writes'
    BY <1>12 DEF Boots, Reconciled
  <2> QED
    BY <2>1, <2>2, <2>3
<1>27. CASE TakeReport
  <2>1. OnDisk'
    BY <1>27 DEF TakeReport
  <2>2. Stages'
    BY <1>27 DEF TakeReport
  <2>3. Writes'
    BY <1>27 DEF TakeReport
  <2> QED
    BY <2>1, <2>2, <2>3
<1>13. CASE WriteActive
  <2>1. /\ proc \in {"up", "leaving"} /\ todo.version \in Versions
        /\ active' = todo.version
        /\ \/ proc' = proc
              /\ todo' = [write |-> "pending", what |-> "approve", version |-> todo.version]
           \/ proc' = "leaving" /\ todo' = NoTodo
        /\ UNCHANGED <<live, backup, incoming, prev, pending, status, crumb, at, swapped,
                       failures, work, approved, proven, hurt, lost, skipped, faults>>
    BY <1>13, ActiveWritten
  <2>2. OnDisk'
    BY <2>1
  <2>3. Stages'
    BY <2>1
  <2>4. Writes'
    BY <2>1, TodoWrites
  <2> QED
    BY <2>2, <2>3, <2>4
<1>14. CASE WritePending
  <2>1. /\ proc \in {"up", "leaving"} /\ todo.version \in Versions
        /\ pending' \in {NoVersion, todo.version}
        /\ todo.what \in {"approve", "hold", "reject"}
        /\ todo' = [write |-> "status", what |-> todo.what, version |-> todo.version]
        /\ UNCHANGED <<live, backup, incoming, active, prev, status, crumb, at, swapped,
                       failures, proc, work, approved, proven, hurt, lost, skipped, faults>>
    BY <1>14, PendingWritten
  <2>2. OnDisk'
    BY <2>1
  <2>3. Stages'
    BY <2>1
  <2>4. Writes'
    BY <2>1
  <2> QED
    BY <2>2, <2>3, <2>4
<1>15. CASE Stamp
  <2>1. /\ todo.version \in Versions /\ todo' = NoTodo
        /\ IF todo.what = "report"
           THEN /\ proc = "reports" /\ proc' = proc
                /\ status' = [status EXCEPT ![todo.version] = "failed"]
           ELSE /\ proc \in {"up", "leaving"} /\ proc' \in {"up", "leaving"}
                /\ \E s \in {"approved", "pending", "rejected"} :
                      status' = [status EXCEPT ![todo.version] = s]
        /\ UNCHANGED <<live, backup, incoming, active, prev, pending, crumb, at, swapped,
                       failures, work, approved, proven, hurt, lost, skipped, faults>>
    BY <1>15, StatusWritten
  <2>2. OnDisk'
    BY <2>1
  <2>3. Stages'
    BY <2>1
  <2>4. Writes'
    BY <2>1
  <2> QED
    BY <2>2, <2>3, <2>4
<1>16. CASE Leave
  <2>1. OnDisk'
    BY <1>16 DEF Leave, KernelGone
  <2>2. Stages'
    BY <1>16 DEF Leave, KernelGone
  <2>3. Writes'
    BY <1>16 DEF Leave, KernelGone
  <2> QED
    BY <2>1, <2>2, <2>3
<1>17. CASE DropChange
  <2>1. OnDisk'
    BY <1>17 DEF DropChange, Serves
  <2>2. Stages'
    BY <1>17 DEF DropChange, Serves
  <2>3. Writes'
    BY <1>17 DEF DropChange, Serves
  <2> QED
    BY <2>1, <2>2, <2>3
<1>18. CASE HoldChange
  <2>1. OnDisk'
    BY <1>18 DEF HoldChange, Serves
  <2>2. Stages'
    BY <1>18 DEF HoldChange, Serves
  <2>3. Writes'
    BY <1>18 DEF HoldChange, Serves
  <2> QED
    BY <2>1, <2>2, <2>3
<1>19. CASE Kill
  <2>1. OnDisk'
    BY <1>19 DEF Kill, Fault, KernelGone, ReportLost, NotPastGate
  <2>2. Stages'
    BY <1>19 DEF Kill, Fault, KernelGone, ReportLost, NotPastGate
  <2>3. Writes'
    BY <1>19 DEF Kill, Fault, KernelGone, ReportLost, NotPastGate
  <2> QED
    BY <2>1, <2>2, <2>3
<1>20. CASE PowerOn
  <2>1. OnDisk'
    BY <1>20 DEF PowerOn
  <2>2. Stages'
    BY <1>20 DEF PowerOn
  <2>3. Writes'
    BY <1>20 DEF PowerOn
  <2> QED
    BY <2>1, <2>2, <2>3
<1>21. CASE Recreate
  <2>1. OnDisk'
    BY <1>21 DEF Recreate
  <2>2. Stages'
    BY <1>21 DEF Recreate
  <2>3. Writes'
    BY <1>21 DEF Recreate
  <2> QED
    BY <2>1, <2>2, <2>3
<1>22. ASSUME Exits PROVE Typed'
  <2>1. OnDisk'
    BY <1>22 DEF Exits, Supervise, KernelGone, ReportLost
  <2>2. Stages'
    BY <1>22 DEF Exits, Supervise, KernelGone, ReportLost
  <2>3. Writes'
    BY <1>22 DEF Exits, Supervise, KernelGone, ReportLost
  <2> QED
    BY <2>1, <2>2, <2>3
<1>23. CASE NothingToRun \/ BrokenExits \/ HealthyExits
  BY <1>22, <1>23 DEF NothingToRun, BrokenExits, HealthyExits
<1>24. ASSUME NEW v \in Versions, StageChange(v) \/ Approve(v) \/ Reject(v) PROVE Typed'
  <2>1. OnDisk' /\ Stages'
    <3>1. CASE StageChange(v)
      <4>1. OnDisk'
        BY <3>1 DEF StageChange, Serves
      <4>2. Stages'
        BY <3>1 DEF StageChange, Serves
      <4> QED
        BY <4>1, <4>2
    <3>2. CASE Approve(v)
      <4>1. OnDisk'
        BY <3>2 DEF Approve, Serves, Repoints
      <4>2. Stages'
        BY <3>2 DEF Approve, Serves, Repoints
      <4> QED
        BY <4>1, <4>2
    <3>3. CASE Reject(v)
      <4>1. OnDisk'
        BY <3>3 DEF Reject, Serves
      <4>2. Stages'
        BY <3>3 DEF Reject, Serves
      <4> QED
        BY <4>1, <4>2
    <3> QED
      BY <1>24, <3>1, <3>2, <3>3
  <2>3. Writes'
    <3>1. CASE UNCHANGED todo
      BY <3>1
    <3>2. CASE todo' = [write |-> "active", what |-> "approve", version |-> v]
      BY <3>2
    <3>3. CASE todo' = [write |-> "pending", what |-> "reject", version |-> v]
      BY <3>3
    <3> QED
      BY <1>24, <3>1, <3>2, <3>3 DEF StageChange, Approve, Reject, Repoints
  <2> QED
    BY <2>1, <2>3
<1>25. CASE Rollback
  <2>1. OnDisk'
    BY <1>25 DEF Rollback, Serves, Repoints
  <2>2. Stages'
    BY <1>25 DEF Rollback, Serves, Repoints
  <2>3. Writes'
    BY <1>25 DEF Rollback, Serves, Repoints
  <2> QED
    BY <2>1, <2>2, <2>3
<1>26. CASE UNCHANGED vars
  <2>1. OnDisk'
    BY <1>26 DEF vars
  <2>2. Stages'
    BY <1>26 DEF vars
  <2>3. Writes'
    BY <1>26 DEF vars
  <2> QED
    BY <2>1, <2>2, <2>3
<1> QED
  BY <1>1, <1>2, <1>3, <1>4, <1>5, <1>6, <1>7, <1>8, <1>9, <1>10, <1>11, <1>12,
     <1>13, <1>14, <1>15, <1>16, <1>17, <1>18, <1>19, <1>20, <1>21, <1>23, <1>24,
     <1>25, <1>26, <1>27
     DEF Next, Firmware, Kernel, Operator


(* With nothing left to write, and while requests are served, no report is   *)
(* being recorded.                                                          *)
LEMMA NothingLeft == ASSUME todo = NoTodo PROVE todo.what = "none"
  BY DEF NoTodo

LEMMA NoReport ==
    ASSUME Awaited, proc \in {"up", "leaving"}
    PROVE  todo.what # "report"
<1> SUFFICES ASSUME todo.what = "report" PROVE FALSE
  OBVIOUS
<1>1. todo # NoTodo
  BY NothingLeft
<1> QED
  BY <1>1 DEF Awaited

LEMMA NothingLeftNext == ASSUME todo' = NoTodo PROVE todo'.what = "none"
  BY DEF NoTodo

(* ... and every process where it is waited for: each kernel/ one starts     *)
(* from is there, because what answered last is (ProvenInPlace).            *)
LEMMA AwaitedStep ==
    ASSUME Typed, Awaited, InPlace, ProvenInPlace, [Next]_vars
    PROVE  (Awaited /\ InPlace)'
<1> USE VersionsAssumption
       DEF Typed, OnDisk, Stages, Writes, Awaited, InPlace, ProvenInPlace, NotPastGate, Some, disk, state, firmware,
           kernel, history
<1>1. CASE PrepareNothing
  BY <1>1 DEF PrepareNothing
<1>2. CASE StageSwap
  BY <1>2 DEF StageSwap, InSync
<1>3. CASE SwapOut
  BY <1>3 DEF SwapOut
<1>4. CASE SwapIn
  BY <1>4 DEF SwapIn
<1>5. CASE Launch
  BY <1>5 DEF Launch
<1>6. CASE GatePasses
  BY <1>6 DEF GatePasses, NoFault
<1>7. CASE GateFails
  BY <1>7 DEF GateFails, KernelGone, ReportLost
<1>8. CASE MoveAside
  BY <1>8 DEF MoveAside
<1>9. CASE Restore
  BY <1>9 DEF Restore
<1>10. CASE Revert
  BY <1>10 DEF Revert
<1>11. CASE DeployFails
  BY <1>11 DEF DeployFails, Fault
<1>12. CASE Boots
  BY <1>12 DEF Boots, Reconciled
<1>27. CASE TakeReport
  BY <1>27 DEF TakeReport
<1>13. CASE WriteActive
  <2>1. /\ proc \in {"up", "leaving"} /\ todo.version \in Versions
        /\ active' = todo.version
        /\ \/ proc' = proc
              /\ todo' = [write |-> "pending", what |-> "approve", version |-> todo.version]
           \/ proc' = "leaving" /\ todo' = NoTodo
        /\ UNCHANGED <<live, backup, incoming, prev, pending, status, crumb, at, swapped,
                       failures, work, approved, proven, hurt, lost, skipped, faults>>
    BY <1>13, ActiveWritten
  <2>5. proc' \in {"up", "leaving"} /\ todo'.what # "report"
    <3>1. CASE proc' = proc /\ todo' = [write |-> "pending", what |-> "approve",
                                       version |-> todo.version]
      BY <2>1, <3>1
    <3>2. CASE proc' = "leaving" /\ todo' = NoTodo
      BY <3>2, NothingLeftNext
    <3> QED
      BY <2>1, <3>1, <3>2
  <2>2. Awaited'
    BY <2>1, <2>5
  <2>3. InPlace'
    BY <2>1
  <2> QED
    BY <2>2, <2>3
<1>14. CASE WritePending
  <2>1. /\ proc \in {"up", "leaving"} /\ todo.version \in Versions
        /\ pending' \in {NoVersion, todo.version}
        /\ todo.what \in {"approve", "hold", "reject"}
        /\ todo' = [write |-> "status", what |-> todo.what, version |-> todo.version]
        /\ UNCHANGED <<live, backup, incoming, active, prev, status, crumb, at, swapped,
                       failures, proc, work, approved, proven, hurt, lost, skipped, faults>>
    BY <1>14, PendingWritten
  <2>2. Awaited'
    BY <2>1
  <2>3. InPlace'
    BY <2>1
  <2> QED
    BY <2>2, <2>3
<1>15. CASE Stamp
  <2>1. /\ todo.version \in Versions /\ todo' = NoTodo
        /\ IF todo.what = "report"
           THEN /\ proc = "reports" /\ proc' = proc
                /\ status' = [status EXCEPT ![todo.version] = "failed"]
           ELSE /\ proc \in {"up", "leaving"} /\ proc' \in {"up", "leaving"}
                /\ \E s \in {"approved", "pending", "rejected"} :
                      status' = [status EXCEPT ![todo.version] = s]
        /\ UNCHANGED <<live, backup, incoming, active, prev, pending, crumb, at, swapped,
                       failures, work, approved, proven, hurt, lost, skipped, faults>>
    BY <1>15, StatusWritten
  <2>2. Awaited'
    BY <2>1
  <2>3. InPlace'
    BY <2>1
  <2> QED
    BY <2>2, <2>3
<1>16. CASE Leave
  BY <1>16 DEF Leave, KernelGone
<1>17. CASE DropChange
  BY <1>17 DEF DropChange, Serves
<1>18. CASE HoldChange
  BY <1>18 DEF HoldChange, Serves
<1>19. CASE Kill
  BY <1>19 DEF Kill, Fault, KernelGone, ReportLost, NotPastGate
<1>20. CASE PowerOn
  BY <1>20 DEF PowerOn
<1>21. CASE Recreate
  BY <1>21 DEF Recreate
<1>22. ASSUME Exits PROVE (Awaited /\ InPlace)'
  BY <1>22 DEF Exits, Supervise, KernelGone, ReportLost
<1>23. CASE NothingToRun \/ BrokenExits \/ HealthyExits
  BY <1>22, <1>23 DEF NothingToRun, BrokenExits, HealthyExits
<1>24. ASSUME NEW v \in Versions, StageChange(v) \/ Approve(v) \/ Reject(v)
       PROVE  (Awaited /\ InPlace)'
  <2>1. CASE StageChange(v)
    BY <2>1 DEF StageChange, Serves
  <2>2. CASE Approve(v)
    BY <2>2 DEF Approve, Serves, Repoints
  <2>3. CASE Reject(v)
    BY <2>3 DEF Reject, Serves
  <2> QED
    BY <1>24, <2>1, <2>2, <2>3
<1>25. CASE Rollback
  BY <1>25 DEF Rollback, Serves, Repoints
<1>26. CASE UNCHANGED vars
  BY <1>26 DEF vars
<1> QED
  BY <1>1, <1>2, <1>3, <1>4, <1>5, <1>6, <1>7, <1>8, <1>9, <1>10, <1>11, <1>12,
     <1>13, <1>14, <1>15, <1>16, <1>17, <1>18, <1>19, <1>20, <1>21, <1>23, <1>24,
     <1>25, <1>26, <1>27
     DEF Next, Firmware, Kernel, Operator

(* The first state is typed, with the shipped kernel in place.              *)
LEMMA InitType == Init => TypeInv
<1> SUFFICES ASSUME Init PROVE TypeInv
  OBVIOUS
<1>1. Typed
  BY VersionsAssumption DEF Init, Typed, OnDisk, Stages, Writes, Some, NoTodo
<1>3. Counted
  <2>1. failures = 0 /\ 0 \in 0..(MaxActiveFailures - 1)
    BY BoundsAssumption DEF Init
  <2>2. swapped \in BOOLEAN
    BY DEF Init
  <2> QED
    BY <2>1, <2>2 DEF Counted
<1>2. Awaited /\ InPlace /\ ProvenInPlace
  BY VersionsAssumption DEF Init, Awaited, InPlace, ProvenInPlace, NotPastGate
<1> QED
  BY <1>1, <1>2, <1>3, TypeParts DEF TypeInv

(* Only a swap sets the mark, every pass of the loop clears it, and the      *)
(* exits are counted up to the number at which the pointer is dropped.       *)
LEMMA CountedStep ==
    ASSUME Counted, [Next]_vars
    PROVE  Counted'
<1>1. UNCHANGED swapped \/ swapped' = TRUE \/ swapped' = FALSE
  BY DEF Next, Firmware, Kernel, Operator, vars, firmware, history, PrepareNothing, StageSwap, SwapOut,
     SwapIn, Launch, GatePasses, GateFails, MoveAside, Restore, Revert, DeployFails, Exits,
     NothingToRun, BrokenExits, HealthyExits, TakeReport, Boots, WriteActive, WritePending, Stamp,
     Leave, StageChange, Approve, Reject, DropChange, HoldChange, Rollback, Kill, PowerOn, Recreate
<1>2. \/ UNCHANGED failures \/ failures' = 0
      \/ failures' = failures + 1 /\ ~ (failures + 1 >= MaxActiveFailures)
  BY DEF Next, Firmware, Kernel, Operator, vars, firmware, history, PrepareNothing, StageSwap, SwapOut,
     SwapIn, Launch, GatePasses, GateFails, MoveAside, Restore, Revert, DeployFails, Exits,
     NothingToRun, BrokenExits, HealthyExits, TakeReport, Boots, WriteActive, WritePending, Stamp,
     Leave, StageChange, Approve, Reject, DropChange, HoldChange, Rollback, Kill, PowerOn, Recreate,
     Supervise
<1>3. failures' \in 0..(MaxActiveFailures - 1)
  BY <1>2, BoundsAssumption DEF Counted
<1>4. swapped' \in BOOLEAN
  BY <1>1 DEF Counted
<1> QED
  BY <1>3, <1>4 DEF Counted

(* The invariant of the types is inductive.                                 *)
LEMMA TypeStep == TypeInv /\ [Next]_vars => TypeInv'
<1> SUFFICES ASSUME TypeInv, [Next]_vars PROVE TypeInv'
  OBVIOUS
<1>1. Typed /\ Awaited /\ Counted /\ InPlace /\ ProvenInPlace
  BY TypeParts DEF TypeInv
<1>2. Typed' /\ Awaited' /\ InPlace' /\ ProvenInPlace'
  BY <1>1, TypedStep, AwaitedStep, PlaceStep
<1>3. Counted'
  BY <1>1, CountedStep
<1>4. TypeOK'
  <2>1. TypeOK' <=> (Typed /\ Awaited /\ Counted)'
    BY TypeParts, PTL
  <2> QED
    BY <1>2, <1>3, <2>1
<1> QED
  BY <1>2, <1>4 DEF TypeInv

(* The directories, the state files and the two processes stay well typed,   *)
(* and kernel/ is missing only between two renames, unless the firmware was  *)
(* killed there.                                                            *)
THEOREM TypeCorrect == Spec => []TypeOK
<1>1. Init => TypeInv
  BY InitType
<1>2. TypeInv /\ [Next]_vars => TypeInv'
  BY TypeStep
<1>3. TypeInv => TypeOK
  BY DEF TypeInv
<1> QED
  BY <1>1, <1>2, <1>3, PTL DEF Spec

-----------------------------------------------------------------------------
Allowed == approved \cup {Shipped, NoVersion}

(* Wherever a version can come from to be run, it was approved, or shipped.  *)
SourcesAllowed ==
    /\ approved \subseteq Versions
    /\ live \in Allowed /\ backup \in Allowed /\ incoming \in Allowed
    /\ active \in Allowed /\ prev \in Allowed
    /\ todo.write = "active" => todo.version \in Allowed

(* Every action of the firmware, the kernel, the operator and the container  *)
(* preserves it.                                                            *)
LEMMA SourcesStep ==
    ASSUME Typed, Awaited, SourcesAllowed, [Next]_vars
    PROVE  SourcesAllowed'
<1> USE VersionsAssumption DEF SourcesAllowed, Allowed, disk, history
<1>ends. ASSUME todo' = NoTodo PROVE todo'.write # "active"
  BY <1>ends DEF NoTodo
<1>1. CASE PrepareNothing
  BY <1>1 DEF PrepareNothing, kernel, state
<1>2. CASE StageSwap
  BY <1>2 DEF StageSwap, kernel, state
<1>3. CASE SwapOut
  BY <1>3 DEF SwapOut, kernel, state
<1>4. CASE SwapIn
  BY <1>4 DEF SwapIn, kernel, state
<1>5. CASE Launch
  BY <1>5 DEF Launch, state
<1>6. CASE GatePasses
  BY <1>6 DEF GatePasses, NoFault, kernel, state
<1>7. CASE GateFails
  BY <1>7, <1>ends DEF GateFails, KernelGone
<1>8. CASE MoveAside
  BY <1>8 DEF MoveAside, kernel, state
<1>9. CASE Restore
  BY <1>9 DEF Restore, kernel, state
<1>10. CASE Revert
  BY <1>10 DEF Revert, kernel
<1>11. CASE DeployFails
  BY <1>11 DEF DeployFails, kernel, state
<1>12. ASSUME Exits PROVE SourcesAllowed'
  BY <1>12, <1>ends DEF Exits, Supervise, KernelGone
<1>13. CASE NothingToRun \/ BrokenExits \/ HealthyExits
  BY <1>12, <1>13 DEF NothingToRun, BrokenExits, HealthyExits
<1>14. CASE TakeReport
  <2>1. todo'.write # "active"
    BY <1>14 DEF TakeReport, NoTodo
  <2> QED
    BY <1>14, <2>1 DEF TakeReport, firmware
<1>15. CASE Boots
  BY <1>15 DEF Boots, firmware
<1>16. CASE WriteActive
  <2>1. /\ active' = todo.version /\ todo.write = "active"
        /\ UNCHANGED <<live, backup, incoming, prev, approved>>
    BY <1>16 DEF WriteActive
  <2>2. todo'.write # "active"
    BY <1>16, ActiveWritten, <1>ends DEF Typed
  <2> QED
    BY <2>1, <2>2
<1>17. CASE WritePending
  <2>1. todo'.write # "active"
    BY <1>17, PendingWritten DEF Typed
  <2> QED
    BY <1>17, <2>1 DEF WritePending
<1>18. CASE Stamp
  BY <1>18, <1>ends DEF Stamp
<1>19. CASE Leave
  BY <1>19, <1>ends DEF Leave, KernelGone, state
<1>20. ASSUME NEW v \in Versions, Approve(v) PROVE SourcesAllowed'
  BY <1>20 DEF Approve, Repoints
<1>21. CASE Rollback
  <2>1. PICK target \in {Shipped, prev} :
            /\ Repoints("rollback", target)
            /\ UNCHANGED <<disk, active, approved>>
    BY <1>21 DEF Rollback
  <2> QED
    BY <2>1 DEF Repoints
<1>22. ASSUME NEW v \in Versions, StageChange(v) \/ Reject(v) PROVE SourcesAllowed'
  BY <1>22 DEF StageChange, Reject, firmware, state, kernel
<1>23. CASE DropChange \/ HoldChange
  BY <1>23 DEF DropChange, HoldChange, firmware, state
<1>24. CASE Kill
  BY <1>24, <1>ends DEF Kill, KernelGone, state
<1>25. CASE PowerOn
  BY <1>25 DEF PowerOn, state, kernel
<1>26. CASE Recreate
  BY <1>26 DEF Recreate, state, kernel
<1>27. CASE UNCHANGED vars
  BY <1>27 DEF vars, state, firmware, kernel
<1> QED
  BY <1>1, <1>2, <1>3, <1>4, <1>5, <1>6, <1>7, <1>8, <1>9, <1>10, <1>11, <1>13, <1>14,
     <1>15, <1>16, <1>17, <1>18, <1>19, <1>20, <1>21, <1>22, <1>23, <1>24, <1>25, <1>26,
     <1>27
     DEF Next, Firmware, Kernel, Operator

(* Whatever is approved, rejected, replaced, rolled back, killed or put      *)
(* back, between any two writes, the kernel that runs is the shipped one or  *)
(* a version the operator approved.                                         *)
THEOREM ApprovedOnly == Spec => []OnlyApprovedRuns
<1> DEFINE Inv == TypeInv /\ SourcesAllowed
<1>1. Init => Inv
  BY VersionsAssumption, InitType DEF Init, SourcesAllowed, Allowed, NoTodo
<1>2. Inv /\ [Next]_vars => Inv'
  BY TypeStep, TypeParts, SourcesStep DEF TypeInv
<1>3. Inv => OnlyApprovedRuns
  BY DEF TypeInv, InPlace, SourcesAllowed, Allowed, OnlyApprovedRuns
<1> HIDE DEF Inv
<1> QED
  BY <1>1, <1>2, <1>3, PTL DEF Spec

-----------------------------------------------------------------------------
(* A version that cannot serve and calls itself promoted is at its gate, or  *)
(* its failed gate is reported, or taken and about to be recorded; a process *)
(* past its boot has recorded the report, and one that serves can.          *)
Reported ==
    /\ proven \cap Broken = {}
    /\ proc \in {"up", "leaving"} => live \notin Broken
    /\ proc \in {"reports", "hangs", "up", "leaving"} => crumb = NoVersion
    /\ hurt = "never" /\ ~lost =>
         \A v \in Broken : status[v] = "promoted" =>
             \/ crumb = v
             \/ todo.what = "report" /\ todo.version = v
             \/ at = "gate" /\ live = v

(* Kept by every action: outside of a gate what boots has answered one       *)
(* before, so only at a gate can it call itself promoted and fail.          *)
LEMMA ReportStep ==
    ASSUME Typed, Awaited, InPlace, ProvenInPlace, Reported, [Next]_vars
    PROVE  Reported'
<1> USE VersionsAssumption
       DEF Typed, OnDisk, Stages, Writes, Awaited, InPlace, ProvenInPlace, Reported, NotPastGate, Some, disk, state,
           firmware, kernel, history
<1>1. CASE PrepareNothing
  BY <1>1 DEF PrepareNothing
<1>2. CASE StageSwap
  BY <1>2 DEF StageSwap, InSync
<1>3. CASE SwapOut
  BY <1>3 DEF SwapOut
<1>4. CASE SwapIn
  BY <1>4 DEF SwapIn
<1>5. CASE Launch
  BY <1>5 DEF Launch
<1>6. CASE GatePasses
  BY <1>6 DEF GatePasses, NoFault
<1>7. CASE GateFails
  BY <1>7 DEF GateFails, KernelGone, ReportLost
<1>8. CASE MoveAside
  BY <1>8 DEF MoveAside
<1>9. CASE Restore
  BY <1>9 DEF Restore
<1>10. CASE Revert
  BY <1>10 DEF Revert
<1>11. CASE DeployFails
  BY <1>11 DEF DeployFails, Fault
<1>12. CASE Boots
  BY <1>12 DEF Boots, Reconciled
<1>27. CASE TakeReport
  <2>1. /\ proc = "boots" /\ proc' = "reports" /\ crumb' = NoVersion
        /\ UNCHANGED <<live, status, at, swapped, proven, hurt, lost>>
    BY <1>27 DEF TakeReport
  <2>2. todo.what # "report"
    <3> SUFFICES ASSUME todo = NoTodo PROVE todo.what # "report"
      BY <2>1
    <3> QED
      BY NothingLeft
  <2>3. crumb # NoVersion => todo'.what = "report" /\ todo'.version = crumb
    BY <1>27 DEF TakeReport
  <2> QED
    BY <2>1, <2>2, <2>3
<1>13. CASE WriteActive
  <2>1. /\ proc \in {"up", "leaving"} /\ todo.version \in Versions
        /\ active' = todo.version
        /\ \/ proc' = proc
              /\ todo' = [write |-> "pending", what |-> "approve", version |-> todo.version]
           \/ proc' = "leaving" /\ todo' = NoTodo
        /\ UNCHANGED <<live, backup, incoming, prev, pending, status, crumb, at, swapped,
                       failures, work, approved, proven, hurt, lost, skipped, faults>>
    BY <1>13, ActiveWritten
  <2>3. proc' \in {"up", "leaving"} /\ todo.what # "report"
    BY <2>1, NoReport
  <2>2. Reported'
    BY <2>1, <2>3
  <2> QED
    BY <2>2
<1>14. CASE WritePending
  <2>1. /\ proc \in {"up", "leaving"} /\ todo.version \in Versions
        /\ pending' \in {NoVersion, todo.version}
        /\ todo.what \in {"approve", "hold", "reject"}
        /\ todo' = [write |-> "status", what |-> todo.what, version |-> todo.version]
        /\ UNCHANGED <<live, backup, incoming, active, prev, status, crumb, at, swapped,
                       failures, proc, work, approved, proven, hurt, lost, skipped, faults>>
    BY <1>14, PendingWritten
  <2>2. Reported'
    BY <2>1
  <2> QED
    BY <2>2
<1>15. CASE Stamp
  <2>1. /\ todo.version \in Versions /\ todo' = NoTodo
        /\ IF todo.what = "report"
           THEN /\ proc = "reports" /\ proc' = proc
                /\ status' = [status EXCEPT ![todo.version] = "failed"]
           ELSE /\ proc \in {"up", "leaving"} /\ proc' \in {"up", "leaving"}
                /\ \E s \in {"approved", "pending", "rejected"} :
                      status' = [status EXCEPT ![todo.version] = s]
        /\ UNCHANGED <<live, backup, incoming, active, prev, pending, crumb, at, swapped,
                       failures, work, approved, proven, hurt, lost, skipped, faults>>
    BY <1>15, StatusWritten
  <2>2. Reported'
    BY <2>1
  <2> QED
    BY <2>2
<1>16. CASE Leave
  BY <1>16 DEF Leave, KernelGone
<1>17. CASE DropChange
  BY <1>17 DEF DropChange, Serves
<1>18. CASE HoldChange
  <2>1. todo.what # "report"
    BY <1>18, NoReport DEF HoldChange, Serves
  <2> QED
    BY <1>18, <2>1 DEF HoldChange, Serves
<1>19. CASE Kill
  BY <1>19 DEF Kill, Fault, KernelGone, ReportLost, NotPastGate
<1>20. CASE PowerOn
  BY <1>20 DEF PowerOn
<1>21. CASE Recreate
  BY <1>21 DEF Recreate
<1>22. ASSUME Exits PROVE Reported'
  BY <1>22 DEF Exits, Supervise, KernelGone, ReportLost
<1>23. CASE NothingToRun \/ BrokenExits \/ HealthyExits
  BY <1>22, <1>23 DEF NothingToRun, BrokenExits, HealthyExits
<1>24. ASSUME NEW v \in Versions, StageChange(v) \/ Approve(v) \/ Reject(v) PROVE Reported'
  <2>1. todo.what # "report" /\ UNCHANGED <<status, crumb, at, live, proven, hurt, lost, proc>>
    BY <1>24, NoReport DEF StageChange, Approve, Reject, Serves
  <2> QED
    BY <2>1
<1>25. CASE Rollback
  <2>1. todo.what # "report" /\ UNCHANGED <<status, crumb, at, live, proven, hurt, lost, proc>>
    BY <1>25, NoReport DEF Rollback, Serves
  <2> QED
    BY <2>1
<1>26. CASE UNCHANGED vars
  BY <1>26 DEF vars
<1> QED
  BY <1>1, <1>2, <1>3, <1>4, <1>5, <1>6, <1>7, <1>8, <1>9, <1>10, <1>11, <1>12,
     <1>13, <1>14, <1>15, <1>16, <1>17, <1>18, <1>19, <1>20, <1>21, <1>23, <1>24,
     <1>25, <1>26, <1>27
     DEF Next, Firmware, Kernel, Operator

(* Unless the firmware was ever killed with an unproven kernel in place, or  *)
(* one report of a failed gate was written over another or taken by a kernel *)
(* that ended before it recorded it: once a kernel serves past its gate, no  *)
(* version that cannot serve is called promoted.                            *)
THEOREM FailedNotPromoted == Spec => []FailedIsNotPromoted
<1> DEFINE Inv == TypeInv /\ Reported
<1>1. Init => Inv
  BY VersionsAssumption, InitType DEF Init, Reported
<1>2. Inv /\ [Next]_vars => Inv'
  BY TypeStep, TypeParts, ReportStep DEF TypeInv
<1>3. Inv => FailedIsNotPromoted
  <2>1. Inv => Awaited
    BY TypeParts DEF TypeInv
  <2>2. Inv => (proc = "up" => todo.what # "report")
    <3> SUFFICES ASSUME Awaited, proc = "up", todo.what = "report" PROVE FALSE
      BY <2>1
    <3>1. todo # NoTodo
      BY DEF NoTodo
    <3> QED
      BY <3>1 DEF Awaited
  <2> QED
    BY <2>2, VersionsAssumption DEF Reported, FailedIsNotPromoted
<1> HIDE DEF Inv
<1> QED
  BY <1>1, <1>2, <1>3, PTL DEF Spec
=============================================================================
