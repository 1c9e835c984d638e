---------------------------- MODULE KernelUpdate ----------------------------
(***************************************************************************)
(* The kernel replaces itself (kernel/core.py, kernel/kernelmod.py) and the *)
(* firmware carries it out (bootstrap/boot.py, bootstrap/kernel_slots.py):  *)
(* the running kernel commits a version, holds it, and on the operator's    *)
(* approval only writes which version should run and exits; the firmware    *)
(* swaps the directory, launches it behind a health gate, and puts the      *)
(* previous one back when the gate fails.                                   *)
(*                                                                          *)
(* The firmware is one process that may be killed between any two of its    *)
(* renames and writes; so may the kernel in the middle of an approval.      *)
(* A version stands for its tree and for that tree's digest.                *)
(***************************************************************************)
EXTENDS Naturals, FiniteSets

CONSTANTS
    Versions,           \* kernel versions ever made
    Shipped,            \* the kernel of the image, kv1
    NoVersion,          \* a missing directory, file, or entry
    Broken,             \* the versions that never answer /health
    MaxActiveFailures,  \* _MAX_ACTIVE_FAILURES
    MaxFaults           \* bound: kills, exits of a healthy kernel, failed deployments

ASSUME VersionsAssumption ==
    /\ Shipped \in Versions \ Broken /\ NoVersion \notin Versions
    /\ Broken \subseteq Versions
ASSUME BoundsAssumption == MaxActiveFailures \in Nat \ {0} /\ MaxFaults \in Nat

VARIABLES
    \* directories
    live,      \* kernel/
    backup,    \* .kernel_old
    incoming,  \* .kernel_incoming
    \* state files
    active,    \* active_kernel.json: the version that should run
    prev,      \* active_kernel_prev.json
    pending,   \* pending_kernel.json
    status,    \* kernel_versions.json
    crumb,     \* kernel_boot_result.json: the version that failed its gate
    \* the firmware's process
    at,        \* where it is in its loop
    swapped,   \* prep["swapped"]
    failures,  \* consecutive_kernel_failures
    \* the kernel's process
    proc,      \* how far it is
    work,      \* the version the agent works on
    todo,      \* what a request, or boot() with a report, still has to write
    \* history
    approved,  \* what the operator approved
    proven,    \* what answered its gate, and the shipped kernel
    hurt,      \* "now": the firmware was killed with a kernel in place that is not past
               \* its gate; "once": the container was made anew since; else "never"
    lost,      \* a report of a failed gate was overwritten before a kernel took it, or
               \* taken by a kernel that ended before it recorded it
    skipped,   \* a version was approved over one that was never deployed
    faults

disk == <<live, backup, incoming>>
state == <<active, prev, pending, status, crumb>>
firmware == <<at, swapped, failures>>
kernel == <<proc, work, todo>>
history == <<approved, proven, hurt, lost, skipped, faults>>
vars == <<disk, state, firmware, kernel, history>>

Some == Versions \cup {NoVersion}
NoTodo == [write |-> "none", what |-> "none", version |-> NoVersion]

(* The write that comes next, of what, and about which version. *)
Todo ==
    {NoTodo}
    \cup [write : {"active"}, what : {"approve", "rollback"}, version : Versions]
    \cup [write : {"pending"}, what : {"approve", "hold", "reject"}, version : Versions]
    \cup [write : {"status"}, what : {"approve", "hold", "reject", "report"},
          version : Versions]

Init ==
    /\ live = Shipped /\ backup = NoVersion /\ incoming = NoVersion
    /\ active = NoVersion /\ prev = NoVersion /\ pending = NoVersion
    /\ status = [v \in Versions |-> IF v = Shipped THEN "active" ELSE "none"]
    /\ crumb = NoVersion
    /\ at = "start" /\ swapped = FALSE /\ failures = 0
    /\ proc = "none" /\ work = NoVersion /\ todo = NoTodo
    /\ approved = {} /\ proven = {Shipped}
    /\ hurt = "never" /\ lost = FALSE /\ skipped = FALSE /\ faults = 0

Fault == faults < MaxFaults /\ faults' = faults + 1
NoFault == UNCHANGED <<approved, hurt, lost, skipped, faults>>

(* The kernel's process is gone, and what it had read and not yet written.   *)
KernelGone == proc' = "none" /\ work' = NoVersion /\ todo' = NoTodo
ReportLost == lost \/ todo.what = "report"

-----------------------------------------------------------------------------
(* The firmware's loop.                                                     *)

InSync == active \in {NoVersion, live}

(* Nothing to deploy: launch what is there.                                 *)
PrepareNothing ==
    /\ at = "start" /\ InSync
    /\ at' = "launch" /\ swapped' = FALSE
    /\ UNCHANGED <<disk, state, failures, kernel, history>>

(* The repository or the version is missing, or the deployed tree does not   *)
(* match the approved digest or its signature: the kernel there is kept, and *)
(* the pointer stays.                                                       *)
DeployFails ==
    /\ at = "start" /\ ~InSync
    /\ Fault
    /\ at' = "launch" /\ swapped' = FALSE
    /\ UNCHANGED <<disk, state, failures, kernel, approved, proven, hurt, lost, skipped>>

(* apply_swap: the old backup goes, the candidate is copied next to kernel/. *)
StageSwap ==
    /\ at = "start" /\ ~InSync
    /\ backup' = NoVersion /\ incoming' = active
    /\ at' = "swap"
    /\ UNCHANGED <<live, state, swapped, failures, kernel, history>>

(* kernel/ -> .kernel_old.  Without a kernel/ this raises, and the firmware  *)
(* ends.                                                                    *)
SwapOut ==
    /\ at = "swap"
    /\ IF live = NoVersion THEN at' = "down" /\ UNCHANGED disk
       ELSE /\ backup' = live /\ live' = NoVersion
            /\ at' = "swapped out" /\ UNCHANGED incoming
    /\ UNCHANGED <<state, swapped, failures, kernel, history>>

(* .kernel_incoming -> kernel/.                                             *)
SwapIn ==
    /\ at = "swapped out"
    /\ live' = incoming /\ incoming' = NoVersion
    /\ at' = "launch" /\ swapped' = TRUE
    /\ UNCHANGED <<backup, state, failures, kernel, history>>

LaunchUngated ==                                 \* mutant of Launch
    /\ at = "launch" /\ proc' = (IF live = NoVersion THEN "none" ELSE "boots")
    /\ at' = "run"
    /\ UNCHANGED <<disk, state, swapped, failures, work, todo, history>>

(* Only a kernel that was just swapped in is gated.                         *)
Launch ==
    /\ at = "launch"
    /\ proc' = IF live = NoVersion THEN "none" ELSE "boots"
    /\ at' = IF swapped THEN "gate" ELSE "run"
    /\ UNCHANGED <<disk, state, swapped, failures, work, todo, history>>

GatePasses ==
    /\ at = "gate" /\ proc = "up"
    /\ at' = "run" /\ failures' = 0
    /\ proven' = proven \cup {live}
    /\ UNCHANGED <<disk, state, swapped, kernel>> /\ NoFault

GateFailsSilently ==                             \* mutant of GateFails
    /\ at = "gate" /\ (proc = "none" \/ live \in Broken)
    /\ KernelGone
    /\ at' = "restore"
    /\ UNCHANGED <<disk, state, swapped, failures, history>>

(* The process ended or did not answer in time: it is killed, and what       *)
(* happened is left for the kernel that comes back.                         *)
GateFails ==
    /\ at = "gate" /\ (proc = "none" \/ live \in Broken)
    /\ KernelGone
    /\ crumb' = live /\ lost' = (ReportLost \/ crumb # NoVersion)
    /\ at' = "restore"
    /\ UNCHANGED <<disk, active, prev, pending, status, swapped, failures,
                   approved, proven, hurt, skipped, faults>>

(* restore_swap: kernel/ -> .kernel_bad, then .kernel_old -> kernel/.       *)
MoveAside ==
    /\ at = "restore"
    /\ live' = NoVersion
    /\ at' = "moved aside"
    /\ UNCHANGED <<backup, incoming, state, swapped, failures, kernel, history>>

Restore ==
    /\ at = "moved aside"
    /\ live' = backup /\ backup' = NoVersion
    /\ at' = "revert"
    /\ UNCHANGED <<incoming, state, swapped, failures, kernel, history>>

RevertNothing ==                                 \* mutant of Revert
    /\ at = "revert" /\ at' = "start"
    /\ UNCHANGED <<disk, state, swapped, failures, kernel, history>>

(* The pointer goes back to its predecessor, which stays what it is.        *)
Revert ==
    /\ at = "revert" /\ at' = "start"
    /\ active' = prev
    /\ UNCHANGED <<disk, prev, pending, status, crumb, swapped, failures, kernel, history>>

Firmware ==
    \/ PrepareNothing \/ StageSwap \/ SwapOut \/ SwapIn \/ Launch
    \/ GatePasses \/ GateFails \/ MoveAside \/ Restore \/ Revert

(* The kernel exited without asking for a restart.  A promoted one that does *)
(* so a number of times loses its pointer ("fall back to the seed").        *)
Supervise ==
    /\ at' = "start"
    /\ IF active = NoVersion THEN UNCHANGED <<active, failures>>
       ELSE IF failures + 1 >= MaxActiveFailures
            THEN active' = NoVersion /\ failures' = 0
            ELSE failures' = failures + 1 /\ UNCHANGED active

(* A process that ends by itself is noticed at the gate or by the loop.     *)
Exits ==
    /\ KernelGone /\ lost' = ReportLost
    /\ IF at = "run" THEN Supervise ELSE UNCHANGED <<at, active, failures>>
    /\ UNCHANGED <<disk, prev, pending, status, crumb, swapped,
                   approved, proven, hurt, skipped>>

NothingToRun ==
    /\ at = "run" /\ proc = "none"
    /\ Exits /\ UNCHANGED faults

BrokenExits ==
    /\ proc \in {"boots", "reports", "hangs"} /\ live \in Broken
    /\ Exits /\ UNCHANGED faults

HealthyExits ==
    /\ proc # "none" /\ live \notin Broken
    /\ Fault /\ Exits

-----------------------------------------------------------------------------
(* The kernel.                                                              *)

(* boot() ends with the outcome of the last swap, before it answers /health: *)
(* the report the firmware left is read and unlinked ...                     *)
TakeReport ==
    /\ proc = "boots"
    /\ proc' = "reports" /\ crumb' = NoVersion
    /\ todo' = IF crumb = NoVersion THEN NoTodo
               ELSE [write |-> "status", what |-> "report", version |-> crumb]
    /\ UNCHANGED <<disk, active, prev, pending, status, firmware, work, history>>

(* ... what it says is recorded (Stamp), and only then a version that was    *)
(* approved and is now what runs calls itself promoted.                      *)
Reconciled ==
    IF active # NoVersion /\ active = live /\ status[active] = "approved"
    THEN [status EXCEPT ![active] = "promoted"] ELSE status

Boots ==
    /\ proc = "reports" /\ todo = NoTodo
    /\ status' = Reconciled
    /\ proc' = IF live \in Broken THEN "hangs" ELSE "up"
    /\ UNCHANGED <<disk, active, prev, pending, crumb, firmware, work, todo, history>>

(* Requests are served until the server has stopped; what one writes, it     *)
(* writes without an await.                                                 *)
Serves == proc \in {"up", "leaving"} /\ todo = NoTodo

(* A change of the kernel, up to and past the agent and its validation.     *)
StageChange(v) ==
    /\ Serves /\ work = NoVersion /\ status[v] = "none"
    /\ work' = v
    /\ UNCHANGED <<disk, state, firmware, proc, todo, history>>

DropChange ==
    /\ Serves /\ work # NoVersion
    /\ work' = NoVersion
    /\ UNCHANGED <<disk, state, firmware, proc, todo, history>>

(* Committed and always held; what was held before is no longer.            *)
HoldChange ==
    /\ Serves /\ work # NoVersion
    /\ status' = [status EXCEPT ![work] = "committed"]
    /\ todo' = [write |-> "pending", what |-> "hold", version |-> work]
    /\ work' = NoVersion
    /\ UNCHANGED <<disk, active, prev, pending, crumb, firmware, proc, history>>

(* write_active_kernel: the pointer that is replaced is stashed first.      *)
Repoints(what, v) ==
    /\ prev' = IF active = NoVersion THEN prev ELSE active
    /\ todo' = [write |-> "active", what |-> what, version |-> v]
    /\ skipped' = (skipped \/ active \notin {NoVersion, live})

ApproveWhateverIsHeld(v) ==                      \* mutant of Approve
    /\ Serves /\ pending # NoVersion
    /\ Repoints("approve", pending)
    /\ approved' = approved \cup {v}
    /\ UNCHANGED <<disk, active, pending, status, crumb, firmware, proc, work,
                   proven, hurt, lost, faults>>

(* The operator names the version that was looked at.                       *)
Approve(v) ==
    /\ Serves /\ pending = v
    /\ Repoints("approve", v)
    /\ approved' = approved \cup {v}
    /\ UNCHANGED <<disk, active, pending, status, crumb, firmware, proc, work,
                   proven, hurt, lost, faults>>

(* To the predecessor, or to the shipped kernel when there is none.         *)
Rollback ==
    /\ Serves /\ active # NoVersion
    /\ LET target == IF prev = NoVersion THEN Shipped ELSE prev
       IN  target # active /\ Repoints("rollback", target)
    /\ UNCHANGED <<disk, active, pending, status, crumb, firmware, proc, work,
                   approved, proven, hurt, lost, faults>>

WriteActive ==
    /\ todo.write = "active"
    /\ active' = todo.version
    /\ IF todo.what = "approve" THEN todo' = [todo EXCEPT !.write = "pending"] /\ UNCHANGED proc
       ELSE todo' = NoTodo /\ proc' = "leaving"
    /\ UNCHANGED <<disk, prev, pending, status, crumb, firmware, work, history>>

WritePending ==
    /\ todo.write = "pending"
    /\ pending' = IF todo.what = "hold" THEN todo.version ELSE NoVersion
    /\ todo' = [todo EXCEPT !.write = "status"]
    /\ UNCHANGED <<disk, active, prev, status, crumb, firmware, proc, work, history>>

Stamped == [approve |-> "approved", hold |-> "pending", reject |-> "rejected",
            report |-> "failed"]

(* The last write of a request, or of a report.  An approval ends with the   *)
(* restart it asks for.                                                     *)
Stamp ==
    /\ todo.write = "status"
    /\ status' = [status EXCEPT ![todo.version] = Stamped[todo.what]]
    /\ todo' = NoTodo
    /\ proc' = IF todo.what = "approve" THEN "leaving" ELSE proc
    /\ UNCHANGED <<disk, active, prev, pending, crumb, firmware, work, history>>

Reject(v) ==
    /\ Serves /\ pending = v
    /\ todo' = [write |-> "pending", what |-> "reject", version |-> v]
    /\ UNCHANGED <<disk, state, firmware, proc, work, history>>

LeaveKeepsWork ==                                \* mutant of Leave
    /\ proc = "leaving" /\ todo = NoTodo
    /\ proc' = "none" /\ UNCHANGED <<work, todo>>
    /\ at' = IF at = "run" THEN "start" ELSE at
    /\ UNCHANGED <<disk, state, swapped, failures, history>>

(* The server has stopped: exit code 42.                                    *)
Leave ==
    /\ proc = "leaving" /\ todo = NoTodo
    /\ KernelGone
    /\ at' = IF at = "run" THEN "start" ELSE at
    /\ UNCHANGED <<disk, state, swapped, failures, history>>

Kernel == TakeReport \/ Boots \/ WriteActive \/ WritePending \/ Stamp \/ Leave

-----------------------------------------------------------------------------
(* The container is stopped or killed, the firmware with the kernel; it is   *)
(* started again, or made anew from the image.                              *)

NotPastGate ==
    \/ at \in {"swapped out", "restore", "moved aside", "gate"}
    \/ at = "launch" /\ swapped

Kill ==
    /\ at # "down"
    /\ Fault
    /\ at' = "down" /\ swapped' = FALSE /\ failures' = 0
    /\ KernelGone
    /\ hurt' = (IF NotPastGate THEN "now" ELSE hurt) /\ lost' = ReportLost
    /\ UNCHANGED <<disk, state, approved, proven, skipped>>

PowerOn ==
    /\ at = "down" /\ at' = "start"
    /\ UNCHANGED <<disk, state, swapped, failures, kernel, history>>

Recreate ==
    /\ at = "down"
    /\ live' = Shipped /\ backup' = NoVersion /\ incoming' = NoVersion
    /\ at' = "start" /\ hurt' = (IF hurt = "never" THEN hurt ELSE "once")
    /\ UNCHANGED <<state, swapped, failures, kernel, approved, proven, lost, skipped, faults>>

Operator ==
    \/ \E v \in Versions : StageChange(v) \/ Approve(v) \/ Reject(v)
    \/ DropChange \/ HoldChange \/ Rollback

Next ==
    \/ Firmware \/ DeployFails \/ NothingToRun \/ BrokenExits \/ HealthyExits
    \/ Kernel \/ Operator
    \/ Kill \/ PowerOn \/ Recreate

Spec == Init /\ [][Next]_vars

(* The firmware's loop goes on (its gate has a deadline), a kernel boots and *)
(* finishes what it writes, a server that is told to stop stops, and a       *)
(* container that is down is started ("restart: unless-stopped").           *)
Fairness ==
    /\ WF_vars(Firmware \/ NothingToRun) /\ WF_vars(Kernel) /\ WF_vars(PowerOn \/ Recreate)

FairSpec == Spec /\ Fairness

(***************************************************************************)
(* Properties.                                                             *)
(***************************************************************************)
(* A process runs only where the firmware waits for one, and what it works   *)
(* on ends with it; kernel/ is missing only between two renames, unless the  *)
(* firmware was killed there.                                               *)
TypeOK ==
    /\ {live, backup, incoming, active, prev, pending, crumb, work} \subseteq Some
    /\ status \in [Versions -> {"none", "active", "committed", "pending", "approved",
                                "rejected", "promoted", "failed"}]
    /\ at \in {"start", "swap", "swapped out", "launch", "gate", "restore", "moved aside",
               "revert", "run", "down"}
    /\ hurt \in {"never", "now", "once"} /\ swapped \in BOOLEAN /\ failures \in 0..(MaxActiveFailures - 1)
    /\ proc \in {"none", "boots", "reports", "hangs", "up", "leaving"}
    /\ todo \in Todo
    /\ proc # "none" => at \in {"gate", "run"}
    /\ work # NoVersion => proc \in {"up", "leaving"}
    /\ todo # NoTodo => IF todo.what = "report" THEN proc = "reports"
                        ELSE proc \in {"up", "leaving"}
    /\ live = NoVersion /\ hurt # "now" => at \in {"swapped out", "moved aside"}

(* Whatever is approved, rejected, replaced, killed or put back: a kernel    *)
(* runs only if it is the shipped one or the operator approved that version  *)
(* ("NEVER auto-promotes").                                                 *)
OnlyApprovedRuns == proc # "none" => live \in approved \cup {Shipped}

(* Unless the firmware was killed before a kernel it swapped in was past its *)
(* gate, that kernel's predecessor is kept until it is, and nothing that     *)
(* never answered a gate runs outside of one.                               *)
ProvenIsKept ==
    hurt # "now" => /\ {live, backup} \cap proven # {}
                     /\ at = "run" => live \in proven

(* Unless the firmware was ever killed so, or a report was lost (written     *)
(* over before a kernel took it, or taken by a kernel that ended before it   *)
(* recorded it): once a kernel serves past its gate, no version that cannot  *)
(* serve is called promoted, although it said so.                           *)
FailedIsNotPromoted ==
    at = "run" /\ proc = "up" /\ hurt = "never" /\ ~lost =>
        \A v \in Broken : status[v] # "promoted"

(* ... and whatever the operator approves, some kernel serves again.        *)
Serving == at = "run" /\ proc = "up"
KernelServes == ~Serving ~> (Serving \/ hurt = "now" \/ skipped)

(* kernel_slots.py: without a pointer "the shipped kernel is the floor";     *)
(* boot.py: it falls back to the shipped kernel after a few crashes.        *)
FloorIsShipped == at = "run" /\ active = NoVersion => live = Shipped
=============================================================================
