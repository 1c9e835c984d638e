--------------------------- MODULE PromotionProofs ---------------------------
(***************************************************************************)
(* Proofs about Promotion, for every set of versions and callers, every     *)
(* mix of requests, any number of crashes and either verifier setting.      *)
(***************************************************************************)
EXTENDS Promotion, FiniteSetTheorems, SequenceTheorems, WellFoundedInduction, TLAPS

USE VersionsAssumption, ActorsAssumption

-----------------------------------------------------------------------------
(* The inductive invariant, part by part. *)

GatePC == {"health", "verify", "unhealthy", "unverified"}
CommitPC == {"slots", "redraw", "suite", "stamp", "freeze", "stop"}
HoldPC == GatePC \cup CommitPC

(* A request that is under way is about a version. *)
Targets == \A a \in Actors : pc[a] # "idle" => tgt[a] \in Versions

(* The lock: its holder is the request past acquiring it, and the FIFO       *)
(* lists, once each, requests that wait.                                    *)
LockHeld == \A a \in Actors : pc[a] \in HoldPC <=> lock = a
FifoWaits == \A i \in DOMAIN waiters : pc[waiters[i]] = "wait"
FifoOnce == \A i, j \in DOMAIN waiters : waiters[i] = waiters[j] => i = j

(* Blue-green: while the holder is at a gate, the candidate is the version   *)
(* it is about, in the slot that is not served.                             *)
AtGate ==
    \A a \in Actors : pc[a] \in GatePC =>
        cand.version = tgt[a] /\ cand.slot = OtherSlot(current.slot)

(* What is past the health gate has answered it. *)
PastGate ==
    \A a \in Actors : pc[a] \in CommitPC \cup {"verify", "unverified"} => tgt[a] \in proven

(* What is promoted is served until the request ends, and slots.json names   *)
(* what is served, except between the flip and the write.                   *)
Served ==
    phase = "up" =>
        /\ current.version \in Versions
        /\ \A a \in Actors : pc[a] \in CommitPC => current.version = tgt[a]
        /\ (\A a \in Actors : pc[a] # "slots") =>
              current.version = slots.active /\ current.version = slots.lkg

(* A candidate runs in the slot that is not served, and only a cancelled     *)
(* watchdog leaves a process behind.                                        *)
BlueGreen ==
    /\ phase = "up" /\ cand # NoApp => cand.slot = OtherSlot(current.slot)
    /\ "reconfigure" \notin Ops => stray = {}

(* Nothing runs but in phase "up"; a boot has a line and a version to start. *)
Phases ==
    /\ phase # "up" => \A a \in Actors : pc[a] = "idle"
    /\ phase # "up" => waiters = <<>>
    /\ phase \in {"booting", "fallback"} => cand.version \in Versions
    /\ phase # "down" => main \in Versions

IInv ==
    /\ TypeOK /\ Targets /\ LockHeld /\ FifoWaits /\ FifoOnce /\ AtGate /\ PastGate
    /\ Served /\ BlueGreen /\ Phases /\ BrokenNeverAdvances

-----------------------------------------------------------------------------
(* Lemmas about the operators the model is built from *)

LEMMA DropType ==
    ASSUME NEW h \in Seq(Versions) PROVE Drop(h) \in Seq(Versions)
  BY DEF Drop

LEMMA TrimType ==
    ASSUME NEW h \in Seq(Versions) PROVE Trim(h) \in Seq(Versions)
  BY BoundsAssumption DEF Trim

LEMMA DepartedType ==
    ASSUME NEW h \in Seq(Versions), NEW old \in Versions \cup {NoVersion}, NEW new
    PROVE  Departed(h, old, new) \in Seq(Versions)
  BY DEF Departed

(* The undo stack only ever holds versions. *)
LEMMA NextHistoryType ==
    ASSUME NEW h \in Seq(Versions), NEW o, NEW old \in Versions \cup {NoVersion}, NEW new
    PROVE  NextHistory(h, o, old, new) \in Seq(Versions)
  BY DropType, TrimType, DepartedType DEF NextHistory

LEMMA TipType ==
    ASSUME NEW h \in Seq(Versions)
    PROVE  /\ Tip(h) \in Versions \cup {NoVersion}
           /\ h # <<>> => Tip(h) \in Versions
  BY DEF Tip

(* Setting one request's fields keeps them functions of the actors. *)
LEMMA StatusMapsType ==
    ASSUME TypeOK, NEW from, NEW to, NEW line, NEW known, NEW off, NEW on
    PROVE  /\ Redrawn(status, from, to) \in [Versions -> Status]
           /\ Reconciled(status, line, known) \in [Versions -> Status]
           /\ Synced(suite, off, on) \in [Versions -> SuiteState]
  BY DEF TypeOK, Redrawn, Reconciled, Synced, Status, SuiteState

(* A waiter that leaves the FIFO is gone from it, and the others stay. *)
LEMMA WithoutStays ==
    ASSUME NEW w \in Seq(Actors), NEW i \in DOMAIN w
    PROVE  /\ Without(w, i) \in Seq(Actors)
           /\ DOMAIN Without(w, i) = 1 .. Len(w) - 1
           /\ \A j \in 1 .. Len(w) - 1 :
                 Without(w, i)[j] = IF j < i THEN w[j] ELSE w[j + 1]
<1>1. Len(w) \in Nat /\ Len(w) >= 1
  OBVIOUS
<1>2. Without(w, i) \in [1 .. Len(w) - 1 -> Actors]
  BY <1>1 DEF Without
<1>3. QED BY <1>1, <1>2 DEF Without

(* A request that joins the FIFO is its last element, and the others stay. *)
LEMMA AppendStays ==
    ASSUME NEW w \in Seq(Actors), NEW a \in Actors
    PROVE  /\ Append(w, a) \in Seq(Actors)
           /\ Len(w) \in Nat /\ DOMAIN w = 1 .. Len(w)
           /\ DOMAIN Append(w, a) = 1 .. Len(w) + 1
           /\ \A j \in 1 .. Len(w) : Append(w, a)[j] = w[j]
           /\ Append(w, a)[Len(w) + 1] = a
  OBVIOUS

(* The head of the FIFO leaves it, and the others move up. *)
LEMMA TailStays ==
    ASSUME NEW w \in Seq(Actors), w # <<>>
    PROVE  /\ Tail(w) \in Seq(Actors)
           /\ Len(w) \in Nat /\ Len(w) >= 1 /\ DOMAIN w = 1 .. Len(w)
           /\ DOMAIN Tail(w) = 1 .. Len(w) - 1
           /\ \A j \in 1 .. Len(w) - 1 : Tail(w)[j] = w[j + 1]
           /\ Head(w) = w[1]
  OBVIOUS

-----------------------------------------------------------------------------
LEMMA InitIInv == Init => IInv
  BY DEF Init, IInv, TypeOK, Targets, LockHeld, FifoWaits, FifoOnce, AtGate, PastGate,
         Served, BlueGreen, Phases, BrokenNeverAdvances, HoldPC, GatePC, CommitPC, Status,
         SuiteState, OpKinds, NoApp, Slot, Actors

(* A request that asks for the lock. *)
LEMMA EnterIInv ==
    ASSUME IInv, NEW a \in Actors, NEW kind \in OpKinds, NEW v \in Versions,
           pc[a] \notin HoldPC \cup {"wait"}, LoopFree, Enter(a, kind, v)
    PROVE  IInv'
<1> USE DEF IInv, HoldPC, GatePC, CommitPC, disk
<1>0. waiters \in Seq(Actors)
  BY DEF TypeOK
<1>1. TypeOK'
  <2>1. CASE lock = NoOne /\ waiters = <<>>
    BY <2>1 DEF Enter, Launch, TypeOK, Slot, OtherSlot
  <2>2. CASE ~ (lock = NoOne /\ waiters = <<>>)
    <3>1. waiters' \in Seq(Actors)
      BY <1>0, <2>2, AppendStays DEF Enter
    <3>2. /\ op' = [op EXCEPT ![a] = kind] /\ tgt' = [tgt EXCEPT ![a] = v]
          /\ pc' = [pc EXCEPT ![a] = "wait"]
          /\ UNCHANGED <<lock, cand, main, anc, slots, status, pending, derived, suite, phase,
                         current, stray, oldMain, proven, crashes>>
      BY <2>2 DEF Enter
    <3>3. QED BY <3>1, <3>2 DEF TypeOK
  <2>3. QED BY <2>1, <2>2
<1>2. Targets' /\ LockHeld'
  BY DEF Enter, Launch, TypeOK, Targets, LockHeld, Actors
<1>3. FifoWaits' /\ FifoOnce'
  <2>1. CASE lock = NoOne /\ waiters = <<>>
    BY <2>1 DEF Enter, FifoWaits, FifoOnce
  <2>2. CASE ~ (lock = NoOne /\ waiters = <<>>)
    <3>1. waiters' = Append(waiters, a) /\ pc' = [pc EXCEPT ![a] = "wait"]
      BY <2>2 DEF Enter
    <3>2. \A i \in DOMAIN waiters : waiters[i] # a /\ waiters[i] \in Actors
      BY <1>0 DEF FifoWaits
    <3>3. \A i \in DOMAIN waiters' : waiters'[i] = IF i = Len(waiters) + 1 THEN a ELSE waiters[i]
      BY <1>0, <3>1, AppendStays
    <3>4. FifoWaits'
      BY <1>0, <3>1, <3>2, <3>3, AppendStays DEF FifoWaits, TypeOK
    <3>5. FifoOnce'
      BY <1>0, <3>1, <3>2, <3>3, AppendStays DEF FifoOnce
    <3>6. QED BY <3>4, <3>5
  <2>3. QED BY <2>1, <2>2
<1>4. AtGate' /\ PastGate'
  BY DEF Enter, Launch, TypeOK, AtGate, PastGate, LockHeld, Actors
<1>5. Served' /\ BlueGreen' /\ Phases' /\ BrokenNeverAdvances'
  BY DEF Enter, Launch, TypeOK, Served, BlueGreen, Phases, BrokenNeverAdvances, LoopFree
<1>6. QED BY <1>1, <1>2, <1>3, <1>4, <1>5

(* A request that ends without having asked for the lock, or goes on before  *)
(* it does: the invariant is about others.                                  *)
LEMMA ChangeIInv ==
    ASSUME IInv, NEW a \in Actors, Change(a)
    PROVE  IInv'
<1> USE DEF IInv, HoldPC, GatePC, CommitPC, disk, reboot
<1>1. CASE StageChange(a)
  <2>1. TypeOK' /\ Targets'
    BY <1>1 DEF StageChange, MayCall, LoopFree, Known, TypeOK, Targets, OpKinds
  <2>2. LockHeld' /\ FifoWaits' /\ FifoOnce' /\ AtGate' /\ PastGate'
    BY <1>1 DEF StageChange, MayCall, LoopFree, Known, TypeOK, LockHeld, FifoWaits,
       FifoOnce, AtGate, PastGate
  <2>3. Served' /\ BlueGreen' /\ Phases' /\ BrokenNeverAdvances'
    BY <1>1 DEF StageChange, MayCall, LoopFree, Known, TypeOK, Served, BlueGreen, Phases,
       BrokenNeverAdvances
  <2>4. QED BY <2>1, <2>2, <2>3
<1>2. CASE AbandonChange(a)
  <2>1. TypeOK' /\ Targets'
    BY <1>2 DEF AbandonChange, LoopFree, Done, TypeOK, Targets, OpKinds
  <2>2. LockHeld' /\ FifoWaits' /\ FifoOnce' /\ AtGate' /\ PastGate'
    BY <1>2 DEF AbandonChange, LoopFree, Done, TypeOK, LockHeld, FifoWaits, FifoOnce,
       AtGate, PastGate
  <2>3. Served' /\ BlueGreen' /\ Phases' /\ BrokenNeverAdvances'
    BY <1>2 DEF AbandonChange, LoopFree, Done, TypeOK, Served, BlueGreen, Phases,
       BrokenNeverAdvances
  <2>4. QED BY <2>1, <2>2, <2>3
<1>3. CASE CommitChange(a)
  <2>1. TypeOK' /\ Targets'
    BY <1>3 DEF CommitChange, LoopFree, Known, TypeOK, Targets, OpKinds
  <2>2. LockHeld' /\ FifoWaits' /\ FifoOnce' /\ AtGate' /\ PastGate'
    BY <1>3 DEF CommitChange, LoopFree, Known, TypeOK, LockHeld, FifoWaits, FifoOnce,
       AtGate, PastGate
  <2>3. Served' /\ BlueGreen' /\ Phases' /\ BrokenNeverAdvances'
    BY <1>3 DEF CommitChange, LoopFree, Known, TypeOK, Served, BlueGreen, Phases,
       BrokenNeverAdvances
  <2>4. QED BY <2>1, <2>2, <2>3
<1>4. CASE RecordCommit(a)
  <2>1. TypeOK' /\ Targets'
    BY <1>4 DEF RecordCommit, Status, TypeOK, Targets, OpKinds
  <2>2. LockHeld' /\ FifoWaits' /\ FifoOnce' /\ AtGate' /\ PastGate'
    BY <1>4 DEF RecordCommit, Status, TypeOK, LockHeld, FifoWaits, FifoOnce, AtGate,
       PastGate
  <2>3. Served' /\ BlueGreen' /\ Phases' /\ BrokenNeverAdvances'
    BY <1>4 DEF RecordCommit, Status, TypeOK, Served, BlueGreen, Phases, BrokenNeverAdvances
  <2>4. QED BY <2>1, <2>2, <2>3
<1>5. CASE FailGate(a)
  <2>1. TypeOK' /\ Targets'
    BY <1>5 DEF FailGate, LoopFree, Done, Status, TypeOK, Targets, OpKinds
  <2>2. LockHeld' /\ FifoWaits' /\ FifoOnce' /\ AtGate' /\ PastGate'
    BY <1>5 DEF FailGate, LoopFree, Done, Status, TypeOK, LockHeld, FifoWaits, FifoOnce,
       AtGate, PastGate
  <2>3. Served' /\ BlueGreen' /\ Phases' /\ BrokenNeverAdvances'
    BY <1>5 DEF FailGate, LoopFree, Done, Status, TypeOK, Served, BlueGreen, Phases,
       BrokenNeverAdvances
  <2>4. QED BY <2>1, <2>2, <2>3
<1>6. CASE HoldForApproval(a)
  <2>1. TypeOK' /\ Targets'
    BY <1>6 DEF HoldForApproval, LoopFree, Status, TypeOK, Targets, OpKinds
  <2>2. LockHeld' /\ FifoWaits' /\ FifoOnce' /\ AtGate' /\ PastGate'
    BY <1>6 DEF HoldForApproval, LoopFree, Status, TypeOK, LockHeld, FifoWaits,
       FifoOnce, AtGate, PastGate
  <2>3. Served' /\ BlueGreen' /\ Phases' /\ BrokenNeverAdvances'
    BY <1>6 DEF HoldForApproval, LoopFree, Status, TypeOK, Served, BlueGreen, Phases,
       BrokenNeverAdvances
  <2>4. QED BY <2>1, <2>2, <2>3
<1>7. CASE PromoteChange(a)
  BY <1>7, EnterIInv DEF PromoteChange, LoopFree, TypeOK, Targets, OpKinds
<1>8. CASE RecordHold(a)
  <2>1. TypeOK' /\ Targets'
    BY <1>8 DEF RecordHold, Done, Status, TypeOK, Targets, OpKinds
  <2>2. LockHeld' /\ FifoWaits' /\ FifoOnce' /\ AtGate' /\ PastGate'
    BY <1>8 DEF RecordHold, Done, Status, TypeOK, LockHeld, FifoWaits,
       FifoOnce, AtGate, PastGate
  <2>3. Served' /\ BlueGreen' /\ Phases' /\ BrokenNeverAdvances'
    BY <1>8 DEF RecordHold, Done, Status, TypeOK, Served, BlueGreen, Phases,
       BrokenNeverAdvances
  <2>4. QED BY <2>1, <2>2, <2>3
<1>9. QED BY <1>1, <1>2, <1>3, <1>4, <1>5, <1>6, <1>7, <1>8 DEF Change

(* A request that wants, holds or gives back the lock. *)
LEMMA RebootIInv ==
    ASSUME IInv, NEW a \in Actors, Reboot(a)
    PROVE  IInv'
<1> USE DEF IInv, HoldPC, GatePC, CommitPC, disk, reboot
<1>1. CASE Acquire(a)
  <2>1. /\ waiters \in Seq(Actors) /\ waiters' \in Seq(Actors)
        /\ pc[a] = "wait" /\ phase = "up"
    BY <1>1, TailStays DEF Acquire, LoopFree, TypeOK, FifoWaits
  <2>2. TypeOK' /\ Targets'
    BY <1>1, <2>1 DEF Acquire, Launch, Slot, OtherSlot, TypeOK, Targets
  <2>3. LockHeld' /\ FifoWaits' /\ FifoOnce'
    BY <1>1, TailStays DEF Acquire, Launch, TypeOK, LockHeld, FifoWaits, FifoOnce, Actors
  <2>4. AtGate' /\ PastGate'
    BY <1>1, <2>1 DEF Acquire, Launch, TypeOK, LockHeld, AtGate, PastGate, Actors
  <2>5. Served' /\ BlueGreen' /\ Phases' /\ BrokenNeverAdvances'
    BY <1>1, <2>1 DEF Acquire, Launch, TypeOK, Served, BlueGreen, Phases,
       BrokenNeverAdvances
  <2>6. QED BY <2>2, <2>3, <2>4, <2>5
<1>2. CASE LaunchRaises(a)
  <2>1. TypeOK' /\ Targets'
    BY <1>2 DEF LaunchRaises, LoopFree, Release, Done, NoApp, Slot, TypeOK, Targets
  <2>2. LockHeld' /\ FifoWaits' /\ FifoOnce'
    BY <1>2 DEF LaunchRaises, LoopFree, Release, Done, NoApp, Slot, TypeOK, LockHeld,
       FifoWaits, FifoOnce, Actors
  <2>3. AtGate' /\ PastGate'
    BY <1>2 DEF LaunchRaises, LoopFree, Release, Done, NoApp, Slot, TypeOK, LockHeld,
       AtGate, PastGate
  <2>4. Served' /\ BlueGreen' /\ Phases' /\ BrokenNeverAdvances'
    BY <1>2 DEF LaunchRaises, LoopFree, Release, Done, NoApp, Slot, TypeOK, LockHeld,
       AtGate, PastGate, Served, BlueGreen, Phases, BrokenNeverAdvances
  <2>5. QED BY <2>1, <2>2, <2>3, <2>4
<1>3. CASE Healthy(a)
  <2>1. /\ pc[a] = "health" /\ tgt[a] \in Versions /\ lock = a
        /\ proven' = proven \cup {tgt[a]} /\ tgt' = tgt
        /\ cand.version = tgt[a]
    BY <1>3 DEF Healthy, Flip, TypeOK, Targets, LockHeld, AtGate
  <2>2. CASE Gated(a)
    BY <1>3, <2>1, <2>2 DEF Healthy, LoopFree, TypeOK, Targets, LockHeld, FifoWaits,
       FifoOnce, AtGate, PastGate, Served, BlueGreen, Phases, BrokenNeverAdvances
  <2>3. CASE ~ Gated(a)
    <3>1. Flip(a) /\ LoopFree
      BY <1>3, <2>3 DEF Healthy
    <3>2. TypeOK' /\ Targets'
      BY <2>1, <3>1 DEF Flip, NoApp, Slot, TypeOK, Targets
    <3>3. LockHeld' /\ FifoWaits' /\ FifoOnce'
      BY <2>1, <3>1 DEF Flip, TypeOK, LockHeld, FifoWaits, FifoOnce
    <3>4. AtGate' /\ PastGate'
      BY <2>1, <3>1 DEF Flip, TypeOK, LockHeld, AtGate, PastGate
    <3>5. Served' /\ BlueGreen' /\ Phases' /\ BrokenNeverAdvances'
      BY <2>1, <3>1 DEF Flip, LoopFree, TypeOK, LockHeld, Served, BlueGreen, Phases,
         BrokenNeverAdvances
    <3>6. QED BY <3>2, <3>3, <3>4, <3>5
  <2>4. QED BY <2>2, <2>3
<1>4. CASE Verified(a)
  <2>1. TypeOK' /\ Targets'
    BY <1>4 DEF Verified, LoopFree, Flip, NoApp, Slot, TypeOK, Targets
  <2>2. LockHeld' /\ FifoWaits' /\ FifoOnce'
    BY <1>4 DEF Verified, LoopFree, Flip, NoApp, Slot, TypeOK, LockHeld, FifoWaits,
       FifoOnce, Actors
  <2>3. AtGate' /\ PastGate'
    BY <1>4 DEF Verified, LoopFree, Flip, NoApp, Slot, TypeOK, LockHeld, AtGate, PastGate
  <2>4. Served' /\ BlueGreen' /\ Phases' /\ BrokenNeverAdvances'
    BY <1>4 DEF Verified, LoopFree, Flip, NoApp, Slot, TypeOK, LockHeld, AtGate, PastGate,
       Served, BlueGreen, Phases, BrokenNeverAdvances
  <2>5. QED BY <2>1, <2>2, <2>3, <2>4
<1>5. CASE Unfit(a)
  <2>1. TypeOK' /\ Targets'
    BY <1>5 DEF Unfit, LoopFree, TypeOK, Targets
  <2>2. LockHeld' /\ FifoWaits' /\ FifoOnce'
    BY <1>5 DEF Unfit, LoopFree, TypeOK, LockHeld, FifoWaits, FifoOnce, Actors
  <2>3. AtGate' /\ PastGate'
    BY <1>5 DEF Unfit, LoopFree, TypeOK, LockHeld, AtGate, PastGate
  <2>4. Served' /\ BlueGreen' /\ Phases' /\ BrokenNeverAdvances'
    BY <1>5 DEF Unfit, LoopFree, TypeOK, LockHeld, AtGate, PastGate, Served, BlueGreen,
       Phases, BrokenNeverAdvances
  <2>5. QED BY <2>1, <2>2, <2>3, <2>4
<1>6. CASE DropCandidate(a)
  <2>1. TypeOK' /\ Targets'
    BY <1>6 DEF DropCandidate, LoopFree, Release, Done, NoApp, Slot, Status, TypeOK, Targets
  <2>2. LockHeld' /\ FifoWaits' /\ FifoOnce'
    BY <1>6 DEF DropCandidate, LoopFree, Release, Done, NoApp, Slot, Status, TypeOK,
       LockHeld, FifoWaits, FifoOnce, Actors
  <2>3. AtGate' /\ PastGate'
    BY <1>6 DEF DropCandidate, LoopFree, Release, Done, NoApp, Slot, Status, TypeOK,
       LockHeld, AtGate, PastGate
  <2>4. Served' /\ BlueGreen' /\ Phases' /\ BrokenNeverAdvances'
    BY <1>6 DEF DropCandidate, LoopFree, Release, Done, NoApp, Slot, Status, TypeOK,
       LockHeld, AtGate, PastGate, Served, BlueGreen, Phases, BrokenNeverAdvances
  <2>5. QED BY <2>1, <2>2, <2>3, <2>4
<1>7. CASE WriteSlots(a)
  <2>1. TypeOK' /\ Targets'
    BY <1>7, TipType, NextHistoryType DEF WriteSlots, TypeOK, Targets
  <2>2. LockHeld' /\ FifoWaits' /\ FifoOnce'
    BY <1>7, TipType, NextHistoryType DEF WriteSlots, TypeOK, LockHeld, FifoWaits, FifoOnce,
       Actors
  <2>3. AtGate' /\ PastGate'
    BY <1>7, TipType, NextHistoryType DEF WriteSlots, TypeOK, LockHeld, AtGate, PastGate
  <2>4. Served' /\ BlueGreen' /\ Phases' /\ BrokenNeverAdvances'
    BY <1>7, TipType, NextHistoryType DEF WriteSlots, TypeOK, LockHeld, AtGate, PastGate,
       Served, BlueGreen, Phases, BrokenNeverAdvances
  <2>5. QED BY <2>1, <2>2, <2>3, <2>4
<1>8. CASE RedrawLine(a)
  <2>1. TypeOK' /\ Targets'
    <3>1. TypeOK'
      <4>1. Redrawn(status, oldMain, tgt[a]) \in [Versions -> Status]
        BY StatusMapsType
      <4>2. status' \in [Versions -> Status]
        BY <1>8, <4>1 DEF RedrawLine
      <4>3. /\ pc' = [pc EXCEPT ![a] = "suite"]
            /\ UNCHANGED <<main, anc, slots, pending, derived, suite, phase, reboot, op, tgt,
                           proven, crashes>>
        BY <1>8 DEF RedrawLine
      <4>4. QED BY <4>2, <4>3 DEF TypeOK
    <3>2. Targets'
      BY <1>8 DEF RedrawLine, TypeOK, Targets
    <3>3. QED BY <3>1, <3>2
  <2>2. LockHeld' /\ FifoWaits' /\ FifoOnce'
    BY <1>8, StatusMapsType DEF RedrawLine, TypeOK, LockHeld, FifoWaits, FifoOnce, Actors
  <2>3. AtGate' /\ PastGate'
    BY <1>8, StatusMapsType DEF RedrawLine, TypeOK, LockHeld, AtGate, PastGate
  <2>4. Served' /\ BlueGreen' /\ Phases' /\ BrokenNeverAdvances'
    BY <1>8, StatusMapsType DEF RedrawLine, TypeOK, LockHeld, AtGate, PastGate, Served,
       BlueGreen, Phases, BrokenNeverAdvances
  <2>5. QED BY <2>1, <2>2, <2>3, <2>4
<1>9. CASE SyncSuite(a)
  <2>1. TypeOK' /\ Targets'
    <3>1. TypeOK'
      <4>1. \A off, on : Synced(suite, off, on) \in [Versions -> SuiteState]
        BY StatusMapsType
      <4>2. suite' \in [Versions -> SuiteState]
        BY <1>9, <4>1 DEF SyncSuite
      <4>3. /\ pc' = [pc EXCEPT ![a] = "stamp"]
            /\ UNCHANGED <<main, anc, slots, pending, derived, status, phase, reboot, op, tgt,
                           proven, crashes>>
        BY <1>9 DEF SyncSuite
      <4>4. QED BY <4>2, <4>3 DEF TypeOK
    <3>2. Targets'
      BY <1>9 DEF SyncSuite, TypeOK, Targets
    <3>3. QED BY <3>1, <3>2
  <2>2. LockHeld' /\ FifoWaits' /\ FifoOnce'
    BY <1>9, StatusMapsType DEF SyncSuite, TypeOK, LockHeld, FifoWaits, FifoOnce, Actors
  <2>3. AtGate' /\ PastGate'
    BY <1>9, StatusMapsType DEF SyncSuite, TypeOK, LockHeld, AtGate, PastGate
  <2>4. Served' /\ BlueGreen' /\ Phases' /\ BrokenNeverAdvances'
    BY <1>9, StatusMapsType DEF SyncSuite, TypeOK, LockHeld, AtGate, PastGate, Served,
       BlueGreen, Phases, BrokenNeverAdvances
  <2>5. QED BY <2>1, <2>2, <2>3, <2>4
<1>10. CASE StampPromoted(a)
  <2>1. TypeOK' /\ Targets'
    BY <1>10 DEF StampPromoted, Status, TypeOK, Targets
  <2>2. LockHeld' /\ FifoWaits' /\ FifoOnce'
    BY <1>10 DEF StampPromoted, Status, TypeOK, LockHeld, FifoWaits, FifoOnce, Actors
  <2>3. AtGate' /\ PastGate'
    BY <1>10 DEF StampPromoted, Status, TypeOK, LockHeld, AtGate, PastGate
  <2>4. Served' /\ BlueGreen' /\ Phases' /\ BrokenNeverAdvances'
    BY <1>10 DEF StampPromoted, Status, TypeOK, LockHeld, AtGate, PastGate, Served,
       BlueGreen, Phases, BrokenNeverAdvances
  <2>5. QED BY <2>1, <2>2, <2>3, <2>4
<1>11. CASE Freeze(a)
  <2>1. TypeOK' /\ Targets'
    BY <1>11 DEF Freeze, SuiteState, TypeOK, Targets
  <2>2. LockHeld' /\ FifoWaits' /\ FifoOnce'
    BY <1>11 DEF Freeze, SuiteState, TypeOK, LockHeld, FifoWaits, FifoOnce, Actors
  <2>3. AtGate' /\ PastGate'
    BY <1>11 DEF Freeze, SuiteState, TypeOK, LockHeld, AtGate, PastGate
  <2>4. Served' /\ BlueGreen' /\ Phases' /\ BrokenNeverAdvances'
    BY <1>11 DEF Freeze, SuiteState, TypeOK, LockHeld, AtGate, PastGate, Served, BlueGreen,
       Phases, BrokenNeverAdvances
  <2>5. QED BY <2>1, <2>2, <2>3, <2>4
<1>12. CASE Finish(a)
  <2>1. TypeOK' /\ Targets'
    BY <1>12 DEF Finish, LoopFree, Release, Done, NoApp, Slot, TypeOK, Targets
  <2>2. LockHeld' /\ FifoWaits' /\ FifoOnce'
    BY <1>12 DEF Finish, LoopFree, Release, Done, NoApp, Slot, TypeOK, LockHeld, FifoWaits,
       FifoOnce, Actors
  <2>3. AtGate' /\ PastGate'
    BY <1>12 DEF Finish, LoopFree, Release, Done, NoApp, Slot, TypeOK, LockHeld, AtGate,
       PastGate
  <2>4. Served' /\ BlueGreen' /\ Phases' /\ BrokenNeverAdvances'
    BY <1>12 DEF Finish, LoopFree, Release, Done, NoApp, Slot, TypeOK, LockHeld, AtGate,
       PastGate, Served, BlueGreen, Phases, BrokenNeverAdvances
  <2>5. QED BY <2>1, <2>2, <2>3, <2>4
<1>13. QED BY <1>1, <1>2, <1>3, <1>4, <1>5, <1>6, <1>7, <1>8, <1>9, <1>10, <1>11, <1>12 DEF Reboot

(* What an operator asks for at once, and what the operator's requests and   *)
(* the watchdog ask the lock for.                                           *)
LEMMA RequestIInv ==
    ASSUME IInv,
           \/ \E a \in Actors : Rollback(a) \/ RollbackTo(a) \/ Approve(a)
                              \/ Reject(a) \/ RecordReject(a)
           \/ ToggleCheck \/ MonitorUnhealthy
    PROVE  IInv'
<1> USE DEF IInv, HoldPC, GatePC, CommitPC, disk, reboot
<1>1. ASSUME NEW a \in Actors, Rollback(a) PROVE IInv'
  <2>1. PICK v \in Versions : Enter(a, "rollback", v)
    BY <1>1, TipType DEF Rollback, TypeOK
  <2>2. QED BY <1>1, <2>1, EnterIInv DEF Rollback, MayCall, OpKinds
<1>2. ASSUME NEW a \in Actors, RollbackTo(a) PROVE IInv'
  BY <1>2, EnterIInv DEF RollbackTo, MayCall, OpKinds, Known
<1>3. ASSUME NEW a \in Actors, Approve(a) PROVE IInv'
  BY <1>3, EnterIInv DEF Approve, MayCall, OpKinds, TypeOK
<1>4. CASE MonitorUnhealthy
  BY <1>4, EnterIInv DEF MonitorUnhealthy, MayCall, OpKinds, Actors
<1>5. ASSUME NEW a \in Actors, Reject(a) PROVE IInv'
  <2>1. TypeOK' /\ Targets'
    BY <1>5 DEF Reject, MayCall, LoopFree, TypeOK, Targets, OpKinds
  <2>2. LockHeld' /\ FifoWaits' /\ FifoOnce' /\ AtGate' /\ PastGate'
    BY <1>5 DEF Reject, MayCall, LoopFree, TypeOK, LockHeld, FifoWaits, FifoOnce, AtGate,
       PastGate
  <2>3. Served' /\ BlueGreen' /\ Phases' /\ BrokenNeverAdvances'
    BY <1>5 DEF Reject, MayCall, LoopFree, TypeOK, Served, BlueGreen, Phases,
       BrokenNeverAdvances
  <2>4. QED BY <2>1, <2>2, <2>3
<1>8. ASSUME NEW a \in Actors, RecordReject(a) PROVE IInv'
  <2>1. TypeOK' /\ Targets'
    BY <1>8 DEF RecordReject, Done, Status, TypeOK, Targets, OpKinds
  <2>2. LockHeld' /\ FifoWaits' /\ FifoOnce' /\ AtGate' /\ PastGate'
    BY <1>8 DEF RecordReject, Done, Status, TypeOK, LockHeld, FifoWaits, FifoOnce, AtGate,
       PastGate
  <2>3. Served' /\ BlueGreen' /\ Phases' /\ BrokenNeverAdvances'
    BY <1>8 DEF RecordReject, Done, Status, TypeOK, Served, BlueGreen, Phases,
       BrokenNeverAdvances
  <2>4. QED BY <2>1, <2>2, <2>3
<1>6. CASE ToggleCheck
  BY <1>6 DEF ToggleCheck, TypeOK, SuiteState, Targets, LockHeld, FifoWaits, FifoOnce,
     AtGate, PastGate, Served, BlueGreen, Phases, BrokenNeverAdvances
<1>7. QED BY <1>1, <1>2, <1>3, <1>4, <1>5, <1>6, <1>8

(* The watchdog's task cancelled at the gate or while it stops the old app:  *)
(* it held the lock.  Cancelled in the FIFO: it leaves it.                   *)
LEMMA CancelIInv == ASSUME IInv, CancelMonitor PROVE IInv'
<1> USE DEF IInv, HoldPC, GatePC, CommitPC, disk, reboot
<1>0. /\ Monitor \in Actors /\ phase = "up" /\ waiters \in Seq(Actors)
      /\ \A a \in Actors : pc[a] # "slots"
  BY DEF CancelMonitor, LoopFree, SyncPC, Actors, TypeOK
<1>1. CASE lock = Monitor
  <2>1. TypeOK' /\ Targets'
    <3>1. stray' \subseteq Slot
      BY <1>0, <1>1 DEF CancelMonitor, TypeOK
    <3>2. QED
      BY <1>0, <1>1, <3>1 DEF CancelMonitor, Done, Release, NoApp, Slot, TypeOK, Targets
  <2>2. LockHeld' /\ FifoWaits' /\ FifoOnce'
    BY <1>0, <1>1 DEF CancelMonitor, Done, Release, TypeOK, LockHeld, FifoWaits, FifoOnce,
       Actors
  <2>3. AtGate' /\ PastGate'
    BY <1>0, <1>1 DEF CancelMonitor, Done, Release, TypeOK, LockHeld, AtGate, PastGate
  <2>4. Served' /\ Phases' /\ BrokenNeverAdvances'
    BY <1>0, <1>1 DEF CancelMonitor, Done, TypeOK, Served, Phases, BrokenNeverAdvances
  <2>5. BlueGreen'
    BY <1>0, <1>1 DEF CancelMonitor, Release, BlueGreen
  <2>6. QED BY <2>1, <2>2, <2>3, <2>4, <2>5
<1>2. CASE lock # Monitor
  <2>1. PICK i \in DOMAIN waiters : /\ waiters[i] = Monitor
                                    /\ waiters' = Without(waiters, i)
    BY <1>2 DEF CancelMonitor
  <2>2. /\ UNCHANGED <<main, anc, slots, status, pending, derived, suite, phase, current,
                       proven, crashes, lock, cand, oldMain, stray>>
        /\ pc' = [pc EXCEPT ![Monitor] = "idle"]
        /\ op' = [op EXCEPT ![Monitor] = "none"]
        /\ tgt' = [tgt EXCEPT ![Monitor] = NoVersion]
    BY <1>2 DEF CancelMonitor, Done
  <2>3. /\ waiters' \in Seq(Actors) /\ DOMAIN waiters' = 1 .. Len(waiters) - 1
        /\ DOMAIN waiters = 1 .. Len(waiters) /\ Len(waiters) \in Nat
        /\ \A j \in DOMAIN waiters' :
              waiters'[j] = IF j < i THEN waiters[j] ELSE waiters[j + 1]
    <3>1. DOMAIN waiters = 1 .. Len(waiters) /\ Len(waiters) \in Nat
      BY <1>0
    <3>2. /\ Without(waiters, i) \in Seq(Actors)
          /\ DOMAIN Without(waiters, i) = 1 .. Len(waiters) - 1
          /\ \A j \in 1 .. Len(waiters) - 1 :
                Without(waiters, i)[j] = IF j < i THEN waiters[j] ELSE waiters[j + 1]
      BY <1>0, WithoutStays
    <3>3. QED BY <2>1, <3>1, <3>2
  <2>4. TypeOK' /\ Targets'
    BY <1>0, <2>2, <2>3 DEF TypeOK, Targets
  <2>5. LockHeld' /\ AtGate' /\ PastGate'
    BY <1>0, <1>2, <2>2 DEF TypeOK, LockHeld, AtGate, PastGate
  <2>6. \A j \in DOMAIN waiters' : waiters'[j] # Monitor /\ waiters'[j] \in Actors
    BY <1>0, <2>1, <2>3 DEF FifoOnce
  <2>7. FifoWaits'
    <3>1. \A j \in DOMAIN waiters' : pc[waiters'[j]] = "wait"
      BY <2>1, <2>3 DEF FifoWaits
    <3>2. QED BY <2>2, <2>6, <3>1 DEF TypeOK, FifoWaits
  <2>8. FifoOnce'
    BY <2>1, <2>3 DEF FifoOnce
  <2>9. Served' /\ BlueGreen' /\ Phases' /\ BrokenNeverAdvances'
    BY <1>0, <2>2 DEF TypeOK, Served, BlueGreen, Phases, BrokenNeverAdvances
  <2>10. QED BY <2>4, <2>5, <2>7, <2>8, <2>9
<1>3. QED BY <1>1, <1>2

(* The process starts and ends; no request is under way. *)
LEMMA BootIInv == ASSUME IInv, Boot \/ Crash PROVE IInv'
<1> USE DEF IInv, HoldPC, GatePC, CommitPC, disk
<1>1. CASE BootStart
  <2>1. \A st, line, known :
           st \in [Versions -> Status] => Reconciled(st, line, known) \in [Versions -> Status]
    BY DEF Reconciled, Status
  <2>2. TypeOK' /\ Targets'
    <3>1. /\ main' \in Versions \cup {NoVersion} /\ anc' \in [Versions -> SUBSET Versions]
          /\ cand' \in [version : Versions \cup {NoVersion}, slot : Slot]
      BY <1>1 DEF BootStart, TypeOK, Slot
    <3>2. status' \in [Versions -> Status]
      <4>1. "committed" \in Status /\ [status EXCEPT ![Seed] = "committed"] \in [Versions -> Status]
        BY DEF TypeOK, Status
      <4>2. \E st \in [Versions -> Status] : \E line, known : status' = Reconciled(st, line, known)
        BY <1>1, <4>1 DEF BootStart, TypeOK
      <4>3. QED BY <2>1, <4>2
    <3>3. /\ phase' = "booting"
          /\ UNCHANGED <<slots, pending, derived, suite, current, stray, lock, waiters,
                         oldMain, pc, op, tgt, proven, crashes>>
      BY <1>1 DEF BootStart
    <3>4. QED BY <3>1, <3>2, <3>3 DEF TypeOK, Targets
  <2>3. LockHeld' /\ FifoWaits' /\ FifoOnce' /\ AtGate' /\ PastGate'
    BY <1>1 DEF BootStart, TypeOK, LockHeld, FifoWaits, FifoOnce, AtGate, PastGate, Phases
  <2>4. Served' /\ BlueGreen' /\ Phases' /\ BrokenNeverAdvances'
    BY <1>1 DEF BootStart, TypeOK, Served, BlueGreen, Phases, BrokenNeverAdvances
  <2>5. QED BY <2>2, <2>3, <2>4
<1>2. CASE BootHealthy
  <2>1. TypeOK' /\ Targets'
    BY <1>2, TipType DEF BootHealthy, TypeOK, Targets, NoApp, Slot, Phases
  <2>2. LockHeld' /\ FifoWaits' /\ FifoOnce' /\ AtGate' /\ PastGate'
    BY <1>2 DEF BootHealthy, TypeOK, LockHeld, FifoWaits, FifoOnce, AtGate, PastGate, Phases
  <2>3. Served' /\ BlueGreen' /\ Phases' /\ BrokenNeverAdvances'
    BY <1>2 DEF BootHealthy, TypeOK, Served, BlueGreen, Phases, BrokenNeverAdvances
  <2>4. QED BY <2>1, <2>2, <2>3
<1>3. CASE BootFallback
  BY <1>3 DEF BootFallback, TypeOK, Status, Slot, Targets, LockHeld, FifoWaits, FifoOnce,
     AtGate, PastGate, Served, BlueGreen, Phases, BrokenNeverAdvances
<1>4. CASE BootFails
  BY <1>4 DEF BootFails, NoApp, TypeOK, Slot, Targets, LockHeld, FifoWaits, FifoOnce,
     AtGate, PastGate, Served, BlueGreen, Phases, BrokenNeverAdvances
<1>5. CASE Crash
  <2>1. TypeOK' /\ Targets'
    BY <1>5 DEF Crash, NoApp, TypeOK, Slot, Targets
  <2>2. LockHeld' /\ FifoWaits' /\ FifoOnce' /\ AtGate' /\ PastGate'
    BY <1>5 DEF Crash, Actors, LockHeld, FifoWaits, FifoOnce, AtGate, PastGate
  <2>3. Served' /\ BlueGreen' /\ Phases' /\ BrokenNeverAdvances'
    BY <1>5 DEF Crash, Served, BlueGreen, Phases, BrokenNeverAdvances
  <2>4. QED BY <2>1, <2>2, <2>3
<1>6. QED BY <1>1, <1>2, <1>3, <1>4, <1>5 DEF Boot

LEMMA StepIInv == IInv /\ [Next]_vars => IInv'
<1> SUFFICES ASSUME IInv, [Next]_vars PROVE IInv'
  OBVIOUS
<1>1. CASE UNCHANGED vars
  BY <1>1 DEF vars, disk, reboot, IInv, TypeOK, Targets, LockHeld, FifoWaits, FifoOnce,
     AtGate, PastGate, Served, BlueGreen, Phases, BrokenNeverAdvances, Known
<1>2. CASE Next
  BY <1>2, ChangeIInv, RebootIInv, RequestIInv, CancelIInv, BootIInv DEF Next
<1>3. QED BY <1>1, <1>2

-----------------------------------------------------------------------------
(* Theorems *)

(* Every state the kernel reaches satisfies the inductive invariant. *)
THEOREM Invariant == Spec => []IInv
  BY InitIInv, StepIInv, PTL DEF Spec

(* The state files and the kernel's memory stay well typed. *)
THEOREM TypeCorrect == Spec => []TypeOK
<1>1. IInv => TypeOK
  BY DEF IInv
<1>2. QED BY Invariant, <1>1, PTL

(* No interleaving of requests, no cancelled watchdog and no crash ever puts *)
(* a version that never answered a health check on main or in the slot a     *)
(* restart boots.                                                           *)
THEOREM NeverAdvancesBroken == Spec => []BrokenNeverAdvances
<1>1. IInv => BrokenNeverAdvances
  BY DEF IInv
<1>2. QED BY Invariant, <1>1, PTL

(* At every await the version a restart would boot is the one being served.  *)
THEOREM RestartIsServed == Spec => []RestartServesTheSame
<1>1. IInv => RestartServesTheSame
  BY DEF IInv, TypeOK, Served, BlueGreen, RestartServesTheSame, LoopFree, SyncPC
<1>2. QED BY Invariant, <1>1, PTL

(* Without a reconfigured watchdog, nothing runs in the slot a candidate     *)
(* starts in.                                                               *)
THEOREM InactiveSlot ==
    ASSUME "reconfigure" \notin Ops PROVE Spec => []InactiveSlotIsFree
<1>1. IInv => InactiveSlotIsFree
  BY DEF IInv, TypeOK, BlueGreen, InactiveSlotIsFree, LoopFree, Slot, OtherSlot
<1>2. QED BY Invariant, <1>1, PTL

(* A held version leaves the pending list when it is served or is being      *)
(* rejected, and the rejection is recorded unless the kernel is killed.      *)
THEOREM HeldIsDecided == Spec => HeldUntilDecided
<1> DEFINE Leaves(v) == v \in pending \ pending' =>
                            current.version = v \/ \E a \in Callers :
                                pc'[a] = "rejecting" /\ tgt'[a] = v
           Records == \A a \in Callers : pc[a] = "rejecting" =>
                          \/ pc'[a] = pc[a] /\ tgt'[a] = tgt[a]
                          \/ status'[tgt[a]] = "rejected"
                          \/ phase' = "down"
           A == \A v \in Versions :
                    /\ v \in pending \ pending' => current.version = v \/ Rejecting(v)'
                    /\ Rejecting(v) /\ ~Rejecting(v)' =>
                          status'[v] = "rejected" \/ phase' = "down"
<1>1. ASSUME IInv, Next, NEW v PROVE Leaves(v)
  <2>1. ASSUME NEW a \in Actors, Reject(a) PROVE Leaves(v)
    BY <1>1, <2>1 DEF Reject, IInv, TypeOK
  <2>2. ASSUME NEW a \in Actors, Finish(a) PROVE Leaves(v)
    BY <1>1, <2>2 DEF Finish, LoopFree, IInv, TypeOK, Served, CommitPC
  <2>3. ASSUME NEW a \in Actors, Change(a) PROVE Leaves(v)
    BY <2>3
    DEF Change, StageChange, AbandonChange, CommitChange, RecordCommit, FailGate,
    HoldForApproval, RecordHold, PromoteChange, Enter, Launch, disk, reboot
  <2>4. ASSUME NEW a \in Actors, Reboot(a) PROVE Leaves(v)
    BY <2>4, <2>2
    DEF Reboot, Acquire, LaunchRaises, Healthy, Verified, Flip, Unfit, DropCandidate,
    WriteSlots, RedrawLine, SyncSuite, StampPromoted, Freeze, Done, disk, reboot
  <2>5. ASSUME NEW a \in Actors,
               Rollback(a) \/ RollbackTo(a) \/ Approve(a) \/ RecordReject(a)
        PROVE  Leaves(v)
    BY <2>5 DEF Rollback, RollbackTo, Approve, RecordReject, Enter, Launch, disk, reboot
  <2>6. CASE ToggleCheck \/ MonitorUnhealthy \/ CancelMonitor
    BY <2>6
    DEF ToggleCheck, MonitorUnhealthy, CancelMonitor, Enter, Launch, Done, disk, reboot
  <2>7. CASE Boot \/ Crash
    BY <2>7 DEF Boot, BootStart, BootHealthy, BootFallback, BootFails, Crash, disk, reboot
  <2>8. QED BY <1>1, <2>1, <2>3, <2>4, <2>5, <2>6, <2>7 DEF Next
<1>2. ASSUME IInv, Next PROVE Records
  <2> SUFFICES ASSUME NEW c \in Callers, pc[c] = "rejecting"
               PROVE  \/ pc'[c] = pc[c] /\ tgt'[c] = tgt[c]
                      \/ status'[tgt[c]] = "rejected"
                      \/ phase' = "down"
    OBVIOUS
  <2> DEFINE Stays == pc'[c] = pc[c] /\ tgt'[c] = tgt[c]
  <2>0. /\ c \in Actors /\ c # Monitor /\ DOMAIN pc = Actors
        /\ pc = [a \in Actors |-> pc[a]]
        /\ tgt \in [Actors -> Versions \cup {NoVersion}]
        /\ status \in [Versions -> Status] /\ tgt[c] \in Versions
    BY <1>2 DEF Actors, IInv, TypeOK, Targets
  <2>1. ASSUME NEW a \in Actors, RecordReject(a)
        PROVE  Stays \/ status'[tgt[c]] = "rejected"
    BY <2>0, <2>1 DEF RecordReject, Done
  <2>2. ASSUME NEW a \in Actors, Change(a) PROVE Stays
    BY <2>0, <2>2
    DEF Change, StageChange, AbandonChange, CommitChange, RecordCommit, FailGate, MayCall,
    HoldForApproval, RecordHold, PromoteChange, Enter, Launch, Done, LoopFree, SyncPC
  <2>3. ASSUME NEW a \in Actors, Reboot(a) PROVE Stays
    BY <2>0, <2>3
    DEF Reboot, Acquire, LaunchRaises, Healthy, Verified, Flip, Unfit, DropCandidate, Finish,
    WriteSlots, RedrawLine, SyncSuite, StampPromoted, Freeze, Done, LoopFree, SyncPC
  <2>4. ~LoopFree
    BY <2>0 DEF LoopFree, SyncPC
  <2>5. ASSUME NEW a \in Actors, Rollback(a) \/ RollbackTo(a) \/ Approve(a) \/ Reject(a)
        PROVE  FALSE
    BY <2>4, <2>5 DEF Rollback, RollbackTo, Approve, Reject, MayCall
  <2>6. ~(ToggleCheck \/ MonitorUnhealthy \/ CancelMonitor)
    BY <2>4 DEF ToggleCheck, MonitorUnhealthy, CancelMonitor, MayCall
  <2>7. CASE Boot
    BY <1>2, <2>0, <2>7
    DEF Boot, BootStart, BootHealthy, BootFallback, BootFails, IInv, Phases
  <2>8. CASE Crash
    BY <2>8 DEF Crash
  <2>9. QED BY <1>2, <2>1, <2>2, <2>3, <2>5, <2>6, <2>7, <2>8 DEF Next
<1>3. IInv /\ [Next]_vars => [A]_vars
  <2> SUFFICES ASSUME IInv, Next, NEW v \in Versions
               PROVE  /\ v \in pending \ pending' => current.version = v \/ Rejecting(v)'
                      /\ Rejecting(v) /\ ~Rejecting(v)' =>
                            status'[v] = "rejected" \/ phase' = "down"
    OBVIOUS
  <2>1. Leaves(v) /\ Records
    BY <1>1, <1>2
  <2>2. QED BY <2>1 DEF Rejecting
<1>4. QED BY Invariant, <1>3, PTL DEF Spec, HeldUntilDecided

(* No promotion, rollback or freeze re-enables what an operator disabled.    *)
THEOREM OperatorSticks == Spec => OperatorDisableSticks
<1> DEFINE A == \A v \in Versions : suite[v] = "operator" =>
                    suite'[v] = "operator" \/ ToggleCheck
<1>1. IInv /\ [Next]_vars => [A]_vars
  <2> SUFFICES ASSUME IInv, Next PROVE A
    OBVIOUS
  <2>1. ASSUME NEW a \in Actors, SyncSuite(a) PROVE A
    BY <2>1 DEF SyncSuite, Synced
  <2>2. ASSUME NEW a \in Actors, Freeze(a) PROVE A
    BY <2>2 DEF Freeze, IInv, TypeOK
  <2>3. ASSUME NEW a \in Actors, Change(a) PROVE A
    BY <2>3
    DEF Change, StageChange, AbandonChange, CommitChange, RecordCommit, FailGate,
    HoldForApproval, RecordHold, PromoteChange, Enter, Launch, disk, reboot
  <2>4. ASSUME NEW a \in Actors, Reboot(a) PROVE A
    BY <2>4, <2>1, <2>2
    DEF Reboot, Acquire, LaunchRaises, Healthy, Verified, Flip, Unfit, DropCandidate,
    WriteSlots, RedrawLine, StampPromoted, Finish, Done, disk, reboot
  <2>5. ASSUME NEW a \in Actors,
               Rollback(a) \/ RollbackTo(a) \/ Approve(a) \/ Reject(a) \/ RecordReject(a)
        PROVE  A
    BY <2>5 DEF Rollback, RollbackTo, Approve, Reject, RecordReject, Enter, Launch, disk,
       reboot
  <2>6. CASE ToggleCheck \/ MonitorUnhealthy \/ CancelMonitor
    BY <2>6
    DEF MonitorUnhealthy, CancelMonitor, Enter, Launch, Done, disk, reboot
  <2>7. CASE Boot \/ Crash
    BY <2>7 DEF Boot, BootStart, BootHealthy, BootFallback, BootFails, Crash, disk, reboot
  <2>8. QED BY <2>3, <2>4, <2>5, <2>6, <2>7 DEF Next
<1>2. QED BY Invariant, <1>1, PTL DEF Spec, OperatorDisableSticks

-----------------------------------------------------------------------------
(* The line, the registry and the suite. *)

(* The versions whose line the registry and the regression suite follow: in  *)
(* the stretch that promotes a version, the one that is departed, until they *)
(* are written.                                                             *)
RegistryTip == IF \E a \in Actors : pc[a] \in {"slots", "redraw"} THEN oldMain ELSE main
SuiteTip == IF \E a \in Actors : pc[a] \in {"slots", "redraw", "suite"} THEN oldMain ELSE main

(* Every version the kernel has a reason to go to is a commit, and a commit  *)
(* is an ancestor of itself.                                                *)
Lineage ==
    /\ \A v \in Known : v \in anc[v]
    /\ phase # "down" \/ main # NoVersion => main \in Known
    /\ {slots.active, slots.prev, slots.lkg, cand.version} \subseteq Known \cup {NoVersion}
    /\ \A i \in DOMAIN slots.history : slots.history[i] \in Known
    /\ pending \subseteq Known
    /\ \A a \in Actors : pc[a] # "idle" => tgt[a] \in Known

(* Past the gates main is the version the request is about. *)
MainIsTarget ==
    \A a \in Actors : pc[a] \in CommitPC => main = tgt[a] /\ oldMain \in Known

(* A boot repairs what a kill left: nothing off the line is called promoted. *)
OnLine ==
    phase # "down" => \A v \in Versions :
        status[v] \in {"promoted", "restored"} => v \in anc[RegistryTip]

(* Until a kernel is killed nothing on the line is called abandoned, but for *)
(* the version that is about to be stamped.                                 *)
KeptLine ==
    crashes = 0 /\ main # NoVersion =>
        \A v \in anc[RegistryTip] :
            \/ status[v] \notin {"abandoned", "rolled_back"}
            \/ \E a \in Actors : pc[a] \in {"suite", "stamp"} /\ v = tgt[a]

(* Until a kernel is killed the checks follow the line. *)
SuiteOnLine ==
    /\ main = NoVersion => \A v \in Versions : suite[v] = "none"
    /\ crashes = 0 /\ main # NoVersion => \A v \in Versions :
          /\ suite[v] = "lifecycle" => v \notin anc[SuiteTip]
          /\ suite[v] = "active" /\ "toggle" \notin Ops => v \in anc[SuiteTip]

(* Until a kernel is killed main is what is served, and only the seed boots. *)
ServedMain ==
    crashes = 0 =>
        /\ phase = "up" => main = current.version
        /\ phase # "up" => slots.lkg = NoVersion
        /\ phase # "down" => phase \in {"booting", "up"}
        /\ phase = "booting" => cand.version = main

LineInv == Lineage /\ MainIsTarget /\ OnLine /\ KeptLine /\ SuiteOnLine /\ ServedMain

LEMMA InitLine == Init => LineInv
  BY DEF Init, LineInv, Lineage, MainIsTarget, OnLine, KeptLine, SuiteOnLine, ServedMain,
         CommitPC, NoApp, Actors, Known

(* A request that asks for the lock, about a commit. *)
LEMMA EnterLine ==
    ASSUME IInv, LineInv, NEW a \in Actors, NEW kind, NEW v \in Known,
           pc[a] \notin HoldPC, LoopFree, Enter(a, kind, v)
    PROVE  LineInv'
<1> USE DEF IInv, LineInv, TypeOK, LoopFree, SyncPC, Phases, LockHeld, Targets, HoldPC, GatePC,
        CommitPC, disk, reboot
<1>1. Lineage'
  BY DEF Enter, Launch, Lineage, Known
<1>2. MainIsTarget' /\ ServedMain'
  BY DEF Enter, Launch, MainIsTarget, ServedMain, Known
<1>3. RegistryTip' = RegistryTip /\ SuiteTip' = SuiteTip
  BY DEF Enter, RegistryTip, SuiteTip
<1>4. OnLine' /\ KeptLine' /\ SuiteOnLine'
  BY <1>3 DEF Enter, OnLine, KeptLine, SuiteOnLine
<1>5. QED BY <1>1, <1>2, <1>3, <1>4

(* A change, from its request to the lock. *)
LEMMA ChangeLine ==
    ASSUME IInv, LineInv, NEW a \in Actors, Change(a)
    PROVE  LineInv'
<1> USE DEF IInv, LineInv, TypeOK, LoopFree, SyncPC, Phases, LockHeld, Targets, HoldPC, GatePC,
        CommitPC, disk, reboot
<1>1. CASE StageChange(a)
  <2>1. Lineage'
    BY <1>1
    DEF StageChange, MayCall, Lineage, Known
  <2>2. MainIsTarget' /\ ServedMain'
    BY <1>1
    DEF StageChange, MayCall, MainIsTarget, ServedMain, Lineage, Known
  <2>3. RegistryTip' = RegistryTip /\ SuiteTip' = SuiteTip
    BY <1>1
    DEF StageChange, MayCall, RegistryTip, SuiteTip
  <2>4. OnLine'
    BY <1>1, <2>3
    DEF StageChange, MayCall, OnLine, Lineage, MainIsTarget, Known
  <2>5. KeptLine'
    BY <1>1, <2>3
    DEF StageChange, MayCall, KeptLine, Lineage, MainIsTarget, Known
  <2>6. SuiteOnLine'
    BY <1>1, <2>3
    DEF StageChange, MayCall, SuiteOnLine, Lineage, MainIsTarget, Known
  <2>7. QED BY <2>1, <2>2, <2>4, <2>5, <2>6
<1>2. CASE AbandonChange(a)
  <2>1. Lineage'
    BY <1>2
    DEF AbandonChange, Done, Lineage, Known
  <2>2. MainIsTarget' /\ ServedMain'
    BY <1>2
    DEF AbandonChange, Done, MainIsTarget, ServedMain, Lineage, Known
  <2>3. RegistryTip' = RegistryTip /\ SuiteTip' = SuiteTip
    BY <1>2
    DEF AbandonChange, Done, RegistryTip, SuiteTip
  <2>4. OnLine'
    BY <1>2, <2>3
    DEF AbandonChange, Done, OnLine, Lineage, MainIsTarget, Known
  <2>5. KeptLine'
    BY <1>2, <2>3
    DEF AbandonChange, Done, KeptLine, Lineage, MainIsTarget, Known
  <2>6. SuiteOnLine'
    BY <1>2, <2>3
    DEF AbandonChange, Done, SuiteOnLine, Lineage, MainIsTarget, Known
  <2>7. QED BY <2>1, <2>2, <2>4, <2>5, <2>6
<1>3. CASE CommitChange(a)
  <2>1. main \in Known /\ RegistryTip = main /\ SuiteTip = main
    BY <1>3
    DEF CommitChange, RegistryTip, SuiteTip, Lineage
  <2>2. anc'[main] = anc[main] /\ main' = main
    BY <1>3, <2>1
    DEF CommitChange, Known
  <2>3. Lineage'
    BY <1>3, <2>1, <2>2
    DEF CommitChange, Lineage, Known
  <2>4. MainIsTarget' /\ ServedMain'
    BY <1>3, <2>1, <2>2
    DEF CommitChange, MainIsTarget, ServedMain, Lineage, Known
  <2>5. RegistryTip' = main /\ SuiteTip' = main
    BY <1>3, <2>1, <2>2
    DEF CommitChange, RegistryTip, SuiteTip
  <2>6. OnLine'
    BY <1>3, <2>1, <2>2, <2>5
    DEF CommitChange, OnLine, Lineage, MainIsTarget, Known
  <2>7. KeptLine'
    BY <1>3, <2>1, <2>2, <2>5
    DEF CommitChange, KeptLine, Lineage, MainIsTarget, Known
  <2>8. SuiteOnLine'
    BY <1>3, <2>1, <2>2, <2>5
    DEF CommitChange, SuiteOnLine, Lineage, MainIsTarget, Known
  <2>9. QED BY <2>3, <2>4, <2>6, <2>7, <2>8
<1>4. CASE RecordCommit(a)
  <2>1. Lineage'
    BY <1>4
    DEF RecordCommit, Lineage, Known
  <2>2. MainIsTarget' /\ ServedMain'
    BY <1>4
    DEF RecordCommit, MainIsTarget, ServedMain, Lineage, Known
  <2>3. RegistryTip' = RegistryTip /\ SuiteTip' = SuiteTip
    BY <1>4
    DEF RecordCommit, RegistryTip, SuiteTip
  <2>4. OnLine'
    BY <1>4, <2>3
    DEF RecordCommit, OnLine, Lineage, MainIsTarget, Known
  <2>5. KeptLine'
    BY <1>4, <2>3
    DEF RecordCommit, KeptLine, Lineage, MainIsTarget, Known
  <2>6. SuiteOnLine'
    BY <1>4, <2>3
    DEF RecordCommit, SuiteOnLine, Lineage, MainIsTarget, Known
  <2>7. QED BY <2>1, <2>2, <2>4, <2>5, <2>6
<1>5. CASE FailGate(a)
  <2>1. Lineage'
    BY <1>5
    DEF FailGate, Done, Lineage, Known
  <2>2. MainIsTarget' /\ ServedMain'
    BY <1>5
    DEF FailGate, Done, MainIsTarget, ServedMain, Lineage, Known
  <2>3. RegistryTip' = RegistryTip /\ SuiteTip' = SuiteTip
    BY <1>5
    DEF FailGate, Done, RegistryTip, SuiteTip
  <2>4. OnLine'
    BY <1>5, <2>3
    DEF FailGate, Done, OnLine, Lineage, MainIsTarget, Known
  <2>5. KeptLine'
    BY <1>5, <2>3
    DEF FailGate, Done, KeptLine, Lineage, MainIsTarget, Known
  <2>6. SuiteOnLine'
    BY <1>5, <2>3
    DEF FailGate, Done, SuiteOnLine, Lineage, MainIsTarget, Known
  <2>7. QED BY <2>1, <2>2, <2>4, <2>5, <2>6
<1>6. CASE HoldForApproval(a)
  <2>1. Lineage'
    BY <1>6
    DEF HoldForApproval, Lineage, Known
  <2>2. MainIsTarget' /\ ServedMain'
    BY <1>6
    DEF HoldForApproval, MainIsTarget, ServedMain, Lineage, Known
  <2>3. RegistryTip' = RegistryTip /\ SuiteTip' = SuiteTip
    BY <1>6
    DEF HoldForApproval, RegistryTip, SuiteTip
  <2>4. OnLine'
    BY <1>6, <2>3
    DEF HoldForApproval, OnLine, Lineage, MainIsTarget, Known
  <2>5. KeptLine'
    BY <1>6, <2>3
    DEF HoldForApproval, KeptLine, Lineage, MainIsTarget, Known
  <2>6. SuiteOnLine'
    BY <1>6, <2>3
    DEF HoldForApproval, SuiteOnLine, Lineage, MainIsTarget, Known
  <2>7. QED BY <2>1, <2>2, <2>4, <2>5, <2>6
<1>7. CASE PromoteChange(a)
  BY <1>7, EnterLine DEF PromoteChange, Lineage
<1>8. CASE RecordHold(a)
  <2>1. Lineage'
    BY <1>8
    DEF RecordHold, Done, Lineage, Known
  <2>2. MainIsTarget' /\ ServedMain'
    BY <1>8
    DEF RecordHold, Done, MainIsTarget, ServedMain, Lineage, Known
  <2>3. RegistryTip' = RegistryTip /\ SuiteTip' = SuiteTip
    BY <1>8
    DEF RecordHold, Done, RegistryTip, SuiteTip
  <2>4. OnLine'
    BY <1>8, <2>3
    DEF RecordHold, Done, OnLine, Lineage, MainIsTarget, Known
  <2>5. KeptLine'
    BY <1>8, <2>3
    DEF RecordHold, Done, KeptLine, Lineage, MainIsTarget, Known
  <2>6. SuiteOnLine'
    BY <1>8, <2>3
    DEF RecordHold, Done, SuiteOnLine, Lineage, MainIsTarget, Known
  <2>7. QED BY <2>1, <2>2, <2>4, <2>5, <2>6
<1>9. QED BY <1>1, <1>2, <1>3, <1>4, <1>5, <1>6, <1>7, <1>8 DEF Change

(* The undo stack only ever holds commits. *)
LEMMA HistoryKnown ==
    ASSUME NEW h \in Seq(Versions), NEW o, NEW old \in Known \cup {NoVersion}, NEW new,
           NoVersion \notin Known, \A i \in DOMAIN h : h[i] \in Known
    PROVE  /\ \A i \in DOMAIN NextHistory(h, o, old, new) :
                 NextHistory(h, o, old, new)[i] \in Known
           /\ Tip(NextHistory(h, o, old, new)) \in Known \cup {NoVersion}
<1>1. h \in Seq(Known)
  OBVIOUS
<1>2. Drop(h) \in Seq(Known)
  BY <1>1 DEF Drop
<1>3. Departed(h, old, new) \in Seq(Known)
  BY <1>1 DEF Departed
<1>4. \A g \in Seq(Known) : Trim(g) \in Seq(Known)
  BY BoundsAssumption DEF Trim
<1>5. NextHistory(h, o, old, new) \in Seq(Known)
  BY <1>2, <1>3, <1>4 DEF NextHistory
<1>6. QED BY <1>5 DEF Tip

(* From the lock to the answer. *)
LEMMA RebootLine ==
    ASSUME IInv, LineInv, NEW a \in Actors, Reboot(a)
    PROVE  LineInv'
<1> USE DEF IInv, LineInv, TypeOK, LoopFree, SyncPC, Phases, LockHeld, Targets, HoldPC, GatePC,
        CommitPC, disk, reboot
<1>1. CASE Acquire(a)
  <2>1. pc[a] = "wait" /\ tgt[a] \in Known
    BY <1>1
    DEF Acquire, FifoWaits, Lineage, Known
  <2>2. Lineage'
    BY <1>1, <2>1
    DEF Acquire, Launch, Lineage, Known
  <2>3. MainIsTarget' /\ ServedMain'
    BY <1>1, <2>1
    DEF Acquire, Launch, MainIsTarget, ServedMain, Lineage, Known
  <2>4. RegistryTip' = RegistryTip /\ SuiteTip' = SuiteTip
    BY <1>1, <2>1
    DEF Acquire, Launch, RegistryTip, SuiteTip
  <2>5. OnLine'
    BY <1>1, <2>1, <2>4
    DEF Acquire, Launch, OnLine, Lineage, MainIsTarget, Known
  <2>6. KeptLine'
    BY <1>1, <2>1, <2>4
    DEF Acquire, Launch, KeptLine, Lineage, MainIsTarget, Known
  <2>7. SuiteOnLine'
    BY <1>1, <2>1, <2>4
    DEF Acquire, Launch, SuiteOnLine, Lineage, MainIsTarget, Known
  <2>8. QED BY <2>2, <2>3, <2>5, <2>6, <2>7
<1>2. CASE LaunchRaises(a)
  <2>1. Lineage'
    BY <1>2
    DEF LaunchRaises, Release, Done, NoApp, Lineage, Known
  <2>2. MainIsTarget' /\ ServedMain'
    BY <1>2
    DEF LaunchRaises, Release, Done, NoApp, MainIsTarget, ServedMain, Lineage, Known
  <2>3. RegistryTip' = RegistryTip /\ SuiteTip' = SuiteTip
    BY <1>2
    DEF LaunchRaises, Release, Done, NoApp, RegistryTip, SuiteTip
  <2>4. OnLine'
    BY <1>2, <2>3
    DEF LaunchRaises, Release, Done, NoApp, OnLine, Lineage, MainIsTarget, Known
  <2>5. KeptLine'
    BY <1>2, <2>3
    DEF LaunchRaises, Release, Done, NoApp, KeptLine, Lineage, MainIsTarget, Known
  <2>6. SuiteOnLine'
    BY <1>2, <2>3
    DEF LaunchRaises, Release, Done, NoApp, SuiteOnLine, Lineage, MainIsTarget,
        Known
  <2>7. QED BY <2>1, <2>2, <2>4, <2>5, <2>6
<1>3. CASE Healthy(a)
  <2>1. Lineage'
    BY <1>3
    DEF Healthy, Flip, NoApp, AtGate, Lineage, Known
  <2>2. MainIsTarget' /\ ServedMain'
    BY <1>3
    DEF Healthy, Flip, NoApp, AtGate, MainIsTarget, ServedMain, Lineage, Known
  <2>3. RegistryTip' = main /\ SuiteTip' = main /\ RegistryTip = main /\ SuiteTip = main
    BY <1>3
    DEF Healthy, Flip, NoApp, AtGate, RegistryTip, SuiteTip
  <2>4. OnLine'
    BY <1>3, <2>3
    DEF Healthy, Flip, NoApp, AtGate, OnLine, Lineage, MainIsTarget, Known
  <2>5. KeptLine'
    BY <1>3, <2>3
    DEF Healthy, Flip, NoApp, AtGate, KeptLine, Lineage, MainIsTarget, Known
  <2>6. SuiteOnLine'
    BY <1>3, <2>3
    DEF Healthy, Flip, NoApp, AtGate, SuiteOnLine, Lineage, MainIsTarget, Known
  <2>7. QED BY <2>1, <2>2, <2>4, <2>5, <2>6
<1>4. CASE Verified(a)
  <2>1. Lineage'
    BY <1>4
    DEF Verified, Flip, NoApp, AtGate, Lineage, Known
  <2>2. MainIsTarget' /\ ServedMain'
    BY <1>4
    DEF Verified, Flip, NoApp, AtGate, MainIsTarget, ServedMain, Lineage, Known
  <2>3. RegistryTip' = main /\ SuiteTip' = main /\ RegistryTip = main /\ SuiteTip = main
    BY <1>4
    DEF Verified, Flip, NoApp, AtGate, RegistryTip, SuiteTip
  <2>4. OnLine'
    BY <1>4, <2>3
    DEF Verified, Flip, NoApp, AtGate, OnLine, Lineage, MainIsTarget, Known
  <2>5. KeptLine'
    BY <1>4, <2>3
    DEF Verified, Flip, NoApp, AtGate, KeptLine, Lineage, MainIsTarget, Known
  <2>6. SuiteOnLine'
    BY <1>4, <2>3
    DEF Verified, Flip, NoApp, AtGate, SuiteOnLine, Lineage, MainIsTarget, Known
  <2>7. QED BY <2>1, <2>2, <2>4, <2>5, <2>6
<1>5. CASE Unfit(a)
  <2>1. Lineage'
    <3>1. /\ UNCHANGED <<main, anc, slots, pending, phase, tgt>> /\ cand' = cand
          /\ \A b \in Actors : pc'[b] # "idle" => pc[b] # "idle"
      BY <1>5 DEF Unfit
    <3>2. Known' = Known
      BY <3>1 DEF Known
    <3> QED BY <3>1, <3>2 DEF Lineage
  <2>2. MainIsTarget' /\ ServedMain'
    BY <1>5
    DEF Unfit, MainIsTarget, ServedMain, Lineage, Known
  <2>3. RegistryTip' = RegistryTip /\ SuiteTip' = SuiteTip
    BY <1>5
    DEF Unfit, RegistryTip, SuiteTip
  <2>4. OnLine'
    BY <1>5, <2>3
    DEF Unfit, OnLine, Lineage, MainIsTarget, Known
  <2>5. KeptLine'
    BY <1>5, <2>3
    DEF Unfit, KeptLine, Lineage, MainIsTarget, Known
  <2>6. SuiteOnLine'
    BY <1>5, <2>3
    DEF Unfit, SuiteOnLine, Lineage, MainIsTarget, Known
  <2>7. QED BY <2>1, <2>2, <2>4, <2>5, <2>6
<1>6. CASE DropCandidate(a)
  <2>1. Lineage'
    BY <1>6
    DEF DropCandidate, Release, Done, NoApp, Lineage, Known
  <2>2. MainIsTarget' /\ ServedMain'
    BY <1>6
    DEF DropCandidate, Release, Done, NoApp, MainIsTarget, ServedMain, Lineage,
        Known
  <2>3. RegistryTip' = RegistryTip /\ SuiteTip' = SuiteTip
    BY <1>6
    DEF DropCandidate, Release, Done, NoApp, RegistryTip, SuiteTip
  <2>4. OnLine'
    BY <1>6, <2>3
    DEF DropCandidate, Release, Done, NoApp, OnLine, Lineage, MainIsTarget, Known
  <2>5. KeptLine'
    BY <1>6, <2>3
    DEF DropCandidate, Release, Done, NoApp, KeptLine, Lineage, MainIsTarget, Known
  <2>6. SuiteOnLine'
    BY <1>6, <2>3
    DEF DropCandidate, Release, Done, NoApp, SuiteOnLine, Lineage, MainIsTarget,
        Known
  <2>7. QED BY <2>1, <2>2, <2>4, <2>5, <2>6
<1>7. CASE WriteSlots(a)
  <2>1. \A b \in Actors : pc[b] \in HoldPC => b = a
    BY <1>7
    DEF WriteSlots
  <2>2. oldMain \in Known /\ main = tgt[a] /\ main \in Known
    BY <1>7, <2>1
    DEF WriteSlots, MainIsTarget, Lineage
  <2>3. RegistryTip = oldMain /\ SuiteTip = oldMain
    BY <1>7, <2>1, <2>2
    DEF WriteSlots, RegistryTip, SuiteTip
  <2>4. LET h == NextHistory(slots.history, op[a], slots.active, tgt[a])
        IN  Tip(h) \in Known \cup {NoVersion} /\ \A i \in DOMAIN h : h[i] \in Known
    <3>1. slots.history \in Seq(Versions) /\ slots.active \in Known \cup {NoVersion}
      BY DEF Lineage
    <3>2. NoVersion \notin Known /\ \A i \in DOMAIN slots.history : slots.history[i] \in Known
      BY DEF Lineage, Known
    <3>3. QED BY <3>1, <3>2, HistoryKnown
  <2>5. Lineage'
    BY <1>7, <2>1, <2>2, <2>3, <2>4
    DEF WriteSlots, Lineage, Known
  <2>6. MainIsTarget' /\ ServedMain'
    BY <1>7, <2>1, <2>2, <2>3, <2>4
    DEF WriteSlots, MainIsTarget, ServedMain, Lineage, Known
  <2>7. RegistryTip' = oldMain /\ SuiteTip' = oldMain
    BY <1>7, <2>1, <2>2, <2>3, <2>4
    DEF WriteSlots, RegistryTip, SuiteTip
  <2>8. OnLine'
    BY <1>7, <2>1, <2>2, <2>3, <2>4, <2>7
    DEF WriteSlots, OnLine, Lineage, MainIsTarget, Known
  <2>9. KeptLine'
    BY <1>7, <2>1, <2>2, <2>3, <2>4, <2>7
    DEF WriteSlots, KeptLine, Lineage, MainIsTarget, Known
  <2>10. SuiteOnLine'
    BY <1>7, <2>1, <2>2, <2>3, <2>4, <2>7
    DEF WriteSlots, SuiteOnLine, Lineage, MainIsTarget, Known
  <2>11. QED BY <2>5, <2>6, <2>8, <2>9, <2>10
<1>8. CASE RedrawLine(a)
  <2>1. \A b \in Actors : pc[b] \in HoldPC => b = a
    BY <1>8
    DEF RedrawLine
  <2>2. oldMain \in Known /\ main = tgt[a] /\ main \in Known /\ main # NoVersion
    BY <1>8, <2>1
    DEF RedrawLine, MainIsTarget, Lineage, Known
  <2>3. RegistryTip = oldMain /\ SuiteTip = oldMain
    BY <1>8, <2>1, <2>2
    DEF RedrawLine, RegistryTip, SuiteTip
  <2>4. Lineage'
    BY <1>8, <2>1, <2>2, <2>3
    DEF RedrawLine, Redrawn, OffLine, BackOn, Lineage, Known
  <2>5. MainIsTarget' /\ ServedMain'
    BY <1>8, <2>1, <2>2, <2>3
    DEF RedrawLine, Redrawn, OffLine, BackOn, MainIsTarget, ServedMain, Lineage,
        Known
  <2>6. RegistryTip' = main /\ SuiteTip' = oldMain
    BY <1>8, <2>1, <2>2, <2>3
    DEF RedrawLine, Redrawn, OffLine, BackOn, RegistryTip, SuiteTip
  <2>7. OnLine'
    BY <1>8, <2>1, <2>2, <2>3, <2>6
    DEF RedrawLine, Redrawn, OffLine, BackOn, OnLine, Lineage, MainIsTarget, Known
  <2>8. KeptLine'
    BY <1>8, <2>1, <2>2, <2>3, <2>6
    DEF RedrawLine, Redrawn, OffLine, BackOn, KeptLine, Lineage, MainIsTarget, Known
  <2>9. SuiteOnLine'
    BY <1>8, <2>1, <2>2, <2>3, <2>6
    DEF RedrawLine, Redrawn, OffLine, BackOn, SuiteOnLine, Lineage, MainIsTarget,
        Known
  <2>10. QED BY <2>4, <2>5, <2>7, <2>8, <2>9
<1>9. CASE SyncSuite(a)
  <2>1. \A b \in Actors : pc[b] \in HoldPC => b = a
    BY <1>9
    DEF SyncSuite
  <2>2. oldMain \in Known /\ main = tgt[a] /\ main \in Known /\ main # NoVersion
    BY <1>9, <2>1
    DEF SyncSuite, MainIsTarget, Lineage, Known
  <2>3. RegistryTip = main /\ SuiteTip = oldMain
    BY <1>9, <2>1, <2>2
    DEF SyncSuite, RegistryTip, SuiteTip
  <2>4. Lineage'
    BY <1>9, <2>1, <2>2, <2>3
    DEF SyncSuite, Synced, OffLine, BackOn, Lineage, Known
  <2>5. MainIsTarget' /\ ServedMain'
    BY <1>9, <2>1, <2>2, <2>3
    DEF SyncSuite, Synced, OffLine, BackOn, MainIsTarget, ServedMain, Lineage, Known
  <2>6. RegistryTip' = main /\ SuiteTip' = main
    BY <1>9, <2>1, <2>2, <2>3
    DEF SyncSuite, Synced, OffLine, BackOn, RegistryTip, SuiteTip
  <2>7. OnLine'
    BY <1>9, <2>1, <2>2, <2>3, <2>6
    DEF SyncSuite, Synced, OffLine, BackOn, OnLine, Lineage, MainIsTarget, Known
  <2>8. KeptLine'
    BY <1>9, <2>1, <2>2, <2>3, <2>6
    DEF SyncSuite, Synced, OffLine, BackOn, KeptLine, Lineage, MainIsTarget, Known
  <2>9. SuiteOnLine'
    BY <1>9, <2>1, <2>2, <2>3, <2>6
    DEF SyncSuite, Synced, OffLine, BackOn, SuiteOnLine, Lineage, MainIsTarget,
        Known
  <2>10. QED BY <2>4, <2>5, <2>7, <2>8, <2>9
<1>10. CASE StampPromoted(a)
  <2>1. \A b \in Actors : pc[b] \in HoldPC => b = a
    BY <1>10
    DEF StampPromoted
  <2>2. main = tgt[a] /\ main \in anc[main]
    BY <1>10, <2>1
    DEF StampPromoted, MainIsTarget, Lineage, Known
  <2>3. RegistryTip = main
    BY <1>10, <2>1, <2>2
    DEF StampPromoted, RegistryTip
  <2>4. Lineage'
    BY <1>10, <2>1, <2>2, <2>3
    DEF StampPromoted, Lineage, Known
  <2>5. MainIsTarget' /\ ServedMain'
    BY <1>10, <2>1, <2>2, <2>3
    DEF StampPromoted, MainIsTarget, ServedMain, Lineage, Known
  <2>6. RegistryTip' = RegistryTip /\ SuiteTip' = SuiteTip
    BY <1>10, <2>1, <2>2, <2>3
    DEF StampPromoted, RegistryTip, SuiteTip
  <2>7. OnLine'
    BY <1>10, <2>1, <2>2, <2>3, <2>6
    DEF StampPromoted, OnLine, Lineage, MainIsTarget, Known
  <2>8. KeptLine'
    BY <1>10, <2>1, <2>2, <2>3, <2>6
    DEF StampPromoted, KeptLine, Lineage, MainIsTarget, Known
  <2>9. SuiteOnLine'
    BY <1>10, <2>1, <2>2, <2>3, <2>6
    DEF StampPromoted, SuiteOnLine, Lineage, MainIsTarget, Known
  <2>10. QED BY <2>4, <2>5, <2>7, <2>8, <2>9
<1>11. CASE Freeze(a)
  <2>1. \A b \in Actors : pc[b] \in HoldPC => b = a
    BY <1>11
    DEF Freeze
  <2>2. main = tgt[a] /\ main \in anc[main]
    BY <1>11, <2>1
    DEF Freeze, MainIsTarget, Lineage, Known
  <2>3. SuiteTip = main
    BY <1>11, <2>1, <2>2
    DEF Freeze, SuiteTip
  <2>4. Lineage'
    BY <1>11, <2>1, <2>2, <2>3
    DEF Freeze, Lineage, Known
  <2>5. MainIsTarget' /\ ServedMain'
    BY <1>11, <2>1, <2>2, <2>3
    DEF Freeze, MainIsTarget, ServedMain, Lineage, Known
  <2>6. RegistryTip' = RegistryTip /\ SuiteTip' = SuiteTip
    BY <1>11, <2>1, <2>2, <2>3
    DEF Freeze, RegistryTip, SuiteTip
  <2>7. OnLine'
    BY <1>11, <2>1, <2>2, <2>3, <2>6
    DEF Freeze, OnLine, Lineage, MainIsTarget, Known
  <2>8. KeptLine'
    BY <1>11, <2>1, <2>2, <2>3, <2>6
    DEF Freeze, KeptLine, Lineage, MainIsTarget, Known
  <2>9. SuiteOnLine'
    BY <1>11, <2>1, <2>2, <2>3, <2>6
    DEF Freeze, SuiteOnLine, Lineage, MainIsTarget, Known
  <2>10. QED BY <2>4, <2>5, <2>7, <2>8, <2>9
<1>12. CASE Finish(a)
  <2>1. Lineage'
    BY <1>12
    DEF Finish, Release, Done, NoApp, Lineage, Known
  <2>2. MainIsTarget' /\ ServedMain'
    BY <1>12
    DEF Finish, Release, Done, NoApp, MainIsTarget, ServedMain, Lineage, Known
  <2>3. RegistryTip' = RegistryTip /\ SuiteTip' = SuiteTip
    BY <1>12
    DEF Finish, Release, Done, NoApp, RegistryTip, SuiteTip
  <2>4. OnLine'
    BY <1>12, <2>3
    DEF Finish, Release, Done, NoApp, OnLine, Lineage, MainIsTarget, Known
  <2>5. KeptLine'
    BY <1>12, <2>3
    DEF Finish, Release, Done, NoApp, KeptLine, Lineage, MainIsTarget, Known
  <2>6. SuiteOnLine'
    BY <1>12, <2>3
    DEF Finish, Release, Done, NoApp, SuiteOnLine, Lineage, MainIsTarget, Known
  <2>7. QED BY <2>1, <2>2, <2>4, <2>5, <2>6
<1>13. QED BY <1>1, <1>2, <1>3, <1>4, <1>5, <1>6, <1>7, <1>8, <1>9, <1>10, <1>11, <1>12 DEF Reboot

(* A nonempty set of numbers has a least element, a nonempty set of positions *)
(* a last one.                                                              *)
LEMMA LeastNat ==
    ASSUME NEW T \in SUBSET Nat, T # {} PROVE \E m \in T : \A k \in T : m <= k
<1> DEFINE R == OpToRel(<, Nat)
<1>1. IsWellFoundedOn(R, Nat)
  BY NatLessThanWellFounded
<1>2. \A x, y \in Nat : x < y => <<x, y>> \in R
  BY DEF OpToRel
<1> HIDE DEF R
<1>3. PICK x \in T : \A y \in T : ~ (<<y, x>> \in R)
  BY <1>1, WFMin
<1>4. \A y \in T : ~ (y < x)
  BY <1>2, <1>3
<1>5. \A y \in T : x <= y
  BY <1>4
<1>6. QED BY <1>5

LEMMA LastPosition ==
    ASSUME NEW n \in Nat, NEW S \in SUBSET (1 .. n), S # {}
    PROVE  \E i \in S : \A j \in S : j <= i
<1> DEFINE T == {n - i : i \in S}
<1>1. \A i \in S : i \in Nat /\ n - i \in Nat
  OBVIOUS
<1>2. T \in SUBSET Nat /\ T # {}
  BY <1>1
<1>3. PICK m \in T : \A k \in T : m <= k
  BY <1>2, LeastNat
<1>4. PICK i \in S : m = n - i
  OBVIOUS
<1>5. \A j \in S : j <= i
  BY <1>1, <1>3, <1>4
<1>6. QED BY <1>5

(* What an operator and the watchdog ask for. *)
LEMMA RequestLine ==
    ASSUME IInv, LineInv, 
           \/ \E a \in Actors : Rollback(a) \/ RollbackTo(a) \/ Approve(a)
                              \/ Reject(a) \/ RecordReject(a)
           \/ ToggleCheck \/ MonitorUnhealthy \/ CancelMonitor
    PROVE  LineInv'
<1> USE DEF IInv, LineInv, TypeOK, LoopFree, SyncPC, Phases, LockHeld, Targets, HoldPC, GatePC,
        CommitPC, disk, reboot
<1>1. ASSUME NEW a \in Actors, Rollback(a) PROVE LineInv'
  <2>1. PICK v \in Known : Enter(a, "rollback", v)
    BY <1>1 DEF Rollback, Lineage, Tip
  <2>2. QED BY <1>1, <2>1, EnterLine DEF Rollback, MayCall
<1>2. ASSUME NEW a \in Actors, RollbackTo(a) PROVE LineInv'
  BY <1>2, EnterLine DEF RollbackTo, MayCall
<1>3. ASSUME NEW a \in Actors, Approve(a) PROVE LineInv'
  BY <1>3, EnterLine DEF Approve, MayCall, Lineage
<1>4. CASE MonitorUnhealthy
  <2>1. PICK v \in Versions : /\ v = MonitorTarget(slots, current.version)
                               /\ Enter(Monitor, "monitor", v)
    BY <1>4 DEF MonitorUnhealthy
  <2>2. v \in Known
    <3>1. CASE \E i \in DOMAIN slots.history : slots.history[i] # current.version
      <4> DEFINE others == {i \in DOMAIN slots.history : slots.history[i] # current.version}
      <4>1. PICK n \in Nat : DOMAIN slots.history = 1 .. n
        OBVIOUS
      <4>2. PICK i \in others : \A j \in others : j <= i
        BY <3>1, <4>1, LastPosition
      <4>3. v = slots.history[CHOOSE j \in others : \A l \in others : l <= j]
        BY <2>1, <3>1 DEF MonitorTarget
      <4>4. QED BY <4>2, <4>3 DEF Lineage
    <3>2. CASE ~ \E i \in DOMAIN slots.history : slots.history[i] # current.version
      BY <2>1, <3>2 DEF MonitorTarget, Lineage
    <3>3. QED BY <3>1, <3>2
  <2>3. QED BY <1>4, <2>1, <2>2, EnterLine DEF MonitorUnhealthy, MayCall, Actors
<1>5. ASSUME NEW a \in Actors, Reject(a) PROVE LineInv'
  <2>1. Lineage'
    BY <1>5
    DEF Reject, MayCall, Lineage, Known
  <2>2. MainIsTarget' /\ ServedMain'
    BY <1>5
    DEF Reject, MayCall, MainIsTarget, ServedMain, Lineage, Known
  <2>3. RegistryTip' = RegistryTip /\ SuiteTip' = SuiteTip
    BY <1>5
    DEF Reject, MayCall, RegistryTip, SuiteTip
  <2>4. OnLine'
    BY <1>5, <2>3
    DEF Reject, MayCall, OnLine, Lineage, MainIsTarget, Known
  <2>5. KeptLine'
    BY <1>5, <2>3
    DEF Reject, MayCall, KeptLine, Lineage, MainIsTarget, Known
  <2>6. SuiteOnLine'
    BY <1>5, <2>3
    DEF Reject, MayCall, SuiteOnLine, Lineage, MainIsTarget, Known
  <2>7. QED BY <2>1, <2>2, <2>4, <2>5, <2>6
<1>9. ASSUME NEW a \in Actors, RecordReject(a) PROVE LineInv'
  <2>1. Lineage'
    BY <1>9
    DEF RecordReject, Done, Lineage, Known
  <2>2. MainIsTarget' /\ ServedMain'
    BY <1>9
    DEF RecordReject, Done, MainIsTarget, ServedMain, Lineage, Known
  <2>3. RegistryTip' = RegistryTip /\ SuiteTip' = SuiteTip
    BY <1>9
    DEF RecordReject, Done, RegistryTip, SuiteTip
  <2>4. OnLine'
    BY <1>9, <2>3
    DEF RecordReject, Done, OnLine, Lineage, MainIsTarget, Known
  <2>5. KeptLine'
    BY <1>9, <2>3
    DEF RecordReject, Done, KeptLine, Lineage, MainIsTarget, Known
  <2>6. SuiteOnLine'
    BY <1>9, <2>3
    DEF RecordReject, Done, SuiteOnLine, Lineage, MainIsTarget, Known
  <2>7. QED BY <2>1, <2>2, <2>4, <2>5, <2>6
<1>6. CASE ToggleCheck
  <2>1. Lineage'
    BY <1>6
    DEF ToggleCheck, Lineage, Known
  <2>2. MainIsTarget' /\ ServedMain'
    BY <1>6
    DEF ToggleCheck, MainIsTarget, ServedMain, Lineage, Known
  <2>3. RegistryTip' = RegistryTip /\ SuiteTip' = SuiteTip
    BY <1>6
    DEF ToggleCheck, RegistryTip, SuiteTip
  <2>4. OnLine'
    BY <1>6, <2>3
    DEF ToggleCheck, OnLine, Lineage, MainIsTarget, Known
  <2>5. KeptLine'
    BY <1>6, <2>3
    DEF ToggleCheck, KeptLine, Lineage, MainIsTarget, Known
  <2>6. SuiteOnLine'
    BY <1>6, <2>3
    DEF ToggleCheck, SuiteOnLine, Lineage, MainIsTarget, Known
  <2>7. QED BY <2>1, <2>2, <2>4, <2>5, <2>6
<1>7. CASE CancelMonitor
  <2>1. Monitor \in Actors
    BY <1>7
    DEF Actors
  <2>2. Lineage'
    BY <1>7, <2>1
    DEF CancelMonitor, Done, Release, NoApp, Lineage, Known
  <2>3. MainIsTarget' /\ ServedMain'
    BY <1>7, <2>1
    DEF CancelMonitor, Done, Release, NoApp, MainIsTarget, ServedMain, Lineage,
        Known
  <2>4. RegistryTip' = RegistryTip /\ SuiteTip' = SuiteTip
    BY <1>7, <2>1
    DEF CancelMonitor, Done, Release, NoApp, RegistryTip, SuiteTip
  <2>5. OnLine'
    BY <1>7, <2>1, <2>4
    DEF CancelMonitor, Done, Release, NoApp, OnLine, Lineage, MainIsTarget, Known
  <2>6. KeptLine'
    BY <1>7, <2>1, <2>4
    DEF CancelMonitor, Done, Release, NoApp, KeptLine, Lineage, MainIsTarget, Known
  <2>7. SuiteOnLine'
    BY <1>7, <2>1, <2>4
    DEF CancelMonitor, Done, Release, NoApp, SuiteOnLine, Lineage, MainIsTarget,
        Known
  <2>8. QED BY <2>2, <2>3, <2>5, <2>6, <2>7
<1>8. QED BY <1>1, <1>2, <1>3, <1>4, <1>5, <1>6, <1>7, <1>9

(* The process starts and ends. *)
LEMMA BootLine ==
    ASSUME IInv, LineInv, Boot \/ Crash
    PROVE  LineInv'
<1> USE DEF IInv, LineInv, TypeOK, LoopFree, SyncPC, Phases, LockHeld, Targets, HoldPC, GatePC,
        CommitPC, disk, reboot
<1>1. CASE BootStart
  <2>1. Lineage'
    BY <1>1
    DEF BootStart, Reconciled, Lineage, Known
  <2>2. MainIsTarget' /\ ServedMain'
    BY <1>1
    DEF BootStart, Reconciled, MainIsTarget, ServedMain, Lineage, Known
  <2>3. RegistryTip = main /\ SuiteTip = main /\ RegistryTip' = main' /\ SuiteTip' = main'
    BY <1>1
    DEF BootStart, Reconciled, RegistryTip, SuiteTip
  <2>4. OnLine'
    BY <1>1, <2>3
    DEF BootStart, Reconciled, OnLine, Lineage, MainIsTarget, Known
  <2>5. KeptLine'
    BY <1>1, <2>3
    DEF BootStart, Reconciled, KeptLine, Lineage, MainIsTarget, Known
  <2>6. SuiteOnLine'
    BY <1>1, <2>3
    DEF BootStart, Reconciled, SuiteOnLine, Lineage, MainIsTarget, Known
  <2>7. QED BY <2>1, <2>2, <2>4, <2>5, <2>6
<1>2. CASE BootHealthy
  <2>1. Lineage'
    BY <1>2
    DEF BootHealthy, NoApp, Tip, Lineage, Known
  <2>2. MainIsTarget' /\ ServedMain'
    BY <1>2
    DEF BootHealthy, NoApp, Tip, MainIsTarget, ServedMain, Lineage, Known
  <2>3. RegistryTip' = RegistryTip /\ SuiteTip' = SuiteTip
    BY <1>2
    DEF BootHealthy, NoApp, Tip, RegistryTip, SuiteTip
  <2>4. OnLine'
    BY <1>2, <2>3
    DEF BootHealthy, NoApp, Tip, OnLine, Lineage, MainIsTarget, Known
  <2>5. KeptLine'
    BY <1>2, <2>3
    DEF BootHealthy, NoApp, Tip, KeptLine, Lineage, MainIsTarget, Known
  <2>6. SuiteOnLine'
    BY <1>2, <2>3
    DEF BootHealthy, NoApp, Tip, SuiteOnLine, Lineage, MainIsTarget, Known
  <2>7. QED BY <2>1, <2>2, <2>4, <2>5, <2>6
<1>3. CASE BootFallback
  <2>1. Lineage'
    BY <1>3
    DEF BootFallback, Lineage, Known
  <2>2. MainIsTarget' /\ ServedMain'
    BY <1>3
    DEF BootFallback, MainIsTarget, ServedMain, Lineage, Known
  <2>3. RegistryTip' = RegistryTip /\ SuiteTip' = SuiteTip
    BY <1>3
    DEF BootFallback, RegistryTip, SuiteTip
  <2>4. OnLine'
    BY <1>3, <2>3
    DEF BootFallback, OnLine, Lineage, MainIsTarget, Known
  <2>5. KeptLine'
    BY <1>3, <2>3
    DEF BootFallback, KeptLine, Lineage, MainIsTarget, Known
  <2>6. SuiteOnLine'
    BY <1>3, <2>3
    DEF BootFallback, SuiteOnLine, Lineage, MainIsTarget, Known
  <2>7. QED BY <2>1, <2>2, <2>4, <2>5, <2>6
<1>4. CASE BootFails
  <2>1. Lineage'
    BY <1>4
    DEF BootFails, NoApp, Lineage, Known
  <2>2. MainIsTarget' /\ ServedMain'
    BY <1>4
    DEF BootFails, NoApp, MainIsTarget, ServedMain, Lineage, Known
  <2>3. RegistryTip' = RegistryTip /\ SuiteTip' = SuiteTip
    BY <1>4
    DEF BootFails, NoApp, RegistryTip, SuiteTip
  <2>4. OnLine'
    BY <1>4, <2>3
    DEF BootFails, NoApp, OnLine, Lineage, MainIsTarget, Known
  <2>5. KeptLine'
    BY <1>4, <2>3
    DEF BootFails, NoApp, KeptLine, Lineage, MainIsTarget, Known
  <2>6. SuiteOnLine'
    BY <1>4, <2>3
    DEF BootFails, NoApp, SuiteOnLine, Lineage, MainIsTarget, Known
  <2>7. QED BY <2>1, <2>2, <2>4, <2>5, <2>6
<1>5. CASE Crash
  <2>1. Lineage'
    BY <1>5
    DEF Crash, NoApp, Lineage, Known
  <2>2. MainIsTarget' /\ ServedMain'
    BY <1>5
    DEF Crash, NoApp, MainIsTarget, ServedMain, Lineage, Known
  <2>3. RegistryTip' = main /\ SuiteTip' = main
    BY <1>5
    DEF Crash, NoApp, RegistryTip, SuiteTip
  <2>4. OnLine'
    BY <1>5, <2>3
    DEF Crash, NoApp, OnLine, Lineage, MainIsTarget, Known
  <2>5. KeptLine'
    BY <1>5, <2>3
    DEF Crash, NoApp, KeptLine, Lineage, MainIsTarget, Known
  <2>6. SuiteOnLine'
    BY <1>5, <2>3
    DEF Crash, NoApp, SuiteOnLine, Lineage, MainIsTarget, Known
  <2>7. QED BY <2>1, <2>2, <2>4, <2>5, <2>6
<1>6. QED BY <1>1, <1>2, <1>3, <1>4, <1>5 DEF Boot

LEMMA StepLine == IInv /\ LineInv /\ [Next]_vars => LineInv'
<1> SUFFICES ASSUME IInv, LineInv, [Next]_vars PROVE LineInv'
  OBVIOUS
<1>1. CASE UNCHANGED vars
  BY <1>1 DEF vars, disk, reboot, LineInv, Lineage, MainIsTarget, OnLine, KeptLine,
     SuiteOnLine, ServedMain, RegistryTip, SuiteTip, Known
<1>2. CASE Next
  BY <1>2, ChangeLine, RebootLine, RequestLine, BootLine DEF Next
<1>3. QED BY <1>1, <1>2

(* Every state the kernel reaches satisfies the invariant of the line. *)
THEOREM LineInvariant == Spec => []LineInv
  BY Invariant, InitLine, StepLine, PTL DEF Spec

(* Until the kernel is killed, main is the served version at every await.    *)
THEOREM MainServed == Spec => [](crashes = 0 => MainIsServed)
<1>1. LineInv => (crashes = 0 => MainIsServed)
  BY DEF LineInv, ServedMain, MainIsServed, LoopFree
<1>2. QED BY LineInvariant, <1>1, PTL

(* Whatever interleaves and whenever the kernel is killed, what the registry *)
(* calls promoted or restored is an ancestor of main.                       *)
THEOREM PromotedOnLine == Spec => []PromotedIsOnLine
<1>1. LineInv => PromotedIsOnLine
  BY DEF LineInv, OnLine, PromotedIsOnLine, LoopFree, SyncPC, RegistryTip
<1>2. QED BY LineInvariant, <1>1, PTL

(* Until the kernel is killed, the registry and the regression suite agree   *)
(* with the active line at every await.                                     *)
THEOREM FollowersFollow == Spec => [](crashes = 0 => FollowersAgree)
<1>1. IInv /\ LineInv => (crashes = 0 => FollowersAgree)
  BY DEF IInv, TypeOK, Phases, LineInv, Lineage, KeptLine, SuiteOnLine, FollowersAgree,
     LineIsNotAbandoned, SuiteFollowsLine, LoopFree, SyncPC, RegistryTip, SuiteTip, Known
<1>2. QED BY Invariant, LineInvariant, <1>1, PTL

-----------------------------------------------------------------------------
(* The undo stack. *)

(* One request at a time, and no kill. *)
Alone ==
    /\ \A a, b \in Actors : pc[a] # "idle" /\ pc[b] # "idle" => a = b
    /\ crashes = 0

(* The stack is bounded, no version lies on itself or under the version that *)
(* is served, and slots.json agrees with its top.                           *)
StackShape ==
    /\ Len(slots.history) <= MaxHistory
    /\ \A i \in 1 .. Len(slots.history) - 1 : slots.history[i] # slots.history[i + 1]
    /\ slots.history # <<>> => Tip(slots.history) # slots.active
    /\ slots.prev = Tip(slots.history)
    /\ slots.active = slots.lkg
    /\ slots.active = NoVersion => slots.history = <<>>
    /\ phase = "up" <=> slots.active # NoVersion

(* A rollback that is under way goes to the top of the stack. *)
UndoTarget ==
    \A a \in Actors :
        pc[a] \in GatePC \cup {"wait", "slots"} /\ op[a] \in {"rollback", "monitor"} =>
            slots.history # <<>> /\ tgt[a] = Tip(slots.history)

StackInv == Alone /\ StackShape /\ UndoTarget

(* What is departed is put on the stack once. *)
LEMMA PushOnce ==
    ASSUME NEW h \in Seq(Versions), Len(h) <= MaxHistory,
           \A i \in 1 .. Len(h) - 1 : h[i] # h[i + 1],
           NEW old \in Versions, NEW new \in Versions, old # new
    PROVE  LET g == Trim(Departed(h, old, new)) IN
           /\ g = IF h # <<>> /\ h[Len(h)] = old THEN h ELSE Trim(Append(h, old))
           /\ g \in Seq(Versions) /\ Len(g) <= MaxHistory
           /\ \A i \in 1 .. Len(g) - 1 : g[i] # g[i + 1]
           /\ g # <<>> /\ Tip(g) = old
<1> DEFINE g == Trim(Departed(h, old, new))
<1>1. MaxHistory \in Nat \ {0} /\ Len(h) \in Nat /\ old # NoVersion
  BY BoundsAssumption
<1>2. CASE h # <<>> /\ h[Len(h)] = old
  <2>1. g = h
    BY <1>1, <1>2 DEF Departed, Tip, Trim
  <2>2. QED BY <1>1, <1>2, <2>1 DEF Tip
<1>3. CASE ~ (h # <<>> /\ h[Len(h)] = old)
  <2>1. Departed(h, old, new) = Append(h, old)
    BY <1>1, <1>3 DEF Departed, Tip
  <2> DEFINE q == Append(h, old)
  <2>2. /\ q \in Seq(Versions) /\ Len(q) = Len(h) + 1 /\ q[Len(q)] = old
        /\ \A i \in 1 .. Len(h) : q[i] = h[i]
    BY <1>1
  <2>3. \A i \in 1 .. Len(q) - 1 : q[i] # q[i + 1]
    <3> TAKE i \in 1 .. Len(q) - 1
    <3>1. CASE i < Len(h)
      <4>1. i \in 1 .. Len(h) - 1 /\ i \in 1 .. Len(h) /\ i + 1 \in 1 .. Len(h)
        BY <1>1, <2>2, <3>1
      <4>2. q[i] = h[i] /\ q[i + 1] = h[i + 1] /\ h[i] # h[i + 1]
        BY <2>2, <4>1
      <4>3. QED BY <4>2
    <3>2. CASE i = Len(h)
      BY <1>1, <1>3, <2>2, <3>2
    <3>3. QED BY <1>1, <2>2, <3>1, <3>2
  <2> HIDE DEF q
  <2>4. CASE Len(q) <= MaxHistory
    <3>1. g = q
      BY <1>1, <2>1, <2>2, <2>4 DEF Trim, q
    <3>2. QED BY <1>1, <1>3, <2>1, <2>2, <2>3, <2>4, <3>1 DEF Tip, q
  <2>5. CASE Len(q) > MaxHistory
    <3>1. Len(q) = MaxHistory + 1
      BY <1>1, <2>2, <2>5
    <3>2. g = SubSeq(q, 2, Len(q))
      BY <1>1, <2>1, <2>5, <3>1 DEF Trim, q
    <3>3. /\ g \in Seq(Versions) /\ Len(g) = MaxHistory
          /\ \A i \in 1 .. MaxHistory : g[i] = q[i + 1]
      BY <1>1, <2>2, <3>1, <3>2
    <3>4. \A i \in 1 .. Len(g) - 1 : g[i] # g[i + 1]
      BY <1>1, <2>3, <3>1, <3>3
    <3>5. g # <<>> /\ Tip(g) = old
      BY <1>1, <2>2, <3>1, <3>3 DEF Tip
    <3>6. QED BY <1>1, <1>3, <2>1, <3>3, <3>4, <3>5 DEF q
  <2>6. QED BY <1>1, <2>2, <2>4, <2>5
<1>4. QED BY <1>2, <1>3

(* What is undone is taken off, and the next entry is another version. *)
LEMMA PopOnce ==
    ASSUME NEW h \in Seq(Versions), h # <<>>, Len(h) <= MaxHistory,
           \A i \in 1 .. Len(h) - 1 : h[i] # h[i + 1]
    PROVE  LET g == Trim(Drop(h)) IN
           /\ g = SubSeq(h, 1, Len(h) - 1) /\ Tip(h) = h[Len(h)] /\ Tip(h) \in Versions
           /\ g \in Seq(Versions) /\ Len(g) <= MaxHistory
           /\ \A i \in 1 .. Len(g) - 1 : g[i] # g[i + 1]
           /\ g # <<>> => Tip(g) # Tip(h)
<1> DEFINE g == Trim(Drop(h))
<1>1. MaxHistory \in Nat \ {0} /\ Len(h) \in Nat /\ Len(h) >= 1
  BY BoundsAssumption
<1>2. g = SubSeq(h, 1, Len(h) - 1)
  BY <1>1 DEF Drop, Trim
<1>3. /\ g \in Seq(Versions) /\ Len(g) = Len(h) - 1
      /\ \A i \in 1 .. Len(h) - 1 : g[i] = h[i]
  <2> DEFINE n == Len(h) - 1
  <2>1. /\ n \in 0 .. Len(h) /\ \A i \in 1 .. n : h[i] \in Versions
    BY <1>1
  <2>2. /\ SubSeq(h, 1, n) \in Seq(Versions) /\ Len(SubSeq(h, 1, n)) = n
        /\ \A i \in 1 .. n : SubSeq(h, 1, n)[i] = h[i]
    <3> DEFINE s == SubSeq(h, 1, n)
    <3>1. n \in Int /\ 1 \in Int
      BY <1>1
    <3>2. /\ s \in Seq(Versions) /\ Len(s) = IF 1 <= n THEN n - 1 + 1 ELSE 0
          /\ \A i \in 1 .. n - 1 + 1 : s[i] = h[1 + i - 1]
      <4> HIDE DEF n
      <4>1. QED BY <2>1, <3>1, SubSeqProperties
    <3>3. n \in Nat /\ n - 1 + 1 = n /\ \A i \in 1 .. n : 1 + i - 1 = i
      BY <1>1
    <3> HIDE DEF s, n
    <3>4. QED BY <3>2, <3>3 DEF s
  <2>3. QED BY <1>2, <2>2
<1>4. Tip(h) = h[Len(h)] /\ Tip(h) \in Versions
  BY <1>1 DEF Tip
<1>5. g # <<>> => Tip(g) # Tip(h)
  BY <1>1, <1>3 DEF Tip
<1>6. QED BY <1>1, <1>2, <1>3, <1>4, <1>5

(* A request may only be made when none is under way. *)
LEMMA NobodyElse ==
    ASSUME MaxInFlight = 1, Alone, NEW a \in Actors, NEW kind, MayCall(a, kind)
    PROVE  \A b \in Actors : pc[b] = "idle"
<1>1. SUFFICES ASSUME NEW b \in Actors, pc[b] # "idle" PROVE FALSE
  OBVIOUS
<1>2. InFlight = {b}
  BY <1>1 DEF InFlight, Alone
<1>3. Cardinality({b}) = 1
  BY FS_Singleton
<1>4. QED BY <1>2, <1>3 DEF MayCall

LEMMA InitStack == Init => StackInv
<1> SUFFICES ASSUME Init PROVE StackInv
  OBVIOUS
<1>1. slots.history = <<>> /\ Len(slots.history) = 0
  BY DEF Init
<1>2. QED
  BY <1>1, BoundsAssumption
  DEF Init, StackInv, Alone, StackShape, UndoTarget, GatePC, Tip

(* The undo stack changes in two steps only. *)
LEMMA SlotsChange ==
    ASSUME [Next]_vars, slots' # slots
    PROVE  BootHealthy \/ \E a \in Actors : WriteSlots(a)
<1>1. ASSUME NEW a \in Actors, Change(a) PROVE slots' = slots
  BY <1>1
  DEF Change, StageChange, AbandonChange, CommitChange, RecordCommit, FailGate, HoldForApproval,
  RecordHold, PromoteChange, Enter, disk
<1>2. ASSUME NEW a \in Actors, Reboot(a) PROVE slots' = slots \/ WriteSlots(a)
  BY <1>2
  DEF Reboot, Acquire, LaunchRaises, Healthy, Verified, Flip, Unfit, DropCandidate, RedrawLine,
  SyncSuite, StampPromoted, Freeze, Finish, disk
<1>3. ASSUME NEW a \in Actors,
             Rollback(a) \/ RollbackTo(a) \/ Approve(a) \/ Reject(a) \/ RecordReject(a)
      PROVE  slots' = slots
  BY <1>3 DEF Rollback, RollbackTo, Approve, Reject, RecordReject, Enter, disk
<1>4. CASE ToggleCheck \/ MonitorUnhealthy \/ CancelMonitor
  <2>1. slots' = slots
    BY <1>4 DEF ToggleCheck, MonitorUnhealthy, CancelMonitor, Enter, disk
  <2>2. QED BY <2>1
<1>5. CASE Boot \/ Crash
  <2>1. slots' = slots \/ BootHealthy
    BY <1>5 DEF Boot, BootStart, BootFallback, BootFails, Crash, disk
  <2>2. QED BY <2>1
<1>6. CASE UNCHANGED vars
  <2>1. slots' = slots
    BY <1>6 DEF vars, disk
  <2>2. QED BY <2>1
<1>7. QED BY <1>1, <1>2, <1>3, <1>4, <1>5, <1>6 DEF Next

(* The newest entry of the stack is not the version that is served, so it is *)
(* the watchdog's target.                                                   *)
LEMMA MonitorUndoes ==
    ASSUME IInv, LineInv, StackInv, LoopFree,
           NEW v \in Versions, v = MonitorTarget(slots, current.version)
    PROVE  slots.history # <<>> /\ v = Tip(slots.history)
<1>1. /\ current.version = slots.active /\ slots.lkg = slots.active
      /\ slots.history \in Seq(Versions)
  BY DEF IInv, TypeOK, Served, StackInv, StackShape, LoopFree, SyncPC
<1>2. CASE slots.history = <<>>
  BY <1>1, <1>2, VersionsAssumption DEF MonitorTarget
<1>3. CASE slots.history # <<>>
  <2> DEFINE n == Len(slots.history)
             others == {i \in DOMAIN slots.history : slots.history[i] # current.version}
  <2>1. n \in Nat /\ n >= 1 /\ DOMAIN slots.history = 1 .. n /\ Tip(slots.history) = slots.history[n]
    BY <1>1, <1>3 DEF Tip
  <2>2. n \in others /\ \A j \in others : j <= n
    BY <1>1, <1>3, <2>1 DEF StackInv, StackShape
  <2>3. (CHOOSE i \in others : \A j \in others : j <= i) = n
    BY <2>1, <2>2
  <2>4. v = slots.history[CHOOSE i \in others : \A j \in others : j <= i]
    BY <2>2 DEF MonitorTarget
  <2>5. QED BY <1>3, <2>1, <2>3, <2>4
<1>4. QED BY <1>2, <1>3

(* How the state is seen by UndoStack. *)
Undoing == lock # NoOne /\ op[lock] \in {"rollback", "monitor"}
Abstract == <<slots.active, slots.history, Undoing>>

(* The step that writes the slots is one step of the abstract stack. *)
LEMMA WriteStack ==
    ASSUME IInv, StackInv, NEW a \in Actors, WriteSlots(a)
    PROVE  StackShape' /\ [Stack!Next]_Abstract
<1> DEFINE h == slots.history
           old == slots.active
           new == tgt[a]
           g == NextHistory(h, op[a], old, new)
<1>1. /\ h \in Seq(Versions) /\ new \in Versions /\ lock = a /\ lock # NoOne
      /\ pc[a] = "slots" /\ phase = "up" /\ old \in Versions /\ new # NoVersion
  BY VersionsAssumption
  DEF WriteSlots, IInv, TypeOK, Targets, LockHeld, HoldPC, CommitPC, Phases, Actors, StackInv,
      StackShape
<1>2. /\ slots' = [active |-> new, prev |-> Tip(g), lkg |-> new, history |-> g]
      /\ phase' = phase /\ Undoing' = Undoing
      /\ Undoing = (op[a] \in {"rollback", "monitor"})
  BY <1>1 DEF WriteSlots, Undoing, reboot
<1>3. /\ Len(h) <= MaxHistory /\ \A i \in 1 .. Len(h) - 1 : h[i] # h[i + 1]
      /\ h # <<>> => Tip(h) # old
  BY DEF StackInv, StackShape
<1> HIDE DEF h, old, new, g
<1>4. slots'.active = new /\ slots'.history = g /\ slots'.prev = Tip(g) /\ slots'.lkg = new
  BY <1>2
<1>5. CASE op[a] \in {"rollback", "monitor"}
  <2>1. h # <<>> /\ new = Tip(h)
    BY <1>1, <1>5 DEF StackInv, UndoTarget, h, new
  <2>2. g = Trim(Drop(h))
    BY <1>5 DEF g, NextHistory
  <2>3. /\ g = SubSeq(h, 1, Len(h) - 1) /\ Tip(h) = h[Len(h)]
        /\ Len(g) <= MaxHistory /\ \A i \in 1 .. Len(g) - 1 : g[i] # g[i + 1]
        /\ g # <<>> => Tip(g) # new
    BY <1>1, <1>3, <2>1, <2>2, PopOnce
  <2>4. StackShape'
    BY <1>1, <1>2, <1>4, <2>3 DEF StackShape
  <2>5. Stack!Undo
    BY <1>2, <1>3, <1>4, <1>5, <2>1, <2>3 DEF Stack!Undo, Undoing, h, old
  <2>6. QED BY <2>4, <2>5 DEF Stack!Next
<1>6. CASE op[a] \notin {"rollback", "monitor"}
  <2>1. g = Trim(Departed(h, old, new))
    BY <1>6 DEF g, NextHistory
  <2>2. CASE old = new
    <3> DEFINE d == Departed(h, old, new)
    <3>0. d = h
      BY <2>2 DEF Departed
    <3>1. g = h
      <4>1. Len(h) <= MaxHistory /\ MaxHistory \in Nat
        BY <1>3, BoundsAssumption
      <4>2. Trim(h) = h
        BY <4>1, <1>1 DEF Trim
      <4>3. QED BY <2>1, <3>0, <4>2
    <3>2. StackShape'
      BY <1>1, <1>2, <1>3, <1>4, <2>2, <3>1 DEF StackShape
    <3>3. UNCHANGED Abstract
      BY <1>2, <1>4, <2>2, <3>1 DEF Abstract, h, old
    <3>4. QED BY <3>2, <3>3
  <2>3. CASE old # new
    <3>1. /\ g = IF h # <<>> /\ h[Len(h)] = old THEN h ELSE Trim(Append(h, old))
          /\ Len(g) <= MaxHistory /\ \A i \in 1 .. Len(g) - 1 : g[i] # g[i + 1]
          /\ g # <<>> /\ Tip(g) = old
      BY <1>1, <1>3, <2>1, <2>3, PushOnce
    <3>2. StackShape'
      BY <1>1, <1>2, <1>4, <2>3, <3>1 DEF StackShape
    <3>3. Stack!Newest(Append(h, old)) = Trim(Append(h, old))
      BY DEF Stack!Newest, Trim
    <3>4. old # NoVersion
      BY <1>1
    <3>5. Stack!GoTo(new)
      BY <1>2, <1>4, <1>6, <2>3, <3>1, <3>3, <3>4 DEF Stack!GoTo, Undoing, h, old
    <3>6. QED BY <1>1, <3>2, <3>5 DEF Stack!Next
  <2>4. QED BY <2>2, <2>3
<1>7. QED BY <1>5, <1>6

(* The first boot serves the seed on an empty stack; there is no other.      *)
LEMMA BootStack ==
    ASSUME IInv, LineInv, StackInv, BootHealthy
    PROVE  StackShape' /\ [Stack!Next]_Abstract
<1>1. /\ slots.active = NoVersion /\ slots.history = <<>> /\ cand.version \in Versions
      /\ cand.version # NoVersion
  BY VersionsAssumption DEF BootHealthy, IInv, Phases, StackInv, StackShape
<1>2. /\ slots' = [active |-> cand.version, prev |-> NoVersion, lkg |-> cand.version,
                   history |-> <<>>]
      /\ phase' = "up" /\ Undoing' = Undoing
  BY <1>1 DEF BootHealthy, Undoing
<1>3. StackShape'
  BY <1>1, <1>2, BoundsAssumption DEF StackShape, Tip
<1>4. Stack!FirstBoot
  BY <1>1, <1>2 DEF Stack!FirstBoot, Undoing
<1>5. QED BY <1>3, <1>4 DEF Stack!Next

(* Every other step leaves the stack alone. *)
LEMMA OtherStack ==
    ASSUME slots' = slots PROVE [Stack!Next]_Abstract
<1>1. Undoing' \in BOOLEAN
  BY DEF Undoing
<1>2. Stack!Ask
  BY <1>1 DEF Stack!Ask, Undoing
<1>3. QED BY <1>2 DEF Stack!Next

(* A request that asks for the lock alone asks for the top of the stack if   *)
(* it is an undo.                                                           *)
LEMMA EnterStack ==
    ASSUME IInv, StackInv, NEW a \in Actors, NEW kind, NEW v,
           \A b \in Actors \ {a} : pc[b] = "idle", Enter(a, kind, v),
           kind \in {"rollback", "monitor"} =>
               slots.history # <<>> /\ v = Tip(slots.history)
    PROVE  StackInv'
<1>1. Alone'
  BY DEF IInv, TypeOK, StackInv, Alone, Enter
<1>2. StackShape'
  BY DEF StackInv, StackShape, Enter, disk
<1>3. UndoTarget'
  BY DEF IInv, TypeOK, StackInv, UndoTarget, GatePC, Enter, disk
<1>4. QED BY <1>1, <1>2, <1>3 DEF StackInv

(* A reboot moves on by itself: it had asked, it touches no other request's   *)
(* progress, and it wants what it wanted before it flipped.                 *)
OwnMove(a) ==
    /\ pc[a] # "idle" /\ crashes' = crashes
    /\ \A b \in Actors \ {a} : pc'[b] = pc[b] /\ op'[b] = op[b] /\ tgt'[b] = tgt[b]
    /\ pc'[a] \in GatePC \cup {"wait", "slots"} =>
          pc[a] \in GatePC \cup {"wait", "slots"} /\ op'[a] = op[a] /\ tgt'[a] = tgt[a]

LEMMA RebootOfItsOwn ==
    ASSUME TypeOK, FifoWaits, NEW a \in Actors, Reboot(a)
    PROVE  OwnMove(a)
<1>0. /\ pc \in [Actors -> {"idle", "staged", "recording", "committed", "wait",
                          "health", "verify", "unhealthy", "unverified", "slots",
                          "redraw", "suite", "stamp", "freeze", "stop", "holding",
                          "rejecting"}]
      /\ op \in [Actors -> OpKinds \cup {"none"}] /\ tgt \in [Actors -> Versions \cup {NoVersion}]
  BY DEF TypeOK
<1>1. CASE Acquire(a)
  <2>1. waiters # <<>> /\ Head(waiters) = a /\ waiters \in Seq(Actors)
    BY <1>1 DEF Acquire, TypeOK
  <2>2. pc[a] = "wait"
    BY <2>1, TailStays DEF FifoWaits
  <2>3. QED BY <1>0, <1>1, <2>2 DEF Acquire, OwnMove, GatePC
<1>2. CASE LaunchRaises(a)
  BY <1>0, <1>2 DEF LaunchRaises, Done, OwnMove, GatePC
<1>3. CASE Healthy(a)
  BY <1>0, <1>3 DEF Healthy, Flip, OwnMove, GatePC
<1>4. CASE Verified(a)
  BY <1>0, <1>4 DEF Verified, Flip, OwnMove, GatePC
<1>5. CASE Unfit(a)
  BY <1>0, <1>5 DEF Unfit, OwnMove, GatePC
<1>6. CASE DropCandidate(a)
  BY <1>0, <1>6 DEF DropCandidate, Done, OwnMove, GatePC
<1>7. CASE WriteSlots(a)
  BY <1>0, <1>7 DEF WriteSlots, OwnMove, GatePC
<1>8. CASE RedrawLine(a)
  BY <1>0, <1>8 DEF RedrawLine, OwnMove, GatePC
<1>9. CASE SyncSuite(a)
  BY <1>0, <1>9 DEF SyncSuite, OwnMove, GatePC
<1>10. CASE StampPromoted(a)
  BY <1>0, <1>10 DEF StampPromoted, OwnMove, GatePC
<1>11. CASE Freeze(a)
  BY <1>0, <1>11 DEF Freeze, OwnMove, GatePC
<1>12. CASE Finish(a)
  BY <1>0, <1>12 DEF Finish, Done, OwnMove, GatePC
<1>13. QED BY <1>1, <1>2, <1>3, <1>4, <1>5, <1>6, <1>7, <1>8, <1>9, <1>10, <1>11, <1>12 DEF Reboot

(* Such a step leaves one request alone under way, and an undo its target.   *)
LEMMA OwnStep ==
    ASSUME StackInv, NEW a \in Actors, OwnMove(a), slots' = slots
    PROVE  Alone' /\ UndoTarget'
<1>1. \A b \in Actors : pc'[b] # "idle" => b = a
  BY DEF StackInv, Alone, OwnMove
<1>2. Alone'
  BY <1>1 DEF StackInv, Alone, OwnMove
<1>3. UndoTarget'
  <2> SUFFICES ASSUME NEW b \in Actors, pc'[b] \in GatePC \cup {"wait", "slots"},
                      op'[b] \in {"rollback", "monitor"}
               PROVE  slots.history # <<>> /\ tgt'[b] = Tip(slots.history)
    BY DEF UndoTarget, GatePC
  <2>1. b = a
    BY <1>1 DEF GatePC
  <2>2. QED BY <2>1 DEF StackInv, UndoTarget, OwnMove
<1>4. QED BY <1>2, <1>3

LEMMA StepStack ==
    ASSUME MaxInFlight = 1, MaxCrashes = 0, IInv, LineInv, StackInv, [Next]_vars
    PROVE  StackInv' /\ [Stack!Next]_Abstract
<1>1. CASE slots' # slots
  <2>1. StackShape' /\ [Stack!Next]_Abstract
    BY <1>1, SlotsChange, WriteStack, BootStack
  <2>2. CASE BootHealthy
    BY <2>1, <2>2 DEF BootHealthy, StackInv, Alone, UndoTarget, IInv, Phases, GatePC
  <2>3. ASSUME NEW a \in Actors, WriteSlots(a) PROVE Alone' /\ UndoTarget'
    BY <2>3 DEF WriteSlots, StackInv, Alone, UndoTarget, IInv, TypeOK, GatePC
  <2>4. QED BY <1>1, <2>1, <2>2, <2>3, SlotsChange DEF StackInv
<1>2. CASE slots' = slots
  <2>1. SUFFICES StackInv'
    BY <1>2, OtherStack
  <2> USE DEF IInv, TypeOK, StackInv, GatePC, disk, reboot
  <2>2. CASE UNCHANGED vars
    BY <2>2 DEF vars, Alone, StackShape, UndoTarget
  <2>3. ASSUME NEW a \in Actors, Change(a) PROVE StackInv'
    <3>1. CASE PromoteChange(a)
      BY <3>1, EnterStack DEF PromoteChange, Alone
    <3>2. CASE StageChange(a)
      <4>1. MayCall(a, "selfmod") /\ pc' = [pc EXCEPT ![a] = "staged"]
        BY <3>2 DEF StageChange
      <4>2. /\ op' = [op EXCEPT ![a] = "selfmod"] /\ UNCHANGED <<slots, phase, crashes>>
        BY <3>2 DEF StageChange
      <4>3. \A b \in Actors : pc[b] = "idle"
        BY <4>1, NobodyElse
      <4>4. Alone'
        BY <4>1, <4>2, <4>3 DEF Alone
      <4>5. UndoTarget'
        BY <4>1, <4>2, <4>3 DEF UndoTarget
      <4>6. QED BY <4>2, <4>4, <4>5 DEF StackShape
    <3>3. CASE CommitChange(a)
      BY <3>3 DEF CommitChange, Alone, StackShape, UndoTarget
    <3>4. CASE RecordCommit(a)
      BY <3>4 DEF RecordCommit, Alone, StackShape, UndoTarget
    <3>5. CASE AbandonChange(a)
      BY <3>5 DEF AbandonChange, Done, Alone, StackShape, UndoTarget
    <3>6. CASE FailGate(a)
      BY <3>6 DEF FailGate, Done, Alone, StackShape, UndoTarget
    <3>7. CASE HoldForApproval(a)
      BY <3>7 DEF HoldForApproval, Alone, StackShape, UndoTarget
    <3>8. CASE RecordHold(a)
      BY <3>8 DEF RecordHold, Done, Alone, StackShape, UndoTarget
    <3>9. QED
      BY <2>3, <3>1, <3>2, <3>3, <3>4, <3>5, <3>6, <3>7, <3>8 DEF Change
  <2>4. ASSUME NEW a \in Actors, Reboot(a) PROVE StackInv'
    <3>1. Alone' /\ UndoTarget'
      BY <1>2, <2>4, RebootOfItsOwn, OwnStep
    <3>2. phase' = phase
      BY <2>4 DEF Reboot, Acquire, LaunchRaises, Healthy, Verified, Flip, Unfit, DropCandidate,
         WriteSlots, RedrawLine, SyncSuite, StampPromoted, Freeze, Finish
    <3>3. QED BY <1>2, <3>1, <3>2 DEF StackShape
  <2>5. ASSUME NEW a \in Actors, Rollback(a) PROVE StackInv'
    <3>1. PICK v : Enter(a, "rollback", v) /\ slots.history # <<>> /\ v = Tip(slots.history)
      BY <2>5 DEF Rollback, StackShape, Tip
    <3>2. QED BY <2>5, <3>1, NobodyElse, EnterStack DEF Rollback
  <2>6. ASSUME NEW a \in Actors, RollbackTo(a) \/ Approve(a) PROVE StackInv'
    BY <2>6, NobodyElse, EnterStack DEF RollbackTo, Approve
  <2>7. CASE MonitorUnhealthy
    <3>1. Monitor \in Actors
      BY DEF Actors
    <3>2. PICK v \in Versions : /\ v = MonitorTarget(slots, current.version)
                                /\ Enter(Monitor, "monitor", v)
      BY <2>7 DEF MonitorUnhealthy
    <3>3. LoopFree /\ \A b \in Actors : pc[b] = "idle"
      BY <2>7, <3>1, NobodyElse DEF MonitorUnhealthy, MayCall
    <3>4. slots.history # <<>> /\ v = Tip(slots.history)
      BY <3>2, <3>3, MonitorUndoes
    <3>5. QED BY <3>1, <3>2, <3>3, <3>4, EnterStack
  <2>8. CASE ToggleCheck
    BY <2>8 DEF ToggleCheck, Alone, StackShape, UndoTarget
  <2>13. ASSUME NEW a \in Actors, Reject(a) PROVE StackInv'
    <3>1. MayCall(a, "reject") /\ pc' = [pc EXCEPT ![a] = "rejecting"]
      BY <2>13 DEF Reject
    <3>2. /\ op' = [op EXCEPT ![a] = "reject"] /\ UNCHANGED <<slots, phase, crashes>>
      BY <2>13 DEF Reject
    <3>3. \A b \in Actors : pc[b] = "idle"
      BY <3>1, NobodyElse
    <3>4. Alone'
      BY <3>1, <3>2, <3>3 DEF Alone
    <3>5. UndoTarget'
      BY <3>1, <3>2, <3>3 DEF UndoTarget
    <3>6. QED BY <3>2, <3>4, <3>5 DEF StackShape
  <2>14. ASSUME NEW a \in Actors, RecordReject(a) PROVE StackInv'
    BY <2>14 DEF RecordReject, Done, Alone, StackShape, UndoTarget
  <2>9. CASE CancelMonitor
    BY <2>9 DEF CancelMonitor, Done, Actors, Alone, StackShape, UndoTarget
  <2>10. CASE Boot
    BY <1>2, <2>10, VersionsAssumption
    DEF Boot, BootStart, BootHealthy, BootFallback, BootFails, Phases, Alone, StackShape,
        UndoTarget
  <2>11. CASE Crash
    BY <2>11 DEF Crash, Alone
  <2>12. QED
    BY <2>2, <2>3, <2>4, <2>5, <2>6, <2>7, <2>8, <2>9, <2>10, <2>11, <2>13, <2>14 DEF Next
<1>3. QED BY <1>1, <1>2

(* Refinement: with one request at a time and no kill, every step of the     *)
(* kernel is a step of the abstract undo stack or leaves it alone, whatever  *)
(* kinds of request are made.                                               *)
THEOREM UndoRefines ==
    ASSUME MaxInFlight = 1, MaxCrashes = 0 PROVE Spec => StepsBack
<1>1. Init => Stack!Init
  BY DEF Init, Stack!Init
<1>2. IInv /\ LineInv /\ StackInv /\ [Next]_vars => StackInv' /\ [Stack!Next]_Abstract
  BY StepStack
<1>3. QED
  BY <1>1, <1>2, InitStack, Invariant, LineInvariant, PTL
  DEF Spec, StepsBack, Stack!Spec, Abstract, Undoing
=============================================================================
