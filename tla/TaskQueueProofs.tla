--------------------------- MODULE TaskQueueProofs ---------------------------
(***************************************************************************)
(* Proofs about TaskQueue, for every set of tasks of each kind, any number  *)
(* of cancel requests, any number of events and any number of crashes.      *)
(***************************************************************************)
EXTENDS TaskQueue, TLAPS

USE KindsAssumption, LimitsAssumption

-----------------------------------------------------------------------------
(* The inductive invariant, part by part. *)

(* A stretch without await is about a task, except after a task was removed; *)
(* the stretches of boot() belong to boot().                                *)
CutShape ==
    /\ cut.at \in {"none", "next"} <=> cut.task = NoTask
    /\ phase = "down" => cut.at = "none"
    /\ phase = "booting" => cut.at \in {"none", "boot"}
    /\ phase = "up" => cut.at # "boot"

(* Nothing runs before the app is up, and it was up before the first crash.  *)
NotUp ==
    phase # "up" => /\ drainer = "off" /\ stage = "none" /\ worker = "none"
                    /\ current = NoTask /\ crashes > 0

(* The drainer runs as long as it has a task in hand. *)
InHand ==
    /\ drainer = "running" <=> stage # "none" \/ cut.at \in {"start", "remove", "next"}
    /\ stage # "none" => cut.at \notin {"start", "remove", "next"}
    /\ cut.at = "commit" => stage = "gates" /\ cut.task = current
    /\ cut.at = "start" => cut.task = current

(* The task in hand is the head of the queue, in memory and on disk. *)
HeadInHand ==
    /\ stage # "none" \/ cut.at = "start" =>
          /\ queue # <<>>
          /\ Head(queue) = current /\ currentFile = current
    /\ stage # "none" => state[current] = "running"

(* A status "running" is the task in hand, or what a killed kernel left for  *)
(* boot() to find.                                                          *)
RunningInHand ==
    \A t \in Tasks : state[t] = "running" =>
        /\ currentFile = t
        /\ phase # "booting"
        /\ phase = "up" => stage # "none" /\ current = t

(* Between two writes: the status file and the queue disagree on one task.   *)
BetweenWrites ==
    /\ cut.at \in {"enqueue", "dequeue"} => cut.task \notin Range(queue)
    /\ cut.at = "enqueue" => state[cut.task] = "queued"
    /\ cut.at = "remove" => state[cut.task] \in {"done", "failed", "cancelled", "pending"}

(* What was never filed is not in the queue. *)
FiledOnly == \A t \in Tasks : state[t] = "none" => t \notin Range(queue)

(* Until a kernel is killed the queue holds the unfinished tasks, but for    *)
(* the one a stretch is about.                                              *)
QueueAgrees ==
    crashes = 0 =>
        /\ \A t \in Tasks :
              cut.at \notin {"enqueue", "dequeue", "remove"} \/ t # cut.task =>
                 (t \in Range(queue) <=> state[t] \in {"queued", "running"})
        /\ cut.at = "dequeue" => state[cut.task] = "queued"

(* Until a kernel is killed a committed task is past the cancel flag. *)
CommittedRan ==
    crashes = 0 =>
        \A t \in committed :
            /\ state[t] \notin {"none", "queued", "cancelled"}
            /\ state[t] = "running" => stage \in {"gates", "reboot"}

(* A worker belongs to an agent task, which started with no messages. *)
SteerOfTask ==
    /\ worker # "none" => stage = "agent" /\ current \in AgentTasks
    /\ stage # "none" /\ current \in AgentTasks => steer \subseteq {current}
    /\ cut.at = "start" /\ current \in AgentTasks => steer = {}

(* At every point where the app is up. *)
Drained == phase = "up" /\ queue # <<>> => drainer # "off"

IInv ==
    /\ TypeOK /\ CutShape /\ NotUp /\ InHand /\ HeadInHand /\ RunningInHand
    /\ BetweenWrites /\ FiledOnly /\ QueueAgrees /\ CommittedRan /\ SteerOfTask /\ Drained

-----------------------------------------------------------------------------
(* Lemmas about the queue. *)

(* A task that joins the queue is its last, and the head stays. *)
LEMMA AppendStays ==
    ASSUME NEW q \in Seq(Tasks), NEW t \in Tasks
    PROVE  /\ Append(q, t) \in Seq(Tasks)
           /\ Range(Append(q, t)) = Range(q) \cup {t}
           /\ Append(q, t) # <<>>
           /\ q # <<>> => Head(Append(q, t)) = Head(q)
<1>1. /\ Append(q, t) \in Seq(Tasks) /\ Len(q) \in Nat /\ DOMAIN q = 1 .. Len(q)
      /\ DOMAIN Append(q, t) = 1 .. Len(q) + 1
      /\ \A j \in 1 .. Len(q) : Append(q, t)[j] = q[j]
      /\ Append(q, t)[Len(q) + 1] = t
      /\ Append(q, t) # <<>>
  OBVIOUS
<1>2. Range(Append(q, t)) = Range(q) \cup {t}
  BY <1>1 DEF Range
<1>3. q # <<>> => Head(Append(q, t)) = Head(q)
  <2>1. q # <<>> => Len(q) >= 1 /\ Head(q) = q[1]
    OBVIOUS
  <2>2. Head(Append(q, t)) = Append(q, t)[1]
    BY <1>1
  <2>3. QED BY <1>1, <2>1, <2>2
<1>4. QED BY <1>1, <1>2, <1>3

(* A new task keeps the queue free of duplicates. *)
LEMMA AppendOnce ==
    ASSUME NEW q \in Seq(Tasks), NEW t \in Tasks, t \notin Range(q),
           \A i, j \in DOMAIN q : q[i] = q[j] => i = j
    PROVE  \A i, j \in DOMAIN Append(q, t) : Append(q, t)[i] = Append(q, t)[j] => i = j
<1>1. /\ Len(q) \in Nat /\ DOMAIN q = 1 .. Len(q)
      /\ DOMAIN Append(q, t) = 1 .. Len(q) + 1
      /\ \A j \in 1 .. Len(q) : Append(q, t)[j] = q[j]
      /\ Append(q, t)[Len(q) + 1] = t
  OBVIOUS
<1>2. QED BY <1>1 DEF Range

(* The head is in the queue, and what is in the queue makes it nonempty. *)
LEMMA HeadIn ==
    ASSUME NEW q \in Seq(Tasks)
    PROVE  /\ q # <<>> => Head(q) \in Range(q) /\ Head(q) \in Tasks
           /\ Range(q) # {} => q # <<>>
           /\ Range(q) \subseteq Tasks
  BY DEF Range

(* Taking a task off the queue takes that task and no other, keeps the order *)
(* and so the head.                                                         *)
LEMMA UnqueuedStays ==
    ASSUME TypeOK, NEW t
    PROVE  /\ Unqueued(t) \in Seq(Tasks)
           /\ \A i, j \in DOMAIN Unqueued(t) : Unqueued(t)[i] = Unqueued(t)[j] => i = j
           /\ Range(Unqueued(t)) = Range(queue) \ {t}
           /\ queue # <<>> /\ Head(queue) # t =>
                 Unqueued(t) # <<>> /\ Head(Unqueued(t)) = Head(queue)
<1> DEFINE q == queue
<1>1. /\ q \in Seq(Tasks) /\ Len(q) \in Nat /\ DOMAIN q = 1 .. Len(q)
      /\ \A i, j \in DOMAIN q : q[i] = q[j] => i = j
      /\ \A i \in DOMAIN q : q[i] \in Tasks
  BY DEF TypeOK
<1>2. CASE t \notin Range(queue)
  BY <1>1, <1>2 DEF Unqueued
<1>3. CASE t \in Range(queue)
  <2> DEFINE k == CHOOSE j \in DOMAIN queue : queue[j] = t
             r == Unqueued(t)
  <2>1. k \in 1 .. Len(q) /\ q[k] = t
    BY <1>1, <1>3 DEF Range
  <2>2. r = [j \in 1 .. Len(q) - 1 |-> IF j < k THEN q[j] ELSE q[j + 1]]
    BY <1>3 DEF Unqueued
  <2> HIDE DEF k, q, r
  <2>3. /\ r \in Seq(Tasks) /\ Len(r) = Len(q) - 1 /\ DOMAIN r = 1 .. Len(q) - 1
    <3>1. \A j \in 1 .. Len(q) - 1 : (IF j < k THEN q[j] ELSE q[j + 1]) \in Tasks
      BY <1>1, <2>1
    <3>2. Len(q) - 1 \in Nat
      BY <1>1, <2>1
    <3>3. QED BY <2>2, <3>1, <3>2
  <2>4. \A i, j \in DOMAIN r : r[i] = r[j] => i = j
    <3> DEFINE from(i) == IF i < k THEN i ELSE i + 1
    <3>1. \A i \in DOMAIN r : from(i) \in DOMAIN q /\ r[i] = q[from(i)]
      BY <1>1, <2>1, <2>2, <2>3
    <3>2. \A i, j \in DOMAIN r : from(i) = from(j) => i = j
      BY <1>1, <2>1, <2>3
    <3> HIDE DEF from
    <3> QED
      BY <1>1, <3>1, <3>2
  <2>5. Range(r) = Range(q) \ {t}
    <3>1. ASSUME NEW x \in Range(r) PROVE x \in Range(q) \ {t}
      BY <1>1, <2>1, <2>2, <2>3, <3>1 DEF Range
    <3>2. ASSUME NEW x \in Range(q) \ {t} PROVE x \in Range(r)
      <4>1. PICK j \in 1 .. Len(q) : q[j] = x /\ j # k
        BY <1>1, <2>1, <3>2 DEF Range
      <4>2. CASE j < k
        <5>1. j \in DOMAIN r /\ r[j] = x
          BY <1>1, <2>1, <2>2, <2>3, <4>1, <4>2
        <5>2. QED BY <5>1 DEF Range
      <4>3. CASE j > k
        <5>1. j - 1 \in DOMAIN r /\ r[j - 1] = x
          BY <1>1, <2>1, <2>2, <2>3, <4>1, <4>3
        <5>2. QED BY <5>1 DEF Range
      <4>4. QED BY <1>1, <2>1, <4>1, <4>2, <4>3
    <3>3. QED BY <3>1, <3>2
  <2>6. q # <<>> /\ Head(q) # t => r # <<>> /\ Head(r) = Head(q)
    <3>1. SUFFICES ASSUME q # <<>>, Head(q) # t PROVE r # <<>> /\ Head(r) = Head(q)
      OBVIOUS
    <3>2. Head(q) = q[1] /\ k # 1
      BY <1>1, <2>1, <3>1
    <3>3. 1 \in DOMAIN r /\ r[1] = q[1]
      BY <1>1, <2>1, <2>2, <2>3, <3>2
    <3>4. QED BY <2>3, <3>2, <3>3
  <2>7. QED BY <2>3, <2>4, <2>5, <2>6 DEF q, r
<1>4. QED BY <1>2, <1>3

-----------------------------------------------------------------------------
LEMMA InitIInv == Init => IInv
<1> SUFFICES ASSUME Init PROVE IInv
  OBVIOUS
<1> USE DEF Init, NoCut
<1>1. TypeOK
  <2>1. killing \in [Cancellers -> Tasks \cup {NoTask}]
    OBVIOUS
  <2>2. /\ state \in [Tasks -> States] /\ log \in [Tasks -> Nat]
        /\ queue \in Seq(Tasks) /\ \A i, j \in DOMAIN queue : queue[i] = queue[j] => i = j
    BY DEF States
  <2>3. QED BY <2>1, <2>2 DEF TypeOK
<1>2. CutShape /\ NotUp /\ InHand /\ HeadInHand /\ Drained
  BY DEF CutShape, NotUp, InHand, HeadInHand, Drained
<1>3. RunningInHand /\ CommittedRan /\ SteerOfTask
  BY DEF RunningInHand, CommittedRan, SteerOfTask
<1>4. BetweenWrites /\ FiledOnly /\ QueueAgrees
  BY DEF BetweenWrites, FiledOnly, QueueAgrees, Range
<1>5. QED BY <1>1, <1>2, <1>3, <1>4 DEF IInv

(* Filing and taking back a task. *)
LEMMA FilingIInv ==
    ASSUME IInv, NEW t \in Tasks,
           Enqueue(t) \/ Enqueued(t) \/ Dequeue(t) \/ Dequeued(t)
    PROVE  IInv'
<1> USE DEF IInv, TypeOK, CutShape, NotUp, InHand, HeadInHand, RunningInHand,
        BetweenWrites, FiledOnly, QueueAgrees, CommittedRan, SteerOfTask, Drained,
        disk, live, past, NoCut, Cut, LoopFree, States, Tasks, AgentTasks, Emit
<1>1. CASE Enqueue(t)
  <2>1. TypeOK'
    BY <1>1
    DEF Enqueue
  <2>2. CutShape' /\ NotUp' /\ InHand'
    BY <1>1
    DEF Enqueue
  <2>3. HeadInHand' /\ RunningInHand'
    BY <1>1
    DEF Enqueue
  <2>4. BetweenWrites' /\ FiledOnly' /\ QueueAgrees'
    BY <1>1
    DEF Enqueue
  <2>5. CommittedRan' /\ SteerOfTask' /\ Drained'
    BY <1>1
    DEF Enqueue
  <2>6. QED BY <2>1, <2>2, <2>3, <2>4, <2>5
<1>2. CASE Enqueued(t)
  <2>1. /\ t \notin Range(queue) /\ queue' = Append(queue, t) /\ queue \in Seq(Tasks)
    BY <1>2 DEF Enqueued
  <2>2. /\ queue' \in Seq(Tasks) /\ queue' # <<>> /\ Range(queue') = Range(queue) \cup {t}
        /\ \A i, j \in DOMAIN queue' : queue'[i] = queue'[j] => i = j
        /\ queue # <<>> => Head(queue') = Head(queue)
    BY <2>1, AppendStays, AppendOnce
  <2>3. TypeOK'
    BY <1>2, <2>1, <2>2
    DEF Enqueued, EnsureDrainer
  <2>4. CutShape' /\ NotUp' /\ InHand'
    BY <1>2, <2>1, <2>2
    DEF Enqueued, EnsureDrainer
  <2>5. HeadInHand' /\ RunningInHand'
    BY <1>2, <2>1, <2>2
    DEF Enqueued, EnsureDrainer
  <2>6. BetweenWrites' /\ FiledOnly' /\ QueueAgrees'
    BY <1>2, <2>1, <2>2
    DEF Enqueued, EnsureDrainer
  <2>7. CommittedRan' /\ SteerOfTask' /\ Drained'
    BY <1>2, <2>1, <2>2
    DEF Enqueued, EnsureDrainer
  <2>8. QED BY <2>3, <2>4, <2>5, <2>6, <2>7
<1>3. CASE Dequeue(t)
  <2>1. /\ queue' \in Seq(Tasks) /\ Range(queue') = Range(queue) \ {t}
        /\ \A i, j \in DOMAIN queue' : queue'[i] = queue'[j] => i = j
        /\ queue # <<>> /\ Head(queue) # t => queue' # <<>> /\ Head(queue') = Head(queue)
    BY <1>3, UnqueuedStays DEF Dequeue
  <2>2. queue # <<>>
    BY <1>3, HeadIn DEF Dequeue
  <2>3. TypeOK'
    BY <1>3, <2>1, <2>2
    DEF Dequeue
  <2>4. CutShape' /\ NotUp' /\ InHand'
    BY <1>3, <2>1, <2>2
    DEF Dequeue
  <2>5. HeadInHand' /\ RunningInHand'
    BY <1>3, <2>1, <2>2
    DEF Dequeue
  <2>6. BetweenWrites' /\ FiledOnly' /\ QueueAgrees'
    BY <1>3, <2>1, <2>2
    DEF Dequeue
  <2>7. CommittedRan' /\ SteerOfTask' /\ Drained'
    BY <1>3, <2>1, <2>2
    DEF Dequeue
  <2>8. QED BY <2>3, <2>4, <2>5, <2>6, <2>7
<1>4. CASE Dequeued(t)
  <2>1. TypeOK'
    BY <1>4, HeadIn
    DEF Dequeued
  <2>2. CutShape' /\ NotUp' /\ InHand'
    BY <1>4, HeadIn
    DEF Dequeued
  <2>3. HeadInHand' /\ RunningInHand'
    BY <1>4, HeadIn
    DEF Dequeued
  <2>4. BetweenWrites' /\ FiledOnly' /\ QueueAgrees'
    BY <1>4, HeadIn
    DEF Dequeued
  <2>5. CommittedRan' /\ SteerOfTask' /\ Drained'
    BY <1>4, HeadIn
    DEF Dequeued
  <2>6. QED BY <2>1, <2>2, <2>3, <2>4, <2>5
<1>5. QED BY <1>1, <1>2, <1>3, <1>4

(* The drainer looks for a task. *)
LEMMA PeekIInv == ASSUME IInv, DrainerExits \/ Take PROVE IInv'
<1> USE DEF IInv, TypeOK, CutShape, NotUp, InHand, HeadInHand, RunningInHand,
        BetweenWrites, FiledOnly, QueueAgrees, CommittedRan, SteerOfTask, Drained,
        disk, live, past, NoCut, Cut, LoopFree, States, Tasks, AgentTasks, Emit
<1>1. CASE DrainerExits
  <2>1. TypeOK'
    BY <1>1
    DEF DrainerExits, MayPeek
  <2>2. CutShape' /\ NotUp' /\ InHand'
    BY <1>1
    DEF DrainerExits, MayPeek
  <2>3. HeadInHand' /\ RunningInHand'
    BY <1>1
    DEF DrainerExits, MayPeek
  <2>4. BetweenWrites' /\ FiledOnly' /\ QueueAgrees'
    BY <1>1
    DEF DrainerExits, MayPeek
  <2>5. CommittedRan' /\ SteerOfTask' /\ Drained'
    BY <1>1
    DEF DrainerExits, MayPeek
  <2>6. QED BY <2>1, <2>2, <2>3, <2>4, <2>5
<1>2. CASE Take
  <2>1. /\ Head(queue) \in Tasks /\ Head(queue) \in Range(queue) /\ stage = "none"
        /\ phase = "up" /\ cut.at \in {"none", "next"}
    BY <1>2, HeadIn DEF Take, MayPeek
  <2>2. TypeOK'
    BY <1>2, <2>1
    DEF Take, MayPeek
  <2>3. CutShape' /\ NotUp' /\ InHand'
    BY <1>2, <2>1
    DEF Take, MayPeek
  <2>4. HeadInHand' /\ RunningInHand'
    BY <1>2, <2>1
    DEF Take, MayPeek
  <2>5. BetweenWrites' /\ FiledOnly' /\ QueueAgrees'
    BY <1>2, <2>1
    DEF Take, MayPeek
  <2>6. CommittedRan' /\ SteerOfTask' /\ Drained'
    BY <1>2, <2>1
    DEF Take, MayPeek
  <2>7. QED BY <2>2, <2>3, <2>4, <2>5, <2>6
<1>3. QED BY <1>1, <1>2

(* The run of a task. *)
LEMMA RunIInv == ASSUME IInv, NEW t \in Tasks, Run(t) PROVE IInv'
<1> USE DEF IInv, TypeOK, CutShape, NotUp, InHand, HeadInHand, RunningInHand,
        BetweenWrites, FiledOnly, QueueAgrees, CommittedRan, SteerOfTask, Drained,
        disk, live, past, NoCut, Cut, LoopFree, States, Tasks, AgentTasks, Emit
<1>1. CASE Start(t)
  <2>1. TypeOK'
    BY <1>1, HeadIn
    DEF Start
  <2>2. CutShape' /\ NotUp' /\ InHand'
    BY <1>1, HeadIn
    DEF Start
  <2>3. HeadInHand' /\ RunningInHand'
    BY <1>1, HeadIn
    DEF Start
  <2>4. BetweenWrites' /\ FiledOnly' /\ QueueAgrees'
    BY <1>1, HeadIn
    DEF Start
  <2>5. CommittedRan' /\ SteerOfTask' /\ Drained'
    BY <1>1, HeadIn
    DEF Start
  <2>6. QED BY <2>1, <2>2, <2>3, <2>4, <2>5
<1>2. CASE StartRaises(t)
  <2>1. TypeOK'
    BY <1>2, HeadIn
    DEF StartRaises
  <2>2. CutShape' /\ NotUp' /\ InHand'
    BY <1>2, HeadIn
    DEF StartRaises
  <2>3. HeadInHand' /\ RunningInHand'
    BY <1>2, HeadIn
    DEF StartRaises
  <2>4. BetweenWrites' /\ FiledOnly' /\ QueueAgrees'
    BY <1>2, HeadIn
    DEF StartRaises
  <2>5. CommittedRan' /\ SteerOfTask' /\ Drained'
    BY <1>2, HeadIn
    DEF StartRaises
  <2>6. QED BY <2>1, <2>2, <2>3, <2>4, <2>5
<1>3. CASE FallBack(t)
  <2>1. TypeOK'
    BY <1>3
    DEF FallBack
  <2>2. CutShape' /\ NotUp' /\ InHand'
    BY <1>3
    DEF FallBack
  <2>3. HeadInHand' /\ RunningInHand'
    BY <1>3
    DEF FallBack
  <2>4. BetweenWrites' /\ FiledOnly' /\ QueueAgrees'
    BY <1>3
    DEF FallBack
  <2>5. CommittedRan' /\ SteerOfTask' /\ Drained'
    BY <1>3
    DEF FallBack
  <2>6. QED BY <2>1, <2>2, <2>3, <2>4, <2>5
<1>4. CASE AgentEnds(t)
  <2>1. TypeOK'
    BY <1>4
    DEF AgentEnds, Finish
  <2>2. CutShape' /\ NotUp' /\ InHand'
    BY <1>4
    DEF AgentEnds, Finish
  <2>3. HeadInHand' /\ RunningInHand'
    BY <1>4
    DEF AgentEnds, Finish
  <2>4. BetweenWrites' /\ FiledOnly' /\ QueueAgrees'
    BY <1>4
    DEF AgentEnds, Finish
  <2>5. CommittedRan' /\ SteerOfTask' /\ Drained'
    BY <1>4
    DEF AgentEnds, Finish
  <2>6. QED BY <2>1, <2>2, <2>3, <2>4, <2>5
<1>5. CASE Commits(t)
  <2>1. TypeOK'
    BY <1>5
    DEF Commits
  <2>2. CutShape' /\ NotUp' /\ InHand'
    BY <1>5
    DEF Commits
  <2>3. HeadInHand' /\ RunningInHand'
    BY <1>5
    DEF Commits
  <2>4. BetweenWrites' /\ FiledOnly' /\ QueueAgrees'
    BY <1>5
    DEF Commits
  <2>5. CommittedRan' /\ SteerOfTask' /\ Drained'
    BY <1>5
    DEF Commits
  <2>6. QED BY <2>1, <2>2, <2>3, <2>4, <2>5
<1>6. CASE GatesAwaited(t)
  <2>1. TypeOK'
    BY <1>6
    DEF GatesAwaited
  <2>2. CutShape' /\ NotUp' /\ InHand'
    BY <1>6
    DEF GatesAwaited
  <2>3. HeadInHand' /\ RunningInHand'
    BY <1>6
    DEF GatesAwaited
  <2>4. BetweenWrites' /\ FiledOnly' /\ QueueAgrees'
    BY <1>6
    DEF GatesAwaited
  <2>5. CommittedRan' /\ SteerOfTask' /\ Drained'
    BY <1>6
    DEF GatesAwaited
  <2>6. QED BY <2>1, <2>2, <2>3, <2>4, <2>5
<1>7. CASE GateFails(t)
  <2>1. TypeOK'
    BY <1>7
    DEF GateFails, Finish
  <2>2. CutShape' /\ NotUp' /\ InHand'
    BY <1>7
    DEF GateFails, Finish
  <2>3. HeadInHand' /\ RunningInHand'
    BY <1>7
    DEF GateFails, Finish
  <2>4. BetweenWrites' /\ FiledOnly' /\ QueueAgrees'
    BY <1>7
    DEF GateFails, Finish
  <2>5. CommittedRan' /\ SteerOfTask' /\ Drained'
    BY <1>7
    DEF GateFails, Finish
  <2>6. QED BY <2>1, <2>2, <2>3, <2>4, <2>5
<1>8. CASE Holds(t)
  <2>1. TypeOK'
    BY <1>8
    DEF Holds, AtGates, Finish
  <2>2. CutShape' /\ NotUp' /\ InHand'
    BY <1>8
    DEF Holds, AtGates, Finish
  <2>3. HeadInHand' /\ RunningInHand'
    BY <1>8
    DEF Holds, AtGates, Finish
  <2>4. BetweenWrites' /\ FiledOnly' /\ QueueAgrees'
    BY <1>8
    DEF Holds, AtGates, Finish
  <2>5. CommittedRan' /\ SteerOfTask' /\ Drained'
    BY <1>8
    DEF Holds, AtGates, Finish
  <2>6. QED BY <2>1, <2>2, <2>3, <2>4, <2>5
<1>9. CASE Promotes(t)
  <2>1. TypeOK'
    BY <1>9
    DEF Promotes, AtGates
  <2>2. CutShape' /\ NotUp' /\ InHand'
    BY <1>9
    DEF Promotes, AtGates
  <2>3. HeadInHand' /\ RunningInHand'
    BY <1>9
    DEF Promotes, AtGates
  <2>4. BetweenWrites' /\ FiledOnly' /\ QueueAgrees'
    BY <1>9
    DEF Promotes, AtGates
  <2>5. CommittedRan' /\ SteerOfTask' /\ Drained'
    BY <1>9
    DEF Promotes, AtGates
  <2>6. QED BY <2>1, <2>2, <2>3, <2>4, <2>5
<1>10. CASE PromotionEnds(t)
  <2>1. TypeOK'
    BY <1>10
    DEF PromotionEnds, Finish
  <2>2. CutShape' /\ NotUp' /\ InHand'
    BY <1>10
    DEF PromotionEnds, Finish
  <2>3. HeadInHand' /\ RunningInHand'
    BY <1>10
    DEF PromotionEnds, Finish
  <2>4. BetweenWrites' /\ FiledOnly' /\ QueueAgrees'
    BY <1>10
    DEF PromotionEnds, Finish
  <2>5. CommittedRan' /\ SteerOfTask' /\ Drained'
    BY <1>10
    DEF PromotionEnds, Finish
  <2>6. QED BY <2>1, <2>2, <2>3, <2>4, <2>5
<1>11. CASE Remove(t)
  <2>1. /\ queue' \in Seq(Tasks) /\ Range(queue') = Range(queue) \ {t}
        /\ \A i, j \in DOMAIN queue' : queue'[i] = queue'[j] => i = j
        /\ queue # <<>> /\ Head(queue) # t => queue' # <<>> /\ Head(queue') = Head(queue)
    BY <1>11, UnqueuedStays DEF Remove
  <2>2. TypeOK'
    BY <1>11, <2>1
    DEF Remove
  <2>3. CutShape' /\ NotUp' /\ InHand'
    BY <1>11, <2>1
    DEF Remove
  <2>4. HeadInHand' /\ RunningInHand'
    BY <1>11, <2>1
    DEF Remove
  <2>5. BetweenWrites' /\ FiledOnly' /\ QueueAgrees'
    BY <1>11, <2>1
    DEF Remove
  <2>6. CommittedRan' /\ SteerOfTask' /\ Drained'
    BY <1>11, <2>1
    DEF Remove
  <2>7. QED BY <2>2, <2>3, <2>4, <2>5, <2>6
<1>12. QED
  BY <1>1, <1>2, <1>3, <1>4, <1>5, <1>6, <1>7, <1>8, <1>9, <1>10, <1>11 DEF Run

(* The agent's output, and what the user does to a running task. *)
LEMMA UserIInv ==
    ASSUME IInv,
           \/ \E t \in Tasks : AgentStep(t)
           \/ \E c \in Cancellers : Cancel(c) \/ Killed(c)
           \/ Steer \/ DrainSteer
    PROVE  IInv'
<1> USE DEF IInv, TypeOK, CutShape, NotUp, InHand, HeadInHand, RunningInHand,
        BetweenWrites, FiledOnly, QueueAgrees, CommittedRan, SteerOfTask, Drained,
        disk, live, past, NoCut, Cut, LoopFree, States, Tasks, AgentTasks, Emit
<1>1. ASSUME NEW t \in Tasks, AgentStep(t) PROVE IInv'
  <2>1. TypeOK'
    BY <1>1
    DEF AgentStep
  <2>2. CutShape' /\ NotUp' /\ InHand'
    BY <1>1
    DEF AgentStep
  <2>3. HeadInHand' /\ RunningInHand'
    BY <1>1
    DEF AgentStep
  <2>4. BetweenWrites' /\ FiledOnly' /\ QueueAgrees'
    BY <1>1
    DEF AgentStep
  <2>5. CommittedRan' /\ SteerOfTask' /\ Drained'
    BY <1>1
    DEF AgentStep
  <2>6. QED BY <2>1, <2>2, <2>3, <2>4, <2>5
<1>2. ASSUME NEW c \in Cancellers, Cancel(c) PROVE IInv'
  <2>1. TypeOK'
    BY <1>2
    DEF Cancel, Cancellable
  <2>2. CutShape' /\ NotUp' /\ InHand'
    BY <1>2
    DEF Cancel, Cancellable
  <2>3. HeadInHand' /\ RunningInHand'
    BY <1>2
    DEF Cancel, Cancellable
  <2>4. BetweenWrites' /\ FiledOnly' /\ QueueAgrees'
    BY <1>2
    DEF Cancel, Cancellable
  <2>5. CommittedRan' /\ SteerOfTask' /\ Drained'
    BY <1>2
    DEF Cancel, Cancellable
  <2>6. QED BY <2>1, <2>2, <2>3, <2>4, <2>5
<1>3. ASSUME NEW c \in Cancellers, Killed(c) PROVE IInv'
  <2>1. TypeOK'
    BY <1>3
    DEF Killed
  <2>2. CutShape' /\ NotUp' /\ InHand'
    BY <1>3
    DEF Killed
  <2>3. HeadInHand' /\ RunningInHand'
    BY <1>3
    DEF Killed
  <2>4. BetweenWrites' /\ FiledOnly' /\ QueueAgrees'
    BY <1>3
    DEF Killed
  <2>5. CommittedRan' /\ SteerOfTask' /\ Drained'
    BY <1>3
    DEF Killed
  <2>6. QED BY <2>1, <2>2, <2>3, <2>4, <2>5
<1>4. CASE Steer
  <2>1. TypeOK'
    BY <1>4
    DEF Steer
  <2>2. CutShape' /\ NotUp' /\ InHand'
    BY <1>4
    DEF Steer
  <2>3. HeadInHand' /\ RunningInHand'
    BY <1>4
    DEF Steer
  <2>4. BetweenWrites' /\ FiledOnly' /\ QueueAgrees'
    BY <1>4
    DEF Steer
  <2>5. CommittedRan' /\ SteerOfTask' /\ Drained'
    BY <1>4
    DEF Steer
  <2>6. QED BY <2>1, <2>2, <2>3, <2>4, <2>5
<1>5. CASE DrainSteer
  <2>1. TypeOK'
    BY <1>5
    DEF DrainSteer
  <2>2. CutShape' /\ NotUp' /\ InHand'
    BY <1>5
    DEF DrainSteer
  <2>3. HeadInHand' /\ RunningInHand'
    BY <1>5
    DEF DrainSteer
  <2>4. BetweenWrites' /\ FiledOnly' /\ QueueAgrees'
    BY <1>5
    DEF DrainSteer
  <2>5. CommittedRan' /\ SteerOfTask' /\ Drained'
    BY <1>5
    DEF DrainSteer
  <2>6. QED BY <2>1, <2>2, <2>3, <2>4, <2>5
<1>6. QED BY <1>1, <1>2, <1>3, <1>4, <1>5

(* The process ends, boots and resumes the backlog. *)
LEMMA ProcessIInv ==
    ASSUME IInv,
           \/ Crash \/ CrashBooting \/ Boot \/ Resume
           \/ \E t \in Tasks : Interrupted(t)
    PROVE  IInv'
<1> USE DEF IInv, TypeOK, CutShape, NotUp, InHand, HeadInHand, RunningInHand,
        BetweenWrites, FiledOnly, QueueAgrees, CommittedRan, SteerOfTask, Drained,
        disk, live, past, NoCut, Cut, LoopFree, States, Tasks, AgentTasks, Emit
<1>1. CASE Crash
  <2>1. /\ queue' \in Seq(Tasks) /\ \A i, j \in DOMAIN queue' : queue'[i] = queue'[j] => i = j
        /\ state' \in [Tasks -> States] /\ log' \in [Tasks -> Nat] /\ crashes' \in Nat
    BY <1>1 DEF Crash
  <2>2. killing' \in [Cancellers -> Tasks \cup {NoTask}]
    BY <1>1 DEF Crash
  <2>3. TypeOK'
    BY <1>1, <2>1, <2>2
    DEF Crash
  <2>4. CutShape' /\ NotUp' /\ InHand'
    BY <1>1, <2>1, <2>2
    DEF Crash
  <2>5. HeadInHand' /\ RunningInHand'
    BY <1>1, <2>1, <2>2
    DEF Crash
  <2>6. BetweenWrites' /\ FiledOnly' /\ QueueAgrees'
    BY <1>1, <2>1, <2>2
    DEF Crash
  <2>7. CommittedRan' /\ SteerOfTask' /\ Drained'
    BY <1>1, <2>1, <2>2
    DEF Crash
  <2>8. QED BY <2>3, <2>4, <2>5, <2>6, <2>7
<1>2. CASE CrashBooting
  <2>1. TypeOK'
    BY <1>2
    DEF CrashBooting
  <2>2. CutShape' /\ NotUp' /\ InHand'
    BY <1>2
    DEF CrashBooting
  <2>3. HeadInHand' /\ RunningInHand'
    BY <1>2
    DEF CrashBooting
  <2>4. BetweenWrites' /\ FiledOnly' /\ QueueAgrees'
    BY <1>2
    DEF CrashBooting
  <2>5. CommittedRan' /\ SteerOfTask' /\ Drained'
    BY <1>2
    DEF CrashBooting
  <2>6. QED BY <2>1, <2>2, <2>3, <2>4, <2>5
<1>3. CASE Boot
  <2>1. TypeOK'
    BY <1>3
    DEF Boot
  <2>2. CutShape' /\ NotUp' /\ InHand'
    BY <1>3
    DEF Boot
  <2>3. HeadInHand' /\ RunningInHand'
    BY <1>3
    DEF Boot
  <2>4. BetweenWrites' /\ FiledOnly' /\ QueueAgrees'
    BY <1>3
    DEF Boot
  <2>5. CommittedRan' /\ SteerOfTask' /\ Drained'
    BY <1>3
    DEF Boot
  <2>6. QED BY <2>1, <2>2, <2>3, <2>4, <2>5
<1>4. CASE Resume
  <2>1. TypeOK'
    BY <1>4
    DEF Resume
  <2>2. CutShape' /\ NotUp' /\ InHand'
    BY <1>4
    DEF Resume
  <2>3. HeadInHand' /\ RunningInHand'
    BY <1>4
    DEF Resume
  <2>4. BetweenWrites' /\ FiledOnly' /\ QueueAgrees'
    BY <1>4
    DEF Resume
  <2>5. CommittedRan' /\ SteerOfTask' /\ Drained'
    BY <1>4
    DEF Resume
  <2>6. QED BY <2>1, <2>2, <2>3, <2>4, <2>5
<1>5. ASSUME NEW t \in Tasks, Interrupted(t) PROVE IInv'
  <2>1. /\ queue' \in Seq(Tasks) /\ Range(queue') = Range(queue) \ {t}
        /\ \A i, j \in DOMAIN queue' : queue'[i] = queue'[j] => i = j
        /\ queue # <<>> /\ Head(queue) # t => queue' # <<>> /\ Head(queue') = Head(queue)
    BY <1>5, UnqueuedStays DEF Interrupted
  <2>2. TypeOK'
    BY <1>5, <2>1
    DEF Interrupted
  <2>3. CutShape' /\ NotUp' /\ InHand'
    BY <1>5, <2>1
    DEF Interrupted
  <2>4. HeadInHand' /\ RunningInHand'
    BY <1>5, <2>1
    DEF Interrupted
  <2>5. BetweenWrites' /\ FiledOnly' /\ QueueAgrees'
    BY <1>5, <2>1
    DEF Interrupted
  <2>6. CommittedRan' /\ SteerOfTask' /\ Drained'
    BY <1>5, <2>1
    DEF Interrupted
  <2>7. QED BY <2>2, <2>3, <2>4, <2>5, <2>6
<1>6. QED BY <1>1, <1>2, <1>3, <1>4, <1>5

LEMMA StepIInv == IInv /\ [Next]_vars => IInv'
<1> SUFFICES ASSUME IInv, [Next]_vars PROVE IInv'
  OBVIOUS
<1>1. CASE UNCHANGED vars
  <2>1. UNCHANGED <<queue, state, currentFile, log, phase, cut, drainer, stage, current,
                    cancelReq, worker, steer, taskSeq, waiting, killing, committed, crashes>>
    BY <1>1 DEF vars, disk, live, past
  <2>2. TypeOK'
    BY <2>1 DEF IInv, TypeOK
  <2>3. QED
    BY <2>1, <2>2
    DEF IInv, CutShape, NotUp, InHand, HeadInHand, RunningInHand, BetweenWrites,
        FiledOnly, QueueAgrees, CommittedRan, SteerOfTask, Drained
<1>2. CASE Next
  BY <1>2, FilingIInv, PeekIInv, RunIInv, UserIInv, ProcessIInv DEF Next, Drain
<1>3. QED BY <1>1, <1>2

-----------------------------------------------------------------------------
(* Theorems *)

(* Every state the kernel reaches satisfies the inductive invariant. *)
THEOREM Invariant == Spec => []IInv
  BY InitIInv, StepIInv, PTL DEF Spec

(* The queue file, the status files and the kernel's memory stay well typed, *)
(* and the queue never holds a task twice.                                  *)
THEOREM TypeCorrect == Spec => []TypeOK
<1>1. IInv => TypeOK
  BY DEF IInv
<1>2. QED BY Invariant, <1>1, PTL

(* No enqueue slips past a drainer that is exiting, and no restart forgets   *)
(* the backlog: at every await a queue that is not empty has a drainer.      *)
THEOREM NoneSlipsPast == Spec => []BacklogIsDrained
<1>1. IInv => BacklogIsDrained
  BY DEF IInv, Drained, BacklogIsDrained, LoopFree
<1>2. QED BY Invariant, <1>1, PTL

(* At every await, also after kills, a status "running" is the task that     *)
(* runs, which is the head of the queue on disk; until a kernel is killed    *)
(* the queue is the unfinished tasks.                                       *)
THEOREM QueueIsRun == Spec => []QueueMatchesRun
<1>1. IInv => QueueMatchesRun
  BY DEF IInv, TypeOK, HeadInHand, RunningInHand, QueueAgrees, QueueMatchesRun, LoopFree, NoCut
<1>2. QED BY Invariant, <1>1, PTL

(* Unless the kernel is killed, a task reported as cancelled left no version. *)
THEOREM CancelledLeftNothing == Spec => []CancelledCommitsNothing
<1>1. IInv => CancelledCommitsNothing
  BY DEF IInv, CommittedRan, CancelledCommitsNothing
<1>2. QED BY Invariant, <1>1, PTL

(* No worker ever reads a message meant for another task. *)
THEOREM SteerIsOfTask == Spec => []SteerReachesItsTask
<1>1. IInv => SteerReachesItsTask
  BY DEF IInv, SteerOfTask, SteerReachesItsTask
<1>2. QED BY Invariant, <1>1, PTL
=============================================================================
