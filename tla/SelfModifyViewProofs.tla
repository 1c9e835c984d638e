------------------------ MODULE SelfModifyViewProofs ------------------------
(***************************************************************************)
(* Proofs about SelfModifyView.  The trace on screen comes from two places  *)
(* that know nothing of each other, the log of a snapshot and the events of *)
(* a stream, and the outcome on screen from a third, the status file.  The  *)
(* inductive invariant therefore follows what is known of a task from its   *)
(* status file and its log (what is recorded is final, what is logged is in *)
(* order) over the wire (a "done" on its way is of a task that is over, an   *)
(* answer that names an outcome names the recorded one) to the page.  What  *)
(* a page will agree on once everything has arrived rests on a second       *)
(* invariant, CourseInv: what it lacks is on its way.                       *)
(***************************************************************************)
EXTENDS SelfModifyView, TLAPS

InOrder(events) == \A i, j \in DOMAIN events : i < j => events[i].seq < events[j].seq
OfTask(events, t) == \A i \in DOMAIN events : events[i].task = t
UpTo(events, n) == \A i \in DOMAIN events : events[i].seq <= n

-----------------------------------------------------------------------------
(* The inductive invariant, in three layers: the kernel with the request    *)
(* that is on its way to it, the wire, and the page.                        *)
Waiting == {"queued", "running"}

KernelTyped ==
    /\ state \in [Tasks -> States]
    /\ queue \in Seq(Tasks)
    /\ latest \in Tasks \cup {NoTask}
    /\ log \in [Tasks -> Seq(Events)]
    /\ taskSeq \in Nat
    /\ killing \in Tasks \cup {NoTask}
    /\ held \subseteq Tasks
    /\ post \in [task : Tasks \cup {NoTask}, by : {"none", "composer", "proposal", "refused"}]

(* The queue holds what waits or runs, once; what runs is at its head and   *)
(* is the task current_task.json names.                                     *)
QueueShape ==
    /\ \A i, j \in DOMAIN queue : queue[i] = queue[j] => i = j
    /\ \A t \in Tasks : t \in Range(queue) <=> state[t] \in Waiting
    /\ \A t \in Tasks : state[t] = "running" => queue[1] = t /\ t = latest

(* What has not started has no log and no worker; what this page asked for  *)
(* is not filed yet; what is held is over.                                  *)
Unstarted ==
    /\ \A t \in Tasks : state[t] \in {"none", "queued"} => log[t] = <<>> /\ killing # t
    /\ post.by \in {"composer", "proposal"} => post.task \in Mine /\ state[post.task] = "none"
    /\ \A t \in held : Final(t)

(* Only the log of the latest task is certain to be in order: a             *)
(* cancellation is stamped with whatever counter it finds.                  *)
LogInOrder ==
    /\ \A t \in Tasks : OfTask(log[t], t)
    /\ latest # NoTask => InOrder(log[latest]) /\ UpTo(log[latest], taskSeq)

KernelInv == KernelTyped /\ QueueShape /\ Unstarted /\ LogInOrder

SnapshotTyped ==
    snapshot \in [at : {"none", "asked"}]
                 \cup [at : {"answered"}, task : Tasks, events : Seq(Events), state : States]

DecidingTyped ==
    deciding \in [what : {"none", "approve", "reject", "retire"}, task : Tasks \cup {NoTask},
                  answer : {"none", "asked", "ok", "unhealthy", "refused"}]

StreamKnows ==
    /\ stream \in Seq(Events)
    /\ \A i \in DOMAIN stream : stream[i].kind = "done" => Final(stream[i].task)

SnapshotKnows ==
    snapshot.at = "answered" =>
       /\ OfTask(snapshot.events, snapshot.task) /\ InOrder(snapshot.events)
       /\ snapshot.state \in Outcomes => state[snapshot.task] = snapshot.state

ViewTyped ==
    view \in [task : Tasks \cup {NoTask}, lastSeq : Nat, log : Seq(Events),
              running : BOOLEAN, result : {"none"} \cup Outcomes]

ViewKnows ==
    /\ OfTask(view.log, view.task) /\ InOrder(view.log) /\ UpTo(view.log, view.lastSeq)
    /\ view.result # "none" => view.task # NoTask /\ view.result = state[view.task]

Flags ==
    /\ appUp \in BOOLEAN /\ connected \in BOOLEAN /\ mounted \in BOOLEAN
    /\ overlay \in BOOLEAN /\ astray \in BOOLEAN

IInv ==
    /\ KernelInv
    /\ SnapshotTyped /\ DecidingTyped /\ StreamKnows /\ SnapshotKnows
    /\ ViewTyped /\ ViewKnows
    /\ Flags /\ faults \in Nat

-----------------------------------------------------------------------------
(* Lemmas about the queue. *)

(* A task that joins the queue is its last, and the head stays. *)
LEMMA AppendStays ==
    ASSUME NEW q \in Seq(Tasks), NEW t \in Tasks, t \notin Range(q),
           \A i, j \in DOMAIN q : q[i] = q[j] => i = j
    PROVE  /\ Append(q, t) \in Seq(Tasks)
           /\ Range(Append(q, t)) = Range(q) \cup {t}
           /\ q # <<>> => Append(q, t)[1] = q[1]
           /\ \A i, j \in DOMAIN Append(q, t) : Append(q, t)[i] = Append(q, t)[j] => i = j
<1>1. /\ Append(q, t) \in Seq(Tasks) /\ Len(q) \in Nat /\ DOMAIN q = 1 .. Len(q)
      /\ DOMAIN Append(q, t) = 1 .. Len(q) + 1
      /\ \A j \in 1 .. Len(q) : Append(q, t)[j] = q[j]
      /\ Append(q, t)[Len(q) + 1] = t
  OBVIOUS
<1>2. Range(Append(q, t)) = Range(q) \cup {t}
  BY <1>1 DEF Range
<1>3. q # <<>> => Append(q, t)[1] = q[1]
  BY <1>1
<1>4. \A i, j \in DOMAIN Append(q, t) : Append(q, t)[i] = Append(q, t)[j] => i = j
  BY <1>1 DEF Range
<1>5. QED BY <1>1, <1>2, <1>3, <1>4

(* What leaves a queue without duplicates leaves the order, and so the head *)
(* unless it was the head that left.                                        *)
LeftBy(q, r, t) ==
    /\ r \in Seq(Tasks)
    /\ \A i, j \in DOMAIN r : r[i] = r[j] => i = j
    /\ Range(r) = Range(q) \ {t}
    /\ q # <<>> /\ q[1] # t => r[1] = q[1]

LEMMA TailLeaves ==
    ASSUME NEW q \in Seq(Tasks), q # <<>>, \A i, j \in DOMAIN q : q[i] = q[j] => i = j
    PROVE  LeftBy(q, Tail(q), q[1])
<1> DEFINE r == Tail(q)
<1>1. /\ r \in Seq(Tasks) /\ Len(q) \in Nat /\ Len(q) >= 1 /\ DOMAIN q = 1 .. Len(q)
      /\ DOMAIN r = 1 .. Len(q) - 1
      /\ \A j \in 1 .. Len(q) - 1 : r[j] = q[j + 1]
  OBVIOUS
<1>2. \A i, j \in DOMAIN r : r[i] = r[j] => i = j
  BY <1>1
<1> HIDE DEF r
<1>3. ASSUME NEW x \in Range(r) PROVE x \in Range(q) \ {q[1]}
  BY <1>1, <1>3 DEF Range
<1>4. ASSUME NEW x \in Range(q) \ {q[1]} PROVE x \in Range(r)
  <2>1. PICK j \in 1 .. Len(q) : q[j] = x /\ j # 1
    BY <1>1, <1>4 DEF Range
  <2>2. j - 1 \in DOMAIN r /\ r[j - 1] = x
    BY <1>1, <2>1
  <2>3. QED BY <2>2 DEF Range
<1>5. QED BY <1>1, <1>2, <1>3, <1>4 DEF r, LeftBy

LEMMA UnqueuedLeaves ==
    ASSUME queue \in Seq(Tasks), \A i, j \in DOMAIN queue : queue[i] = queue[j] => i = j, NEW t
    PROVE  LeftBy(queue, Unqueued(t), t)
<1> DEFINE q == queue
<1>1. /\ q \in Seq(Tasks) /\ Len(q) \in Nat /\ DOMAIN q = 1 .. Len(q)
      /\ \A i, j \in DOMAIN q : q[i] = q[j] => i = j
      /\ \A i \in DOMAIN q : q[i] \in Tasks
  OBVIOUS
<1>2. CASE t \notin Range(queue)
  BY <1>1, <1>2 DEF Unqueued, LeftBy
<1>3. CASE t \in Range(queue)
  <2> DEFINE k == CHOOSE j \in DOMAIN queue : queue[j] = t
             r == Unqueued(t)
  <2>1. k \in 1 .. Len(q) /\ q[k] = t
    BY <1>1, <1>3 DEF Range
  <2>2. r = [j \in 1 .. Len(q) - 1 |-> IF j < k THEN q[j] ELSE q[j + 1]]
    BY <1>3 DEF Unqueued
  <2> HIDE DEF k, q, r
  <2>3. /\ r \in Seq(Tasks) /\ Len(r) = Len(q) - 1 /\ DOMAIN r = 1 .. Len(q) - 1
    <3>1. \A j \in 1 .. Len(q) - 1 : (IF j < k THEN q[j] ELSE q[j + 1]) \in Tasks
      BY <1>1, <2>1
    <3>2. Len(q) - 1 \in Nat
      BY <1>1, <2>1
    <3>3. QED BY <2>2, <3>1, <3>2
  <2>4. \A i, j \in DOMAIN r : r[i] = r[j] => i = j
    <3> DEFINE At(i) == IF i < k THEN i ELSE i + 1
    <3>1. \A i \in DOMAIN r : At(i) \in DOMAIN q /\ r[i] = q[At(i)]
      BY <1>1, <2>1, <2>2, <2>3
    <3>2. \A i, j \in DOMAIN r : At(i) = At(j) => i = j
      BY <1>1, <2>1, <2>3
    <3> HIDE DEF At
    <3>3. QED BY <1>1, <3>1, <3>2
  <2>5. Range(r) = Range(q) \ {t}
    <3>1. ASSUME NEW x \in Range(r) PROVE x \in Range(q) \ {t}
      <4>1. PICK j \in 1 .. Len(q) - 1 : r[j] = x
        BY <2>3, <3>1 DEF Range
      <4>2. PICK i \in 1 .. Len(q) : q[i] = x /\ i # k
        BY <1>1, <2>1, <2>2, <4>1
      <4>3. x # t
        BY <1>1, <2>1, <4>2
      <4>4. QED BY <1>1, <4>2, <4>3 DEF Range
    <3>2. ASSUME NEW x \in Range(q) \ {t} PROVE x \in Range(r)
      <4>1. PICK j \in 1 .. Len(q) : q[j] = x /\ j # k
        BY <1>1, <2>1, <3>2 DEF Range
      <4>2. CASE j < k
        <5>1. j \in DOMAIN r /\ r[j] = x
          BY <1>1, <2>1, <2>2, <2>3, <4>1, <4>2
        <5>2. QED BY <5>1 DEF Range
      <4>3. CASE j > k
        <5>1. j - 1 \in DOMAIN r /\ r[j - 1] = x
          BY <1>1, <2>1, <2>2, <2>3, <4>1, <4>3
        <5>2. QED BY <5>1 DEF Range
      <4>4. QED BY <1>1, <2>1, <4>1, <4>2, <4>3
    <3>3. QED BY <3>1, <3>2
  <2>6. q # <<>> /\ q[1] # t => r[1] = q[1]
    <3>1. q[1] # t => k # 1 /\ 1 \in 1 .. Len(q) - 1 /\ 1 < k
      BY <1>1, <2>1
    <3>2. QED BY <2>2, <3>1
  <2>7. QED BY <2>3, <2>4, <2>5, <2>6 DEF q, r, LeftBy
<1>4. QED BY <1>2, <1>3

-----------------------------------------------------------------------------
(* Lemmas about logs. *)

(* What one step publishes: consecutive events of one task. *)
Published(e, t, from, n) ==
    /\ e \in Seq(Events) /\ Len(e) = n
    /\ \A i \in 1 .. n : e[i].task = t /\ e[i].seq = from + i

(* The step that publishes them. *)
Publishes(e, t, kinds, from, n) ==
    /\ Published(e, t, from, n)
    /\ \A i \in 1 .. n : e[i].kind = kinds[i]
    /\ taskSeq' = from + n
    /\ log' = [log EXCEPT ![t] = @ \o e]
    /\ stream' = IF connected THEN stream \o e ELSE stream

LEMMA Emitted ==
    ASSUME NEW t \in Tasks, NEW kinds \in Seq(Kinds), NEW from \in Nat, NEW n \in Nat,
           Len(kinds) = n, Emit(t, kinds, from)
    PROVE  \E e \in Seq(Events) : Publishes(e, t, kinds, from, n)
<1> DEFINE e == [i \in DOMAIN kinds |-> [task |-> t, seq |-> from + i, kind |-> kinds[i]]]
<1>1. DOMAIN kinds = 1 .. n
      /\ \A i \in 1 .. n : kinds[i] \in Kinds /\ from + i \in Nat
  OBVIOUS
<1>2. \A i \in 1 .. n : [task |-> t, seq |-> from + i, kind |-> kinds[i]] \in Events
  BY <1>1 DEF Events
<1>3. e \in Seq(Events) /\ Len(e) = n
  BY <1>1, <1>2
<1>4. \A i \in 1 .. n : e[i].task = t /\ e[i].seq = from + i /\ e[i].kind = kinds[i]
  BY <1>1
<1>5. /\ taskSeq' = from + n
      /\ log' = [log EXCEPT ![t] = @ \o e]
      /\ stream' = IF connected THEN stream \o e ELSE stream
  BY DEF Emit
<1> HIDE DEF e
<1>6. QED BY <1>3, <1>4, <1>5 DEF Published, Publishes

(* A log grows by what is published, and stays of its task. *)
LEMMA GrowsOfTask ==
    ASSUME NEW t \in Tasks, NEW l \in Seq(Events), OfTask(l, t),
           NEW e, NEW from \in Nat, NEW n \in Nat, Published(e, t, from, n)
    PROVE  l \o e \in Seq(Events) /\ OfTask(l \o e, t)
<1>1. /\ l \o e \in Seq(Events) /\ Len(l) \in Nat /\ DOMAIN l = 1 .. Len(l)
      /\ DOMAIN (l \o e) = 1 .. Len(l) + n
      /\ \A i \in 1 .. Len(l) : (l \o e)[i] = l[i]
      /\ \A i \in Len(l) + 1 .. Len(l) + n : (l \o e)[i] = e[i - Len(l)]
  <2>1. e \in Seq(Events) /\ Len(e) = n
    BY DEF Published
  <2>2. QED BY <2>1
<1>2. \A i \in Len(l) + 1 .. Len(l) + n : i - Len(l) \in 1 .. n
  BY <1>1
<1>3. QED BY <1>1, <1>2 DEF Published, OfTask

(* Numbered on from the last of a log, what is published keeps it in order. *)
LEMMA GrowsInOrder ==
    ASSUME NEW t \in Tasks, NEW l \in Seq(Events), NEW from \in Nat,
           InOrder(l), UpTo(l, from),
           NEW e, NEW n \in Nat, Published(e, t, from, n)
    PROVE  InOrder(l \o e) /\ UpTo(l \o e, from + n)
<1> DEFINE g == l \o e
<1>1. /\ Len(l) \in Nat /\ DOMAIN l = 1 .. Len(l)
      /\ DOMAIN g = 1 .. Len(l) + n
      /\ \A i \in 1 .. Len(l) : g[i] = l[i]
      /\ \A i \in Len(l) + 1 .. Len(l) + n : g[i] = e[i - Len(l)]
  <2>1. e \in Seq(Events) /\ Len(e) = n
    BY DEF Published
  <2>2. QED BY <2>1
<1>2. \A i \in 1 .. Len(l) : l[i].seq \in Nat /\ l[i].seq <= from
  <2>1. \A i \in 1 .. Len(l) : l[i] \in Events
    BY <1>1
  <2>2. QED BY <1>1, <2>1 DEF UpTo, Events
<1>3. \A i \in Len(l) + 1 .. Len(l) + n : i - Len(l) \in 1 .. n
  BY <1>1
<1>4. \A i \in Len(l) + 1 .. Len(l) + n : g[i].seq = from + (i - Len(l))
  BY <1>1, <1>3 DEF Published
<1> HIDE DEF g
<1>5. InOrder(g)
  <2> SUFFICES ASSUME NEW i \in 1 .. Len(l) + n, NEW j \in 1 .. Len(l) + n, i < j
               PROVE  g[i].seq < g[j].seq
    BY <1>1 DEF InOrder
  <2>1. CASE j <= Len(l)
    <3>1. i \in 1 .. Len(l) /\ j \in 1 .. Len(l)
      BY <1>1, <2>1
    <3>2. QED BY <1>1, <3>1 DEF InOrder
  <2>2. CASE i <= Len(l) /\ j > Len(l)
    <3>1. i \in 1 .. Len(l) /\ j \in Len(l) + 1 .. Len(l) + n
      BY <1>1, <2>2
    <3>2. g[i].seq \in Nat /\ g[i].seq <= from /\ g[j].seq = from + (j - Len(l))
      BY <1>1, <1>2, <1>4, <3>1
    <3>3. QED BY <1>1, <3>1, <3>2
  <2>3. CASE i > Len(l)
    <3>1. i \in Len(l) + 1 .. Len(l) + n /\ j \in Len(l) + 1 .. Len(l) + n
      BY <1>1, <2>3
    <3>2. g[i].seq = from + (i - Len(l)) /\ g[j].seq = from + (j - Len(l))
      BY <1>4, <3>1
    <3>3. QED BY <1>1, <3>1, <3>2
  <2>4. QED BY <1>1, <2>1, <2>2, <2>3
<1>6. UpTo(g, from + n)
  <2> SUFFICES ASSUME NEW i \in 1 .. Len(l) + n PROVE g[i].seq <= from + n
    BY <1>1 DEF UpTo
  <2>1. CASE i \in 1 .. Len(l)
    BY <1>1, <1>2, <2>1
  <2>2. CASE i \in Len(l) + 1 .. Len(l) + n
    BY <1>1, <1>4, <2>2
  <2>3. QED BY <1>1, <2>1, <2>2
<1>7. QED BY <1>5, <1>6 DEF g

(* The number of the last event bounds the others'. *)
LEMMA LastSeqBounds ==
    ASSUME NEW l \in Seq(Events), InOrder(l)
    PROVE  LastSeq(l) \in Nat /\ UpTo(l, LastSeq(l))
<1>1. Len(l) \in Nat /\ DOMAIN l = 1 .. Len(l) /\ \A i \in 1 .. Len(l) : l[i].seq \in Nat
  <2>1. /\ Len(l) \in Nat /\ DOMAIN l = 1 .. Len(l)
        /\ \A i \in 1 .. Len(l) : l[i] \in Events
    OBVIOUS
  <2>2. QED BY <2>1 DEF Events
<1>2. CASE l = <<>>
  BY <1>2 DEF LastSeq, UpTo
<1>3. CASE l # <<>>
  <2>1. Len(l) \in 1 .. Len(l)
    BY <1>1, <1>3
  <2>2. l[Len(l)].seq \in SeqsOf(l)
    BY <1>1, <2>1 DEF SeqsOf
  <2>3. \A i \in 1 .. Len(l) : l[i].seq <= l[Len(l)].seq
    <3> TAKE i \in 1 .. Len(l)
    <3>1. i < Len(l) => l[i].seq < l[Len(l)].seq
      BY <1>1, <2>1 DEF InOrder
    <3>2. QED BY <1>1, <2>1, <3>1
  <2>4. \A m \in SeqsOf(l) : m <= l[Len(l)].seq
    BY <1>1, <2>3 DEF SeqsOf
  <2>5. LastSeq(l) \in SeqsOf(l) /\ \A m \in SeqsOf(l) : m <= LastSeq(l)
    BY <1>3, <2>2, <2>4 DEF LastSeq
  <2>6. QED BY <1>1, <2>5 DEF SeqsOf, UpTo
<1>4. QED BY <1>2, <1>3

-----------------------------------------------------------------------------
(* The kernel's layer. *)

(* What has an outcome keeps it. *)
Recorded == \A t \in Tasks : Final(t) => state'[t] = state[t]

LEMMA KernelKept ==
    ASSUME KernelInv, UNCHANGED <<kernel, post>>
    PROVE  KernelInv' /\ Recorded
  BY DEF KernelInv, KernelTyped, QueueShape, Unstarted, LogInOrder, kernel, Final, Recorded

(* A request is sent, dropped or refused. *)
LEMMA PostMoves ==
    ASSUME KernelInv, UNCHANGED kernel,
           post' \in [task : Tasks \cup {NoTask}, by : {"none", "composer", "proposal", "refused"}],
           post'.by \in {"composer", "proposal"} =>
              post'.task \in Mine /\ state[post'.task] = "none"
    PROVE  KernelInv' /\ Recorded
  BY DEF KernelInv, KernelTyped, QueueShape, Unstarted, LogInOrder, kernel, Final, Recorded

(* A task that waits, or runs, comes to an end. *)
LEMMA Ends ==
    ASSUME KernelInv, NEW t \in Tasks, NEW o \in Outcomes, state[t] \in Waiting,
           state' = [state EXCEPT ![t] = o], LeftBy(queue, queue', t), latest' = latest
    PROVE  /\ state' \in [Tasks -> States] /\ queue' \in Seq(Tasks) /\ QueueShape'
           /\ Recorded /\ Final(t)'
           /\ \A u \in Tasks : state'[u] \in {"none", "queued"} => state[u] = state'[u]
           /\ \A u \in Tasks : state[u] = "none" => state'[u] = "none"
<1>1. /\ state \in [Tasks -> States] /\ o \in States
      /\ \A u \in Tasks : state'[u] = IF u = t THEN o ELSE state[u]
      /\ o \notin Waiting /\ o \notin {"none", "queued", "running"}
  BY DEF KernelInv, KernelTyped, States, Outcomes, Waiting
<1>2. state' \in [Tasks -> States]
  BY <1>1
<1>3. QueueShape'
  <2>1. /\ \A i, j \in DOMAIN queue' : queue'[i] = queue'[j] => i = j
        /\ Range(queue') = Range(queue) \ {t}
        /\ queue # <<>> /\ queue[1] # t => queue'[1] = queue[1]
    BY DEF LeftBy
  <2>2. \A u \in Tasks : u \in Range(queue') <=> state'[u] \in Waiting
    BY <1>1, <2>1 DEF KernelInv, QueueShape
  <2>3. ASSUME NEW u \in Tasks, state'[u] = "running" PROVE queue'[1] = u /\ u = latest'
    <3>1. u # t /\ state[u] = "running"
      BY <1>1, <2>3
    <3>2. queue[1] = u /\ u = latest /\ u \in Range(queue)
      BY <3>1 DEF KernelInv, QueueShape, Waiting
    <3>3. queue # <<>>
      BY <3>2 DEF Range
    <3>4. QED BY <2>1, <3>1, <3>2, <3>3
  <2>4. QED BY <2>1, <2>2, <2>3 DEF QueueShape
<1>4. Recorded /\ Final(t)'
  BY <1>1 DEF Recorded, Final, Waiting, Outcomes
<1>5. QED BY <1>1, <1>2, <1>3, <1>4 DEF LeftBy, Waiting

(* A task is filed. *)
LEMMA Joins ==
    ASSUME KernelInv, NEW t \in Tasks, state[t] = "none",
           state' = [state EXCEPT ![t] = "queued"], queue' = Append(queue, t), latest' = latest
    PROVE  /\ state' \in [Tasks -> States] /\ queue' \in Seq(Tasks) /\ QueueShape'
           /\ Recorded
           /\ \A u \in Tasks : u # t => state'[u] = state[u]
<1>1. /\ state \in [Tasks -> States] /\ queue \in Seq(Tasks) /\ "queued" \in States
      /\ \A u \in Tasks : state'[u] = IF u = t THEN "queued" ELSE state[u]
  BY DEF KernelInv, KernelTyped, States
<1>2. t \notin Range(queue)
  BY DEF KernelInv, QueueShape, Waiting
<1>3. /\ queue' \in Seq(Tasks) /\ Range(queue') = Range(queue) \cup {t}
      /\ queue # <<>> => queue'[1] = queue[1]
      /\ \A i, j \in DOMAIN queue' : queue'[i] = queue'[j] => i = j
  BY <1>1, <1>2, AppendStays DEF KernelInv, QueueShape
<1>4. state' \in [Tasks -> States]
  BY <1>1
<1>5. QueueShape'
  <2>1. \A u \in Tasks : u \in Range(queue') <=> state'[u] \in Waiting
    BY <1>1, <1>3 DEF KernelInv, QueueShape, Waiting
  <2>2. ASSUME NEW u \in Tasks, state'[u] = "running" PROVE queue'[1] = u /\ u = latest'
    <3>1. state[u] = "running"
      BY <1>1, <2>2
    <3>2. queue[1] = u /\ u = latest /\ u \in Range(queue)
      BY <3>1 DEF KernelInv, QueueShape, Waiting
    <3>3. queue # <<>>
      BY <3>2 DEF Range
    <3>4. QED BY <1>3, <3>2, <3>3
  <2>3. QED BY <1>3, <2>1, <2>2 DEF QueueShape
<1>6. Recorded
  BY <1>1 DEF Recorded, Final, Outcomes
<1>7. QED BY <1>1, <1>3, <1>4, <1>5, <1>6

(* Events are logged, numbered on from the counter. *)
LEMMA Logs ==
    ASSUME KernelInv, NEW t \in Tasks, NEW e, NEW n \in Nat, Published(e, t, taskSeq, n),
           log' = [log EXCEPT ![t] = @ \o e], taskSeq' = taskSeq + n, latest' = latest
    PROVE  /\ log' \in [Tasks -> Seq(Events)] /\ taskSeq' \in Nat /\ LogInOrder'
           /\ \A u \in Tasks : u # t => log'[u] = log[u]
<1>1. /\ log \in [Tasks -> Seq(Events)] /\ taskSeq \in Nat /\ latest \in Tasks \cup {NoTask}
      /\ \A u \in Tasks : OfTask(log[u], u)
      /\ latest # NoTask => InOrder(log[latest]) /\ UpTo(log[latest], taskSeq)
      /\ \A u \in Tasks : log'[u] = IF u = t THEN log[t] \o e ELSE log[u]
  BY DEF KernelInv, KernelTyped, LogInOrder
<1>2. log[t] \in Seq(Events)
  BY <1>1
<1>3. log[t] \o e \in Seq(Events) /\ OfTask(log[t] \o e, t)
  BY <1>1, <1>2, GrowsOfTask
<1>4. t = latest => InOrder(log[t] \o e) /\ UpTo(log[t] \o e, taskSeq + n)
  BY <1>1, <1>2, GrowsInOrder, TasksAssumption
<1>5. log' \in [Tasks -> Seq(Events)]
  BY <1>1, <1>3
<1>6. \A u \in Tasks : OfTask(log'[u], u)
  BY <1>1, <1>3
<1>7. latest # NoTask => InOrder(log'[latest]) /\ UpTo(log'[latest], taskSeq + n)
  <2>1. CASE latest = t
    BY <1>1, <1>4, <2>1
  <2>2. CASE latest # t /\ latest # NoTask
    <3>1. /\ log'[latest] = log[latest] /\ log[latest] \in Seq(Events)
          /\ InOrder(log[latest]) /\ UpTo(log[latest], taskSeq)
      BY <1>1, <2>2
    <3>2. /\ DOMAIN log[latest] = 1 .. Len(log[latest])
          /\ \A i \in 1 .. Len(log[latest]) : log[latest][i] \in Events
      BY <3>1
    <3>3. \A i \in DOMAIN log[latest] : log[latest][i].seq \in Nat
      BY <3>2 DEF Events
    <3>4. UpTo(log[latest], taskSeq + n)
      BY <1>1, <3>1, <3>3 DEF UpTo
    <3>5. QED BY <3>1, <3>4
  <2>3. QED BY <2>1, <2>2
<1>8. QED BY <1>1, <1>5, <1>6, <1>7 DEF LogInOrder

LEMMA StartKeeps ==
    ASSUME KernelInv, NEW t \in Tasks, Start(t)
    PROVE  KernelInv' /\ Recorded
<1>1. /\ state \in [Tasks -> States] /\ queue \in Seq(Tasks) /\ log \in [Tasks -> Seq(Events)]
      /\ queue # <<>> /\ t = Head(queue) /\ state[t] = "queued" /\ latest' = t
      /\ \A u \in Tasks : state'[u] = IF u = t THEN "running" ELSE state[u]
      /\ state' \in [Tasks -> States]
      /\ Emit(t, <<"request">>, 0)
      /\ UNCHANGED <<queue, killing, held, post>>
  BY DEF Start, OnlyEmits, KernelInv, KernelTyped, States
<1>2. t = queue[1]
  BY <1>1
<1>3. PICK e \in Seq(Events) : Publishes(e, t, <<"request">>, 0, 1)
  <2>1. <<"request">> \in Seq(Kinds) /\ Len(<<"request">>) = 1
    BY DEF Kinds
  <2>2. 0 \in Nat /\ 1 \in Nat /\ 0 + 1 = 1
    OBVIOUS
  <2>3. Emit(t, <<"request">>, 0)
    BY <1>1
  <2>4. QED BY <2>1, <2>2, <2>3, Emitted
<1>31. Published(e, t, 0, 1) /\ taskSeq' = 1 /\ log' = [log EXCEPT ![t] = @ \o e]
  BY <1>3 DEF Publishes
<1>4. log[t] = <<>>
  BY <1>1 DEF KernelInv, Unstarted
<1>5. <<>> \in Seq(Events) /\ OfTask(<<>>, t) /\ InOrder(<<>>) /\ UpTo(<<>>, 0)
  BY DEF OfTask, InOrder, UpTo
<1>6. <<>> \o e \in Seq(Events) /\ OfTask(<<>> \o e, t)
  BY <1>3, <1>31, <1>5, GrowsOfTask
<1>7. InOrder(<<>> \o e) /\ UpTo(<<>> \o e, 1)
  <2>1. 0 \in Nat /\ 1 \in Nat /\ 0 + 1 = 1
    OBVIOUS
  <2>2. QED BY <1>3, <1>31, <1>5, <2>1, GrowsInOrder
<1>8. \A u \in Tasks : log'[u] = IF u = t THEN <<>> \o e ELSE log[u]
  BY <1>1, <1>3, <1>31, <1>4
<1>9. log' \in [Tasks -> Seq(Events)]
  BY <1>1, <1>3, <1>31, <1>4, <1>6
<1>10. KernelTyped'
  BY <1>1, <1>3, <1>31, <1>9 DEF KernelInv, KernelTyped
<1>11. QueueShape'
  <2>1. \A u \in Tasks : u \in Range(queue') <=> state'[u] \in Waiting
    BY <1>1 DEF KernelInv, QueueShape, Waiting
  <2>2. \A u \in Tasks : state'[u] = "running" => u = t
    BY <1>1, <1>2 DEF KernelInv, QueueShape
  <2>3. QED BY <1>1, <1>2, <2>1, <2>2 DEF KernelInv, QueueShape
<1>12. Unstarted'
  <2>1. ASSUME NEW u \in Tasks, state'[u] \in {"none", "queued"}
        PROVE  log'[u] = <<>> /\ killing' # u
    <3>1. u # t /\ state[u] \in {"none", "queued"}
      BY <1>1, <2>1
    <3>2. QED BY <1>1, <1>8, <3>1 DEF KernelInv, Unstarted
  <2>2. post'.by \in {"composer", "proposal"} =>
           post'.task \in Mine /\ state'[post'.task] = "none"
    BY <1>1 DEF KernelInv, Unstarted, Tasks
  <2>3. \A u \in held' : Final(u)'
    BY <1>1 DEF KernelInv, KernelTyped, Unstarted, Final, Outcomes
  <2>4. QED BY <2>1, <2>2, <2>3 DEF Unstarted
<1>13. LogInOrder'
  <2>1. \A u \in Tasks : OfTask(log'[u], u)
    BY <1>6, <1>8 DEF KernelInv, LogInOrder
  <2>2. InOrder(log'[t]) /\ UpTo(log'[t], 1)
    BY <1>7, <1>8
  <2>3. QED BY <1>1, <1>3, <1>31, <2>1, <2>2 DEF LogInOrder
<1>14. Recorded
  BY <1>1 DEF Recorded, Final, Outcomes
<1>15. QED BY <1>10, <1>11, <1>12, <1>13, <1>14 DEF KernelInv

LEMMA StepKeeps ==
    ASSUME KernelInv, NEW t \in Tasks, Step(t)
    PROVE  KernelInv' /\ Recorded
<1>1. /\ state[t] = "running" /\ Emit(t, <<"step">>, taskSeq) /\ taskSeq \in Nat
      /\ UNCHANGED <<state, queue, latest, killing, held, post>>
  BY DEF Step, OnlyEmits, KernelInv, KernelTyped
<1>2. <<"step">> \in Seq(Kinds) /\ Len(<<"step">>) = 1 /\ 1 \in Nat
  <2>1. "step" \in Kinds
    BY DEF Kinds
  <2>2. QED BY <2>1
<1>3. PICK e \in Seq(Events) : Publishes(e, t, <<"step">>, taskSeq, 1)
  BY <1>1, <1>2, Emitted
<1>31. /\ Published(e, t, taskSeq, 1) /\ taskSeq' = taskSeq + 1
       /\ log' = [log EXCEPT ![t] = @ \o e]
  BY <1>3 DEF Publishes
<1>4. /\ log' \in [Tasks -> Seq(Events)] /\ taskSeq' \in Nat /\ LogInOrder'
      /\ \A u \in Tasks : u # t => log'[u] = log[u]
  BY <1>1, <1>2, <1>3, <1>31, Logs
<1>5. KernelTyped' /\ QueueShape'
  BY <1>1, <1>4 DEF KernelInv, KernelTyped, QueueShape
<1>6. Unstarted' /\ Recorded
  BY <1>1, <1>4 DEF KernelInv, Unstarted, Final, Recorded
<1>7. QED BY <1>4, <1>5, <1>6 DEF KernelInv

LEMMA EndKeeps ==
    ASSUME KernelInv, NEW t \in Tasks, NEW outcome \in Outcomes, End(t, outcome)
    PROVE  KernelInv' /\ Recorded /\ Final(t)'
<1> DEFINE kinds == IF outcome = "pending" THEN <<"pending", "done">> ELSE <<"done">>
<1>1. /\ state[t] = "running" /\ taskSeq \in Nat /\ queue \in Seq(Tasks)
      /\ state' = [state EXCEPT ![t] = outcome] /\ queue' = Tail(queue)
      /\ held' = IF outcome = "pending" THEN held \cup {t} ELSE held
      /\ Emit(t, kinds, taskSeq)
      /\ UNCHANGED <<latest, killing, post>>
  BY DEF End, OnlyEmits, KernelInv, KernelTyped
<1>2. kinds \in Seq(Kinds) /\ Len(kinds) \in Nat
  <2>1. "pending" \in Kinds /\ "done" \in Kinds
    BY DEF Kinds
  <2>2. QED BY <2>1
<1> HIDE DEF kinds
<1>3. PICK e \in Seq(Events) : Publishes(e, t, kinds, taskSeq, Len(kinds))
  BY <1>1, <1>2, Emitted
<1>31. /\ Published(e, t, taskSeq, Len(kinds)) /\ taskSeq' = taskSeq + Len(kinds)
       /\ log' = [log EXCEPT ![t] = @ \o e]
  BY <1>3 DEF Publishes
<1>4. /\ log' \in [Tasks -> Seq(Events)] /\ taskSeq' \in Nat /\ LogInOrder'
      /\ \A u \in Tasks : u # t => log'[u] = log[u]
  BY <1>1, <1>2, <1>3, <1>31, Logs
<1>5. queue # <<>> /\ queue[1] = t
  BY <1>1 DEF KernelInv, QueueShape, Range, Waiting
<1>6. LeftBy(queue, queue', t)
  BY <1>1, <1>5, TailLeaves DEF KernelInv, QueueShape
<1>7. /\ state' \in [Tasks -> States] /\ queue' \in Seq(Tasks) /\ QueueShape'
      /\ Recorded /\ Final(t)'
      /\ \A u \in Tasks : state'[u] \in {"none", "queued"} => state[u] = state'[u]
      /\ \A u \in Tasks : state[u] = "none" => state'[u] = "none"
  BY <1>1, <1>6, Ends DEF Waiting
<1>8. KernelTyped'
  BY <1>1, <1>4, <1>7 DEF KernelInv, KernelTyped
<1>9. Unstarted'
  <2>1. ASSUME NEW u \in Tasks, state'[u] \in {"none", "queued"}
        PROVE  log'[u] = <<>> /\ killing' # u
    <3>1. state[u] \in {"none", "queued"} /\ u # t
      BY <1>1, <1>7, <2>1
    <3>2. QED BY <1>1, <1>4, <3>1 DEF KernelInv, Unstarted
  <2>2. post'.by \in {"composer", "proposal"} =>
           post'.task \in Mine /\ state'[post'.task] = "none"
    BY <1>1, <1>7 DEF KernelInv, Unstarted, Tasks
  <2>3. \A u \in held' : Final(u)'
    BY <1>1, <1>7 DEF KernelInv, KernelTyped, Unstarted, Recorded, Final
  <2>4. QED BY <2>1, <2>2, <2>3 DEF Unstarted
<1>10. QED BY <1>4, <1>7, <1>8, <1>9 DEF KernelInv

(* A task ends without an event: its run raises, it is dequeued, or the     *)
(* kernel is restarted.                                                    *)
LEMMA SilentEnd ==
    ASSUME KernelInv, NEW t \in Tasks, NEW o \in Outcomes, state[t] \in Waiting,
           state' = [state EXCEPT ![t] = o], LeftBy(queue, queue', t),
           UNCHANGED <<latest, log, taskSeq, held>>,
           killing' \in {killing, NoTask}, post' \in {post, NoPost}
    PROVE  KernelInv' /\ Recorded
<1>1. /\ state' \in [Tasks -> States] /\ queue' \in Seq(Tasks) /\ QueueShape'
      /\ Recorded
      /\ \A u \in Tasks : state'[u] \in {"none", "queued"} => state[u] = state'[u]
      /\ \A u \in Tasks : state[u] = "none" => state'[u] = "none"
  BY Ends
<1>2. KernelTyped'
  BY <1>1 DEF KernelInv, KernelTyped, NoPost
<1>3. Unstarted'
  <2>1. ASSUME NEW u \in Tasks, state'[u] \in {"none", "queued"}
        PROVE  log'[u] = <<>> /\ killing' # u
    <3>1. state[u] \in {"none", "queued"} /\ u # NoTask
      BY <1>1, <2>1, TasksAssumption
    <3>2. QED BY <3>1 DEF KernelInv, Unstarted
  <2>2. post'.by \in {"composer", "proposal"} =>
           post'.task \in Mine /\ state'[post'.task] = "none"
    BY <1>1 DEF KernelInv, Unstarted, Tasks, NoPost
  <2>3. \A u \in held' : Final(u)'
    BY <1>1 DEF KernelInv, KernelTyped, Unstarted, Recorded, Final
  <2>4. QED BY <2>1, <2>2, <2>3 DEF Unstarted
<1>4. LogInOrder'
  BY DEF KernelInv, LogInOrder
<1>5. QED BY <1>1, <1>2, <1>3, <1>4 DEF KernelInv

(* A task joins the queue: another page's, or the one this page asked for.  *)
LEMMA FiledKeeps ==
    ASSUME KernelInv, NEW t \in Tasks, state[t] = "none",
           state' = [state EXCEPT ![t] = "queued"], queue' = Append(queue, t),
           UNCHANGED <<latest, log, taskSeq, killing, held>>,
           \/ t \in Others /\ post' = post
           \/ post' = NoPost
    PROVE  KernelInv' /\ Recorded
<1>1. /\ state' \in [Tasks -> States] /\ queue' \in Seq(Tasks) /\ QueueShape'
      /\ Recorded
      /\ \A u \in Tasks : u # t => state'[u] = state[u]
  BY Joins
<1>2. KernelTyped'
  BY <1>1 DEF KernelInv, KernelTyped, NoPost
<1>3. Unstarted'
  <2>1. ASSUME NEW u \in Tasks, state'[u] \in {"none", "queued"}
        PROVE  log'[u] = <<>> /\ killing' # u
    BY <1>1, <2>1 DEF KernelInv, Unstarted
  <2>2. post'.by \in {"composer", "proposal"} =>
           post'.task \in Mine /\ state'[post'.task] = "none"
    <3>1. CASE post' = NoPost
      BY <3>1 DEF NoPost
    <3>2. CASE t \in Others /\ post' = post
      <4>1. post.by \in {"composer", "proposal"} => post.task # t /\ post.task \in Tasks
        BY <3>2, TasksAssumption DEF KernelInv, Unstarted, Tasks
      <4>2. QED BY <1>1, <3>2, <4>1 DEF KernelInv, Unstarted
    <3>3. QED BY <3>1, <3>2
  <2>3. \A u \in held' : Final(u)'
    BY <1>1 DEF KernelInv, KernelTyped, Unstarted, Recorded, Final
  <2>4. QED BY <2>1, <2>2, <2>3 DEF Unstarted
<1>4. LogInOrder'
  BY DEF KernelInv, LogInOrder
<1>5. QED BY <1>1, <1>2, <1>3, <1>4 DEF KernelInv

LEMMA CancelEmitsKeeps ==
    ASSUME KernelInv, CancelEmits
    PROVE  KernelInv' /\ Recorded
<1>1. /\ killing \in Tasks /\ taskSeq \in Nat /\ Emit(killing, <<"cancelled">>, taskSeq)
      /\ killing' = NoTask /\ UNCHANGED <<state, queue, latest, held, post>>
  BY DEF CancelEmits, OnlyEmits, KernelInv, KernelTyped
<1>2. <<"cancelled">> \in Seq(Kinds) /\ Len(<<"cancelled">>) = 1 /\ 1 \in Nat
  <2>1. "cancelled" \in Kinds
    BY DEF Kinds
  <2>2. QED BY <2>1
<1>3. PICK e \in Seq(Events) : Publishes(e, killing, <<"cancelled">>, taskSeq, 1)
  BY <1>1, <1>2, Emitted
<1>31. /\ Published(e, killing, taskSeq, 1) /\ taskSeq' = taskSeq + 1
       /\ log' = [log EXCEPT ![killing] = @ \o e]
  BY <1>3 DEF Publishes
<1>4. /\ log' \in [Tasks -> Seq(Events)] /\ taskSeq' \in Nat /\ LogInOrder'
      /\ \A u \in Tasks : u # killing => log'[u] = log[u]
  BY <1>1, <1>2, <1>3, <1>31, Logs
<1>5. KernelTyped' /\ QueueShape'
  BY <1>1, <1>4 DEF KernelInv, KernelTyped, QueueShape
<1>6. Unstarted' /\ Recorded
  BY <1>1, <1>4, TasksAssumption DEF KernelInv, Unstarted, Final, Recorded
<1>7. QED BY <1>4, <1>5, <1>6 DEF KernelInv

(* The versions on the pending list, and the worker a cancel waits for. *)
LEMMA OnlyHeldOrKilling ==
    ASSUME KernelInv, UNCHANGED <<state, queue, latest, log, taskSeq, post>>,
           held' \subseteq held,
           killing' = killing \/ (killing' \in Tasks /\ state[killing'] = "running")
    PROVE  KernelInv' /\ Recorded
<1>1. KernelTyped' /\ QueueShape' /\ LogInOrder' /\ Recorded
  BY DEF KernelInv, KernelTyped, QueueShape, LogInOrder, Recorded
<1>2. Unstarted'
  BY DEF KernelInv, Unstarted, Final
<1>3. QED BY <1>1, <1>2 DEF KernelInv

LEMMA KernelStep ==
    ASSUME KernelInv, [Next]_vars
    PROVE  KernelInv' /\ Recorded
<1>1. ASSUME NEW t \in Tasks, Start(t) PROVE KernelInv' /\ Recorded
  BY <1>1, StartKeeps
<1>2. ASSUME NEW t \in Tasks, Step(t) \/ Steer(t) PROVE KernelInv' /\ Recorded
  BY <1>2, StepKeeps DEF Steer
<1>3. ASSUME NEW t \in Tasks, Raises(t) PROVE KernelInv' /\ Recorded
  <2>1. /\ state[t] = "running" /\ state[t] \in Waiting /\ "failed" \in Outcomes
        /\ state' = [state EXCEPT ![t] = "failed"] /\ queue' = Tail(queue)
        /\ UNCHANGED <<latest, log, taskSeq, held, killing, post>>
    BY <1>3 DEF Raises, Waiting, Outcomes, wire
  <2>2. queue \in Seq(Tasks) /\ queue # <<>> /\ queue[1] = t
    BY <2>1 DEF KernelInv, KernelTyped, QueueShape, Range
  <2>3. LeftBy(queue, queue', t)
    BY <2>1, <2>2, TailLeaves DEF KernelInv, QueueShape
  <2>4. QED BY <2>1, <2>3, SilentEnd
<1>4. ASSUME NEW t \in Tasks, NEW outcome \in Outcomes, End(t, outcome)
      PROVE  KernelInv' /\ Recorded
  BY <1>4, EndKeeps
<1>5. ASSUME Cancel PROVE KernelInv' /\ Recorded
  <2>1. /\ queue \in Seq(Tasks) /\ queue # <<>> /\ state[Head(queue)] = "running"
        /\ killing' = Head(queue)
        /\ UNCHANGED <<state, queue, latest, log, taskSeq, held, post>>
    BY <1>5 DEF Cancel, wire, KernelInv, KernelTyped
  <2>2. Head(queue) \in Tasks
    BY <2>1
  <2>3. QED BY <2>1, <2>2, OnlyHeldOrKilling
<1>6. ASSUME CancelEmits PROVE KernelInv' /\ Recorded
  BY <1>6, CancelEmitsKeeps
<1>7. ASSUME Restart PROVE KernelInv' /\ Recorded
  <2>1. UNCHANGED <<latest, log, taskSeq, held>> /\ killing' = NoTask /\ post' = NoPost
    BY <1>7 DEF Restart
  <2>2. CASE latest # NoTask /\ state[latest] = "running"
    <3>1. /\ latest \in Tasks /\ state[latest] \in Waiting /\ "interrupted" \in Outcomes
          /\ state' = [state EXCEPT ![latest] = "interrupted"]
          /\ queue' = Unqueued(latest)
      BY <1>7, <2>2 DEF Restart, KernelInv, KernelTyped, Waiting, Outcomes
    <3>2. LeftBy(queue, queue', latest)
      BY <3>1, UnqueuedLeaves DEF KernelInv, KernelTyped, QueueShape
    <3>3. QED BY <2>1, <3>1, <3>2, SilentEnd
  <2>3. CASE ~(latest # NoTask /\ state[latest] = "running")
    <3>1. UNCHANGED <<state, queue>>
      BY <1>7, <2>3 DEF Restart
    <3>2. KernelTyped' /\ QueueShape' /\ LogInOrder' /\ Recorded
      BY <2>1, <3>1 DEF KernelInv, KernelTyped, QueueShape, LogInOrder, Recorded, NoPost
    <3>3. Unstarted'
      BY <2>1, <3>1, TasksAssumption DEF KernelInv, Unstarted, Final, NoPost
    <3>4. QED BY <3>2, <3>3 DEF KernelInv
  <2>4. QED BY <2>2, <2>3
<1>8. ASSUME NEW t \in Tasks, FileOther(t) PROVE KernelInv' /\ Recorded
  BY <1>8, FiledKeeps DEF FileOther, wire
<1>9. ASSUME NEW t \in Tasks, Dequeue(t) PROVE KernelInv' /\ Recorded
  <2>1. /\ state[t] \in Waiting /\ "cancelled" \in Outcomes
        /\ state' = [state EXCEPT ![t] = "cancelled"] /\ queue' = Unqueued(t)
        /\ UNCHANGED <<latest, log, taskSeq, held, killing, post>>
    BY <1>9 DEF Dequeue, Waiting, Outcomes, wire
  <2>2. LeftBy(queue, queue', t)
    BY <2>1, UnqueuedLeaves DEF KernelInv, KernelTyped, QueueShape
  <2>3. QED BY <2>1, <2>2, SilentEnd
<1>10. ASSUME NEW t \in Tasks, DecidedElsewhere(t) PROVE KernelInv' /\ Recorded
  BY <1>10, OnlyHeldOrKilling DEF DecidedElsewhere, wire
<1>11. ASSUME NEW t \in Tasks, NEW by \in {"composer", "proposal"}, Submit(t, by)
       PROVE  KernelInv' /\ Recorded
  <2>1. /\ UNCHANGED kernel /\ post' = [task |-> t, by |-> by]
        /\ t \in Mine /\ state[t] = "none"
    BY <1>11 DEF Submit
  <2>2. QED BY <2>1, PostMoves
<1>12. ASSUME NEW t \in Tasks, Nudge(t) PROVE KernelInv' /\ Recorded
  BY <1>11, <1>12 DEF Nudge
<1>13. ASSUME Filed PROVE KernelInv' /\ Recorded
  <2>1. post.task \in Mine /\ state[post.task] = "none" /\ post.task \in Tasks
    BY <1>13 DEF Filed, KernelInv, Unstarted, Tasks
  <2>2. QED BY <1>13, <2>1, FiledKeeps DEF Filed
<1>14. ASSUME Refused PROVE KernelInv' /\ Recorded
  <2>1. /\ UNCHANGED kernel
        /\ post' = IF post.by = "proposal" THEN [post EXCEPT !.by = "refused"] ELSE NoPost
    BY <1>14 DEF Refused
  <2>2. QED BY <2>1, PostMoves DEF KernelInv, KernelTyped, NoPost
<1>15. ASSUME RefusalShown PROVE KernelInv' /\ Recorded
  BY <1>15, PostMoves DEF RefusalShown, NoPost
<1>16. ASSUME DecisionAnswered PROVE KernelInv' /\ Recorded
  <2>1. UNCHANGED <<state, queue, latest, log, taskSeq, killing, post>> /\ held' \subseteq held
    BY <1>16 DEF DecisionAnswered
  <2>2. QED BY <2>1, OnlyHeldOrKilling
<1>17. CASE UNCHANGED <<kernel, post>>
  BY <1>17, KernelKept
<1>18. ASSUME \/ Break \/ AppGoes \/ AppBack \/ Mount \/ Unmount \/ Connect
              \/ SnapshotAnswered \/ SnapshotApplied \/ Deliver
              \/ \E what \in {"approve", "reject"} : Decide(what)
              \/ DecisionApplied \/ Retire \/ Fetch503 \/ Reload \/ UNCHANGED vars
       PROVE  UNCHANGED <<kernel, post>>
  BY <1>18 DEF Break, AppGoes, AppBack, Mount, Unmount, Leaves, Connect, SnapshotAnswered,
               SnapshotApplied, Deliver, Decide, DecisionApplied, Retire, Fetch503, Reload,
               vars, wire
<1>19. QED
  BY <1>1, <1>2, <1>3, <1>4, <1>5, <1>6, <1>7, <1>8, <1>9, <1>10, <1>11, <1>12, <1>13, <1>14,
     <1>15, <1>16, <1>17, <1>18 DEF Next, Kernel

-----------------------------------------------------------------------------
(* The wire. *)

(* A "done" that is added to the stream is of a task that is over. *)
LEMMA StreamGrows ==
    ASSUME StreamKnows, Recorded, NEW e \in Seq(Events),
           \A i \in DOMAIN e : e[i].kind = "done" => Final(e[i].task)',
           stream' = IF connected THEN stream \o e ELSE stream
    PROVE  StreamKnows'
<1>1. /\ stream \in Seq(Events) /\ Len(stream) \in Nat /\ DOMAIN stream = 1 .. Len(stream)
      /\ Len(e) \in Nat /\ DOMAIN e = 1 .. Len(e)
      /\ \A i \in DOMAIN stream : stream[i] \in Events
      /\ \A i \in DOMAIN stream : stream[i].kind = "done" => Final(stream[i].task)
  BY DEF StreamKnows
<1>2. \A i \in DOMAIN stream : stream[i].task \in Tasks
  BY <1>1 DEF Events
<1>3. \A i \in DOMAIN stream : stream[i].kind = "done" => Final(stream[i].task)'
  BY <1>1, <1>2 DEF Recorded, Final
<1>4. CASE stream' = stream
  BY <1>1, <1>3, <1>4 DEF StreamKnows, Final
<1>5. CASE stream' = stream \o e
  <2>1. /\ stream' \in Seq(Events) /\ DOMAIN stream' = 1 .. Len(stream) + Len(e)
        /\ \A i \in 1 .. Len(stream) : stream'[i] = stream[i]
        /\ \A i \in Len(stream) + 1 .. Len(stream) + Len(e) : stream'[i] = e[i - Len(stream)]
    BY <1>1, <1>5
  <2>2. \A i \in Len(stream) + 1 .. Len(stream) + Len(e) : i - Len(stream) \in 1 .. Len(e)
    BY <1>1
  <2>3. ASSUME NEW i \in DOMAIN stream', stream'[i].kind = "done"
        PROVE  state'[stream'[i].task] \in Outcomes
    <3>1. CASE i \in 1 .. Len(stream)
      BY <1>1, <1>3, <2>1, <2>3, <3>1 DEF Final
    <3>2. CASE i \in Len(stream) + 1 .. Len(stream) + Len(e)
      BY <1>1, <2>1, <2>2, <2>3, <3>2 DEF Final
    <3>3. QED BY <1>1, <2>1, <3>1, <3>2
  <2>4. QED BY <2>1, <2>3 DEF StreamKnows, Final
<1>6. QED BY <1>4, <1>5

LEMMA StreamKept ==
    ASSUME StreamKnows, Recorded,
           \/ stream' \in {stream, <<>>}
           \/ stream # <<>> /\ stream' = Tail(stream)
    PROVE  StreamKnows'
<1>1. /\ stream \in Seq(Events) /\ Len(stream) \in Nat /\ DOMAIN stream = 1 .. Len(stream)
      /\ \A i \in DOMAIN stream : stream[i] \in Events
      /\ \A i \in DOMAIN stream : stream[i].kind = "done" => Final(stream[i].task)
  BY DEF StreamKnows
<1>2. \A i \in DOMAIN stream : stream[i].task \in Tasks
  BY <1>1 DEF Events
<1>3. \A i \in DOMAIN stream : stream[i].kind = "done" => state'[stream[i].task] \in Outcomes
  BY <1>1, <1>2 DEF Recorded, Final
<1>4. stream' \in Seq(Events) /\ \A i \in DOMAIN stream' :
                                   \E j \in DOMAIN stream : stream'[i] = stream[j]
  <2>0. CASE stream' = stream
    BY <1>1, <2>0
  <2>1. CASE stream' = <<>>
    <3>1. stream' \in Seq(Events) /\ DOMAIN stream' = {}
      BY <2>1
    <3>2. QED BY <3>1
  <2>2. CASE stream # <<>> /\ stream' = Tail(stream)
    <3> DEFINE r == Tail(stream)
    <3>0. /\ r \in Seq(Events) /\ DOMAIN r = 1 .. Len(stream) - 1
          /\ \A i \in 1 .. Len(stream) - 1 : r[i] = stream[i + 1]
      <4>1. stream \in Seq(Events) /\ stream # <<>>
        BY <1>1, <2>2
      <4>2. QED BY <4>1
    <3> HIDE DEF r
    <3>1. /\ stream' \in Seq(Events) /\ DOMAIN stream' = 1 .. Len(stream) - 1
          /\ \A i \in 1 .. Len(stream) - 1 : stream'[i] = stream[i + 1]
      BY <2>2, <3>0 DEF r
    <3>2. \A i \in 1 .. Len(stream) - 1 : i + 1 \in DOMAIN stream
      BY <1>1
    <3>3. QED BY <3>1, <3>2
  <2>3. QED BY <2>0, <2>1, <2>2
<1>5. QED BY <1>3, <1>4 DEF StreamKnows, Final

(* A task that publishes what is no "done". *)
LEMMA StreamOfOther ==
    ASSUME StreamKnows, Recorded, taskSeq \in Nat,
           NEW t \in Tasks, NEW kind \in Kinds, kind # "done",
           NEW from \in Nat, Emit(t, <<kind>>, from)
    PROVE  StreamKnows'
<1>1. <<kind>> \in Seq(Kinds) /\ Len(<<kind>>) = 1 /\ 1 \in Nat
  OBVIOUS
<1>2. PICK e \in Seq(Events) : Publishes(e, t, <<kind>>, from, 1)
  BY <1>1, Emitted
<1>3. /\ Len(e) = 1 /\ DOMAIN e = 1 .. 1 /\ e[1].kind = kind
      /\ stream' = IF connected THEN stream \o e ELSE stream
  BY <1>2 DEF Publishes, Published
<1>4. \A i \in DOMAIN e : e[i].kind # "done"
  BY <1>3
<1>5. QED BY <1>3, <1>4, StreamGrows

LEMMA EndPublishes ==
    ASSUME KernelInv, StreamKnows, NEW t \in Tasks, NEW outcome \in Outcomes, End(t, outcome)
    PROVE  StreamKnows'
<1> DEFINE kinds == IF outcome = "pending" THEN <<"pending", "done">> ELSE <<"done">>
<1>1. Recorded /\ Final(t)'
  BY EndKeeps
<1>2. Emit(t, kinds, taskSeq) /\ taskSeq \in Nat
  BY DEF End, KernelInv, KernelTyped
<1>3. kinds \in Seq(Kinds) /\ Len(kinds) \in Nat
  <2>1. "pending" \in Kinds /\ "done" \in Kinds
    BY DEF Kinds
  <2>2. QED BY <2>1
<1> HIDE DEF kinds
<1>4. PICK e \in Seq(Events) : Publishes(e, t, kinds, taskSeq, Len(kinds))
  BY <1>2, <1>3, Emitted
<1>5. /\ \A i \in DOMAIN e : e[i].task = t
      /\ stream' = IF connected THEN stream \o e ELSE stream
  BY <1>3, <1>4 DEF Publishes, Published
<1>6. \A i \in DOMAIN e : e[i].kind = "done" => Final(e[i].task)'
  BY <1>1, <1>5 DEF Final
<1>7. QED BY <1>1, <1>5, <1>6, StreamGrows

LEMMA StreamStep ==
    ASSUME IInv, [Next]_vars
    PROVE  StreamKnows'
<1>1. KernelInv /\ StreamKnows /\ Recorded /\ taskSeq \in Nat /\ 0 \in Nat
  BY KernelStep DEF IInv, KernelInv, KernelTyped
<1>2. ASSUME NEW t \in Tasks, Start(t) PROVE StreamKnows'
  <2>1. Emit(t, <<"request">>, 0) /\ "request" \in Kinds /\ "request" # "done"
    BY <1>2 DEF Start, Kinds
  <2>2. QED BY <1>1, <2>1, StreamOfOther
<1>3. ASSUME NEW t \in Tasks, Step(t) \/ Steer(t) PROVE StreamKnows'
  <2>1. Emit(t, <<"step">>, taskSeq) /\ "step" \in Kinds /\ "step" # "done"
    BY <1>3 DEF Step, Steer, Kinds
  <2>2. QED BY <1>1, <2>1, StreamOfOther
<1>4. ASSUME NEW t \in Tasks, NEW outcome \in Outcomes, End(t, outcome) PROVE StreamKnows'
  BY <1>1, <1>4, EndPublishes
<1>5. ASSUME CancelEmits PROVE StreamKnows'
  <2>1. /\ Emit(killing, <<"cancelled">>, taskSeq) /\ killing \in Tasks
        /\ "cancelled" \in Kinds /\ "cancelled" # "done"
    BY <1>1, <1>5 DEF CancelEmits, Kinds, KernelInv, KernelTyped
  <2>2. QED BY <1>1, <2>1, StreamOfOther
<1>6. ASSUME \/ Restart \/ Break \/ Mount \/ Unmount \/ Reload
      PROVE  stream' = <<>>
  BY <1>6 DEF Restart, Break, Mount, Unmount, Reload, Leaves
<1>7. ASSUME Deliver PROVE stream # <<>> /\ stream' = Tail(stream)
  BY <1>7 DEF Deliver
<1>8. ASSUME \/ \E t \in Tasks : \/ Raises(t) \/ FileOther(t) \/ Dequeue(t)
                                 \/ DecidedElsewhere(t) \/ Nudge(t)
             \/ Cancel \/ AppGoes \/ AppBack
             \/ \E t \in Tasks, by \in {"composer", "proposal"} : Submit(t, by)
             \/ Filed \/ Refused \/ RefusalShown
             \/ Connect \/ SnapshotAnswered \/ SnapshotApplied
             \/ \E what \in {"approve", "reject"} : Decide(what)
             \/ DecisionAnswered \/ DecisionApplied
             \/ Retire \/ Fetch503 \/ UNCHANGED vars
      PROVE  stream' = stream
  BY <1>8 DEF Raises, FileOther, Dequeue, DecidedElsewhere, Nudge, Cancel, AppGoes, AppBack,
              Submit, Filed, Refused, RefusalShown, Connect, SnapshotAnswered,
              SnapshotApplied, Decide, DecisionAnswered, DecisionApplied, Retire, Fetch503,
              vars, wire
<1>9. QED
  BY <1>1, <1>2, <1>3, <1>4, <1>5, <1>6, <1>7, <1>8, StreamKept DEF Next, Kernel

LEMMA SnapshotStep ==
    ASSUME IInv, [Next]_vars
    PROVE  SnapshotTyped' /\ SnapshotKnows'
<1>1. KernelInv /\ SnapshotTyped /\ SnapshotKnows /\ Recorded
  BY KernelStep DEF IInv
<1>2. CASE snapshot' = snapshot
  <2>1. snapshot.at = "answered" => snapshot.task \in Tasks
    BY <1>1 DEF SnapshotTyped
  <2>2. QED BY <1>1, <1>2, <2>1 DEF SnapshotTyped, SnapshotKnows, Recorded, Final
<1>3. CASE snapshot' \in {[at |-> "none"], [at |-> "asked"]}
  BY <1>3 DEF SnapshotTyped, SnapshotKnows
<1>4. CASE SnapshotAnswered
  <2>1. CASE latest = NoTask
    BY <1>3, <1>4, <2>1 DEF SnapshotAnswered
  <2>2. CASE latest # NoTask
    <3>1. /\ latest \in Tasks /\ log[latest] \in Seq(Events) /\ state[latest] \in States
          /\ OfTask(log[latest], latest) /\ InOrder(log[latest])
      BY <1>1, <2>2 DEF KernelInv, KernelTyped, LogInOrder
    <3>2. /\ snapshot' = [at |-> "answered", task |-> latest, events |-> log[latest],
                          state |-> state[latest]]
          /\ state' = state
      BY <1>4, <2>2 DEF SnapshotAnswered, kernel
    <3>3. QED BY <3>1, <3>2 DEF SnapshotTyped, SnapshotKnows
  <2>3. QED BY <2>1, <2>2
<1>5. ASSUME Restart \/ Mount \/ Unmount \/ Reload \/ SnapshotApplied
      PROVE  snapshot' \in {[at |-> "none"], [at |-> "asked"]}
  BY <1>5 DEF Restart, Mount, Unmount, Reload, Leaves, SnapshotApplied
<1>6. ASSUME \/ \E t \in Tasks : \/ Start(t) \/ Step(t) \/ Steer(t) \/ Raises(t)
                                 \/ \E outcome \in Outcomes : End(t, outcome)
                                 \/ FileOther(t) \/ Dequeue(t)
                                 \/ DecidedElsewhere(t) \/ Nudge(t)
             \/ Cancel \/ CancelEmits \/ Break \/ AppGoes \/ AppBack
             \/ \E t \in Tasks, by \in {"composer", "proposal"} : Submit(t, by)
             \/ Filed \/ Refused \/ RefusalShown \/ Connect \/ Deliver
             \/ \E what \in {"approve", "reject"} : Decide(what)
             \/ DecisionAnswered \/ DecisionApplied
             \/ Retire \/ Fetch503 \/ UNCHANGED vars
      PROVE  snapshot' = snapshot
  BY <1>6 DEF Start, Step, Steer, Raises, End, OnlyEmits, FileOther, Dequeue,
              DecidedElsewhere, Nudge, Cancel, CancelEmits, Break, AppGoes, AppBack,
              Submit, Filed, Refused, RefusalShown, Connect, Deliver, Decide,
              DecisionAnswered, DecisionApplied, Retire, Fetch503, vars, wire
<1>7. QED BY <1>2, <1>3, <1>4, <1>5, <1>6 DEF Next, Kernel

LEMMA DecidingStep ==
    ASSUME IInv, [Next]_vars
    PROVE  DecidingTyped'
<1>1. DecidingTyped /\ view.task \in Tasks \cup {NoTask}
  BY DEF IInv, ViewTyped
<1>2. CASE deciding' = deciding
  BY <1>1, <1>2 DEF DecidingTyped
<1>3. CASE deciding' = Undecided
  BY <1>3 DEF DecidingTyped, Undecided
<1>4. ASSUME NEW what \in {"approve", "reject"}, Decide(what) PROVE DecidingTyped'
  BY <1>1, <1>4 DEF Decide, DecidingTyped
<1>5. ASSUME DecisionAnswered PROVE DecidingTyped'
  <2>1. PICK answer \in {"ok", "unhealthy", "refused"} :
                deciding' = [deciding EXCEPT !.answer = answer]
    BY <1>5 DEF DecisionAnswered
  <2>2. QED BY <1>1, <2>1 DEF DecidingTyped
<1>6. ASSUME Retire PROVE DecidingTyped'
  BY <1>6 DEF Retire, DecidingTyped
<1>7. ASSUME Restart \/ Unmount \/ Reload \/ DecisionApplied PROVE deciding' = Undecided
  BY <1>7 DEF Restart, Unmount, Reload, Leaves, DecisionApplied
<1>8. ASSUME \/ \E t \in Tasks : \/ Start(t) \/ Step(t) \/ Steer(t) \/ Raises(t)
                                 \/ \E outcome \in Outcomes : End(t, outcome)
                                 \/ FileOther(t) \/ Dequeue(t)
                                 \/ DecidedElsewhere(t) \/ Nudge(t)
             \/ Cancel \/ CancelEmits \/ Break \/ AppGoes \/ AppBack
             \/ \E t \in Tasks, by \in {"composer", "proposal"} : Submit(t, by)
             \/ Filed \/ Refused \/ RefusalShown \/ Mount \/ Connect
             \/ SnapshotAnswered \/ SnapshotApplied \/ Deliver
             \/ Fetch503 \/ UNCHANGED vars
      PROVE  deciding' = deciding
  BY <1>8 DEF Start, Step, Steer, Raises, End, OnlyEmits, FileOther, Dequeue,
              DecidedElsewhere, Nudge, Cancel, CancelEmits, Break, AppGoes, AppBack,
              Submit, Filed, Refused, RefusalShown, Mount, Connect, SnapshotAnswered,
              SnapshotApplied, Deliver, Fetch503, vars, wire
<1>9. QED BY <1>2, <1>3, <1>4, <1>5, <1>6, <1>7, <1>8 DEF Next, Kernel

-----------------------------------------------------------------------------
(* The page. *)

(* An empty view is of nothing, running or not. *)
LEMMA EmptyView ==
    ASSUME \/ view' = [Fresh EXCEPT !.running = TRUE]
           \/ view' = [Fresh EXCEPT !.running = FALSE]
    PROVE  ViewTyped' /\ ViewKnows'
<1>1. ViewTyped' /\ view'.log = <<>> /\ view'.result = "none"
  <2>1. \/ view' = [task |-> NoTask, lastSeq |-> 0, log |-> <<>>, running |-> TRUE,
                     result |-> "none"]
        \/ view' = [task |-> NoTask, lastSeq |-> 0, log |-> <<>>, running |-> FALSE,
                     result |-> "none"]
    BY DEF Fresh
  <2>2. view'.log = <<>> /\ view'.result = "none"
    BY <2>1
  <2>3. ViewTyped'
    <3>1. <<>> \in Seq(Events) /\ 0 \in Nat
      OBVIOUS
    <3> DEFINE types == [task : Tasks \cup {NoTask}, lastSeq : Nat, log : Seq(Events),
                         running : BOOLEAN, result : {"none"} \cup Outcomes]
    <3>2. [task |-> NoTask, lastSeq |-> 0, log |-> <<>>, running |-> TRUE,
           result |-> "none"] \in types
      BY <3>1
    <3>3. [task |-> NoTask, lastSeq |-> 0, log |-> <<>>, running |-> FALSE,
           result |-> "none"] \in types
      BY <3>1
    <3>4. ViewTyped' <=> view' \in types
      BY DEF ViewTyped
    <3> HIDE DEF types
    <3>5. QED BY <2>1, <3>2, <3>3, <3>4
  <2>4. QED BY <2>2, <2>3
<1>2. QED BY <1>1 DEF ViewKnows, OfTask, InOrder, UpTo

(* What is shown stays true: a recorded outcome is final. *)
LEMMA SameView ==
    ASSUME ViewTyped, ViewKnows, Recorded, NEW running \in BOOLEAN,
           view' = view \/ view' = [view EXCEPT !.running = running]
    PROVE  ViewTyped' /\ ViewKnows'
<1>1. ViewTyped'
  BY DEF ViewTyped
<1>2. /\ view'.task = view.task /\ view'.log = view.log /\ view'.lastSeq = view.lastSeq
      /\ view'.result = view.result
      /\ view.task \in Tasks \cup {NoTask} /\ view.result \in {"none"} \cup Outcomes
  BY DEF ViewTyped
<1>3. view.result # "none" => /\ view.task \in Tasks /\ view.result = state[view.task]
                              /\ state'[view.task] = state[view.task]
  BY <1>2 DEF ViewKnows, Recorded, Final
<1>4. QED BY <1>1, <1>2, <1>3 DEF ViewKnows

LEMMA DeliverShows ==
    ASSUME KernelInv, StreamKnows, ViewTyped, ViewKnows, Recorded, Deliver
    PROVE  ViewTyped' /\ ViewKnows'
<1> DEFINE ev == Head(stream)
<1>1. /\ stream \in Seq(Events) /\ stream # <<>> /\ view' = ApplyEvent(ev) /\ state' = state
  BY DEF Deliver, StreamKnows, kernel
<1>2. 1 \in DOMAIN stream /\ ev = stream[1] /\ ev \in Events
  BY <1>1
<1>3. ev.kind = "done" => state[ev.task] \in Outcomes
  BY <1>2 DEF StreamKnows, Final
<1>4. ev.task \in Tasks /\ ev.seq \in Nat /\ ev.task # NoTask
  BY <1>2, TasksAssumption DEF Events
<1> HIDE DEF ev
<1>5. /\ view.task \in Tasks \cup {NoTask} /\ view.lastSeq \in Nat /\ view.log \in Seq(Events)
      /\ view.result \in {"none"} \cup Outcomes
  BY DEF ViewTyped
<1>6. CASE ev.task # view.task
  <2> DEFINE v == [task |-> ev.task, lastSeq |-> ev.seq, log |-> <<ev>>, running |-> TRUE,
                   result |-> "none"]
  <2>1. view' = IF ev.kind = "done" THEN [v EXCEPT !.running = FALSE, !.result = state[ev.task]]
                                    ELSE v
    BY <1>1, <1>6 DEF ApplyEvent, Settles
  <2>2. <<ev>> \in Seq(Events) /\ Len(<<ev>>) = 1
    BY <1>2
  <2>3. ViewTyped'
    BY <1>3, <1>4, <2>1, <2>2 DEF ViewTyped
  <2>4. /\ view'.task = ev.task /\ view'.log = <<ev>> /\ view'.lastSeq = ev.seq
        /\ view'.result = IF ev.kind = "done" THEN state[ev.task] ELSE "none"
    BY <2>1
  <2>5. OfTask(<<ev>>, ev.task) /\ InOrder(<<ev>>) /\ UpTo(<<ev>>, ev.seq)
    BY <1>4 DEF OfTask, InOrder, UpTo
  <2>6. QED BY <1>1, <1>4, <2>3, <2>4, <2>5 DEF ViewKnows
<1>7. CASE ev.task = view.task /\ ev.seq > view.lastSeq
  <2> DEFINE v == [view EXCEPT !.lastSeq = ev.seq, !.log = Append(@, ev)]
  <2>1. view' = IF ev.kind = "done" THEN [v EXCEPT !.running = FALSE, !.result = state[ev.task]]
                                    ELSE v
    BY <1>1, <1>7 DEF ApplyEvent, Settles
  <2>2. Append(view.log, ev) \in Seq(Events)
    BY <1>2, <1>5
  <2>3. ViewTyped'
    BY <1>3, <1>4, <2>1, <2>2 DEF ViewTyped
  <2>4. /\ view'.task = view.task /\ view'.log = Append(view.log, ev) /\ view'.lastSeq = ev.seq
        /\ view'.result = IF ev.kind = "done" THEN state[ev.task] ELSE view.result
    BY <2>1 DEF ViewTyped
  <2> DEFINE l == view.log
             g == Append(l, ev)
  <2>5. /\ Len(l) \in Nat /\ DOMAIN l = 1 .. Len(l) /\ DOMAIN g = 1 .. Len(l) + 1
        /\ \A i \in 1 .. Len(l) : g[i] = l[i]
        /\ g[Len(l) + 1] = ev
    BY <1>5
  <2>6. OfTask(l, view.task) /\ InOrder(l) /\ UpTo(l, view.lastSeq)
    BY DEF ViewKnows
  <2>7. \A i \in 1 .. Len(l) : l[i].seq \in Nat
    <3>1. \A i \in 1 .. Len(l) : l[i] \in Events
      BY <1>5
    <3>2. QED BY <3>1 DEF Events
  <2> HIDE DEF l, g, v
  <2>8. OfTask(g, view.task)
    BY <1>7, <2>5, <2>6 DEF OfTask
  <2>9. UpTo(g, ev.seq)
    BY <1>4, <1>5, <1>7, <2>5, <2>6, <2>7 DEF UpTo
  <2>10. InOrder(g)
    <3> SUFFICES ASSUME NEW i \in 1 .. Len(l) + 1, NEW j \in 1 .. Len(l) + 1, i < j
                 PROVE  g[i].seq < g[j].seq
      BY <2>5 DEF InOrder
    <3>1. CASE j <= Len(l)
      <4>1. i \in 1 .. Len(l) /\ j \in 1 .. Len(l)
        BY <2>5, <3>1
      <4>2. QED BY <2>5, <2>6, <4>1 DEF InOrder
    <3>2. CASE j = Len(l) + 1
      <4>1. i \in 1 .. Len(l) /\ l[i].seq <= view.lastSeq
        BY <2>5, <2>6, <3>2 DEF UpTo
      <4>2. QED BY <1>4, <1>5, <1>7, <2>5, <2>7, <3>2, <4>1
    <3>3. QED BY <2>5, <3>1, <3>2
  <2>11. view'.result # "none" => view'.task # NoTask /\ view'.result = state'[view'.task]
    BY <1>1, <1>4, <1>7, <2>4 DEF ViewKnows
  <2>12. QED BY <2>3, <2>4, <2>8, <2>9, <2>10, <2>11 DEF ViewKnows, g, l
<1>8. CASE ev.task = view.task /\ ~(ev.seq > view.lastSeq)
  <2>1. view' = view
    BY <1>1, <1>8 DEF ApplyEvent
  <2>2. QED BY <2>1, SameView
<1>9. QED BY <1>6, <1>7, <1>8

LEMMA SnapshotShows ==
    ASSUME SnapshotTyped, SnapshotKnows, SnapshotApplied
    PROVE  ViewTyped' /\ ViewKnows'
<1> DEFINE s == snapshot
<1>1. /\ s.at = "answered" /\ view' = ViewOf(s) /\ state' = state
  BY DEF SnapshotApplied, kernel
<1>2. /\ s.task \in Tasks /\ s.events \in Seq(Events) /\ s.state \in States
      /\ OfTask(s.events, s.task) /\ InOrder(s.events)
      /\ s.state \in Outcomes => state[s.task] = s.state
  BY <1>1 DEF SnapshotTyped, SnapshotKnows
<1>3. LastSeq(s.events) \in Nat /\ UpTo(s.events, LastSeq(s.events))
  BY <1>2, LastSeqBounds
<1>4. /\ view'.task = s.task /\ view'.log = s.events /\ view'.lastSeq = LastSeq(s.events)
      /\ view'.result = IF s.state \in Outcomes THEN s.state ELSE "none"
  BY <1>1 DEF ViewOf
<1>5. ViewTyped'
  <2> DEFINE running == s.state = "running"
             result == IF s.state \in Outcomes THEN s.state ELSE "none"
             last == LastSeq(s.events)
  <2>1. view' = [task |-> s.task, lastSeq |-> last, log |-> s.events, running |-> running,
                 result |-> result]
    BY <1>1 DEF ViewOf
  <2>2. running \in BOOLEAN /\ result \in {"none"} \cup Outcomes /\ last \in Nat
    BY <1>3
  <2> HIDE DEF running, result, last
  <2>3. QED BY <1>2, <2>1, <2>2 DEF ViewTyped
<1>6. s.task # NoTask
  BY <1>2, TasksAssumption
<1>7. view'.result # "none" => view'.task # NoTask /\ view'.result = state'[view'.task]
  BY <1>1, <1>2, <1>4, <1>6
<1>8. QED BY <1>2, <1>3, <1>4, <1>5, <1>7 DEF ViewKnows

LEMMA ViewStep ==
    ASSUME IInv, [Next]_vars
    PROVE  ViewTyped' /\ ViewKnows'
<1>1. /\ KernelInv /\ StreamKnows /\ SnapshotTyped /\ SnapshotKnows /\ ViewTyped /\ ViewKnows
      /\ Recorded
  BY KernelStep DEF IInv
<1>2. view.running \in BOOLEAN /\ TRUE \in BOOLEAN /\ FALSE \in BOOLEAN
  BY <1>1 DEF ViewTyped
<1>3. CASE Deliver
  BY <1>1, <1>3, DeliverShows
<1>4. CASE SnapshotApplied
  BY <1>1, <1>4, SnapshotShows
<1>5. ASSUME Mount \/ Unmount \/ Reload PROVE ViewTyped' /\ ViewKnows'
  <2>1. view' = [Fresh EXCEPT !.running = FALSE]
    BY <1>5 DEF Mount, Unmount, Reload, Leaves, Fresh
  <2>2. QED BY <1>2, <2>1, EmptyView
<1>6. ASSUME NEW t \in Tasks, NEW by \in {"composer", "proposal"}, Submit(t, by)
      PROVE  ViewTyped' /\ ViewKnows'
  <2>1. view' = [Fresh EXCEPT !.running = TRUE]
    BY <1>6 DEF Submit, Begun
  <2>2. QED BY <1>2, <2>1, EmptyView
<1>7. ASSUME NEW t \in Tasks, Nudge(t) PROVE ViewTyped' /\ ViewKnows'
  BY <1>6, <1>7 DEF Nudge
<1>8. ASSUME RefusalShown PROVE ViewTyped' /\ ViewKnows'
  <2>1. view' = view \/ view' = [view EXCEPT !.running = FALSE]
    BY <1>8 DEF RefusalShown
  <2>2. QED BY <1>1, <1>2, <2>1, SameView
<1>9. ASSUME DecisionApplied PROVE ViewTyped' /\ ViewKnows'
  <2>1. \/ view' = view
        \/ view' = [Fresh EXCEPT !.running = TRUE]
        \/ view' = [Fresh EXCEPT !.running = FALSE]
    <3>1. view' = view \/ view' = [Fresh EXCEPT !.running = view.running]
      BY <1>9 DEF DecisionApplied, Emptied
    <3>2. view.running = TRUE \/ view.running = FALSE
      BY <1>2
    <3>3. QED BY <3>1, <3>2
  <2>2. QED BY <1>1, <1>2, <2>1, SameView, EmptyView
<1>10. ASSUME \/ \E t \in Tasks : \/ Start(t) \/ Step(t) \/ Steer(t) \/ Raises(t)
                                  \/ \E outcome \in Outcomes : End(t, outcome)
                                  \/ FileOther(t) \/ Dequeue(t) \/ DecidedElsewhere(t)
              \/ Cancel \/ CancelEmits \/ Restart \/ Break \/ AppGoes \/ AppBack
              \/ Filed \/ Refused \/ Connect \/ SnapshotAnswered
              \/ \E what \in {"approve", "reject"} : Decide(what)
              \/ DecisionAnswered \/ Retire \/ Fetch503 \/ UNCHANGED vars
       PROVE  view' = view
  BY <1>10 DEF Start, Step, Steer, Raises, End, OnlyEmits, FileOther, Dequeue,
               DecidedElsewhere, Cancel, CancelEmits, Restart, Break, AppGoes, AppBack,
               Filed, Refused, Connect, SnapshotAnswered, Decide, DecisionAnswered, Retire,
               Fetch503, vars, page
<1>11. QED
  BY <1>1, <1>2, <1>3, <1>4, <1>5, <1>6, <1>7, <1>8, <1>9, <1>10, SameView DEF Next, Kernel

LEMMA FlagsStep ==
    ASSUME IInv, [Next]_vars
    PROVE  Flags'
<1>1. Flags
  BY DEF IInv
<1>2. astray' \in BOOLEAN
  BY <1>1 DEF Flags, Next, Kernel, Start, Step, Steer, Raises, End, Emit, OnlyEmits,
       FileOther, Dequeue, DecidedElsewhere, Nudge, Cancel, CancelEmits, Restart, Break,
       AppGoes, AppBack, Submit, Filed, Refused, RefusalShown, Mount, Unmount, Leaves,
       Connect, SnapshotAnswered, SnapshotApplied, Deliver, Decide, DecisionAnswered,
       DecisionApplied, Retire, Fetch503, Reload, vars
<1>3. overlay' \in BOOLEAN
  BY <1>1 DEF Flags, Next, Kernel, Start, Step, Steer, Raises, End, OnlyEmits,
       FileOther, Dequeue, DecidedElsewhere, Nudge, Cancel, CancelEmits, Restart, Break,
       AppGoes, AppBack, Submit, Filed, Refused, RefusalShown, Mount, Unmount,
       Connect, SnapshotAnswered, SnapshotApplied, Deliver, Decide, DecisionAnswered,
       DecisionApplied, Retire, Fetch503, Reload, vars, page
<1>4. mounted' \in BOOLEAN
  BY <1>1 DEF Flags, Next, Kernel, Start, Step, Steer, Raises, End, OnlyEmits,
       FileOther, Dequeue, DecidedElsewhere, Nudge, Cancel, CancelEmits, Restart, Break,
       AppGoes, AppBack, Submit, Filed, Refused, RefusalShown, Mount, Unmount, Leaves,
       Connect, SnapshotAnswered, SnapshotApplied, Deliver, Decide, DecisionAnswered,
       DecisionApplied, Retire, Fetch503, Reload, vars, page
<1>5. connected' \in BOOLEAN
  BY <1>1 DEF Flags, Next, Kernel, Start, Step, Steer, Raises, End, OnlyEmits,
       FileOther, Dequeue, DecidedElsewhere, Nudge, Cancel, CancelEmits, Restart, Break,
       AppGoes, AppBack, Submit, Filed, Refused, RefusalShown, Mount, Unmount, Leaves,
       Connect, SnapshotAnswered, SnapshotApplied, Deliver, Decide, DecisionAnswered,
       DecisionApplied, Retire, Fetch503, Reload, vars, wire
<1>6. appUp' \in BOOLEAN
  BY <1>1 DEF Flags, Next, Kernel, Start, Step, Steer, Raises, End, OnlyEmits,
       FileOther, Dequeue, DecidedElsewhere, Nudge, Cancel, CancelEmits, Restart, Break,
       AppGoes, AppBack, Submit, Filed, Refused, RefusalShown, Mount, Unmount,
       Connect, SnapshotAnswered, SnapshotApplied, Deliver, Decide, DecisionAnswered,
       DecisionApplied, Retire, Fetch503, Reload, vars
<1>7. QED BY <1>2, <1>3, <1>4, <1>5, <1>6 DEF Flags

LEMMA FaultsStep ==
    ASSUME faults \in Nat, [Next]_vars
    PROVE  faults' \in Nat
<1>1. faults' = faults \/ faults' = faults + 1
  BY DEF Fault, Next, Kernel, Start, Step, Steer, Raises, End, OnlyEmits,
       FileOther, Dequeue, DecidedElsewhere, Nudge, Cancel, CancelEmits, Restart, Break,
       AppGoes, AppBack, Submit, Filed, Refused, RefusalShown, Mount, Unmount,
       Connect, SnapshotAnswered, SnapshotApplied, Deliver, Decide, DecisionAnswered,
       DecisionApplied, Retire, Fetch503, Reload, vars
<1>2. QED BY <1>1

-----------------------------------------------------------------------------
LEMMA InitIInv == Init => IInv
<1> SUFFICES ASSUME Init PROVE IInv
  OBVIOUS
<1>1. KernelInv
  <2>1. /\ state = [t \in Tasks |-> "none"] /\ queue = <<>> /\ latest = NoTask
        /\ log = [t \in Tasks |-> <<>>] /\ taskSeq = 0 /\ killing = NoTask /\ held = {}
        /\ post = [task |-> NoTask, by |-> "none"]
    BY DEF Init, NoPost
  <2>2. KernelTyped
    BY <2>1 DEF KernelTyped, States
  <2>3. QueueShape
    BY <2>1 DEF QueueShape, Range, Waiting
  <2>4. Unstarted
    BY <2>1, TasksAssumption DEF Unstarted
  <2>5. LogInOrder
    BY <2>1 DEF LogInOrder, OfTask
  <2>6. QED BY <2>2, <2>3, <2>4, <2>5 DEF KernelInv
<1>2. SnapshotTyped /\ DecidingTyped /\ StreamKnows /\ SnapshotKnows
  BY DEF Init, SnapshotTyped, DecidingTyped, Undecided, StreamKnows, SnapshotKnows
<1>3. ViewTyped /\ ViewKnows
  BY DEF Init, Fresh, ViewTyped, ViewKnows, OfTask, InOrder, UpTo
<1>4. Flags
  BY DEF Init, Flags
<1>5. faults \in Nat
  BY DEF Init
<1>6. QED BY <1>1, <1>2, <1>3, <1>4, <1>5 DEF IInv

(* IInv is an invariant: whatever the kernel, the wire and the page do next. *)
THEOREM Invariant == Spec => []IInv
<1>1. ASSUME IInv, [Next]_vars PROVE IInv'
  <2>1. KernelInv /\ faults \in Nat
    BY <1>1 DEF IInv
  <2>2. KernelInv' /\ faults' \in Nat
    BY <1>1, <2>1, KernelStep, FaultsStep
  <2>3. SnapshotTyped' /\ SnapshotKnows'
    BY <1>1, SnapshotStep
  <2>4. DecidingTyped'
    BY <1>1, DecidingStep
  <2>5. StreamKnows'
    BY <1>1, StreamStep
  <2>6. ViewTyped' /\ ViewKnows'
    BY <1>1, ViewStep
  <2>7. Flags'
    BY <1>1, FlagsStep
  <2>8. QED BY <2>2, <2>3, <2>4, <2>5, <2>6, <2>7 DEF IInv
<1>2. QED BY InitIInv, <1>1, PTL DEF Spec

(* Every variable of the tab, the wire and the kernel keeps its type. *)
THEOREM TypeCorrect == Spec => []TypeOK
<1>1. IInv => TypeOK
  BY DEF IInv, KernelInv, KernelTyped, SnapshotTyped, DecidingTyped, StreamKnows, ViewTyped,
         Flags, TypeOK
<1>2. QED BY Invariant, <1>1, PTL

(* The trace on screen is of one task and in order, with nothing twice, and *)
(* the outcome beside it is the one the kernel recorded for that task,      *)
(* whatever a snapshot brought late, a stream brought early or a click      *)
(* emptied meanwhile.                                                      *)
THEOREM TraceCorrect == Spec => []TraceIsOfTask
<1>1. IInv => TraceIsOfTask
  BY DEF IInv, ViewKnows, OfTask, InOrder, TraceIsOfTask
<1>2. QED BY Invariant, <1>1, PTL

-----------------------------------------------------------------------------
(* ViewAgrees.  A tab that is not astray may still be wrong for a while; it *)
(* is on course when what will set it right is on its way.  A view that says *)
(* "running" of a task that is over has an event to come that moves it: the *)
(* "done" of that task, newer than what it shows, or an event of another    *)
(* task, which resets it.  A view that waits for its first event has its    *)
(* request on the way, in the queue, or in the stream.  An answer that says *)
(* "running" of a task that is over has missed a "done" that is in the log, *)
(* and so either overtook it or still meets it in the stream.               *)

(* The latest task has logged something, and so has one that is killed.     *)
LogKnown ==
    /\ latest # NoTask => log[latest] # <<>>
    /\ latest = NoTask => \A t \in Tasks : log[t] = <<>>
    /\ killing # NoTask => log[killing] # <<>>

(* What is on its way was logged, and a "done" is newer than what precedes  *)
(* it; a cancellation that follows it need not be.                          *)
StreamOrdered ==
    /\ connected \/ stream = <<>>
    /\ \A i \in DOMAIN stream : stream[i] \in Range(log[stream[i].task])
    /\ \A i, j \in DOMAIN stream :
          i < j /\ stream[j].kind = "done" /\ stream[i].task = stream[j].task
             => stream[i].seq < stream[j].seq

(* The log has a "done" that is newer than n. *)
Told(t, n) == \E ev \in Range(log[t]) : ev.kind = "done" /\ ev.seq > n

SnapshotOnCourse ==
    /\ snapshot.at # "none" => mounted
    /\ snapshot.at = "answered" =>
          /\ snapshot.events # <<>> /\ Range(snapshot.events) \subseteq Range(log[snapshot.task])
          /\ snapshot.state \in {"running"} \cup Outcomes
          /\ snapshot.state = "running" /\ Final(snapshot.task) /\ ~astray
                => Told(snapshot.task, LastSeq(snapshot.events))

(* What the view counts from was logged. *)
ShownLogged == view.task # NoTask => view.lastSeq \in SeqsOf(log[view.task])

Moves(ev) == ev.task # view.task \/ (ev.kind = "done" /\ ev.seq > view.lastSeq)

OnCourse ==
    /\ view.task # NoTask /\ view.running =>
          state[view.task] = "running" \/ \E i \in DOMAIN stream : Moves(stream[i])
    /\ view.task # NoTask /\ ~view.running => Final(view.task)
    /\ view.task = NoTask /\ view.running => post # NoPost \/ stream # <<>> \/ queue # <<>>

ViewOnCourse ==
    /\ mounted /\ ~astray /\ snapshot.at = "none" => OnCourse
    /\ mounted /\ ~astray /\ snapshot.at = "asked" /\ latest = NoTask
          => (view.running => post # NoPost \/ queue # <<>>)

CourseInv == LogKnown /\ StreamOrdered /\ SnapshotOnCourse /\ ShownLogged /\ ViewOnCourse

-----------------------------------------------------------------------------
(* What a step brings. *)
LEMMA RangeJoined ==
    ASSUME NEW l \in Seq(Events), NEW e \in Seq(Events)
    PROVE  /\ l \o e \in Seq(Events) /\ Range(l \o e) = Range(l) \cup Range(e)
           /\ Len(l) \in Nat /\ Len(e) \in Nat
           /\ DOMAIN l = 1 .. Len(l) /\ DOMAIN e = 1 .. Len(e)
           /\ DOMAIN (l \o e) = 1 .. Len(l) + Len(e)
           /\ \A i \in 1 .. Len(l) : (l \o e)[i] = l[i]
           /\ \A i \in 1 .. Len(e) : (l \o e)[Len(l) + i] = e[i]
           /\ \A i \in Len(l) + 1 .. Len(l) + Len(e) :
                 i - Len(l) \in 1 .. Len(e) /\ (l \o e)[i] = e[i - Len(l)]
<1> DEFINE g == l \o e
<1>1. /\ g \in Seq(Events)
      /\ Len(l) \in Nat /\ Len(e) \in Nat
      /\ DOMAIN l = 1 .. Len(l) /\ DOMAIN e = 1 .. Len(e)
      /\ DOMAIN g = 1 .. Len(l) + Len(e)
      /\ \A i \in 1 .. Len(l) : g[i] = l[i]
      /\ \A i \in Len(l) + 1 .. Len(l) + Len(e) : g[i] = e[i - Len(l)]
  OBVIOUS
<1> HIDE DEF g
<1>2. \A i \in Len(l) + 1 .. Len(l) + Len(e) : i - Len(l) \in 1 .. Len(e)
  BY <1>1
<1>3. ASSUME NEW i \in 1 .. Len(e)
      PROVE  Len(l) + i \in Len(l) + 1 .. Len(l) + Len(e) /\ g[Len(l) + i] = e[i]
  <2>1. Len(l) + i \in Len(l) + 1 .. Len(l) + Len(e) /\ (Len(l) + i) - Len(l) = i
    BY <1>1
  <2>2. QED BY <1>1, <2>1
<1>4. ASSUME NEW i \in 1 .. Len(l) PROVE i \in DOMAIN g
  BY <1>1
<1>5. ASSUME NEW i \in Len(l) + 1 .. Len(l) + Len(e) PROVE i \in DOMAIN g
  BY <1>1
<1>6. \A i \in DOMAIN g : i \in 1 .. Len(l) \/ i \in Len(l) + 1 .. Len(l) + Len(e)
  BY <1>1
<1>7. Range(g) = Range(l) \cup Range(e)
  <2>1. ASSUME NEW x \in Range(g) PROVE x \in Range(l) \cup Range(e)
    <3>1. PICK i \in DOMAIN g : x = g[i]
      BY DEF Range
    <3>2. QED BY <1>1, <1>2, <1>6, <3>1 DEF Range
  <2>2. ASSUME NEW x \in Range(l) PROVE x \in Range(g)
    BY <1>1, <1>4 DEF Range
  <2>3. ASSUME NEW x \in Range(e) PROVE x \in Range(g)
    BY <1>1, <1>3, <1>5 DEF Range
  <2>4. QED BY <2>1, <2>2, <2>3
<1>8. QED BY <1>1, <1>2, <1>3, <1>7 DEF g

(* A step that logs and publishes the events e of task t: numbered on from  *)
(* "from", and missed for good only by a tab without a stream.              *)
Brings(e, t, from) ==
    /\ e \in Seq(Events) /\ e # <<>>
    /\ \A i \in DOMAIN e : e[i].task = t /\ e[i].seq = from + i
    /\ \A u \in Tasks : Range(log'[u]) = IF u = t THEN Range(log[t]) \cup Range(e)
                                         ELSE Range(log[u])
    /\ stream' = IF connected THEN stream \o e ELSE stream
    /\ astray' = (astray \/ (mounted /\ ~connected /\ snapshot.at # "asked"))
    /\ (\E i \in DOMAIN e : e[i].kind = "done") => UpTo(log[t], from)
    /\ UNCHANGED <<connected, snapshot, post, mounted, view>>

LEMMA Publication ==
    ASSUME KernelInv, NEW t \in Tasks, NEW kinds \in Seq(Kinds), kinds # <<>>,
           NEW from \in Nat, Emit(t, kinds, from), OnlyEmits,
           (\E i \in DOMAIN kinds : kinds[i] = "done") => UpTo(log[t], from)
    PROVE  \E e \in Seq(Events) :
              /\ Brings(e, t, from)
              /\ DOMAIN e = DOMAIN kinds /\ \A i \in DOMAIN e : e[i].kind = kinds[i]
<1>1. Len(kinds) \in Nat /\ DOMAIN kinds = 1 .. Len(kinds) /\ Len(kinds) # 0
  OBVIOUS
<1>2. PICK e \in Seq(Events) : Publishes(e, t, kinds, from, Len(kinds))
  BY <1>1, Emitted
<1>3. /\ Len(e) = Len(kinds) /\ DOMAIN e = DOMAIN kinds /\ e # <<>>
      /\ \A i \in DOMAIN e : e[i].task = t /\ e[i].seq = from + i /\ e[i].kind = kinds[i]
      /\ log' = [log EXCEPT ![t] = @ \o e]
      /\ stream' = IF connected THEN stream \o e ELSE stream
  BY <1>1, <1>2 DEF Publishes, Published
<1>4. \A u \in Tasks : Range(log'[u]) = IF u = t THEN Range(log[t]) \cup Range(e)
                                        ELSE Range(log[u])
  <2>1. log[t] \in Seq(Events) /\ log \in [Tasks -> Seq(Events)]
    BY DEF KernelInv, KernelTyped
  <2>2. Range(log[t] \o e) = Range(log[t]) \cup Range(e)
    BY <2>1, RangeJoined
  <2>3. \A u \in Tasks : log'[u] = IF u = t THEN log[t] \o e ELSE log[u]
    BY <1>3, <2>1
  <2>4. QED BY <2>2, <2>3
<1>5. astray' = (astray \/ (mounted /\ ~connected /\ snapshot.at # "asked"))
  <2> DEFINE events == [i \in DOMAIN kinds |-> [task |-> t, seq |-> from + i, kind |-> kinds[i]]]
  <2>1. astray' = (astray \/ MissedBy(events))
    BY DEF Emit
  <2>2. 1 \in DOMAIN events
    BY <1>1
  <2>3. events # <<>>
    <3> HIDE DEF events
    <3>1. 1 \notin DOMAIN <<>>
      OBVIOUS
    <3>2. QED BY <2>2, <3>1
  <2> HIDE DEF events
  <2>4. QED BY <2>1, <2>3 DEF MissedBy
<1>6. UNCHANGED <<connected, snapshot, post, mounted, view>>
  BY DEF OnlyEmits, page
<1>7. (\E i \in DOMAIN e : e[i].kind = "done") => UpTo(log[t], from)
  BY <1>3
<1>8. Brings(e, t, from)
  BY <1>3, <1>4, <1>5, <1>6, <1>7 DEF Brings
<1>9. QED BY <1>3, <1>8

(* The steps that publish. *)
Speaks(t) ==
    \/ Start(t) \/ Step(t) \/ \E outcome \in Outcomes : End(t, outcome)
    \/ CancelEmits /\ killing = t

LEMMA Spoken ==
    ASSUME KernelInv, NEW t \in Tasks, Speaks(t)
    PROVE  \E e \in Seq(Events), from \in Nat :
              /\ Brings(e, t, from)
              /\ (\E outcome \in Outcomes : End(t, outcome)) =>
                    from = taskSeq /\ \E i \in DOMAIN e : e[i].kind = "done"
<1>1. /\ taskSeq \in Nat /\ 0 \in Nat
      /\ \A k \in {"request", "step", "cancelled", "pending", "done"} : k \in Kinds
  BY DEF KernelInv, KernelTyped, Kinds
<1>2. ASSUME NEW k \in {"request", "step", "cancelled"}
      PROVE  /\ <<k>> \in Seq(Kinds) /\ <<k>> # <<>>
             /\ \A i \in DOMAIN <<k>> : <<k>>[i] # "done"
  BY <1>1
<1>3. ASSUME NEW outcome \in Outcomes, End(t, outcome)
      PROVE  \E e \in Seq(Events), from \in Nat :
                Brings(e, t, from) /\ from = taskSeq /\ \E i \in DOMAIN e : e[i].kind = "done"
  <2> DEFINE kinds == IF outcome = "pending" THEN <<"pending", "done">> ELSE <<"done">>
  <2>1. state[t] = "running" /\ Emit(t, kinds, taskSeq) /\ OnlyEmits
    BY <1>3 DEF End
  <2>2. /\ kinds \in Seq(Kinds) /\ kinds # <<>>
        /\ \E i \in DOMAIN kinds : kinds[i] = "done"
    <3>1. CASE outcome = "pending"
      <4>1. kinds = <<"pending", "done">>
        BY <3>1
      <4>2. kinds \in Seq(Kinds) /\ 2 \in DOMAIN kinds /\ kinds[2] = "done"
        BY <1>1, <4>1
      <4>3. QED BY <4>1, <4>2
    <3>2. CASE outcome # "pending"
      <4>1. kinds = <<"done">>
        BY <3>2
      <4>2. kinds \in Seq(Kinds) /\ 1 \in DOMAIN kinds /\ kinds[1] = "done"
        BY <1>1, <4>1
      <4>3. QED BY <4>1, <4>2
    <3>3. QED BY <3>1, <3>2
  <2>3. UpTo(log[t], taskSeq)
    BY <2>1, TasksAssumption DEF KernelInv, QueueShape, LogInOrder
  <2> HIDE DEF kinds
  <2>4. PICK e \in Seq(Events) : /\ Brings(e, t, taskSeq) /\ DOMAIN e = DOMAIN kinds
                                 /\ \A i \in DOMAIN e : e[i].kind = kinds[i]
    BY <1>1, <2>1, <2>2, <2>3, Publication
  <2>5. QED BY <1>1, <2>2, <2>4
<1>4. CASE Start(t)
  <2>1. Emit(t, <<"request">>, 0) /\ OnlyEmits /\ state[t] = "queued"
    BY <1>4 DEF Start
  <2>2. ~ \E outcome \in Outcomes : End(t, outcome)
    BY <2>1 DEF End
  <2>3. \E e \in Seq(Events) : Brings(e, t, 0)
    BY <1>1, <1>2, <2>1, Publication
  <2>4. QED BY <1>1, <2>2, <2>3
<1>5. CASE Step(t) /\ ~ \E outcome \in Outcomes : End(t, outcome)
  <2>1. Emit(t, <<"step">>, taskSeq) /\ OnlyEmits
    BY <1>5 DEF Step
  <2>2. \E e \in Seq(Events) : Brings(e, t, taskSeq)
    BY <1>1, <1>2, <2>1, Publication
  <2>3. QED BY <1>1, <1>5, <2>2
<1>6. CASE CancelEmits /\ killing = t /\ ~ \E outcome \in Outcomes : End(t, outcome)
  <2>1. Emit(t, <<"cancelled">>, taskSeq) /\ OnlyEmits
    BY <1>6 DEF CancelEmits
  <2>2. \E e \in Seq(Events) : Brings(e, t, taskSeq)
    BY <1>1, <1>2, <2>1, Publication
  <2>3. QED BY <1>1, <1>6, <2>2
<1>7. QED BY <1>3, <1>4, <1>5, <1>6 DEF Speaks

LEMMA Emptiness ==
    ASSUME NEW l \in Seq(Events)
    PROVE  l = <<>> <=> Range(l) = {}
<1>1. Len(l) \in Nat /\ DOMAIN l = 1 .. Len(l) /\ (l = <<>> <=> Len(l) = 0)
  OBVIOUS
<1>2. ASSUME l # <<>> PROVE Range(l) # {}
  <2>1. 1 \in DOMAIN l
    BY <1>1, <1>2
  <2>2. QED BY <2>1 DEF Range
<1>3. ASSUME l = <<>> PROVE Range(l) = {}
  BY <1>1, <1>3 DEF Range
<1>4. QED BY <1>2, <1>3

(* A log never loses an event. *)
LogGrows == \A t \in Tasks : Range(log[t]) \subseteq Range(log'[t])

LEMMA LogKept ==
    ASSUME KernelInv, KernelInv', LogKnown, LogGrows
    PROVE  \A t \in Tasks : log[t] # <<>> => log'[t] # <<>>
<1>1. \A t \in Tasks : log[t] \in Seq(Events) /\ log'[t] \in Seq(Events)
  BY DEF KernelInv, KernelTyped
<1>2. QED BY <1>1, Emptiness DEF LogGrows

LEMMA LogStep ==
    ASSUME KernelInv, LogKnown, [Next]_vars
    PROVE  LogGrows /\ LogKnown'
<1>0. KernelInv'
  BY KernelStep
<1>1. ASSUME NEW t \in Tasks, Speaks(t) PROVE LogGrows /\ LogKnown'
  <2>1. PICK e \in Seq(Events), from \in Nat : Brings(e, t, from)
    BY <1>1, Spoken
  <2>2. LogGrows
    BY <2>1 DEF Brings, LogGrows
  <2>3. log'[t] # <<>>
    <3>1. Range(e) # {} /\ Range(e) \subseteq Range(log'[t])
      BY <2>1, Emptiness DEF Brings
    <3>2. log'[t] \in Seq(Events)
      BY <1>0 DEF KernelInv, KernelTyped
    <3>3. QED BY <3>1, <3>2, Emptiness
  <2>4. latest' = t \/ (latest' = latest /\ latest # NoTask)
    <3>1. CASE Start(t)
      BY <3>1 DEF Start
    <3>2. CASE Step(t) \/ \E outcome \in Outcomes : End(t, outcome)
      BY <3>2, TasksAssumption DEF Step, End, KernelInv, QueueShape
    <3>3. CASE CancelEmits /\ killing = t
      <4>1. t # NoTask /\ latest' = latest
        BY <3>3 DEF CancelEmits
      <4>2. QED BY <3>3, <4>1 DEF LogKnown
    <3>4. QED BY <1>1, <3>1, <3>2, <3>3 DEF Speaks
  <2>5. killing' \in {killing, NoTask}
    BY <1>1 DEF Speaks, Start, Step, End, CancelEmits, OnlyEmits
  <2>6. latest \in Tasks \cup {NoTask} /\ killing \in Tasks \cup {NoTask} /\ t # NoTask
    BY TasksAssumption DEF KernelInv, KernelTyped
  <2>7. \A u \in Tasks : log[u] # <<>> => log'[u] # <<>>
    BY <1>0, <2>2, LogKept
  <2>8. QED BY <2>2, <2>3, <2>4, <2>5, <2>6, <2>7 DEF LogKnown
<1>2. ASSUME UNCHANGED <<log, latest>>,
             killing' \in {killing, NoTask} \/ (killing' = latest /\ latest # NoTask)
      PROVE  LogGrows /\ LogKnown'
  BY <1>2 DEF LogGrows, LogKnown
<1>3. ASSUME Cancel PROVE UNCHANGED <<log, latest>> /\ killing' = latest /\ latest # NoTask
  <2>1. /\ queue \in Seq(Tasks) /\ queue # <<>> /\ state[Head(queue)] = "running"
        /\ killing' = Head(queue) /\ UNCHANGED <<log, latest>>
    BY <1>3 DEF Cancel, KernelInv, KernelTyped
  <2>2. Head(queue) \in Tasks
    BY <2>1
  <2>3. QED BY <2>1, <2>2, TasksAssumption DEF KernelInv, QueueShape
<1>4. ASSUME NEW t \in Tasks, Steer(t) PROVE Speaks(t)
  BY <1>4 DEF Steer, Speaks
<1>5. ASSUME CancelEmits PROVE \E t \in Tasks : Speaks(t)
  BY <1>5 DEF CancelEmits, Speaks, KernelInv, KernelTyped
<1>6. ASSUME \/ \E t \in Tasks : \/ Raises(t) \/ FileOther(t) \/ Dequeue(t)
                                 \/ DecidedElsewhere(t) \/ Nudge(t)
             \/ Restart \/ Break \/ AppGoes \/ AppBack
             \/ \E t \in Tasks, by \in {"composer", "proposal"} : Submit(t, by)
             \/ Filed \/ Refused \/ RefusalShown
             \/ Mount \/ Unmount \/ Connect \/ SnapshotAnswered \/ SnapshotApplied \/ Deliver
             \/ \E what \in {"approve", "reject"} : Decide(what)
             \/ DecisionAnswered \/ DecisionApplied
             \/ Retire \/ Fetch503 \/ Reload \/ UNCHANGED vars
      PROVE  UNCHANGED <<log, latest>> /\ killing' \in {killing, NoTask}
  BY <1>6 DEF Raises, FileOther, Dequeue, DecidedElsewhere, Nudge, Restart, Break, AppGoes,
              AppBack, Submit, Filed, Refused, RefusalShown, Mount, Unmount, Connect,
              SnapshotAnswered, SnapshotApplied, Deliver, Decide, DecisionAnswered,
              DecisionApplied, Retire, Fetch503, Reload, vars, kernel
<1>7. QED
  BY <1>1, <1>2, <1>3, <1>4, <1>5, <1>6 DEF Next, Kernel, Speaks

-----------------------------------------------------------------------------
(* The stream. *)
LEMMA StreamBrought ==
    ASSUME StreamKnows, KernelInv, LogGrows, StreamOrdered, NEW t \in Tasks, NEW e \in Seq(Events),
           NEW from \in Nat, Brings(e, t, from)
    PROVE  StreamOrdered'
<1>1. /\ connected' = connected /\ stream \in Seq(Events)
      /\ \A i \in DOMAIN e : e[i].task = t /\ e[i].seq = from + i
      /\ Range(log'[t]) = Range(log[t]) \cup Range(e)
      /\ connected \/ stream = <<>>
      /\ \A i \in DOMAIN stream : stream[i] \in Range(log[stream[i].task])
  BY DEF Brings, StreamKnows, StreamOrdered
<1>2. CASE ~connected
  BY <1>1, <1>2 DEF Brings, StreamOrdered
<1>3. CASE connected
  <2> DEFINE g == stream \o e
  <2>1. stream' = g
    BY <1>3 DEF Brings
  <2>2. /\ Len(stream) \in Nat /\ Len(e) \in Nat
        /\ DOMAIN stream = 1 .. Len(stream) /\ DOMAIN e = 1 .. Len(e)
        /\ DOMAIN g = 1 .. Len(stream) + Len(e)
        /\ \A i \in 1 .. Len(stream) : g[i] = stream[i]
        /\ \A i \in Len(stream) + 1 .. Len(stream) + Len(e) :
              i - Len(stream) \in 1 .. Len(e) /\ g[i] = e[i - Len(stream)]
    BY <1>1, RangeJoined
  <2> HIDE DEF g
  <2>3. \A i \in DOMAIN g : i \in 1 .. Len(stream) \/ i \in Len(stream) + 1 .. Len(stream) + Len(e)
    BY <2>2
  <2>4. \A i \in DOMAIN stream : stream[i].task \in Tasks /\ stream[i].seq \in Nat
    <3>1. \A i \in DOMAIN stream : stream[i] \in Events
      BY <1>1
    <3>2. QED BY <3>1 DEF Events
  <2>5. ASSUME NEW i \in DOMAIN g PROVE g[i] \in Range(log'[g[i].task])
    <3>1. CASE i \in 1 .. Len(stream)
      BY <1>1, <2>2, <2>4, <3>1 DEF LogGrows
    <3>2. CASE i \in Len(stream) + 1 .. Len(stream) + Len(e)
      <4> DEFINE m == i - Len(stream)
      <4>1. m \in DOMAIN e /\ g[i] = e[m]
        BY <2>2, <3>2
      <4> HIDE DEF m
      <4>2. g[i] \in Range(e) /\ g[i].task = t
        BY <1>1, <4>1 DEF Range
      <4>3. QED BY <1>1, <4>2
    <3>3. QED BY <2>3, <3>1, <3>2
  <2>6. ASSUME NEW i \in DOMAIN g, NEW j \in DOMAIN g, i < j, g[j].kind = "done",
               g[i].task = g[j].task
        PROVE  g[i].seq < g[j].seq
    <3>1. CASE j \in 1 .. Len(stream)
      <4>1. i \in 1 .. Len(stream)
        BY <2>2, <2>6, <3>1
      <4>2. QED BY <2>2, <2>6, <3>1, <4>1 DEF StreamOrdered
    <3>2. CASE j \in Len(stream) + 1 .. Len(stream) + Len(e)
      <4> DEFINE m == j - Len(stream)
      <4>1. m \in DOMAIN e /\ m \in Nat /\ m > 0 /\ g[j] = e[m] /\ g[j].task = t
            /\ g[j].seq = from + m
        BY <1>1, <2>2, <3>2
      <4>2. UpTo(log[t], from)
        BY <2>6, <4>1 DEF Brings
      <4> HIDE DEF m
      <4>3. CASE i \in 1 .. Len(stream)
        <5>1. g[i] \in Range(log[t]) /\ g[i].seq \in Nat
          BY <1>1, <2>2, <2>4, <2>6, <4>1, <4>3
        <5>2. g[i].seq <= from
          BY <4>2, <5>1 DEF Range, UpTo
        <5>3. QED BY <4>1, <5>1, <5>2
      <4>4. CASE i \in Len(stream) + 1 .. Len(stream) + Len(e)
        <5>1. g[i].seq = from + (i - Len(stream))
          BY <1>1, <2>2, <4>4
        <5>2. QED BY <2>2, <2>6, <4>1, <4>4, <5>1 DEF m
      <4>5. QED BY <2>3, <4>3, <4>4
    <3>3. QED BY <2>3, <3>1, <3>2
  <2>7. QED BY <1>1, <1>3, <2>1, <2>5, <2>6 DEF StreamOrdered
<1>4. QED BY <1>2, <1>3

LEMMA StreamCut ==
    ASSUME StreamKnows, StreamOrdered, LogGrows, connected' = connected, stream # <<>>,
           stream' = Tail(stream)
    PROVE  StreamOrdered'
<1> DEFINE r == Tail(stream)
<1>1. stream \in Seq(Events) /\ \A i \in DOMAIN stream : stream[i] \in Events
  BY DEF StreamKnows
<1>2. /\ Len(stream) \in Nat /\ DOMAIN stream = 1 .. Len(stream)
      /\ DOMAIN r = 1 .. Len(stream) - 1
      /\ \A i \in 1 .. Len(stream) - 1 : r[i] = stream[i + 1]
  BY <1>1
<1> HIDE DEF r
<1>3. \A i \in DOMAIN r : i + 1 \in DOMAIN stream /\ r[i] = stream[i + 1]
  BY <1>2
<1>4. \A i, j \in DOMAIN r : i < j => i + 1 < j + 1
  BY <1>2
<1>5. \A i \in DOMAIN stream : stream[i].task \in Tasks
  BY <1>1 DEF Events
<1>6. \A i \in DOMAIN r : r[i] \in Range(log'[r[i].task])
  BY <1>3, <1>5 DEF StreamOrdered, LogGrows
<1>7. \A i, j \in DOMAIN r :
         i < j /\ r[j].kind = "done" /\ r[i].task = r[j].task => r[i].seq < r[j].seq
  BY <1>3, <1>4 DEF StreamOrdered
<1>8. connected' \/ stream' = <<>>
  BY DEF StreamOrdered
<1>9. QED BY <1>6, <1>7, <1>8 DEF StreamOrdered, r

LEMMA StreamOrderStep ==
    ASSUME IInv, LogKnown, StreamOrdered, [Next]_vars
    PROVE  StreamOrdered'
<1>1. KernelInv /\ StreamKnows /\ LogGrows
  BY LogStep DEF IInv
<1>2. ASSUME NEW t \in Tasks, Speaks(t) PROVE StreamOrdered'
  <2>1. PICK e \in Seq(Events), from \in Nat : Brings(e, t, from)
    BY <1>1, <1>2, Spoken
  <2>2. QED BY <1>1, <2>1, StreamBrought
<1>3. CASE Deliver
  BY <1>1, <1>3, StreamCut DEF Deliver
<1>4. CASE stream' = <<>>
  BY <1>4 DEF StreamOrdered
<1>5. CASE stream' = stream /\ connected' \in {connected, TRUE}
  <2>1. \A i \in DOMAIN stream : stream[i].task \in Tasks
    <3>1. \A i \in DOMAIN stream : stream[i] \in Events
      BY <1>1 DEF StreamKnows
    <3>2. QED BY <3>1 DEF Events
  <2>2. \A i \in DOMAIN stream : stream[i] \in Range(log'[stream[i].task])
    BY <1>1, <2>1 DEF StreamOrdered, LogGrows
  <2>3. QED BY <1>5, <2>2 DEF StreamOrdered
<1>6. ASSUME NEW t \in Tasks, Steer(t) PROVE Speaks(t)
  BY <1>6 DEF Steer, Speaks
<1>7. ASSUME CancelEmits PROVE \E t \in Tasks : Speaks(t)
  BY <1>1, <1>7 DEF CancelEmits, Speaks, KernelInv, KernelTyped
<1>8. ASSUME Restart \/ Break \/ Mount \/ Unmount \/ Reload PROVE stream' = <<>>
  BY <1>8 DEF Restart, Break, Mount, Unmount, Reload, Leaves
<1>9. ASSUME \/ \E t \in Tasks : \/ Raises(t) \/ FileOther(t) \/ Dequeue(t)
                                 \/ DecidedElsewhere(t) \/ Nudge(t)
             \/ Cancel \/ AppGoes \/ AppBack
             \/ \E t \in Tasks, by \in {"composer", "proposal"} : Submit(t, by)
             \/ Filed \/ Refused \/ RefusalShown
             \/ Connect \/ SnapshotAnswered \/ SnapshotApplied
             \/ \E what \in {"approve", "reject"} : Decide(what)
             \/ DecisionAnswered \/ DecisionApplied
             \/ Retire \/ Fetch503 \/ UNCHANGED vars
      PROVE  stream' = stream /\ connected' \in {connected, TRUE}
  BY <1>9 DEF Raises, FileOther, Dequeue, DecidedElsewhere, Nudge, Cancel, AppGoes, AppBack,
              Submit, Filed, Refused, RefusalShown, Connect, SnapshotAnswered,
              SnapshotApplied, Decide, DecisionAnswered, DecisionApplied, Retire, Fetch503,
              vars, wire
<1>10. QED
  BY <1>2, <1>3, <1>4, <1>5, <1>6, <1>7, <1>8, <1>9 DEF Next, Kernel, Speaks

-----------------------------------------------------------------------------
(* What is shown. *)
LEMMA SeqOf ==
    ASSUME NEW l, NEW n
    PROVE  n \in SeqsOf(l) <=> \E ev \in Range(l) : ev.seq = n
  BY DEF SeqsOf, Range

LEMMA LastSeqIs ==
    ASSUME NEW l \in Seq(Events), InOrder(l), l # <<>>
    PROVE  LastSeq(l) \in SeqsOf(l) /\ LastSeq(l) \in Nat /\ UpTo(l, LastSeq(l))
<1>1. Len(l) \in Nat /\ DOMAIN l = 1 .. Len(l) /\ Len(l) # 0
  OBVIOUS
<1>2. \A i \in DOMAIN l : l[i] \in Events
  OBVIOUS
<1>3. \A i \in DOMAIN l : l[i].seq \in Nat
  BY <1>2 DEF Events
<1>4. Len(l) \in DOMAIN l /\ l[Len(l)].seq \in SeqsOf(l)
  BY <1>1 DEF SeqsOf
<1>5. ASSUME NEW i \in DOMAIN l PROVE l[i].seq <= l[Len(l)].seq
  <2>1. i = Len(l) \/ i < Len(l)
    BY <1>1
  <2>2. QED BY <1>3, <1>4, <2>1 DEF InOrder
<1>6. \A m \in SeqsOf(l) : m <= l[Len(l)].seq
  BY <1>5 DEF SeqsOf
<1>7. LastSeq(l) \in SeqsOf(l)
  BY <1>4, <1>6 DEF LastSeq
<1>8. QED BY <1>7, LastSeqBounds

(* Which of its cases an event of the stream met. *)
LEMMA Delivered ==
    ASSUME StreamKnows, ViewTyped, Deliver, NEW ev, ev = Head(stream)
    PROVE  /\ ev \in Events /\ ev.task \in Tasks /\ ev.seq \in Nat /\ ev = stream[1]
           /\ 1 \in DOMAIN stream
           /\ \/ /\ ev.task # view.task \/ ev.seq > view.lastSeq
                 /\ view'.task = ev.task /\ view'.lastSeq = ev.seq
                 /\ ev.kind = "done" => view'.running = FALSE
                 /\ ev.kind # "done" /\ ev.task = view.task => view'.running = view.running
                 /\ ev.kind # "done" /\ ev.task # view.task => view'.running = TRUE
              \/ /\ ev.task = view.task /\ ~(ev.seq > view.lastSeq)
                 /\ view' = view
<1>1. /\ stream \in Seq(Events) /\ stream # <<>> /\ view' = ApplyEvent(ev)
  BY DEF Deliver, StreamKnows
<1>2. 1 \in DOMAIN stream /\ ev = stream[1] /\ ev \in Events
  BY <1>1
<1>3. ev.task \in Tasks /\ ev.seq \in Nat
  BY <1>2 DEF Events
<1>4. CASE ev.task # view.task
  <2> DEFINE v == [task |-> ev.task, lastSeq |-> ev.seq, log |-> <<ev>>, running |-> TRUE,
                   result |-> "none"]
  <2>1. view' = IF ev.kind = "done" THEN [v EXCEPT !.running = FALSE, !.result = state[ev.task]]
                                    ELSE v
    BY <1>1, <1>4 DEF ApplyEvent, Settles
  <2>2. QED BY <1>2, <1>3, <1>4, <2>1
<1>5. CASE ev.task = view.task /\ ev.seq > view.lastSeq
  <2> DEFINE v == [view EXCEPT !.lastSeq = ev.seq, !.log = Append(@, ev)]
  <2>1. view' = IF ev.kind = "done" THEN [v EXCEPT !.running = FALSE, !.result = state[ev.task]]
                                    ELSE v
    BY <1>1, <1>5 DEF ApplyEvent, Settles
  <2>2. v.task = view.task /\ v.lastSeq = ev.seq /\ v.running = view.running
    BY DEF ViewTyped
  <2>3. view'.task = view.task /\ view'.lastSeq = ev.seq
        /\ view'.running = IF ev.kind = "done" THEN FALSE ELSE view.running
    BY <2>1 DEF ViewTyped
  <2>4. QED BY <1>2, <1>3, <1>5, <2>3
<1>6. CASE ev.task = view.task /\ ~(ev.seq > view.lastSeq)
  BY <1>1, <1>2, <1>3, <1>6 DEF ApplyEvent
<1>7. QED BY <1>4, <1>5, <1>6

LEMMA ShownStep ==
    ASSUME IInv, LogGrows, StreamOrdered, SnapshotOnCourse, ShownLogged, [Next]_vars
    PROVE  ShownLogged'
<1>1. /\ StreamKnows /\ ViewTyped /\ SnapshotTyped /\ SnapshotKnows /\ KernelInv
      /\ view.task \in Tasks \cup {NoTask}
  BY DEF IInv, ViewTyped
<1>2. ASSUME NEW t \in Tasks, NEW n \in SeqsOf(log[t]) PROVE n \in SeqsOf(log'[t])
  <2>1. PICK ev \in Range(log[t]) : ev.seq = n
    BY SeqOf
  <2>2. ev \in Range(log'[t])
    BY DEF LogGrows
  <2>3. QED BY <2>1, <2>2, SeqOf
<1>3. CASE view'.task = view.task /\ view'.lastSeq = view.lastSeq
  BY <1>1, <1>2, <1>3 DEF ShownLogged
<1>4. CASE view'.task = NoTask
  BY <1>4 DEF ShownLogged
<1>5. CASE Deliver
  <2>1. log' = log
    BY <1>5 DEF Deliver, kernel
  <2>2. PICK ev : ev = Head(stream)
    OBVIOUS
  <2>3. CASE view'.task = ev.task /\ view'.lastSeq = ev.seq
    <3>1. ev = stream[1] /\ 1 \in DOMAIN stream
      BY <1>1, <1>5, <2>2, Delivered
    <3>2. ev \in Range(log[ev.task])
      BY <3>1 DEF StreamOrdered
    <3>3. QED BY <2>1, <2>3, <3>2, SeqOf DEF ShownLogged
  <2>4. QED BY <1>1, <1>3, <1>5, <2>2, <2>3, Delivered
<1>6. CASE SnapshotApplied
  <2>1. /\ snapshot.at = "answered" /\ view' = ViewOf(snapshot) /\ log' = log
    BY <1>6 DEF SnapshotApplied, kernel
  <2>2. /\ view'.task = snapshot.task /\ view'.lastSeq = LastSeq(snapshot.events)
        /\ snapshot.events \in Seq(Events) /\ InOrder(snapshot.events)
        /\ snapshot.events # <<>> /\ Range(snapshot.events) \subseteq Range(log[snapshot.task])
    BY <1>1, <2>1 DEF ViewOf, SnapshotOnCourse, SnapshotTyped, SnapshotKnows
  <2>3. LastSeq(snapshot.events) \in SeqsOf(snapshot.events)
    BY <2>2, LastSeqIs
  <2>4. LastSeq(snapshot.events) \in SeqsOf(log[snapshot.task])
    BY <2>2, <2>3, SeqOf
  <2>5. QED BY <2>1, <2>2, <2>4 DEF ShownLogged
<1>7. ASSUME Mount \/ Unmount \/ Reload PROVE view'.task = NoTask
  BY <1>7 DEF Mount, Unmount, Reload, Leaves, Fresh
<1>8. ASSUME NEW t \in Tasks, NEW by \in {"composer", "proposal"}, Submit(t, by)
      PROVE  view'.task = NoTask
  BY <1>8 DEF Submit, Begun, Fresh
<1>9. ASSUME NEW t \in Tasks, Nudge(t) PROVE view'.task = NoTask
  BY <1>8, <1>9 DEF Nudge
<1>10. ASSUME RefusalShown PROVE view'.task = view.task /\ view'.lastSeq = view.lastSeq
  BY <1>1, <1>10 DEF RefusalShown, ViewTyped
<1>11. ASSUME DecisionApplied PROVE view' = view \/ view'.task = NoTask
  BY <1>11 DEF DecisionApplied, Emptied, Fresh
<1>12. ASSUME \/ \E t \in Tasks : \/ Start(t) \/ Step(t) \/ Steer(t) \/ Raises(t)
                                  \/ \E outcome \in Outcomes : End(t, outcome)
                                  \/ FileOther(t) \/ Dequeue(t) \/ DecidedElsewhere(t)
              \/ Cancel \/ CancelEmits \/ Restart \/ Break \/ AppGoes \/ AppBack
              \/ Filed \/ Refused \/ Connect \/ SnapshotAnswered
              \/ \E what \in {"approve", "reject"} : Decide(what)
              \/ DecisionAnswered \/ Retire \/ Fetch503 \/ UNCHANGED vars
       PROVE  view' = view
  BY <1>12 DEF Start, Step, Steer, Raises, End, OnlyEmits, FileOther, Dequeue,
               DecidedElsewhere, Cancel, CancelEmits, Restart, Break, AppGoes, AppBack,
               Filed, Refused, Connect, SnapshotAnswered, Decide, DecisionAnswered, Retire,
               Fetch503, vars, page
<1>13. QED
  BY <1>3, <1>4, <1>5, <1>6, <1>7, <1>8, <1>9, <1>10, <1>11, <1>12 DEF Next, Kernel

-----------------------------------------------------------------------------
(* The answer. *)
LEMMA ToldGrows ==
    ASSUME LogGrows, NEW t \in Tasks, NEW n, Told(t, n)
    PROVE  \E ev \in Range(log'[t]) : ev.kind = "done" /\ ev.seq > n
  BY DEF Told, LogGrows

(* What ends is the latest task, and its "done" is newer than all it logged. *)
LEMMA EndTells ==
    ASSUME KernelInv, NEW t \in Tasks, NEW outcome \in Outcomes, End(t, outcome)
    PROVE  /\ t = latest
           /\ \E e \in Seq(Events) :
                 /\ Brings(e, t, taskSeq)
                 /\ \E i \in DOMAIN e : /\ e[i].kind = "done" /\ e[i].task = t
                                        /\ \A n \in SeqsOf(log[t]) : e[i].seq > n
<1>1. t = latest /\ taskSeq \in Nat /\ UpTo(log[t], taskSeq) /\ log[t] \in Seq(Events)
  BY TasksAssumption DEF End, KernelInv, KernelTyped, QueueShape, LogInOrder
<1>2. PICK e \in Seq(Events) : Brings(e, t, taskSeq) /\ \E i \in DOMAIN e : e[i].kind = "done"
  BY Spoken DEF Speaks
<1>3. PICK i \in DOMAIN e : e[i].kind = "done"
  BY <1>2
<1>4. i \in Nat /\ i > 0 /\ e[i].task = t /\ e[i].seq = taskSeq + i
  BY <1>2 DEF Brings
<1>5. ASSUME NEW n \in SeqsOf(log[t]) PROVE n \in Nat /\ n <= taskSeq
  <2>1. PICK j \in DOMAIN log[t] : log[t][j].seq = n
    BY DEF SeqsOf
  <2>2. log[t][j] \in Events
    BY <1>1
  <2>3. QED BY <1>1, <2>1, <2>2 DEF UpTo, Events
<1>6. QED BY <1>1, <1>2, <1>3, <1>4, <1>5

LEMMA AnswerKept ==
    ASSUME LogGrows, SnapshotTyped, SnapshotOnCourse, snapshot' = snapshot, mounted' = mounted,
           snapshot.at = "answered" /\ ~astray' =>
              ~astray /\ (Final(snapshot.task)' => Final(snapshot.task))
    PROVE  SnapshotOnCourse'
<1>1. snapshot.at = "answered" => snapshot.task \in Tasks
  BY DEF SnapshotTyped
<1>2. ASSUME snapshot.at = "answered", snapshot.state = "running", Final(snapshot.task)', ~astray'
      PROVE  Told(snapshot.task, LastSeq(snapshot.events))'
  <2>1. Told(snapshot.task, LastSeq(snapshot.events))
    BY <1>2 DEF SnapshotOnCourse
  <2>2. QED BY <1>1, <1>2, <2>1, ToldGrows DEF Told
<1>3. snapshot.at = "answered" => Range(snapshot.events) \subseteq Range(log'[snapshot.task])
  BY <1>1 DEF SnapshotOnCourse, LogGrows
<1>4. QED BY <1>2, <1>3 DEF SnapshotOnCourse

LEMMA AnswerStep ==
    ASSUME IInv, LogKnown, LogGrows, SnapshotOnCourse, [Next]_vars
    PROVE  SnapshotOnCourse'
<1>1. /\ SnapshotTyped /\ SnapshotKnows /\ KernelInv /\ KernelTyped
      /\ astray \in BOOLEAN /\ mounted \in BOOLEAN
      /\ snapshot.at = "answered" => snapshot.task \in Tasks
  BY DEF IInv, KernelInv, SnapshotTyped, Flags
<1>2. ASSUME NEW t \in Tasks, NEW outcome \in Outcomes, End(t, outcome)
      PROVE  SnapshotOnCourse'
  <2>1. PICK e \in Seq(Events) :
               /\ Brings(e, t, taskSeq)
               /\ \E i \in DOMAIN e : /\ e[i].kind = "done" /\ e[i].task = t
                                      /\ \A n \in SeqsOf(log[t]) : e[i].seq > n
    BY <1>1, <1>2, EndTells
  <2>2. snapshot' = snapshot /\ mounted' = mounted /\ (~astray' => ~astray)
    BY <2>1 DEF Brings
  <2>3. CASE snapshot.at = "answered" => snapshot.task # t
    <3>1. snapshot.at = "answered" => (Final(snapshot.task)' => Final(snapshot.task))
      <4>1. state' = [state EXCEPT ![t] = outcome] /\ state \in [Tasks -> States]
        BY <1>1, <1>2 DEF End, KernelTyped
      <4>2. \A u \in Tasks : u # t => state'[u] = state[u]
        BY <4>1
      <4>3. QED BY <1>1, <2>2, <2>3, <4>2 DEF Final
    <3>2. QED BY <1>1, <2>2, <3>1, AnswerKept
  <2>4. CASE snapshot.at = "answered" /\ snapshot.task = t
    <3>1. /\ snapshot.events \in Seq(Events) /\ InOrder(snapshot.events)
          /\ snapshot.events # <<>> /\ Range(snapshot.events) \subseteq Range(log[t])
      BY <1>1, <2>4 DEF SnapshotTyped, SnapshotKnows, SnapshotOnCourse
    <3>2. LastSeq(snapshot.events) \in SeqsOf(log[t])
      <4>1. LastSeq(snapshot.events) \in SeqsOf(snapshot.events)
        BY <3>1, LastSeqIs
      <4>2. QED BY <3>1, <4>1, SeqOf
    <3>3. \E ev \in Range(e) : ev.kind = "done" /\ ev.seq > LastSeq(snapshot.events)
      BY <2>1, <3>2 DEF Range
    <3>4. Range(e) \subseteq Range(log'[t]) /\ Range(log[t]) \subseteq Range(log'[t])
      BY <2>1 DEF Brings
    <3>5. Told(snapshot.task, LastSeq(snapshot.events))'
      BY <2>2, <2>4, <3>3, <3>4 DEF Told
    <3>6. QED BY <2>2, <2>4, <3>1, <3>4, <3>5 DEF SnapshotOnCourse
  <2>5. QED BY <2>3, <2>4
<1>3. ASSUME NEW t \in Tasks, Start(t) \/ Step(t) \/ (CancelEmits /\ killing = t)
      PROVE  SnapshotOnCourse'
  <2>1. PICK e \in Seq(Events), from \in Nat : Brings(e, t, from)
    BY <1>1, <1>3, Spoken DEF Speaks
  <2>2. snapshot' = snapshot /\ mounted' = mounted /\ (~astray' => ~astray)
    BY <2>1 DEF Brings
  <2>3. \A u \in Tasks : Final(u)' => Final(u)
    BY <1>1, <1>3 DEF Start, Step, CancelEmits, KernelTyped, Final, Outcomes
  <2>4. QED BY <1>1, <2>2, <2>3, AnswerKept
<1>4. CASE SnapshotAnswered
  <2>1. CASE latest = NoTask
    BY <1>4, <2>1 DEF SnapshotAnswered, SnapshotOnCourse
  <2>2. CASE latest # NoTask
    <3>1. /\ snapshot' = [at |-> "answered", task |-> latest, events |-> log[latest],
                          state |-> state[latest]]
          /\ snapshot.at = "asked" /\ UNCHANGED <<state, log, mounted>>
      BY <1>4, <2>2 DEF SnapshotAnswered, kernel, page
    <3>2. latest \in Tasks /\ log[latest] # <<>> /\ state[latest] \in States
      BY <1>1, <2>2 DEF KernelTyped, LogKnown
    <3>3. state[latest] \in {"running"} \cup Outcomes
      BY <1>1, <3>2 DEF KernelInv, Unstarted, States
    <3>4. state'[latest] = "running" => state'[latest] \notin Outcomes
      BY DEF Outcomes
    <3>5. mounted'
      BY <3>1 DEF SnapshotOnCourse
    <3>6. /\ snapshot'.at = "answered" /\ snapshot'.task = latest
          /\ snapshot'.events = log'[latest] /\ snapshot'.state = state'[latest]
      BY <3>1
    <3>7. state'[latest] \in {"running"} \cup Outcomes /\ log'[latest] # <<>>
      BY <3>1, <3>2, <3>3
    <3>8. QED BY <3>4, <3>5, <3>6, <3>7 DEF SnapshotOnCourse, Final
  <2>3. QED BY <2>1, <2>2
<1>5. CASE snapshot' = snapshot /\ mounted' = mounted /\ snapshot.at # "none" /\ astray'
  BY <1>1, <1>5, AnswerKept
<1>6. CASE snapshot' = snapshot /\ mounted' = mounted /\ (~astray' => ~astray)
           /\ \A u \in Tasks : Final(u)' => Final(u)
  BY <1>1, <1>6, AnswerKept
<1>7. CASE snapshot'.at = "none" \/ (snapshot'.at = "asked" /\ mounted')
  BY <1>7 DEF SnapshotOnCourse
<1>8. ASSUME NEW t \in Tasks, Raises(t) \/ Dequeue(t)
      PROVE  snapshot' = snapshot /\ mounted' = mounted /\ (snapshot.at # "none" => astray')
  BY <1>8 DEF Raises, Dequeue, wire, page, SnapshotOnCourse
<1>9. ASSUME Mount \/ Restart \/ Unmount \/ Reload \/ SnapshotApplied
      PROVE  snapshot'.at = "none" \/ (snapshot'.at = "asked" /\ mounted')
  BY <1>9 DEF Mount, Restart, Unmount, Reload, Leaves, SnapshotApplied
<1>10. ASSUME NEW t \in Tasks, FileOther(t)
       PROVE  /\ snapshot' = snapshot /\ mounted' = mounted /\ (~astray' => ~astray)
              /\ \A u \in Tasks : Final(u)' => Final(u)
  BY <1>1, <1>10 DEF FileOther, KernelTyped, Final, Outcomes, wire, page
<1>11. ASSUME Filed
       PROVE  /\ snapshot' = snapshot /\ mounted' = mounted /\ (~astray' => ~astray)
              /\ \A u \in Tasks : Final(u)' => Final(u)
  BY <1>1, <1>11 DEF Filed, KernelTyped, Final, Outcomes, page
<1>12. ASSUME \/ \E t \in Tasks : DecidedElsewhere(t) \/ Nudge(t)
              \/ Cancel \/ Break \/ AppGoes \/ AppBack
              \/ \E t \in Tasks, by \in {"composer", "proposal"} : Submit(t, by)
              \/ Refused \/ RefusalShown \/ Connect \/ Deliver
              \/ \E what \in {"approve", "reject"} : Decide(what)
              \/ DecisionAnswered \/ DecisionApplied
              \/ Retire \/ Fetch503 \/ UNCHANGED vars
       PROVE  snapshot' = snapshot /\ mounted' = mounted /\ (~astray' => ~astray) /\ state' = state
  <2>1. snapshot' = snapshot /\ mounted' = mounted /\ state' = state
    BY <1>12 DEF DecidedElsewhere, Nudge, Cancel, Break, AppGoes, AppBack,
                 Submit, Refused, RefusalShown, Connect, Deliver, Decide,
                 DecisionAnswered, DecisionApplied, Retire, Fetch503, vars, wire, page, kernel
  <2>2. ~astray' => ~astray
    BY <1>12 DEF DecidedElsewhere, Nudge, Cancel, Break, AppGoes, AppBack,
                 Submit, Refused, RefusalShown, Connect, Deliver, Decide,
                 DecisionAnswered, DecisionApplied, Retire, Fetch503, vars
  <2>3. QED BY <2>1, <2>2
<1>13. ASSUME NEW t \in Tasks, Steer(t) PROVE Step(t)
  BY <1>13 DEF Steer
<1>14. ASSUME CancelEmits PROVE killing \in Tasks
  BY <1>1, <1>14 DEF CancelEmits, KernelTyped
<1>15. state' = state => \A u \in Tasks : Final(u)' => Final(u)
  BY DEF Final
<1>16. QED
  BY <1>2, <1>3, <1>4, <1>5, <1>6, <1>7, <1>8, <1>9, <1>10, <1>11, <1>12, <1>13, <1>14,
     <1>15 DEF Next, Kernel

-----------------------------------------------------------------------------
(* The page is on course. *)
LEMMA CourseKept ==
    ASSUME ViewTyped, ViewOnCourse, Recorded, view' = view, stream' = stream,
           mounted' = mounted, snapshot' = snapshot, latest' = latest, ~astray' => ~astray,
           \A t \in Tasks : state[t] = "running" => state'[t] = "running",
           post # NoPost \/ queue # <<>> => post' # NoPost \/ queue' # <<>>
    PROVE  ViewOnCourse'
<1>1. view.task # NoTask => view.task \in Tasks
  BY DEF ViewTyped
<1>2. ASSUME OnCourse PROVE OnCourse'
  <2>1. view.task # NoTask /\ Final(view.task) => Final(view.task)'
    BY <1>1 DEF Recorded, Final
  <2>2. (\E i \in DOMAIN stream : Moves(stream[i]))' <=> \E i \in DOMAIN stream : Moves(stream[i])
    BY DEF Moves
  <2>3. QED BY <1>1, <1>2, <2>1, <2>2 DEF OnCourse, Final
<1>3. QED BY <1>2 DEF ViewOnCourse

(* A run that ends has its "done" on the way to the tab that shows it. *)
LEMMA EndOnCourse ==
    ASSUME KernelInv, StreamKnows, ViewTyped, ShownLogged, NEW t \in Tasks,
           NEW outcome \in Outcomes, End(t, outcome), connected, view.task = t
    PROVE  \E i \in DOMAIN stream' : stream'[i].kind = "done" /\ stream'[i].seq > view.lastSeq
<1>1. PICK e \in Seq(Events) :
             /\ Brings(e, t, taskSeq)
             /\ \E i \in DOMAIN e : /\ e[i].kind = "done" /\ e[i].task = t
                                    /\ \A n \in SeqsOf(log[t]) : e[i].seq > n
  BY EndTells
<1>2. PICK i \in DOMAIN e : e[i].kind = "done" /\ \A n \in SeqsOf(log[t]) : e[i].seq > n
  BY <1>1
<1>3. e[i].seq > view.lastSeq
  BY <1>2, TasksAssumption DEF ShownLogged
<1>4. stream' = stream \o e /\ stream \in Seq(Events)
  BY <1>1 DEF Brings, StreamKnows
<1>5. Len(stream) + i \in DOMAIN (stream \o e) /\ (stream \o e)[Len(stream) + i] = e[i]
  <2>1. /\ Len(stream) \in Nat /\ Len(e) \in Nat /\ DOMAIN e = 1 .. Len(e)
        /\ DOMAIN (stream \o e) = 1 .. Len(stream) + Len(e)
        /\ \A j \in 1 .. Len(e) : (stream \o e)[Len(stream) + j] = e[j]
    BY <1>4, RangeJoined
  <2>2. i \in 1 .. Len(e)
    BY <2>1
  <2>3. QED BY <2>1, <2>2
<1>6. QED BY <1>2, <1>3, <1>4, <1>5

(* What is published reaches a page that listens. *)
LEMMA SpokenOnCourse ==
    ASSUME IInv, LogKnown, ShownLogged, StreamOrdered, ViewOnCourse,
           KernelInv', LogKnown', Recorded, NEW t \in Tasks, Speaks(t)
    PROVE  ViewOnCourse'
<1>1. /\ KernelInv /\ StreamKnows /\ ViewTyped /\ state \in [Tasks -> States]
      /\ view.task # NoTask => view.task \in Tasks
  BY DEF IInv, ViewTyped, KernelInv, KernelTyped
<1>2. PICK e \in Seq(Events), from \in Nat : Brings(e, t, from)
  BY <1>1, Spoken
<1>3. /\ view' = view /\ mounted' = mounted /\ snapshot' = snapshot
      /\ ~astray' => ~astray
      /\ mounted /\ ~astray' /\ snapshot.at # "asked" => connected
      /\ connected => stream' = stream \o e
  BY <1>2 DEF Brings
<1>4. latest' # NoTask
  <2>1. log'[t] # <<>>
    <3>1. Range(e) # {} /\ Range(e) \subseteq Range(log'[t])
      BY <1>2, Emptiness DEF Brings
    <3>2. log'[t] \in Seq(Events)
      BY DEF KernelInv, KernelTyped
    <3>3. QED BY <3>1, <3>2, Emptiness
  <2>2. QED BY <2>1 DEF LogKnown
<1>5. ASSUME mounted, ~astray', snapshot.at = "none" PROVE OnCourse'
  <2>1. connected /\ OnCourse /\ stream \in Seq(Events) /\ stream' = stream \o e
    BY <1>1, <1>3, <1>5 DEF ViewOnCourse, StreamKnows
  <2>2. /\ Len(stream) \in Nat /\ Len(e) \in Nat /\ Len(e) # 0
        /\ DOMAIN stream = 1 .. Len(stream)
        /\ DOMAIN stream' = 1 .. Len(stream) + Len(e)
        /\ \A i \in 1 .. Len(stream) : stream'[i] = stream[i]
    <3>1. e # <<>>
      BY <1>2 DEF Brings
    <3>2. QED BY <2>1, <3>1, RangeJoined
  <2>3. stream' # <<>>
    <3>1. 1 \in DOMAIN stream'
      BY <2>2
    <3>2. 1 \notin DOMAIN <<>>
      OBVIOUS
    <3>3. QED BY <3>1, <3>2
  <2>4. ASSUME view.task # NoTask, view.running
        PROVE  \/ state'[view.task] = "running"
               \/ \E i \in DOMAIN stream' : /\ stream'[i].task # view.task
                                               \/ (stream'[i].kind = "done" /\ stream'[i].seq > view.lastSeq)
    <3>1. CASE \E i \in DOMAIN stream : Moves(stream[i])
      <4>1. PICK i \in DOMAIN stream : Moves(stream[i])
        BY <3>1
      <4>2. i \in DOMAIN stream' /\ stream'[i] = stream[i]
        BY <2>2
      <4>3. QED BY <4>1, <4>2 DEF Moves
    <3>2. CASE state[view.task] = "running"
      <4>1. CASE \E outcome \in Outcomes : End(t, outcome)
        <5>1. t = view.task
          BY <1>1, <2>4, <3>2, <4>1 DEF End, KernelInv, QueueShape
        <5>2. QED BY <1>1, <2>1, <4>1, <5>1, EndOnCourse
      <4>2. CASE Start(t)
        <5>1. view.task # t /\ state' = [state EXCEPT ![t] = "running"]
          BY <3>2, <4>2 DEF Start
        <5>2. QED BY <1>1, <2>4, <3>2, <5>1
      <4>3. CASE Step(t) \/ CancelEmits
        BY <3>2, <4>3 DEF Step, CancelEmits
      <4>4. QED BY <4>1, <4>2, <4>3 DEF Speaks
    <3>3. QED BY <2>1, <2>4, <3>1, <3>2 DEF OnCourse
  <2>5. ASSUME view.task # NoTask, ~view.running PROVE state'[view.task] \in Outcomes
    BY <1>1, <2>1, <2>5 DEF OnCourse, Recorded, Final
  <2>6. QED BY <1>3, <2>3, <2>4, <2>5 DEF OnCourse, Moves, Final
<1>6. QED BY <1>3, <1>4, <1>5 DEF ViewOnCourse

(* One event less on the way: it was shown, or told nothing new. *)
LEMMA DeliveredOnCourse ==
    ASSUME IInv, StreamOrdered, ViewOnCourse, LogKnown, Deliver
    PROVE  ViewOnCourse'
<1>1. /\ KernelInv /\ StreamKnows /\ ViewTyped /\ KernelTyped
      /\ view.task \in Tasks \cup {NoTask} /\ view.running \in BOOLEAN
      /\ astray \in BOOLEAN
  BY DEF IInv, ViewTyped, KernelInv, Flags
<1>2. PICK ev : ev = Head(stream)
  OBVIOUS
<1>3. /\ ev \in Events /\ ev.task \in Tasks /\ ev.seq \in Nat /\ ev = stream[1]
      /\ 1 \in DOMAIN stream
  BY <1>1, <1>2, Delivered
<1>4. /\ UNCHANGED <<state, log, latest, queue, snapshot, post, mounted>>
      /\ stream \in Seq(Events) /\ stream # <<>>
  BY <1>1 DEF Deliver, kernel, StreamKnows
<1>5. /\ ~astray' => ~astray
      /\ ~astray' /\ view'.running /\ ev.task # view.task /\ Final(ev.task) =>
            \E i \in 2 .. Len(stream) : stream[i].task = ev.task /\ stream[i].kind = "done"
  BY <1>1, <1>2 DEF Deliver
<1> DEFINE r == Tail(stream)
<1>6. /\ stream' = r /\ Len(stream) \in Nat /\ DOMAIN stream = 1 .. Len(stream)
      /\ DOMAIN r = 1 .. Len(stream) - 1
      /\ \A i \in 1 .. Len(stream) - 1 : r[i] = stream[i + 1]
  <2>1. stream' = r
    BY DEF Deliver
  <2>2. QED BY <1>4, <2>1
<1> HIDE DEF r
<1>7. ASSUME NEW i \in 2 .. Len(stream) PROVE i \in DOMAIN stream /\ \E j \in DOMAIN r : r[j] = stream[i]
  <2>1. i - 1 \in 1 .. Len(stream) - 1 /\ (i - 1) + 1 = i
    BY <1>6
  <2>2. i \in DOMAIN stream
    BY <1>6
  <2>3. QED BY <1>6, <2>1, <2>2
<1>8. latest # NoTask
  <2>1. ev \in Range(log[ev.task])
    BY <1>3 DEF StreamOrdered
  <2>2. log[ev.task] \in Seq(Events)
    BY <1>1, <1>3 DEF KernelTyped
  <2>3. log[ev.task] # <<>>
    BY <2>1, <2>2, Emptiness
  <2>4. QED BY <1>3, <2>3 DEF LogKnown
<1>9. state[ev.task] = "running" \/ Final(ev.task)
  <2>1. ev \in Range(log[ev.task])
    BY <1>3 DEF StreamOrdered
  <2>2. log[ev.task] \in Seq(Events) /\ state[ev.task] \in States
    BY <1>1, <1>3 DEF KernelTyped
  <2>3. log[ev.task] # <<>>
    BY <2>1, <2>2, Emptiness
  <2>4. QED BY <1>1, <1>3, <2>2, <2>3 DEF KernelInv, Unstarted, States, Final
<1>10. ev.kind = "done" => Final(ev.task)
  BY <1>1, <1>3 DEF StreamKnows
<1>11. ASSUME mounted, ~astray', snapshot.at = "none" PROVE OnCourse'
  <2>1. OnCourse
    BY <1>5, <1>11 DEF ViewOnCourse
  <2>2. CASE view' = view /\ ev.task = view.task /\ ~(ev.seq > view.lastSeq)
    <3>1. view.task # NoTask
      BY <1>3, <2>2, TasksAssumption
    <3>2. ASSUME NEW i \in DOMAIN stream, Moves(stream[i])
          PROVE  \E j \in DOMAIN r : Moves(r[j])
      <4>1. i # 1
        BY <1>3, <2>2, <3>2 DEF Moves
      <4>2. i \in 2 .. Len(stream)
        BY <1>6, <4>1
      <4>3. QED BY <1>7, <3>2, <4>2
    <3>3. (\E j \in DOMAIN r : Moves(r[j])) =>
             \E j \in DOMAIN stream' : \/ stream'[j].task # view'.task
                                       \/ (stream'[j].kind = "done" /\ stream'[j].seq > view'.lastSeq)
      BY <1>6, <2>2 DEF Moves
    <3>4. QED BY <1>4, <2>1, <2>2, <3>1, <3>2, <3>3 DEF OnCourse, Moves, Final
  <2>3. CASE /\ ev.task # view.task \/ ev.seq > view.lastSeq
             /\ view'.task = ev.task /\ view'.lastSeq = ev.seq
             /\ ev.kind = "done" => view'.running = FALSE
             /\ ev.kind # "done" /\ ev.task = view.task => view'.running = view.running
             /\ ev.kind # "done" /\ ev.task # view.task => view'.running = TRUE
    <3>1. view'.task # NoTask
      BY <1>3, <2>3, TasksAssumption
    <3>2. ASSUME NEW i \in 2 .. Len(stream),
                 stream[i].task # ev.task \/ stream[i].kind = "done"
          PROVE  \E j \in DOMAIN stream' : \/ stream'[j].task # view'.task
                                           \/ (stream'[j].kind = "done" /\ stream'[j].seq > view'.lastSeq)
      <4>1. i \in DOMAIN stream /\ 1 < i
        BY <1>6
      <4>2. \/ stream[i].task # ev.task
            \/ stream[i].kind = "done" /\ ev.seq < stream[i].seq
        BY <1>3, <3>2, <4>1 DEF StreamOrdered
      <4>3. PICK j \in DOMAIN r : r[j] = stream[i]
        BY <1>7
      <4>4. stream[i].seq \in Nat
        <5>1. stream[i] \in Events
          BY <1>4, <4>1
        <5>2. QED BY <5>1 DEF Events
      <4>5. QED BY <1>3, <1>6, <2>3, <4>2, <4>3, <4>4
    <3>3. ASSUME view'.running, state[ev.task] # "running"
          PROVE  \E i \in 2 .. Len(stream) : stream[i].task # ev.task \/ stream[i].kind = "done"
      <4>1. ev.kind # "done" /\ Final(ev.task)
        BY <1>9, <2>3, <3>3
      <4>2. CASE ev.task # view.task
        BY <1>5, <1>11, <3>3, <4>1, <4>2
      <4>3. CASE ev.task = view.task
        <5>1. view.running /\ view.task # NoTask
          BY <2>3, <3>1, <3>3, <4>1, <4>3
        <5>2. PICK i \in DOMAIN stream : Moves(stream[i])
          BY <2>1, <3>3, <4>3, <5>1 DEF OnCourse
        <5>3. i # 1
          BY <1>3, <4>1, <4>3, <5>2 DEF Moves
        <5>4. i \in 2 .. Len(stream)
          BY <1>6, <5>3
        <5>5. QED BY <4>3, <5>2, <5>4 DEF Moves
      <4>4. QED BY <4>2, <4>3
    <3>4. ASSUME ~view'.running PROVE Final(ev.task)
      <4>1. CASE ev.kind = "done"
        BY <1>10, <4>1
      <4>2. CASE ev.kind # "done"
        <5>1. ev.task = view.task /\ ~view.running /\ view.task # NoTask
          BY <2>3, <3>1, <3>4, <4>2
        <5>2. QED BY <2>1, <5>1 DEF OnCourse
      <4>3. QED BY <4>1, <4>2
    <3>5. QED BY <1>4, <2>3, <3>1, <3>2, <3>3, <3>4 DEF OnCourse, Moves, Final
  <2>4. QED BY <1>1, <1>2, <2>2, <2>3, Delivered
<1>12. QED BY <1>4, <1>8, <1>11 DEF ViewOnCourse

(* An answer that nothing overtook leaves what came since on its way. *)
LEMMA AppliedOnCourse ==
    ASSUME IInv, LogKnown, SnapshotOnCourse, SnapshotApplied
    PROVE  ViewOnCourse'
<1> DEFINE s == snapshot
<1>1. /\ SnapshotTyped /\ SnapshotKnows /\ KernelInv /\ KernelTyped /\ StreamKnows
  BY DEF IInv, KernelInv
<1>2. /\ s.at = "answered" /\ view' = ViewOf(s) /\ snapshot' = [at |-> "none"]
      /\ UNCHANGED <<state, stream, log>>
      /\ ~astray' => ~astray /\ ~Overtaken
  BY DEF SnapshotApplied, kernel
<1>3. /\ s.task \in Tasks /\ s.events \in Seq(Events) /\ InOrder(s.events)
      /\ s.events # <<>> /\ Range(s.events) \subseteq Range(log[s.task])
      /\ s.state \in {"running"} \cup Outcomes
      /\ s.state \in Outcomes => state[s.task] = s.state
      /\ s.state = "running" /\ Final(s.task) /\ ~astray => Told(s.task, LastSeq(s.events))
  BY <1>1, <1>2 DEF SnapshotTyped, SnapshotKnows, SnapshotOnCourse
<1>4. /\ view'.task = s.task /\ view'.lastSeq = LastSeq(s.events)
      /\ view'.running = (s.state = "running")
  BY <1>2 DEF ViewOf
<1>5. /\ LastSeq(s.events) \in Nat /\ \A ev \in Range(s.events) : ev.seq <= LastSeq(s.events)
  BY <1>3, LastSeqIs DEF Range, UpTo
<1>6. log[s.task] \in Seq(Events) /\ log[s.task] # <<>> /\ state[s.task] \in States
  <2>1. log[s.task] \in Seq(Events) /\ state[s.task] \in States
    BY <1>1, <1>3 DEF KernelTyped
  <2>2. Range(s.events) # {}
    BY <1>3, Emptiness
  <2>3. QED BY <1>3, <2>1, <2>2, Emptiness
<1>7. state[s.task] = "running" \/ Final(s.task)
  BY <1>1, <1>3, <1>6 DEF KernelInv, Unstarted, States, Final
<1>8. latest \in Tasks /\ log[latest] \in Seq(Events) /\ log[latest] # <<>>
  BY <1>1, <1>3, <1>6 DEF KernelTyped, LogKnown
<1>9. ASSUME ~astray', s.state = "running", state[s.task] # "running"
      PROVE  \E i \in DOMAIN stream :
                stream[i].task # s.task \/ (stream[i].kind = "done" /\ stream[i].seq > LastSeq(s.events))
  <2>1. Final(s.task) /\ ~astray /\ ~Overtaken
    BY <1>2, <1>7, <1>9
  <2>2. CASE latest = s.task
    <3>1. PICK ev \in Range(log[s.task]) : ev.kind = "done" /\ ev.seq > LastSeq(s.events)
      BY <1>3, <1>9, <2>1 DEF Told
    <3>2. ev.seq \in Nat
      <4>1. PICK i \in DOMAIN log[s.task] : ev = log[s.task][i]
        BY DEF Range
      <4>2. ev \in Events
        BY <1>6, <4>1
      <4>3. QED BY <4>2 DEF Events
    <3>3. ev \notin Range(s.events)
      BY <1>5, <3>1, <3>2
    <3>4. ev \in Range(stream)
      BY <2>1, <2>2, <3>3 DEF Overtaken
    <3>5. QED BY <3>1, <3>4 DEF Range
  <2>3. CASE latest # s.task
    <3>1. PICK ev : ev \in Range(log[latest])
      BY <1>8, Emptiness
    <3>2. ev \in Range(stream)
      BY <2>1, <2>3, <3>1 DEF Overtaken
    <3>3. ev.task = latest
      BY <1>1, <1>8, <3>1 DEF KernelInv, LogInOrder, OfTask, Range
    <3>4. QED BY <2>3, <3>2, <3>3 DEF Range
  <2>4. QED BY <2>2, <2>3
<1>10. ASSUME s.state # "running" PROVE state[s.task] \in Outcomes
  BY <1>3, <1>10
<1>11. s.task # NoTask
  BY <1>3, TasksAssumption
<1>12. ~astray' => OnCourse'
  BY <1>2, <1>4, <1>9, <1>10, <1>11 DEF OnCourse, Moves, Final
<1>13. QED BY <1>2, <1>12 DEF ViewOnCourse

(* What the other steps do to a page on course. *)
LEMMA CourseStep ==
    ASSUME IInv, CourseInv, KernelInv', LogGrows, LogKnown', Recorded, [Next]_vars
    PROVE  ViewOnCourse'
<1>1. /\ KernelInv /\ KernelTyped /\ StreamKnows /\ ViewTyped /\ SnapshotTyped
      /\ LogKnown /\ StreamOrdered /\ SnapshotOnCourse /\ ShownLogged /\ ViewOnCourse
      /\ astray \in BOOLEAN /\ mounted \in BOOLEAN /\ view.running \in BOOLEAN
      /\ queue \in Seq(Tasks) /\ state \in [Tasks -> States]
  BY DEF IInv, KernelInv, KernelTyped, ViewTyped, Flags, CourseInv
<1>2. ASSUME NEW t \in Tasks, Speaks(t) PROVE ViewOnCourse'
  BY <1>1, <1>2, SpokenOnCourse
<1>3. CASE Deliver
  BY <1>1, <1>3, DeliveredOnCourse
<1>4. CASE SnapshotApplied
  BY <1>1, <1>4, AppliedOnCourse
<1>5. CASE SnapshotAnswered
  <2>1. /\ UNCHANGED <<state, queue, stream, post, view, mounted, astray, latest>>
        /\ snapshot.at = "asked"
    BY <1>5 DEF SnapshotAnswered, kernel, page
  <2>2. CASE latest # NoTask
    <3>1. snapshot'.at = "answered"
      BY <1>5, <2>2 DEF SnapshotAnswered
    <3>2. QED BY <3>1 DEF ViewOnCourse
  <2>3. CASE latest = NoTask
    <3>1. snapshot'.at = "none"
      BY <1>5, <2>3 DEF SnapshotAnswered
    <3>2. view.task = NoTask
      <4>1. ASSUME view.task # NoTask PROVE FALSE
        <5>1. view.task \in Tasks /\ log[view.task] = <<>> /\ view.lastSeq \in SeqsOf(log[view.task])
          BY <1>1, <2>3, <4>1 DEF ViewTyped, LogKnown, ShownLogged
        <5>2. SeqsOf(<<>>) = {}
          BY DEF SeqsOf
        <5>3. QED BY <5>1, <5>2
      <4>2. QED BY <4>1
    <3>3. mounted /\ ~astray /\ view.running => post # NoPost \/ queue # <<>>
      BY <1>1, <2>1, <2>3 DEF ViewOnCourse
    <3>4. mounted /\ ~astray => OnCourse'
      BY <2>1, <3>2, <3>3 DEF OnCourse
    <3>5. QED BY <2>1, <3>1, <3>4 DEF ViewOnCourse
  <2>4. QED BY <2>2, <2>3
<1>6. CASE astray' \/ ~mounted'
  BY <1>6 DEF ViewOnCourse
<1>7. CASE view'.task = NoTask /\ (~view'.running \/ post' # NoPost)
  BY <1>7 DEF ViewOnCourse, OnCourse
<1>8. CASE /\ UNCHANGED <<view, stream, mounted, snapshot, latest, state>>
           /\ ~astray' => ~astray
           /\ post # NoPost \/ queue # <<>> => post' # NoPost \/ queue' # <<>>
  BY <1>1, <1>8, CourseKept
<1>9. CASE /\ UNCHANGED <<view, stream, mounted, snapshot, latest>>
           /\ ~astray' => ~astray
           /\ \E t \in Tasks : state[t] = "none" /\ state' = [state EXCEPT ![t] = "queued"]
           /\ \E t \in Tasks : queue' = Append(queue, t)
  <2>1. \A t \in Tasks : state[t] = "running" => state'[t] = "running"
    BY <1>1, <1>9
  <2>2. queue' # <<>>
    <3>1. PICK t \in Tasks : queue' = Append(queue, t)
      BY <1>9
    <3>2. Append(queue, t) # <<>>
      BY <1>1
    <3>3. QED BY <3>1, <3>2
  <2>3. QED BY <1>1, <1>9, <2>1, <2>2, CourseKept
<1>10. ASSUME NEW t \in Tasks, Steer(t) PROVE Speaks(t)
  BY <1>10 DEF Steer, Speaks
<1>11. ASSUME CancelEmits PROVE \E t \in Tasks : Speaks(t)
  BY <1>1, <1>11 DEF CancelEmits, Speaks, KernelTyped
<1>12. ASSUME NEW t \in Tasks, Raises(t) \/ Dequeue(t) PROVE astray' \/ ~mounted'
  BY <1>12 DEF Raises, Dequeue, page
<1>13. ASSUME Restart PROVE astray' \/ ~mounted'
  BY <1>13 DEF Restart, page
<1>14. ASSUME Unmount \/ Reload PROVE ~mounted'
  BY <1>14 DEF Unmount, Reload, Leaves
<1>15. ASSUME Mount PROVE view'.task = NoTask /\ ~view'.running
  BY <1>15 DEF Mount, Fresh
<1>16. ASSUME NEW t \in Tasks, NEW by \in {"composer", "proposal"}, Submit(t, by)
       PROVE  view'.task = NoTask /\ post' # NoPost
  BY <1>16 DEF Submit, Begun, Fresh, NoPost
<1>17. ASSUME NEW t \in Tasks, Nudge(t) PROVE view'.task = NoTask /\ post' # NoPost
  BY <1>16, <1>17 DEF Nudge
<1>18. ASSUME Break, ~astray'
       PROVE  /\ UNCHANGED <<view, stream, mounted, snapshot, latest, state, post, queue>>
              /\ ~astray
  BY <1>18 DEF Break, kernel, page
<1>19. ASSUME Refused
       PROVE  \/ astray' \/ ~mounted'
              \/ /\ UNCHANGED <<view, stream, mounted, snapshot, latest, state, queue>>
                 /\ ~astray' => ~astray
                 /\ post' # NoPost
  <2>1. CASE post.by = "composer"
    BY <1>19, <2>1 DEF Refused, page
  <2>2. CASE post.by = "proposal"
    <3>1. post' = [post EXCEPT !.by = "refused"] /\ post'.by = "refused"
      BY <1>1, <1>19, <2>2 DEF Refused, KernelTyped
    <3>2. post' # NoPost
      BY <3>1 DEF NoPost
    <3>3. QED BY <1>19, <3>2 DEF Refused, kernel, page
  <2>3. QED BY <1>19, <2>1, <2>2 DEF Refused
<1>20. ASSUME RefusalShown, ~astray', mounted PROVE ViewOnCourse'
  <2>1. /\ UNCHANGED <<stream, mounted, snapshot, latest, state, queue>>
        /\ ~astray /\ ~(view.task # NoTask /\ view.running)
        /\ view' = [view EXCEPT !.running = FALSE]
    BY <1>20 DEF RefusalShown, kernel
  <2>2. view'.task = view.task /\ view'.running = FALSE
    BY <1>1, <2>1 DEF ViewTyped
  <2>3. view.task # NoTask => view.task \in Tasks
    BY <1>1 DEF ViewTyped
  <2>4. ASSUME snapshot.at = "none" PROVE OnCourse'
    <3>1. OnCourse
      BY <1>1, <1>20, <2>1, <2>4 DEF ViewOnCourse
    <3>2. view.task # NoTask => Final(view.task)
      BY <1>1, <2>1, <3>1 DEF OnCourse
    <3>3. QED BY <2>1, <2>2, <3>2 DEF OnCourse, Final
  <2>5. QED BY <2>1, <2>2, <2>4 DEF ViewOnCourse
<1>21. ASSUME RefusalShown PROVE mounted \/ ~mounted'
  BY <1>21 DEF RefusalShown
<1>22. ASSUME DecisionApplied, ~astray'
       PROVE  \/ view'.task = NoTask /\ ~view'.running
              \/ UNCHANGED <<view, stream, mounted, snapshot, latest, state, queue, post>> /\ ~astray
  <2>1. /\ UNCHANGED <<stream, mounted, snapshot, latest, state, queue, post>>
        /\ ~astray /\ ~(view'.running /\ view' # view)
        /\ view' = view \/ view' = Emptied(view)
    BY <1>22 DEF DecisionApplied, kernel
  <2>2. QED BY <2>1 DEF Emptied, Fresh
<1>23. ASSUME NEW t \in Tasks, FileOther(t)
       PROVE  /\ UNCHANGED <<view, stream, mounted, snapshot, latest, astray>>
              /\ state[t] = "none" /\ state' = [state EXCEPT ![t] = "queued"]
              /\ queue' = Append(queue, t)
  BY <1>23 DEF FileOther, wire, page
<1>24. ASSUME Filed
       PROVE  /\ UNCHANGED <<view, stream, mounted, snapshot, latest, astray>>
              /\ post.task \in Tasks /\ state[post.task] = "none"
              /\ state' = [state EXCEPT ![post.task] = "queued"]
              /\ queue' = Append(queue, post.task)
  BY <1>1, <1>24 DEF Filed, page, KernelInv, Unstarted, Tasks
<1>25. ASSUME \/ \E t \in Tasks : DecidedElsewhere(t)
              \/ Cancel \/ AppGoes \/ AppBack \/ Connect
              \/ \E what \in {"approve", "reject"} : Decide(what)
              \/ DecisionAnswered \/ Retire \/ Fetch503 \/ UNCHANGED vars
       PROVE  UNCHANGED <<view, stream, mounted, snapshot, latest, state, queue, post, astray>>
  BY <1>25 DEF DecidedElsewhere, Cancel, AppGoes, AppBack, Connect, Decide,
               DecisionAnswered, Retire, Fetch503, vars, wire, page, kernel
<1>26. QED
  BY <1>2, <1>3, <1>4, <1>5, <1>6, <1>7, <1>8, <1>9, <1>10, <1>11, <1>12, <1>13, <1>14,
     <1>15, <1>16, <1>17, <1>18, <1>19, <1>20, <1>21, <1>22, <1>23, <1>24, <1>25
     DEF Next, Kernel, Speaks

LEMMA CourseInit == Init => CourseInv
<1> SUFFICES ASSUME Init PROVE CourseInv
  OBVIOUS
<1>1. LogKnown
  BY DEF Init, LogKnown
<1>2. StreamOrdered
  BY DEF Init, StreamOrdered
<1>3. SnapshotOnCourse /\ ShownLogged /\ ViewOnCourse
  BY DEF Init, SnapshotOnCourse, ShownLogged, ViewOnCourse, Fresh
<1>4. QED BY <1>1, <1>2, <1>3 DEF CourseInv

(* Once everything has arrived, the tab says "running" exactly when the     *)
(* task it shows runs, unless it met something it cannot notice: old        *)
(* answers, events in two places and a stream that comes and goes included. *)
THEOREM ViewAgreesCorrect == Spec => []ViewAgrees
<1>1. ASSUME IInv, CourseInv, [Next]_vars PROVE CourseInv'
  <2>1. /\ KernelInv /\ LogKnown /\ StreamOrdered /\ SnapshotOnCourse /\ ShownLogged
    BY <1>1 DEF IInv, CourseInv
  <2>2. KernelInv' /\ Recorded
    BY <1>1, <2>1, KernelStep
  <2>3. LogGrows /\ LogKnown'
    BY <1>1, <2>1, LogStep
  <2>4. StreamOrdered' /\ SnapshotOnCourse' /\ ShownLogged'
    BY <1>1, <2>1, <2>3, StreamOrderStep, AnswerStep, ShownStep
  <2>5. ViewOnCourse'
    BY <1>1, <2>2, <2>3, CourseStep
  <2>6. QED BY <2>3, <2>4, <2>5 DEF CourseInv
<1>2. ASSUME IInv, CourseInv PROVE ViewAgrees
  <2> SUFFICES ASSUME Quiet, ~astray
               PROVE  IF view.task # NoTask THEN view.running <=> state[view.task] = "running"
                      ELSE view.running => queue # <<>>
    BY DEF ViewAgrees
  <2>1. OnCourse /\ DOMAIN stream = {} /\ stream = <<>> /\ post = NoPost
    <3>1. OnCourse /\ stream = <<>> /\ post = NoPost
      BY <1>2 DEF Quiet, CourseInv, ViewOnCourse
    <3>2. DOMAIN <<>> = {}
      OBVIOUS
    <3>3. QED BY <3>1, <3>2
  <2>2. CASE view.task # NoTask
    <3>1. view.running => state[view.task] = "running"
      BY <2>1, <2>2 DEF OnCourse
    <3>2. ~view.running => state[view.task] # "running"
      BY <2>1, <2>2 DEF OnCourse, Final, Outcomes
    <3>3. QED BY <2>2, <3>1, <3>2
  <2>3. CASE view.task = NoTask
    BY <2>1, <2>3 DEF OnCourse
  <2>4. QED BY <2>2, <2>3
<1>3. QED BY Invariant, CourseInit, <1>1, <1>2, PTL DEF Spec

=============================================================================
