---------------------------- MODULE RunViewProofs ----------------------------
(***************************************************************************)
(* Proofs about RunView: at most one run works on a conversation, and       *)
(* nothing of another conversation comes on screen.  What is on screen may  *)
(* have come from an answer asked for long ago, from the replay, from the   *)
(* stream or from the page's own POST, so the inductive invariant says of   *)
(* each of them which conversation's file has the question it belongs to;   *)
(* and a file only ever gains questions, although the driver rewrites it    *)
(* from where the run under way begins, with some of what was said, in      *)
(* order.                                                                   *)
(* And the screen agrees with the hub once all is quiet: until then it may  *)
(* be behind, by what the stream, an answer and a "done" will still bring.  *)
(***************************************************************************)
EXTENDS RunView, SequenceTheorems, WellFoundedInduction, TLAPS

Of(r, c) == User(r) \in Range(saved[c])
OwnOnly(entries, c) == \A e \in Range(entries) : e.run # 0 => Of(e.run, c)

-----------------------------------------------------------------------------
(* The inductive invariant: the app, the wire, and the page.                *)
Hubs == [run : Nat, phase : Phases, parts : 0..MaxParts, stopping : BOOLEAN]
Driving == {"driven", "closing", "cut"}

AppTyped ==
    /\ stored \subseteq Convos
    /\ saved \in [Convos -> Seq(Entries)]
    /\ hub \in [Convos -> Hubs]
    /\ bodies \subseteq Runs \X Convos
    /\ drivers \subseteq Runs \X Convos
    /\ asks \in Seq(Runs)

(* A claim is of a run whose question the file has; a run that works on a   *)
(* conversation is the one that its hub was claimed for.                    *)
HubKnows ==
    /\ \A c \in Convos : hub[c].run \in 0 .. Len(asks)
    /\ \A c \in Convos : hub[c].run # 0 => Of(hub[c].run, c)
    /\ \A c \in Convos : Busy(c) => hub[c].run # 0
    /\ \A d \in drivers : hub[d[2]].run = d[1] /\ hub[d[2]].phase \in Driving

(* A file holds runs whose questions it has, and the one under way last.    *)
SavedOf(entries) ==
    \A i \in DOMAIN entries : /\ entries[i].run \in 1 .. Len(asks)
                              /\ User(entries[i].run) \in Range(entries)
LastIs(entries, r) ==
    \A i, j \in DOMAIN entries : i < j /\ entries[i].run = r => entries[j].run = r

SavedKnows ==
    /\ \A c \in Convos : SavedOf(saved[c])
    /\ \A c \in Convos : Busy(c) => LastIs(saved[c], hub[c].run)

AppInv == AppTyped /\ HubKnows /\ SavedKnows

(* What a file may hold of the run of its hub: some of its parts, in order. *)
Rising(t) == \A i, j \in 1 .. Len(t) : i < j => t[i].part < t[j].part
Tails(c) ==
    {t \in Seq(Entries) : /\ \A i \in 1 .. Len(t) : /\ t[i].run = hub[c].run
                                                   /\ t[i].part \in 1 .. hub[c].parts
                          /\ Rising(t)}

(* What the driver would save is that, and its tool batch comes after it.   *)
ConvoTyped == convo \in [Convos -> [told : Seq(Entries), tools : Seq(Entries)]]
ConvoOf(c) == /\ convo[c].told \o convo[c].tools \in Tails(c)
              /\ hub[c].phase # "driven" => convo[c] = Fresh
ConvoInv == ConvoTyped /\ \A c \in Convos : ConvoOf(c)

FilesInOrder == \A c \in Convos : InOrder(saved[c])

WatchInv ==
    /\ active \in Convos \cup {NoConvo}
    /\ watch \in [at : {"none", "asked", "entered", "open", "outlived", "deaf"},
                  frames : Seq(Frames)]
    /\ active = NoConvo => watch = NoWatch
    /\ active # NoConvo => OwnOnly(watch.frames, active)

PostInv ==
    /\ post \in [at : {"none", "creating", "asked", "streaming", "closed"},
                 conv : Convos \cup {NoConvo}, run : Nat]
    /\ post.at # "none" => post.conv \in Convos
    /\ post.run # 0 => post.conv \in Convos /\ Of(post.run, post.conv)

AnswerInv ==
    /\ answer \in Answers
    /\ answer.to # "none" => answer.conv \in Convos /\ OwnOnly(answer.msgs, answer.conv)

ScreenTyped == screen \in [messages : Seq(Entries), live : Seq(Entries), running : BOOLEAN]

ScreenKnows ==
    /\ active = NoConvo => \A e \in Range(screen.messages) : e.run = 0
    /\ active # NoConvo => OwnOnly(screen.live, active)
    /\ active # NoConvo /\ (~Sending(active) \/ ~astray) => OwnOnly(screen.messages, active)

IInv ==
    /\ AppInv /\ ConvoInv /\ FilesInOrder
    /\ WatchInv /\ PostInv /\ AnswerInv /\ ScreenTyped /\ ScreenKnows
    /\ astray \in BOOLEAN /\ faults \in Nat /\ size \in Sizes

-----------------------------------------------------------------------------
(* Lemmas about sequences. *)

LEMMA Elements ==
    ASSUME NEW S, NEW s \in Seq(S)
    PROVE  /\ Len(s) \in Nat /\ DOMAIN s = 1 .. Len(s)
           /\ \A i \in 1 .. Len(s) : s[i] \in S
           /\ \A i \in 1 .. Len(s) : s[i] \in Range(s)
           /\ \A x \in Range(s) : \E i \in 1 .. Len(s) : x = s[i]
           /\ Range(s) \subseteq S
<1>1. /\ Len(s) \in Nat /\ DOMAIN s = 1 .. Len(s)
      /\ \A i \in 1 .. Len(s) : s[i] \in S
  OBVIOUS
<1>2. QED BY <1>1 DEF Range

LEMMA Appended ==
    ASSUME NEW S, NEW s \in Seq(S), NEW x \in S
    PROVE  /\ Append(s, x) \in Seq(S) /\ Len(Append(s, x)) = Len(s) + 1
           /\ \A i \in 1 .. Len(s) : Append(s, x)[i] = s[i]
           /\ Append(s, x)[Len(s) + 1] = x
           /\ Range(Append(s, x)) = Range(s) \cup {x}
<1>1. /\ Append(s, x) \in Seq(S) /\ Len(Append(s, x)) = Len(s) + 1
      /\ Len(s) \in Nat /\ DOMAIN s = 1 .. Len(s)
      /\ DOMAIN Append(s, x) = 1 .. Len(s) + 1
      /\ \A i \in 1 .. Len(s) : Append(s, x)[i] = s[i]
      /\ Append(s, x)[Len(s) + 1] = x
  OBVIOUS
<1>2. Range(Append(s, x)) = Range(s) \cup {x}
  BY <1>1 DEF Range
<1>3. QED BY <1>1, <1>2

LEMMA Joined ==
    ASSUME NEW S, NEW s \in Seq(S), NEW t \in Seq(S)
    PROVE  /\ s \o t \in Seq(S) /\ Len(s \o t) = Len(s) + Len(t)
           /\ \A i \in 1 .. Len(s) : (s \o t)[i] = s[i]
           /\ \A i \in Len(s) + 1 .. Len(s) + Len(t) : (s \o t)[i] = t[i - Len(s)]
           /\ Range(s \o t) = Range(s) \cup Range(t)
<1> DEFINE g == s \o t
<1>1. /\ Len(s) \in Nat /\ DOMAIN s = 1 .. Len(s) /\ Len(t) \in Nat /\ DOMAIN t = 1 .. Len(t)
  OBVIOUS
<1>2. /\ g \in Seq(S) /\ Len(g) = Len(s) + Len(t) /\ DOMAIN g = 1 .. Len(s) + Len(t)
      /\ \A i \in 1 .. Len(s) : g[i] = s[i]
      /\ \A i \in Len(s) + 1 .. Len(s) + Len(t) : g[i] = t[i - Len(s)]
  OBVIOUS
<1> HIDE DEF g
<1>3. Range(g) \subseteq Range(s) \cup Range(t)
  <2> SUFFICES ASSUME NEW i \in 1 .. Len(s) + Len(t) PROVE g[i] \in Range(s) \cup Range(t)
    BY <1>2 DEF Range
  <2>1. CASE i \in 1 .. Len(s)
    BY <1>1, <1>2, <2>1 DEF Range
  <2>2. CASE i \in Len(s) + 1 .. Len(s) + Len(t)
    <3>1. i - Len(s) \in 1 .. Len(t)
      BY <1>1, <2>2
    <3>2. QED BY <1>1, <1>2, <2>2, <3>1 DEF Range
  <2>3. QED BY <1>1, <2>1, <2>2
<1>4. Range(s) \subseteq Range(g)
  <2> SUFFICES ASSUME NEW i \in 1 .. Len(s) PROVE s[i] \in Range(g)
    BY <1>1 DEF Range
  <2>1. i \in DOMAIN g /\ g[i] = s[i]
    BY <1>1, <1>2
  <2>2. QED BY <2>1 DEF Range
<1>5. Range(t) \subseteq Range(g)
  <2> SUFFICES ASSUME NEW i \in 1 .. Len(t) PROVE t[i] \in Range(g)
    BY <1>1 DEF Range
  <2>1. PICK j \in Len(s) + 1 .. Len(s) + Len(t) : j - Len(s) = i
    <3>1. /\ Len(s) + i \in Len(s) + 1 .. Len(s) + Len(t)
          /\ (Len(s) + i) - Len(s) = i
      BY <1>1
    <3>2. QED BY <3>1
  <2>2. j \in DOMAIN g /\ g[j] = t[i]
    BY <1>1, <1>2, <2>1
  <2>3. QED BY <2>2 DEF Range
<1>6. QED BY <1>2, <1>3, <1>4, <1>5 DEF g

(* The least element that Before chooses exists. *)
LEMMA LeastNat ==
    ASSUME NEW T \in SUBSET Nat, T # {} PROVE \E m \in T : \A k \in T : m <= k
<1> DEFINE R == OpToRel(<, Nat)
<1>1. IsWellFoundedOn(R, Nat)
  BY NatLessThanWellFounded
<1>2. \A x, y \in Nat : x < y => <<x, y>> \in R
  BY DEF OpToRel
<1> HIDE DEF R
<1>3. PICK x \in T : \A y \in T : ~ (<<y, x>> \in R)
  BY <1>1, WFMin
<1>4. \A y \in T : ~ (y < x)
  BY <1>2, <1>3
<1>5. \A y \in T : x <= y
  BY <1>4
<1>6. QED BY <1>5

(* What was said before a run is a beginning of the file without any of the *)
(* run, up to the first entry of it.                                        *)
LEMMA BeforeCuts ==
    ASSUME NEW s \in Seq(Entries), NEW r \in Nat
    PROVE  /\ Before(s, r) \in Seq(Entries) /\ Len(Before(s, r)) <= Len(s)
           /\ \A i \in 1 .. Len(Before(s, r)) : Before(s, r)[i] = s[i] /\ s[i].run # r
           /\ Len(Before(s, r)) < Len(s) => s[Len(Before(s, r)) + 1].run = r
<1> DEFINE own == {i \in DOMAIN s : s[i].run = r} \cup {Len(s) + 1}
           k == CHOOSE i \in own : \A j \in own : i <= j
           b == SubSeq(s, 1, k - 1)
<1>1. Len(s) \in Nat /\ DOMAIN s = 1 .. Len(s) /\ \A i \in 1 .. Len(s) : s[i] \in Entries
  BY Elements
<1>2. own \in SUBSET Nat /\ own # {}
  BY <1>1
<1> HIDE DEF own
<1>3. \E m \in own : \A j \in own : m <= j
  BY <1>2, LeastNat
<1>4. k \in own /\ \A j \in own : k <= j
  BY <1>3
<1> HIDE DEF k
<1>5. k \in 1 .. Len(s) + 1 /\ (k = Len(s) + 1 \/ s[k].run = r)
  BY <1>1, <1>4 DEF own
<1>6. \A i \in 1 .. k - 1 : i \in 1 .. Len(s) /\ s[i].run # r
  <2> SUFFICES ASSUME NEW i \in 1 .. k - 1 PROVE i \in 1 .. Len(s) /\ s[i].run # r
    OBVIOUS
  <2>1. i \in 1 .. Len(s) /\ i < k
    BY <1>1, <1>5
  <2>2. i \notin own
    BY <1>4, <1>5, <2>1
  <2>3. QED BY <1>1, <2>1, <2>2 DEF own
<1>7. /\ b \in Seq(Entries) /\ Len(b) = k - 1
      /\ \A i \in 1 .. k - 1 : b[i] = s[i]
  <2>1. 1 \in Int /\ k - 1 \in Int /\ k \in Nat /\ \A i \in 1 .. k - 1 : s[i] \in Entries
    BY <1>1, <1>5, <1>6
  <2>2. /\ b \in Seq(Entries)
        /\ Len(b) = IF 1 <= k - 1 THEN (k - 1) - 1 + 1 ELSE 0
        /\ \A i \in 1 .. (k - 1) - 1 + 1 : b[i] = s[1 + i - 1]
    BY <2>1, SubSeqProperties
  <2> HIDE DEF b
  <2>3. (k - 1) - 1 + 1 = k - 1 /\ \A i \in 1 .. k - 1 : 1 + i - 1 = i
    BY <2>1
  <2>4. Len(b) = k - 1
    BY <1>5, <2>1, <2>2
  <2>5. QED BY <2>2, <2>3, <2>4
<1>8. Before(s, r) = b
  BY DEF Before, b, k, own
<1> HIDE DEF b
<1>9. Len(b) <= Len(s) /\ (Len(b) < Len(s) => s[Len(b) + 1].run = r)
  <2>1. k - 1 <= Len(s) /\ (k - 1) + 1 = k /\ (k - 1 < Len(s) => k # Len(s) + 1)
    BY <1>1, <1>5
  <2>2. QED BY <1>5, <1>7, <2>1
<1>10. QED BY <1>6, <1>7, <1>8, <1>9

-----------------------------------------------------------------------------
(* The app. *)
(* Questions stay in the file. *)
Kept == \A c \in Convos : \A r : Of(r, c) => User(r) \in Range(saved'[c])

(* What a run says: its question, and the parts so far.                     *)
LEMMA PartsSaid ==
    ASSUME NEW r \in Nat, NEW n \in 0 .. MaxParts
    PROVE  /\ Parts(r, n) \in Seq(Entries) /\ Len(Parts(r, n)) = n
           /\ \A i \in 1 .. n : Parts(r, n)[i].run = r
           /\ User(r) \in Entries
<1>1. n \in Nat /\ MaxParts \in Nat
  BY BoundsAssumption
<1>2. \A i \in 1 .. n : [run |-> r, part |-> i] \in Entries
  BY <1>1 DEF Entries
<1>3. User(r) \in Entries
  BY <1>1 DEF User, Entries
<1>4. QED BY <1>1, <1>2, <1>3 DEF Parts

(* Beginnings of what a file may hold of a run, and nothing, may be held.   *)
LEMMA NoTail ==
    ASSUME NEW c PROVE <<>> \in Tails(c)
  BY DEF Tails, Rising

LEMMA TailBegins ==
    ASSUME NEW c, NEW s \in Seq(Entries), NEW t \in Seq(Entries), t \in Tails(c), Len(s) <= Len(t),
           \A i \in 1 .. Len(s) : s[i] = t[i]
    PROVE  s \in Tails(c)
<1>1. Len(s) \in Nat /\ Len(t) \in Nat /\ \A i \in 1 .. Len(s) : i \in 1 .. Len(t)
  BY Elements
<1>2. /\ \A i \in 1 .. Len(t) : t[i].run = hub[c].run /\ t[i].part \in 1 .. hub[c].parts
      /\ \A i, j \in 1 .. Len(t) : i < j => t[i].part < t[j].part
  BY DEF Tails, Rising
<1>3. \A i \in 1 .. Len(s) : s[i].run = hub[c].run /\ s[i].part \in 1 .. hub[c].parts
  BY <1>1, <1>2
<1>4. \A i, j \in 1 .. Len(s) : i < j => s[i].part < s[j].part
  BY <1>1, <1>2
<1>5. QED BY <1>3, <1>4 DEF Tails, Rising

(* What the driver has in hand may be saved, with its tool batch or without. *)
LEMMA InHand ==
    ASSUME ConvoInv, NEW c \in Convos
    PROVE  /\ convo[c].told \in Seq(Entries) /\ convo[c].tools \in Seq(Entries)
           /\ convo[c].told \in Tails(c)
           /\ convo[c].told \o convo[c].tools \in Tails(c)
<1> DEFINE s == convo[c].told
           u == convo[c].tools
           t == s \o u
<1>1. /\ s \in Seq(Entries) /\ u \in Seq(Entries) /\ t \in Tails(c)
  BY DEF ConvoInv, ConvoTyped, ConvoOf
<1> HIDE DEF s, u
<1>2. /\ t \in Seq(Entries) /\ Len(t) = Len(s) + Len(u)
      /\ \A i \in 1 .. Len(s) : t[i] = s[i]
  BY <1>1, Joined
<1>3. Len(s) \in Nat /\ Len(u) \in Nat
  BY <1>1
<1> HIDE DEF t
<1>4. s \in Tails(c)
  BY <1>1, <1>2, <1>3, TailBegins
<1>5. QED BY <1>1, <1>4 DEF s, t, u

(* The file of a run under way is rewritten with some of what it said.      *)
Tells(c, t) == Asking(c) \o t
Writes(c) ==
    \/ saved' = saved
    \/ Busy(c) /\ \E t \in Tails(c) : saved' = [saved EXCEPT ![c] = Tells(c, t)]

(* That has every question the file has, and the run last.                  *)
LEMMA TellsKeeps ==
    ASSUME AppInv, NEW c \in Convos, Busy(c), NEW p \in Tails(c)
    PROVE  /\ Tells(c, p) \in Seq(Entries) /\ SavedOf(Tells(c, p))
           /\ \A r : Of(r, c) => User(r) \in Range(Tells(c, p))
           /\ LastIs(Tells(c, p), hub[c].run)
<1>2. CASE Busy(c)
  <2> DEFINE s == saved[c]
             r == hub[c].run
             n == Len(p)
             b == Before(s, r)
             u == <<User(r)>>
             m == b \o u
             g == m \o p
  <2>1. /\ s \in Seq(Entries) /\ hub[c] \in Hubs /\ asks \in Seq(Runs)
        /\ r \in 0 .. Len(asks) /\ r # 0 /\ User(r) \in Range(s)
        /\ SavedOf(s) /\ LastIs(s, r)
    BY <1>2 DEF AppInv, AppTyped, HubKnows, SavedKnows, Of
  <2>2. r \in Nat /\ n \in Nat /\ r \in 1 .. Len(asks)
    <3>1. Len(asks) \in Nat
      BY <2>1
    <3>2. p \in Seq(Entries)
      BY DEF Tails
    <3>3. QED BY <2>1, <3>1, <3>2 DEF Hubs
  <2>a. p \in Seq(Entries) /\ Len(p) = n /\ \A i \in 1 .. n : p[i].run = r
    BY DEF Tails
  <2>3. Tells(c, p) = g
    BY DEF Tells, Asking
  <2> HIDE DEF s, r, n
  <2>4. /\ Len(s) \in Nat /\ DOMAIN s = 1 .. Len(s)
        /\ \A i \in 1 .. Len(s) : s[i] \in Entries
        /\ \A x \in Range(s) : \E i \in 1 .. Len(s) : x = s[i]
    BY <2>1, Elements
  <2>5. /\ b \in Seq(Entries) /\ Len(b) <= Len(s)
        /\ \A i \in 1 .. Len(b) : b[i] = s[i] /\ s[i].run # r
        /\ Len(b) < Len(s) => s[Len(b) + 1].run = r
    BY <2>1, <2>2, BeforeCuts
  <2>6. /\ p \in Seq(Entries) /\ Len(p) = n
        /\ \A i \in 1 .. n : p[i].run = r
        /\ u \in Seq(Entries) /\ Len(u) = 1 /\ u[1] = User(r) /\ Range(u) = {User(r)}
    <3>1. User(r) \in Entries
      BY <2>2, BoundsAssumption DEF User, Entries
    <3>2. QED BY <2>a, <3>1 DEF Range
  <2> HIDE DEF b, u
  <2>7. /\ m \in Seq(Entries) /\ Len(m) = Len(b) + 1
        /\ \A i \in 1 .. Len(b) : m[i] = b[i]
        /\ m[Len(b) + 1] = User(r)
        /\ Range(m) = Range(b) \cup {User(r)}
    <3>1. Len(b) \in Nat /\ Len(b) + 1 \in Len(b) + 1 .. Len(b) + 1
          /\ (Len(b) + 1) - Len(b) = 1
      BY <2>5
    <3>2. /\ b \o u \in Seq(Entries) /\ Len(b \o u) = Len(b) + Len(u)
          /\ \A i \in 1 .. Len(b) : (b \o u)[i] = b[i]
          /\ \A i \in Len(b) + 1 .. Len(b) + Len(u) : (b \o u)[i] = u[i - Len(b)]
          /\ Range(b \o u) = Range(b) \cup Range(u)
      <4>1. b \in Seq(Entries) /\ u \in Seq(Entries)
        BY <2>5, <2>6
      <4>2. QED BY <4>1, Joined
    <3>3. QED BY <2>6, <3>1, <3>2
  <2> HIDE DEF m
  <2>8. /\ g \in Seq(Entries) /\ Len(g) = Len(m) + n
        /\ \A i \in 1 .. Len(m) : g[i] = m[i]
        /\ \A i \in Len(m) + 1 .. Len(m) + n : g[i] = p[i - Len(m)]
        /\ Range(g) = Range(m) \cup Range(p)
    <3>1. /\ m \o p \in Seq(Entries) /\ Len(m \o p) = Len(m) + Len(p)
          /\ \A i \in 1 .. Len(m) : (m \o p)[i] = m[i]
          /\ \A i \in Len(m) + 1 .. Len(m) + Len(p) : (m \o p)[i] = p[i - Len(m)]
          /\ Range(m \o p) = Range(m) \cup Range(p)
      <4>1. m \in Seq(Entries) /\ p \in Seq(Entries)
        BY <2>6, <2>7
      <4>2. QED BY <4>1, Joined
    <3>2. QED BY <2>6, <3>1
  <2> HIDE DEF g
  <2>9. Len(b) \in Nat /\ n \in Nat /\ Len(m) \in Nat /\ DOMAIN g = 1 .. Len(g)
    BY <2>2, <2>5, <2>7, <2>8
  <2>10. \A i \in 1 .. Len(g) : IF i <= Len(b) THEN g[i] = s[i] /\ s[i].run # r ELSE g[i].run = r
    <3> SUFFICES ASSUME NEW i \in 1 .. Len(g)
                 PROVE  IF i <= Len(b) THEN g[i] = s[i] /\ s[i].run # r ELSE g[i].run = r
      OBVIOUS
    <3>1. CASE i <= Len(b)
      BY <2>5, <2>7, <2>8, <2>9, <3>1
    <3>2. CASE i = Len(b) + 1
      <4>1. g[i] = User(r)
        BY <2>7, <2>8, <2>9, <3>2
      <4>2. QED BY <2>9, <3>2, <4>1 DEF User
    <3>3. CASE i > Len(b) + 1
      <4>1. i \in Len(m) + 1 .. Len(m) + n /\ i - Len(m) \in 1 .. n
        BY <2>7, <2>8, <2>9, <3>3
      <4>2. g[i].run = r
        BY <2>6, <2>8, <4>1
      <4>3. QED BY <2>9, <3>3, <4>2
    <3>4. QED BY <2>9, <3>1, <3>2, <3>3
  <2>11. \A i \in 1 .. Len(s) : s[i].run # r => i <= Len(b)
    <3> SUFFICES ASSUME NEW i \in 1 .. Len(s), s[i].run # r, i > Len(b) PROVE FALSE
      BY <2>9
    <3>1. Len(b) + 1 \in 1 .. Len(s) /\ s[Len(b) + 1].run = r
      BY <2>4, <2>5, <2>9
    <3>2. i = Len(b) + 1 \/ Len(b) + 1 < i
      BY <2>9
    <3>3. QED BY <2>1, <2>4, <3>1, <3>2 DEF LastIs
  <2>12. User(r) \in Range(g)
    BY <2>7, <2>8
  <2>13. \A q : User(q) \in Range(s) => User(q) \in Range(g)
    <3> SUFFICES ASSUME NEW q, User(q) \in Range(s), q # r PROVE User(q) \in Range(g)
      BY <2>12
    <3>1. PICK i \in 1 .. Len(s) : User(q) = s[i]
      BY <2>4
    <3>2. s[i].run = q
      <4>1. User(q).run = q
        BY DEF User
      <4>2. QED BY <3>1, <4>1
    <3>3. i \in 1 .. Len(g) /\ g[i] = s[i]
      BY <2>5, <2>7, <2>8, <2>9, <2>10, <2>11, <3>2
    <3>4. QED BY <2>9, <3>1, <3>3 DEF Range
  <2>14. SavedOf(g)
    <3> SUFFICES ASSUME NEW i \in 1 .. Len(g)
                 PROVE  g[i].run \in 1 .. Len(asks) /\ User(g[i].run) \in Range(g)
      BY <2>9 DEF SavedOf
    <3>1. CASE i <= Len(b)
      <4>1. g[i] = s[i] /\ i \in DOMAIN s
        BY <2>4, <2>5, <2>9, <2>10, <3>1
      <4>2. s[i].run \in 1 .. Len(asks) /\ User(s[i].run) \in Range(s)
        BY <2>1, <4>1 DEF SavedOf
      <4>3. QED BY <2>13, <4>1, <4>2
    <3>2. CASE i > Len(b)
      <4>1. g[i].run = r
        BY <2>9, <2>10, <3>2
      <4>2. QED BY <2>2, <2>12, <4>1
    <3>3. QED BY <2>9, <3>1, <3>2
  <2>15. LastIs(g, r)
    <3> SUFFICES ASSUME NEW i \in 1 .. Len(g), NEW j \in 1 .. Len(g), i < j, g[i].run = r
                 PROVE  g[j].run = r
      BY <2>9 DEF LastIs
    <3>1. i > Len(b)
      BY <2>9, <2>10
    <3>2. j > Len(b)
      BY <2>9, <3>1
    <3>3. QED BY <2>9, <2>10, <3>2
  <2>16. QED BY <2>3, <2>8, <2>13, <2>14, <2>15 DEF Of, s, r
<1>3. QED BY <1>2

(* A hub moves on: its file is unchanged or rewritten with all that was     *)
(* said, and whoever works on its conversation works for its run.           *)
LEMMA HubMoves ==
    ASSUME AppInv, NEW c \in Convos, NEW h \in Hubs,
           hub' = [hub EXCEPT ![c] = h], h.run = hub[c].run, h.phase # "idle" => Busy(c),
           Writes(c), bodies' \subseteq bodies, UNCHANGED <<stored, asks>>,
           \A d \in drivers' : \/ d \in drivers /\ d[2] # c
                               \/ d = <<h.run, c>> /\ h.run # 0 /\ h.phase \in Driving
    PROVE  AppInv' /\ Kept
<1>1. /\ hub \in [Convos -> Hubs] /\ saved \in [Convos -> Seq(Entries)]
      /\ \A x \in Convos : hub'[x] = IF x = c THEN h ELSE hub[x]
      /\ hub' \in [Convos -> Hubs]
  BY DEF AppInv, AppTyped
<1>2. h.run \in Nat
  BY DEF Hubs
<1> DEFINE s == saved'[c]
<1>3. /\ s \in Seq(Entries) /\ SavedOf(s) /\ saved' = [saved EXCEPT ![c] = s]
      /\ \A r : Of(r, c) => User(r) \in Range(s)
      /\ Busy(c) => LastIs(s, hub[c].run)
  <2>1. CASE saved' = saved
    <3>1. /\ saved[c] \in Seq(Entries) /\ SavedOf(saved[c])
          /\ Busy(c) => LastIs(saved[c], hub[c].run)
      BY DEF AppInv, AppTyped, SavedKnows
    <3>2. s = saved[c] /\ saved' = [saved EXCEPT ![c] = s]
      BY <1>1, <2>1
    <3> HIDE DEF s
    <3>3. QED BY <3>1, <3>2 DEF Of
  <2>2. CASE Busy(c) /\ \E t \in Tails(c) : saved' = [saved EXCEPT ![c] = Tells(c, t)]
    <3>1. PICK t \in Tails(c) : saved' = [saved EXCEPT ![c] = Tells(c, t)]
      BY <2>2
    <3>2. s = Tells(c, t)
      BY <1>1, <3>1
    <3> HIDE DEF s
    <3>3. QED BY <2>2, <3>1, <3>2, TellsKeeps
  <2>3. QED BY <2>1, <2>2 DEF Writes
<1>4. \A x \in Convos : saved'[x] = saved[x] \/ (x = c /\ saved'[x] = s)
  BY <1>1, <1>3
<1>5. saved' \in [Convos -> Seq(Entries)]
  BY <1>1, <1>3
<1>6. drivers' \subseteq Runs \X Convos
  BY <1>2 DEF AppInv, AppTyped, Runs
<1>7. AppTyped'
  BY <1>1, <1>5, <1>6 DEF AppInv, AppTyped
<1>8. Kept
  BY <1>3, <1>4 DEF Kept, Of
<1>9. HubKnows'
  <2>1. \A x \in Convos : hub'[x].run = hub[x].run
    BY <1>1
  <2>2. \A x \in Convos : hub'[x].run \in 0 .. Len(asks')
    BY <2>1 DEF AppInv, HubKnows
  <2>3. \A x \in Convos : hub'[x].run # 0 => User(hub'[x].run) \in Range(saved'[x])
    BY <2>1, <1>8 DEF AppInv, HubKnows, Kept
  <2>4. \A x \in Convos : hub'[x].phase # "idle" => hub'[x].run # 0
    BY <1>1, <2>1 DEF AppInv, HubKnows, Busy
  <2>5. \A d \in drivers' : hub'[d[2]].run = d[1] /\ hub'[d[2]].phase \in Driving
    <3> TAKE d \in drivers'
    <3>1. CASE d \in drivers /\ d[2] # c
      <4>1. d[2] \in Convos
        BY <1>6
      <4>2. hub[d[2]].run = d[1] /\ hub[d[2]].phase \in Driving
        BY <3>1 DEF AppInv, HubKnows
      <4>3. QED BY <1>1, <3>1, <4>1, <4>2
    <3>2. CASE d = <<h.run, c>> /\ h.phase \in Driving
      BY <1>1, <3>2
    <3>3. QED BY <3>1, <3>2
  <2>6. QED BY <2>2, <2>3, <2>4, <2>5 DEF HubKnows, Of, Busy
<1>10. SavedKnows'
  <2>1. \A x \in Convos : SavedOf(saved'[x])
    BY <1>3, <1>4 DEF AppInv, SavedKnows
  <2>2. ASSUME NEW x \in Convos, hub'[x].phase # "idle" PROVE LastIs(saved'[x], hub'[x].run)
    <3>1. Busy(x) /\ hub'[x].run = hub[x].run
      BY <1>1, <2>2 DEF Busy
    <3>2. QED BY <1>3, <1>4, <3>1 DEF AppInv, SavedKnows
  <2>3. QED BY <2>1, <2>2 DEF SavedKnows, SavedOf, LastIs, Busy
<1>11. QED BY <1>7, <1>8, <1>9, <1>10 DEF AppInv

(* A claim: the question is saved before anyone hears of the run. *)
LEMMA ClaimKeeps ==
    ASSUME AppInv, NEW c \in Convos, NEW q \in Runs, Claim(c, q), UNCHANGED <<stored, drivers>>
    PROVE  /\ AppInv' /\ Kept
           /\ User(Len(asks)')  \in Range(saved'[c]) /\ Len(asks)' \in Runs
<1> DEFINE r == Len(asks) + 1
           h == [run |-> r, phase |-> "claimed", parts |-> 0, stopping |-> FALSE]
<1>1. /\ ~Busy(c) /\ asks' = Append(asks, q)
      /\ saved' = [saved EXCEPT ![c] = Append(@, User(r))]
      /\ hub' = [hub EXCEPT ![c] = h]
      /\ bodies' = bodies \cup {<<r, c>>}
  BY DEF Claim
<1>2. /\ asks \in Seq(Runs) /\ hub \in [Convos -> Hubs] /\ saved \in [Convos -> Seq(Entries)]
      /\ saved[c] \in Seq(Entries)
      /\ bodies \subseteq Runs \X Convos /\ drivers \subseteq Runs \X Convos
      /\ MaxParts \in Nat
  BY BoundsAssumption DEF AppInv, AppTyped
<1>3. /\ Len(asks) \in Nat /\ r \in Nat /\ r # 0 /\ r \in Runs
      /\ asks' \in Seq(Runs) /\ Len(asks') = r
  BY <1>1, <1>2 DEF Runs
<1>4. h \in Hubs /\ h.run = r /\ h.phase = "claimed"
  BY <1>2, <1>3 DEF Hubs, Phases
<1> HIDE DEF r, h
<1>5. User(r) \in Entries /\ User(r).run = r
  BY <1>2, <1>3 DEF User, Entries
<1>6. /\ \A x \in Convos : hub'[x] = IF x = c THEN h ELSE hub[x]
      /\ \A x \in Convos : saved'[x] = IF x = c THEN Append(saved[c], User(r)) ELSE saved[x]
  BY <1>1, <1>2
<1>7. /\ Append(saved[c], User(r)) \in Seq(Entries)
      /\ Len(Append(saved[c], User(r))) = Len(saved[c]) + 1
      /\ \A i \in 1 .. Len(saved[c]) : Append(saved[c], User(r))[i] = saved[c][i]
      /\ Append(saved[c], User(r))[Len(saved[c]) + 1] = User(r)
      /\ Range(Append(saved[c], User(r))) = Range(saved[c]) \cup {User(r)}
  BY <1>2, <1>5, Appended
<1>8. AppTyped'
  <2>1. hub' \in [Convos -> Hubs]
    BY <1>1, <1>2, <1>4
  <2>2. saved' \in [Convos -> Seq(Entries)]
    BY <1>1, <1>2, <1>7
  <2>3. bodies' \subseteq Runs \X Convos
    BY <1>1, <1>2, <1>3
  <2>4. QED BY <1>2, <1>3, <2>1, <2>2, <2>3 DEF AppInv, AppTyped
<1>9. Kept
  BY <1>6, <1>7 DEF Kept, Of
<1>10. User(r) \in Range(saved'[c])
  BY <1>6, <1>7
<1>11. HubKnows'
  <2>1. \A x \in Convos : hub'[x].run \in 0 .. Len(asks')
    BY <1>3, <1>4, <1>6 DEF AppInv, HubKnows, r
  <2>2. \A x \in Convos : hub'[x].run # 0 => User(hub'[x].run) \in Range(saved'[x])
    BY <1>4, <1>6, <1>9, <1>10 DEF AppInv, HubKnows, Kept
  <2>3. \A x \in Convos : hub'[x].phase # "idle" => hub'[x].run # 0
    BY <1>3, <1>4, <1>6 DEF AppInv, HubKnows, Busy
  <2>4. \A d \in drivers' : hub'[d[2]].run = d[1] /\ hub'[d[2]].phase \in Driving
    <3> TAKE d \in drivers'
    <3>1. d[2] \in Convos /\ hub[d[2]].run = d[1] /\ hub[d[2]].phase \in Driving
      BY <1>2 DEF AppInv, HubKnows
    <3>2. d[2] # c
      BY <1>1, <3>1 DEF Busy, Driving
    <3>3. QED BY <1>6, <3>1, <3>2
  <2>5. QED BY <2>1, <2>2, <2>3, <2>4 DEF HubKnows, Of, Busy
<1>12. \A x \in Convos : SavedOf(saved[x])
  BY DEF AppInv, SavedKnows
<1>13. SavedKnows'
  <2>1. ASSUME NEW x \in Convos, NEW i \in DOMAIN saved'[x]
        PROVE  /\ saved'[x][i].run \in 1 .. Len(asks')
               /\ User(saved'[x][i].run) \in Range(saved'[x])
    <3>1. CASE x # c
      <4>1. saved'[x] = saved[x]
        BY <1>6, <3>1
      <4>2. saved[x][i].run \in 1 .. Len(asks) /\ User(saved[x][i].run) \in Range(saved[x])
        BY <1>12, <2>1, <4>1 DEF SavedOf
      <4>3. QED BY <1>3, <4>1, <4>2 DEF r
    <3>2. CASE x = c
      <4>1. saved'[x] = Append(saved[c], User(r)) /\ i \in 1 .. Len(saved[c]) + 1
        BY <1>6, <1>7, <2>1, <3>2, Elements
      <4>2. CASE i = Len(saved[c]) + 1
        BY <1>3, <1>5, <1>7, <4>1, <4>2
      <4>3. CASE i \in 1 .. Len(saved[c])
        <5>1. i \in DOMAIN saved[c] /\ saved'[x][i] = saved[c][i]
          BY <1>2, <1>7, <4>1, <4>3
        <5>2. saved[c][i].run \in 1 .. Len(asks) /\ User(saved[c][i].run) \in Range(saved[c])
          BY <1>12, <5>1 DEF SavedOf
        <5>3. QED BY <1>3, <1>7, <4>1, <5>1, <5>2 DEF r
      <4>4. Len(saved[c]) \in Nat
        BY <1>2
      <4>5. QED BY <4>1, <4>2, <4>3, <4>4
    <3>3. QED BY <3>1, <3>2
  <2>2. ASSUME NEW x \in Convos, hub'[x].phase # "idle",
               NEW i \in DOMAIN saved'[x], NEW j \in DOMAIN saved'[x],
               i < j, saved'[x][i].run = hub'[x].run
        PROVE  saved'[x][j].run = hub'[x].run
    <3>1. CASE x # c
      <4>1. saved'[x] = saved[x] /\ hub'[x] = hub[x]
        BY <1>6, <3>1
      <4>2. LastIs(saved[x], hub[x].run)
        BY <2>2, <4>1 DEF AppInv, SavedKnows, Busy
      <4>3. QED BY <2>2, <4>1, <4>2 DEF LastIs
    <3>2. CASE x = c
      <4>1. /\ saved'[x] = Append(saved[c], User(r)) /\ hub'[x].run = r
            /\ i \in 1 .. Len(saved[c]) + 1 /\ j \in 1 .. Len(saved[c]) + 1
            /\ Len(saved[c]) \in Nat
        <5>1. saved'[x] = Append(saved[c], User(r)) /\ hub'[x].run = r
          BY <1>4, <1>6, <3>2
        <5>2. DOMAIN saved'[x] = 1 .. Len(saved[c]) + 1
          BY <1>7, <5>1, Elements
        <5>3. QED BY <1>2, <2>2, <5>1, <5>2
      <4>2. i \in 1 .. Len(saved[c])
        BY <2>2, <4>1
      <4>3. i \in DOMAIN saved[c] /\ saved'[x][i] = saved[c][i]
        BY <1>2, <1>7, <4>1, <4>2
      <4>4. saved[c][i].run \in 1 .. Len(asks)
        BY <1>12, <4>3 DEF SavedOf
      <4>5. QED BY <1>3, <2>2, <4>1, <4>3, <4>4 DEF r
    <3>3. QED BY <3>1, <3>2
  <2>3. QED BY <2>1, <2>2 DEF SavedKnows, SavedOf, LastIs, Busy
<1>14. QED BY <1>3, <1>8, <1>9, <1>10, <1>11, <1>13 DEF AppInv

(* Conversations come and go, and claims are forgotten. *)
LEMMA OnlyStored ==
    ASSUME AppInv, stored' \subseteq Convos, bodies' \subseteq bodies,
           UNCHANGED <<saved, hub, drivers, asks>>
    PROVE  AppInv' /\ Kept
<1>1. AppTyped'
  BY DEF AppInv, AppTyped
<1>2. HubKnows' /\ SavedKnows'
  BY DEF AppInv, HubKnows, SavedKnows, SavedOf, LastIs, Of, Busy
<1>3. QED BY <1>1, <1>2 DEF AppInv, Kept, Of

(* The phase of a hub, or its stop flag, changes. *)
InPhase(h, p) == IF p = "idle" THEN Freed(h) ELSE [h EXCEPT !.phase = p]
Moves(c, p) == hub' = [hub EXCEPT ![c] = InPhase(hub[c], p)]

LEMMA Moved ==
    ASSUME AppInv, NEW c \in Convos
    PROVE  /\ hub' = [hub EXCEPT ![c] = Freed(@)] => Moves(c, "idle")
           /\ \A p \in {"driven", "closing", "cut"} :
                 hub' = [hub EXCEPT ![c].phase = p] => Moves(c, p)
  BY DEF InPhase, Moves, AppInv, AppTyped

LEMMA FieldsOf ==
    ASSUME AppInv, NEW c \in Convos
    PROVE  /\ hub[c] \in Hubs
           /\ \A p \in Phases : /\ InPhase(hub[c], p) \in Hubs
                                /\ InPhase(hub[c], p).run = hub[c].run
                                /\ InPhase(hub[c], p).parts = hub[c].parts
                                /\ InPhase(hub[c], p).phase = p
           /\ \A b \in BOOLEAN : /\ [hub[c] EXCEPT !.stopping = b] \in Hubs
                                 /\ [hub[c] EXCEPT !.stopping = b].run = hub[c].run
                                 /\ [hub[c] EXCEPT !.stopping = b].phase = hub[c].phase
                                 /\ [hub EXCEPT ![c].stopping = b]
                                      = [hub EXCEPT ![c] = [hub[c] EXCEPT !.stopping = b]]
<1>1. hub[c] \in Hubs /\ hub \in [Convos -> Hubs]
  BY DEF AppInv, AppTyped
<1>2. ASSUME NEW p \in Phases
      PROVE  /\ InPhase(hub[c], p) \in Hubs /\ InPhase(hub[c], p).run = hub[c].run
             /\ InPhase(hub[c], p).parts = hub[c].parts /\ InPhase(hub[c], p).phase = p
  <2>1. CASE p = "idle"
    BY <1>1, <2>1 DEF Hubs, InPhase, Freed
  <2>2. CASE p # "idle"
    BY <1>1, <2>2 DEF Hubs, InPhase
  <2>3. QED BY <2>1, <2>2
<1>3. QED BY <1>1, <1>2 DEF Hubs

(* Nobody works on a conversation that is not claimed, or whose claim has   *)
(* not started.                                                            *)
LEMMA Undriven ==
    ASSUME AppInv, NEW d \in drivers
    PROVE  /\ d[2] \in Convos /\ hub[d[2]].phase \in Driving
           /\ d = <<hub[d[2]].run, d[2]>> /\ d[1] # 0
  BY DEF AppInv, AppTyped, HubKnows, Runs

(* A hub is set to a phase: to "idle" when nobody works on it any more.     *)
LEMMA PhaseMoves ==
    ASSUME AppInv, NEW c \in Convos, NEW p \in Phases,
           Moves(c, p), p # "idle" => Busy(c), Writes(c), bodies' \subseteq bodies,
           UNCHANGED <<stored, asks>>,
           \/ drivers' = drivers /\ (hub[c].phase \notin Driving \/ p \in Driving)
           \/ drivers' = drivers \cup {<<hub[c].run, c>>} /\ p \in Driving
           \/ drivers' = drivers \ {<<hub[c].run, c>>}
    PROVE  AppInv' /\ Kept
<1> DEFINE h == InPhase(hub[c], p)
<1>1. h \in Hubs /\ h.run = hub[c].run /\ h.phase = p /\ hub' = [hub EXCEPT ![c] = h]
  BY FieldsOf DEF Moves
<1> HIDE DEF h
<1>2. \A d \in drivers' : \/ d \in drivers /\ d[2] # c
                          \/ d = <<h.run, c>> /\ h.run # 0 /\ h.phase \in Driving
  <2> TAKE d \in drivers'
  <2>1. CASE d \in drivers
    <3>1. /\ d[2] = c => d = <<hub[c].run, c>> /\ hub[c].phase \in Driving
          /\ d[2] = c => hub[c].run # 0
      BY <2>1, Undriven
    <3>2. QED BY <1>1, <2>1, <3>1
  <2>2. CASE d = <<hub[c].run, c>> /\ p \in Driving
    <3>1. hub[c].run # 0
      BY <2>2 DEF AppInv, HubKnows, Driving
    <3>2. QED BY <1>1, <2>2, <3>1
  <2>3. QED BY <2>1, <2>2
<1>3. QED BY <1>1, <1>2, HubMoves

LEMMA StoppedKeeps ==
    ASSUME AppInv, NEW c \in Convos, Stopped(c),
           UNCHANGED <<stored, saved, bodies, drivers, asks>>
    PROVE  AppInv' /\ Kept
<1>1. CASE hub[c].phase = "claimed"
  <2>1. Moves(c, "idle") /\ "idle" \in Phases /\ hub[c].phase \notin Driving
    BY <1>1, Moved DEF Stopped, Phases, Driving
  <2>2. QED BY <2>1, PhaseMoves DEF Writes
<1>2. CASE hub[c].phase # "claimed"
  <2> DEFINE b == Busy(c)
             h == [hub[c] EXCEPT !.stopping = b]
  <2>1. hub' = [hub EXCEPT ![c].stopping = b] /\ b \in BOOLEAN
    BY <1>2 DEF Stopped, Busy
  <2> HIDE DEF b
  <2>2. h \in Hubs /\ h.run = hub[c].run /\ h.phase = hub[c].phase
        /\ hub' = [hub EXCEPT ![c] = h]
    BY <2>1, FieldsOf
  <2> HIDE DEF h
  <2>3. \A d \in drivers' : \/ d \in drivers /\ d[2] # c
                            \/ d = <<h.run, c>> /\ h.run # 0 /\ h.phase \in Driving
    <3> TAKE d \in drivers'
    <3>1. d \in drivers
      OBVIOUS
    <3>2. d = <<hub[d[2]].run, d[2]>> /\ d[1] # 0 /\ hub[d[2]].phase \in Driving
      BY <3>1, Undriven
    <3>3. QED BY <2>2, <3>1, <3>2
  <2>4. h.phase # "idle" => Busy(c)
    BY <2>2 DEF Busy
  <2>5. QED BY <2>2, <2>3, <2>4, HubMoves DEF Writes
<1>3. QED BY <1>1, <1>2

LEMMA RestartKeeps ==
    ASSUME AppInv, RestartApp
    PROVE  AppInv' /\ Kept
<1>1. /\ hub' = [c \in Convos |-> Freed(hub[c])]
      /\ bodies' = {} /\ drivers' = {} /\ UNCHANGED <<stored, saved, asks>>
  BY DEF RestartApp
<1>2. \A c \in Convos : /\ hub'[c] \in Hubs /\ hub'[c].run = hub[c].run
                        /\ hub'[c].phase = "idle"
  <2>1. \A c \in Convos : InPhase(hub[c], "idle") = Freed(hub[c])
    BY DEF InPhase
  <2>2. QED BY <1>1, <2>1, FieldsOf DEF Phases
<1>3. AppTyped'
  BY <1>1, <1>2 DEF AppInv, AppTyped
<1>4. HubKnows' /\ SavedKnows'
  BY <1>1, <1>2 DEF AppInv, HubKnows, SavedKnows, SavedOf, LastIs, Of, Busy
<1>5. QED BY <1>1, <1>3, <1>4 DEF AppInv, Kept, Of

LEMMA SpeakKeeps ==
    ASSUME AppInv, NEW c \in Convos, Speak(c)
    PROVE  AppInv' /\ Kept
<1> DEFINE h == [hub[c] EXCEPT !.parts = @ + 1]
<1>1. /\ hub[c].phase = "driven" /\ hub[c].parts < MaxParts
      /\ hub' = [hub EXCEPT ![c].parts = @ + 1]
      /\ UNCHANGED <<stored, saved, bodies, drivers, asks>>
  BY DEF Speak
<1>2. hub[c] \in Hubs /\ hub \in [Convos -> Hubs] /\ MaxParts \in Nat
  BY BoundsAssumption DEF AppInv, AppTyped
<1>3. h \in Hubs /\ h.run = hub[c].run /\ h.phase = hub[c].phase
  BY <1>1, <1>2 DEF Hubs
<1>4. hub' = [hub EXCEPT ![c] = h]
  BY <1>1, <1>2
<1> HIDE DEF h
<1>5. \A d \in drivers' : \/ d \in drivers /\ d[2] # c
                          \/ d = <<h.run, c>> /\ h.run # 0 /\ h.phase \in Driving
  <2> TAKE d \in drivers'
  <2>1. d \in drivers
    BY <1>1
  <2>2. d = <<hub[d[2]].run, d[2]>> /\ d[1] # 0 /\ hub[d[2]].phase \in Driving
    BY <2>1, Undriven
  <2>3. QED BY <1>3, <2>1, <2>2
<1>6. h.phase # "idle" => Busy(c)
  BY <1>3 DEF Busy
<1>7. QED BY <1>1, <1>3, <1>4, <1>5, <1>6, HubMoves DEF Writes

(* The steps that save: with all that is in hand, or without the tools.     *)
LEMMA SavesInHand ==
    ASSUME ConvoInv, NEW c \in Convos,
           Checkpoint(c) \/ ToolsDone(c) \/ DropRound(c) \/ Finish(c) \/ Cancelled(c)
    PROVE  Writes(c)
<1>1. Busy(c)
  BY DEF Checkpoint, ToolsDone, DropRound, Finish, Cancelled, Busy
<1>2. convo[c].told \in Tails(c) /\ convo[c].told \o convo[c].tools \in Tails(c)
  BY InHand
<1>3. CASE saved' \in {saved, [saved EXCEPT ![c] = Written(c)]}
  BY <1>1, <1>2, <1>3 DEF Writes, Written, Tells
<1>4. CASE ToolsDone(c)
  <2>1. convo'[c].told = convo[c].told \o convo[c].tools
    BY <1>4 DEF ToolsDone, ConvoInv, ConvoTyped
  <2>2. saved' = [saved EXCEPT ![c] = Tells(c, convo[c].told \o convo[c].tools)]
    BY <1>4, <2>1 DEF ToolsDone, Tells
  <2>3. QED BY <1>1, <1>2, <2>2 DEF Writes
<1>5. QED BY <1>3, <1>4 DEF Checkpoint, DropRound, Finish, Cancelled

LEMMA CheckpointKeeps ==
    ASSUME AppInv, ConvoInv, NEW c \in Convos, Checkpoint(c) \/ ToolsDone(c) \/ DropRound(c)
    PROVE  AppInv' /\ Kept
<1>1. /\ hub[c].phase = "driven" /\ UNCHANGED <<stored, hub, bodies, drivers, asks>>
  BY DEF Checkpoint, ToolsDone, DropRound
<1>a. Writes(c)
  BY SavesInHand
<1>2. hub \in [Convos -> Hubs] /\ hub[c] \in Hubs
  BY DEF AppInv, AppTyped
<1>3. hub' = [hub EXCEPT ![c] = hub[c]]
  BY <1>1, <1>2
<1>4. \A d \in drivers' : \/ d \in drivers /\ d[2] # c
                          \/ d = <<hub[c].run, c>> /\ hub[c].run # 0 /\ hub[c].phase \in Driving
  <2> TAKE d \in drivers'
  <2>1. d \in drivers
    BY <1>1
  <2>2. d = <<hub[d[2]].run, d[2]>> /\ d[1] # 0 /\ hub[d[2]].phase \in Driving
    BY <2>1, Undriven
  <2>3. QED BY <2>1, <2>2
<1>5. hub[c].phase # "idle" => Busy(c)
  BY DEF Busy
<1>6. QED BY <1>a, <1>1, <1>2, <1>3, <1>4, <1>5, HubMoves

LEMMA AppStep ==
    ASSUME IInv, [Next]_vars
    PROVE  AppInv' /\ Kept
<1> USE DEF Phases, Driving
<1>0. AppInv /\ ConvoInv
  BY DEF IInv
<1> USE <1>0
<1>a. saved' = saved => \A c : Writes(c)
  BY DEF Writes
<1>1. ASSUME NEW c \in Convos, OtherSends(c) PROVE AppInv' /\ Kept
  <2>1. PICK q \in {Len(asks) + 1} \cup Range(asks) : Claim(c, q)
    BY <1>1 DEF OtherSends
  <2>2. q \in Runs
    <3>1. asks \in Seq(Runs)
      BY DEF AppInv, AppTyped
    <3>2. Len(asks) + 1 \in Runs /\ Range(asks) \subseteq Runs
      BY <3>1, Elements DEF Runs
    <3>3. QED BY <3>2
  <2>3. UNCHANGED <<stored, drivers>>
    BY <1>1 DEF OtherSends
  <2>4. QED BY <2>1, <2>2, <2>3, ClaimKeeps
<1>2. ASSUME NEW b \in bodies, BodyStarts(b[1], b[2]) PROVE AppInv' /\ Kept
  <2>1. b[2] \in Convos /\ bodies' \subseteq bodies /\ UNCHANGED <<stored, saved, asks>>
    BY <1>2 DEF BodyStarts, AppInv, AppTyped
  <2>a. \A c : Writes(c)
    BY <1>a, <2>1
  <2>2. CASE /\ Starts(b[1], b[2]) /\ hub' = [hub EXCEPT ![b[2]].phase = "driven"]
             /\ drivers' = drivers \cup {<<b[1], b[2]>>}
    <3>1. b[1] = hub[b[2]].run /\ Busy(b[2])
      BY <2>2 DEF Starts
    <3>2. Moves(b[2], "driven")
      BY <2>1, <2>2, Moved
    <3>3. QED BY <2>a, <2>1, <2>2, <3>1, <3>2, PhaseMoves
  <2>3. CASE UNCHANGED <<hub, drivers>>
    BY <2>1, <2>3, OnlyStored DEF AppInv, AppTyped
  <2>4. QED BY <1>2, <2>2, <2>3 DEF BodyStarts
<1>3. ASSUME NEW b \in bodies, NeverStarts(b[1], b[2]) PROVE AppInv' /\ Kept
  BY <1>3, OnlyStored DEF NeverStarts, AppInv, AppTyped
<1>4. ASSUME NEW c \in Convos, ExpireUnstarted(c) PROVE AppInv' /\ Kept
  <2>1. Moves(c, "idle") /\ Writes(c)
    BY <1>a, <1>4, Moved DEF ExpireUnstarted
  <2>2. QED BY <1>4, <2>1, PhaseMoves DEF ExpireUnstarted
<1>5. ASSUME NEW c \in Convos, Speak(c) PROVE AppInv' /\ Kept
  BY <1>5, SpeakKeeps
<1>6. ASSUME NEW c \in Convos, Checkpoint(c) \/ ToolsDone(c) \/ DropRound(c) PROVE AppInv' /\ Kept
  BY <1>6, CheckpointKeeps
<1>7. ASSUME NEW c \in Convos, Finish(c) PROVE AppInv' /\ Kept
  <2>1. Moves(c, "closing") /\ Writes(c)
    BY <1>7, Moved, SavesInHand DEF Finish
  <2>2. QED BY <1>7, <2>1, PhaseMoves DEF Finish, Busy
<1>8. ASSUME NEW c \in Convos, End(c) PROVE AppInv' /\ Kept
  <2>1. Moves(c, "idle") /\ Writes(c)
    BY <1>a, <1>8, Moved DEF End, Released
  <2>2. QED BY <1>8, <2>1, PhaseMoves DEF End, Released
<1>9. ASSUME NEW c \in Convos, Cancelled(c) PROVE AppInv' /\ Kept
  <2>1. Moves(c, "idle") /\ Writes(c)
    BY <1>9, Moved, SavesInHand DEF Cancelled, Released
  <2>2. QED BY <1>9, <2>1, PhaseMoves DEF Cancelled, Released
<1>10. ASSUME NEW c \in Convos, Cut(c) PROVE AppInv' /\ Kept
  <2>1. Moves(c, "cut") /\ Writes(c)
    BY <1>a, <1>10, Moved DEF Cut
  <2>2. QED BY <1>10, <2>1, PhaseMoves DEF Cut, Busy
<1>11. ASSUME NEW c \in Convos, CutEnds(c) PROVE AppInv' /\ Kept
  <2>1. Moves(c, "idle") /\ Writes(c)
    BY <1>a, <1>11, Moved DEF CutEnds, Released
  <2>2. QED BY <1>11, <2>1, PhaseMoves DEF CutEnds, Released
<1>12. ASSUME NEW c \in Convos, OtherStops(c) PROVE AppInv' /\ Kept
  BY <1>12, StoppedKeeps DEF OtherStops
<1>13. ASSUME NEW c \in Convos, OtherDeletes(c) \/ Delete(c) PROVE AppInv' /\ Kept
  <2>1. /\ stored' \subseteq stored /\ UNCHANGED <<saved, hub, bodies, drivers, asks>>
    BY <1>13 DEF OtherDeletes, Delete
  <2>2. QED BY <2>1, OnlyStored DEF AppInv, AppTyped
<1>14. ASSUME NEW c \in Convos, SendCreates(c) \/ NewConvo(c) PROVE AppInv' /\ Kept
  <2>1. /\ stored' = stored \cup {c} /\ UNCHANGED <<saved, hub, bodies, drivers, asks>>
    BY <1>14 DEF SendCreates, NewConvo, Makes
  <2>2. QED BY <2>1, OnlyStored DEF AppInv, AppTyped
<1>15. ASSUME RestartApp PROVE AppInv' /\ Kept
  BY <1>15, RestartKeeps
<1>16. ASSUME PostArrives PROVE AppInv' /\ Kept
  <2>1. post.conv \in Convos /\ UNCHANGED <<stored, drivers>>
    BY <1>16 DEF PostArrives, IInv, PostInv
  <2>2. CASE Claim(post.conv, Len(asks) + 1)
    <3>1. Len(asks) + 1 \in Runs
      <4>1. asks \in Seq(Runs)
        BY DEF AppInv, AppTyped
      <4>2. QED BY <4>1 DEF Runs
    <3>2. QED BY <2>1, <2>2, <3>1, ClaimKeeps
  <2>3. CASE UNCHANGED <<saved, hub, bodies, asks>>
    BY <2>1, <2>3, OnlyStored DEF AppInv, AppTyped
  <2>4. QED BY <1>16, <2>2, <2>3 DEF PostArrives
<1>17. ASSUME Stop PROVE AppInv' /\ Kept
  <2>1. active \in Convos /\ Stopped(active) /\ UNCHANGED <<stored, saved, bodies, drivers, asks>>
    BY <1>17 DEF Stop, IInv, WatchInv
  <2>2. QED BY <2>1, StoppedKeeps
<1>18. ASSUME \/ \E c \in Convos : DropHub(c) \/ Open(c)
              \/ BreakWatch \/ Leave \/ Apply \/ WatchEnters \/ Subscribe \/ Deliver
              \/ CreatedForSend \/ SendEnds \/ Send \/ PostFails \/ UNCHANGED vars
       PROVE  AppInv' /\ Kept
  <2>1. UNCHANGED <<stored, saved, hub, bodies, drivers, asks>>
    BY <1>18 DEF DropHub, Open, BreakWatch, Leave, Apply, WatchEnters, Subscribe, Deliver,
                 CreatedForSend, SendEnds, Send, PostFails, vars, app
  <2>2. QED BY <2>1, OnlyStored DEF AppInv, AppTyped
<1>19. QED
  BY <1>1, <1>2, <1>3, <1>4, <1>5, <1>6, <1>7, <1>8, <1>9, <1>10, <1>11, <1>12, <1>13,
     <1>14, <1>15, <1>16, <1>17, <1>18 DEF Next, App, Body, Driver, Page

-----------------------------------------------------------------------------
(* What the drivers have in hand. *)
LEMMA TailGrows ==
    ASSUME NEW c, hub'[c].run = hub[c].run, hub[c].parts \in Nat, hub'[c].parts \in Nat,
           hub[c].parts <= hub'[c].parts, NEW t \in Tails(c)
    PROVE  t \in Tails(c)'
<1>1. /\ t \in Seq(Entries) /\ Rising(t)
      /\ \A i \in 1 .. Len(t) : t[i].run = hub[c].run /\ t[i].part \in 1 .. hub[c].parts
  BY DEF Tails
<1>2. \A k \in 1 .. hub[c].parts : k \in 1 .. hub'[c].parts
  OBVIOUS
<1>3. \A i \in 1 .. Len(t) : t[i].run = hub'[c].run /\ t[i].part \in 1 .. hub'[c].parts
  BY <1>1, <1>2
<1>4. QED BY <1>1, <1>3 DEF Tails

(* Nothing happens to what the driver of a conversation has in hand, whose  *)
(* run may say more and stays under way if it has anything.                 *)
Held(x) == /\ hub'[x].run = hub[x].run /\ hub[x].parts <= hub'[x].parts
           /\ convo'[x] = convo[x] /\ (hub[x].phase = "driven" => hub'[x].phase = "driven")

LEMMA HubTyped ==
    ASSUME AppInv, NEW c \in Convos
    PROVE  hub[c] \in Hubs /\ hub[c].run \in Nat /\ hub[c].parts \in Nat
           /\ hub[c].parts \in 0 .. MaxParts
  BY BoundsAssumption DEF AppInv, AppTyped, Hubs

LEMMA ConvoKept ==
    ASSUME AppInv, AppInv', ConvoInv, ConvoTyped',
           \A x \in Convos : Held(x) \/ convo'[x] = Fresh \/ ConvoOf(x)'
    PROVE  ConvoInv'
<1> SUFFICES ASSUME NEW x \in Convos PROVE ConvoOf(x)'
  BY DEF ConvoInv
<1>1. CASE Held(x)
  <2>1. hub[x].parts \in Nat /\ hub'[x].parts \in Nat
    <3>1. MaxParts \in Nat /\ hub' \in [Convos -> Hubs]
      BY BoundsAssumption DEF AppInv, AppTyped
    <3>2. QED BY <3>1, HubTyped DEF Hubs
  <2>2. convo[x].told \o convo[x].tools \in Tails(x)
    BY InHand
  <2>3. (convo[x].told \o convo[x].tools) \in Tails(x)'
    BY <1>1, <2>1, <2>2, TailGrows DEF Held
  <2>4. hub[x].phase # "driven" => convo[x] = Fresh
    BY DEF ConvoInv, ConvoOf
  <2>5. QED BY <1>1, <2>3, <2>4 DEF Held, ConvoOf
<1>2. CASE convo'[x] = Fresh
  <2>1. convo'[x].told \o convo'[x].tools = <<>>
    BY <1>2 DEF Fresh
  <2>2. (<<>> \in Tails(x))'
    BY DEF Tails, Rising
  <2>3. QED BY <1>2, <2>1, <2>2 DEF ConvoOf
<1>3. QED BY <1>1, <1>2

LEMMA ConvoSet ==
    ASSUME ConvoInv, NEW c \in Convos, NEW a \in Seq(Entries), NEW b \in Seq(Entries),
           convo' = [convo EXCEPT ![c] = [told |-> a, tools |-> b]]
    PROVE  /\ ConvoTyped' /\ convo'[c].told = a /\ convo'[c].tools = b
           /\ \A x \in Convos : x # c => convo'[x] = convo[x]
  BY DEF ConvoInv, ConvoTyped

LEMMA HandSet ==
    ASSUME ConvoInv, NEW c \in Convos, NEW a
    PROVE  /\ [convo EXCEPT ![c].told = a]
                = [convo EXCEPT ![c] = [told |-> a, tools |-> convo[c].tools]]
           /\ [convo EXCEPT ![c].tools = a]
                = [convo EXCEPT ![c] = [told |-> convo[c].told, tools |-> a]]
<1>1. convo[c] \in [told : Seq(Entries), tools : Seq(Entries)]
  BY DEF ConvoInv, ConvoTyped
<1>2. /\ [convo[c] EXCEPT !.told = a] = [told |-> a, tools |-> convo[c].tools]
      /\ [convo[c] EXCEPT !.tools = a] = [told |-> convo[c].told, tools |-> a]
  BY <1>1
<1>3. QED BY <1>2

(* The driver puts something in its hand. *)
LEMMA ConvoTaken ==
    ASSUME AppInv, AppInv', ConvoInv, NEW c \in Convos, hub'[c].phase = "driven",
           NEW a \in Seq(Entries), NEW b \in Seq(Entries), (a \o b) \in Tails(c)',
           convo' = [convo EXCEPT ![c] = [told |-> a, tools |-> b]],
           \A x \in Convos : x # c => hub'[x] = hub[x]
    PROVE  ConvoInv'
<1>1. /\ ConvoTyped' /\ convo'[c].told = a /\ convo'[c].tools = b
      /\ \A x \in Convos : x # c => convo'[x] = convo[x]
  BY ConvoSet
<1>2. ConvoOf(c)'
  BY <1>1 DEF ConvoOf
<1>3. ASSUME NEW x \in Convos, x # c PROVE Held(x)
  BY <1>1, <1>3, HubTyped DEF Held
<1>4. QED BY <1>1, <1>2, <1>3, ConvoKept

(* Its hand is emptied, or its run has not begun. *)
LEMMA ConvoGone ==
    ASSUME AppInv, AppInv', ConvoInv, NEW c \in Convos,
           \/ convo' = [convo EXCEPT ![c] = Fresh]
           \/ convo' = convo /\ hub[c].phase # "driven",
           \A x \in Convos : x # c => hub'[x] = hub[x]
    PROVE  ConvoInv'
<1>1. convo'[c] = Fresh /\ ConvoTyped' /\ \A x \in Convos : x # c => convo'[x] = convo[x]
  <2>1. Fresh \in [told : Seq(Entries), tools : Seq(Entries)]
    BY DEF Fresh
  <2>2. CASE convo' = [convo EXCEPT ![c] = Fresh]
    BY <2>1, <2>2 DEF ConvoInv, ConvoTyped
  <2>3. CASE convo' = convo /\ hub[c].phase # "driven"
    BY <2>3 DEF ConvoInv, ConvoTyped, ConvoOf
  <2>4. QED BY <2>2, <2>3
<1>2. ASSUME NEW x \in Convos, x # c PROVE Held(x)
  BY <1>1, <1>2, HubTyped DEF Held
<1>3. QED BY <1>1, <1>2, ConvoKept

LEMMA ConvoSame ==
    ASSUME AppInv, AppInv', ConvoInv, convo' = convo, UNCHANGED hub
    PROVE  ConvoInv'
<1>1. ASSUME NEW x \in Convos PROVE Held(x)
  BY HubTyped DEF Held
<1>2. QED BY <1>1, ConvoKept DEF ConvoInv, ConvoTyped

LEMMA HubSet ==
    ASSUME AppInv, NEW c, NEW h, hub' = [hub EXCEPT ![c] = h]
    PROVE  \A x \in Convos : x # c => hub'[x] = hub[x]
  BY DEF AppInv, AppTyped

LEMMA ClaimConvo ==
    ASSUME AppInv, AppInv', ConvoInv, NEW c \in Convos, NEW q, Claim(c, q), UNCHANGED convo
    PROVE  ConvoInv'
<1>1. hub[c].phase # "driven"
  BY DEF Claim, Busy
<1>2. \A x \in Convos : x # c => hub'[x] = hub[x]
  BY HubSet DEF Claim
<1>3. QED BY <1>1, <1>2, ConvoGone

LEMMA StopConvo ==
    ASSUME AppInv, AppInv', ConvoInv, NEW c \in Convos, Stopped(c), UNCHANGED convo
    PROVE  ConvoInv'
<1>1. CASE hub[c].phase = "claimed"
  <2>a. hub' = [hub EXCEPT ![c] = Freed(@)]
    BY <1>1 DEF Stopped
  <2>1. \A x \in Convos : x # c => hub'[x] = hub[x]
    BY <2>a DEF AppInv, AppTyped
  <2>2. QED BY <1>1, <2>1, ConvoGone
<1>2. CASE hub[c].phase # "claimed"
  <2> DEFINE b == Busy(c)
  <2>1. hub' = [hub EXCEPT ![c].stopping = b]
    BY <1>2 DEF Stopped
  <2> HIDE DEF b
  <2>2. ASSUME NEW x \in Convos PROVE Held(x)
    <3>1. /\ hub'[x].run = hub[x].run /\ hub'[x].parts = hub[x].parts
          /\ hub'[x].phase = hub[x].phase
      BY <2>1 DEF AppInv, AppTyped, Hubs
    <3>2. QED BY <3>1, HubTyped DEF Held
  <2>3. QED BY <2>2, ConvoKept DEF ConvoInv, ConvoTyped
<1>3. QED BY <1>1, <1>2

(* A part comes after what is in hand. *)
LEMMA TailSpeaks ==
    ASSUME AppInv, NEW c \in Convos, NEW t \in Tails(c),
           hub'[c].run = hub[c].run, hub'[c].parts = hub[c].parts + 1,
           hub[c].parts < MaxParts
    PROVE  /\ [run |-> hub[c].run, part |-> hub[c].parts + 1] \in Entries
           /\ Append(t, [run |-> hub[c].run, part |-> hub[c].parts + 1]) \in Tails(c)'
<1> DEFINE n == hub[c].parts
           e == [run |-> hub[c].run, part |-> n + 1]
           u == Append(t, e)
<1>1. n \in Nat /\ hub[c].run \in Nat /\ MaxParts \in Nat /\ n < MaxParts
  BY HubTyped, BoundsAssumption
<1>2. e \in Entries /\ e.run = hub[c].run /\ e.part = n + 1
  BY <1>1 DEF Entries
<1>3. /\ t \in Seq(Entries) /\ \A i, j \in 1 .. Len(t) : i < j => t[i].part < t[j].part
      /\ \A i \in 1 .. Len(t) : t[i].run = hub[c].run /\ t[i].part \in 1 .. n
  BY DEF Tails, Rising
<1> HIDE DEF e
<1>4. /\ u \in Seq(Entries) /\ Len(u) = Len(t) + 1 /\ Len(t) \in Nat
      /\ \A i \in 1 .. Len(t) : u[i] = t[i]
      /\ u[Len(t) + 1] = e
  BY <1>2, <1>3, Appended
<1> HIDE DEF n, u
<1>5. \A i \in 1 .. Len(u) : i \in 1 .. Len(t) \/ i = Len(t) + 1
  BY <1>4
<1>6. \A i \in 1 .. Len(u) : u[i].run = hub[c].run /\ u[i].part \in 1 .. n + 1
  BY <1>1, <1>2, <1>3, <1>4, <1>5
<1>7. \A i, j \in 1 .. Len(u) : i < j => u[i].part < u[j].part
  <2> SUFFICES ASSUME NEW i \in 1 .. Len(u), NEW j \in 1 .. Len(u), i < j
               PROVE  u[i].part < u[j].part
    OBVIOUS
  <2>1. i \in 1 .. Len(t)
    BY <1>4
  <2>2. u[i] = t[i] /\ t[i].part \in 1 .. n
    BY <1>3, <1>4, <2>1
  <2>3. CASE j \in 1 .. Len(t)
    BY <1>3, <1>4, <2>1, <2>3
  <2>4. CASE j = Len(t) + 1
    BY <1>1, <1>2, <1>4, <2>2, <2>4
  <2>5. QED BY <1>5, <2>3, <2>4
<1>8. hub'[c].parts = n + 1 /\ hub'[c].run = hub[c].run
  BY DEF n
<1>9. u \in Tails(c)'
  BY <1>4, <1>6, <1>7, <1>8 DEF Tails, Rising
<1>10. QED BY <1>2, <1>9 DEF e, u, n

LEMMA SpeakConvo ==
    ASSUME AppInv, AppInv', ConvoInv, NEW c \in Convos, Speak(c)
    PROVE  ConvoInv'
<1> DEFINE e == [run |-> hub[c].run, part |-> hub[c].parts + 1]
           s == convo[c].told
           u == convo[c].tools
<1>1. /\ hub[c].phase = "driven" /\ hub[c].parts < MaxParts
      /\ hub' = [hub EXCEPT ![c].parts = @ + 1]
      /\ \/ u = <<>> /\ convo' = [convo EXCEPT ![c].told = Append(@, e)]
         \/ convo' = [convo EXCEPT ![c].tools = Append(@, e)]
  BY DEF Speak
<1>2. /\ hub'[c].run = hub[c].run /\ hub'[c].parts = hub[c].parts + 1
      /\ hub'[c].phase = "driven"
      /\ \A x \in Convos : x # c => hub'[x] = hub[x]
  BY <1>1 DEF AppInv, AppTyped, Hubs
<1>3. s \in Seq(Entries) /\ u \in Seq(Entries) /\ s \o u \in Tails(c)
  BY InHand
<1>4. e \in Entries /\ Append(s \o u, e) \in Tails(c)'
  BY <1>1, <1>2, <1>3, TailSpeaks
<1>6. CASE u = <<>> /\ convo' = [convo EXCEPT ![c].told = Append(@, e)]
  <2>1. convo' = [convo EXCEPT ![c] = [told |-> Append(s, e), tools |-> u]]
    BY <1>6, HandSet
  <2> HIDE DEF e, s, u
  <2>2. Append(s, e) \in Seq(Entries) /\ Append(s, e) \o u = Append(s \o u, e)
    <3>1. s \o u = s /\ Append(s, e) \in Seq(Entries)
      BY <1>3, <1>4, <1>6
    <3>2. Append(s, e) \o <<>> = Append(s, e)
      BY <3>1
    <3>3. QED BY <1>6, <3>1, <3>2
  <2>3. QED BY <1>2, <1>3, <1>4, <2>1, <2>2, ConvoTaken
<1>7. CASE convo' = [convo EXCEPT ![c].tools = Append(@, e)]
  <2>1. convo' = [convo EXCEPT ![c] = [told |-> s, tools |-> Append(u, e)]]
    BY <1>7, HandSet
  <2> HIDE DEF e, s, u
  <2>2. Append(u, e) \in Seq(Entries) /\ s \o Append(u, e) = Append(s \o u, e)
    <3>1. Append(u, e) = u \o <<e>> /\ Append(s \o u, e) = (s \o u) \o <<e>>
          /\ s \o u \in Seq(Entries) /\ <<e>> \in Seq(Entries) /\ Append(u, e) \in Seq(Entries)
      <4>1. s \o u \in Seq(Entries)
        BY <1>3, Joined
      <4>2. QED BY <1>3, <1>4, <4>1, AppendIsConcat
    <3>2. s \o (u \o <<e>>) = (s \o u) \o <<e>>
      BY <1>3, <3>1, ConcatAssociative
    <3>3. QED BY <3>1, <3>2
  <2>3. QED BY <1>2, <1>3, <1>4, <2>1, <2>2, ConvoTaken
<1>8. QED BY <1>1, <1>6, <1>7

LEMMA ToolsConvo ==
    ASSUME AppInv, AppInv', ConvoInv, NEW c \in Convos, ToolsDone(c)
    PROVE  ConvoInv'
<1> DEFINE s == convo[c].told
           u == convo[c].tools
<1>1. /\ hub' = hub /\ hub[c].phase = "driven"
      /\ convo' = [convo EXCEPT ![c] = [told |-> s \o u, tools |-> <<>>]]
  BY DEF ToolsDone, ConvoInv, ConvoTyped
<1>2. s \o u \in Tails(c) /\ s \o u \in Seq(Entries)
  BY InHand DEF Tails
<1> HIDE DEF s, u
<1>3. (s \o u) \o <<>> = s \o u /\ <<>> \in Seq(Entries)
  BY <1>2
<1>4. hub[c].parts \in Nat
  BY HubTyped
<1>5. ((s \o u) \o <<>>) \in Tails(c)'
  BY <1>1, <1>2, <1>3, <1>4, TailGrows
<1>6. QED BY <1>1, <1>2, <1>3, <1>5, ConvoTaken

LEMMA DropConvo ==
    ASSUME AppInv, AppInv', ConvoInv, NEW c \in Convos, DropRound(c)
    PROVE  ConvoInv'
<1> DEFINE s == convo[c].told
<1>1. PICK n \in 0 .. Len(s) - 1 : convo' = [convo EXCEPT ![c].told = SubSeq(@, 1, n)]
  BY DEF DropRound
<1> DEFINE a == SubSeq(s, 1, n)
<1>2. /\ hub' = hub /\ hub[c].phase = "driven" /\ convo[c].tools = <<>>
      /\ convo' = [convo EXCEPT ![c] = [told |-> a, tools |-> <<>>]]
  <2>1. convo' = [convo EXCEPT ![c].told = a]
    BY <1>1
  <2>2. hub' = hub /\ hub[c].phase = "driven" /\ convo[c].tools = <<>>
    BY DEF DropRound
  <2> HIDE DEF a
  <2>3. convo' = [convo EXCEPT ![c] = [told |-> a, tools |-> convo[c].tools]]
    BY <2>1, HandSet
  <2>4. QED BY <2>2, <2>3
<1>3. s \in Tails(c) /\ s \in Seq(Entries)
  BY InHand
<1> HIDE DEF s
<1>4. a \in Seq(Entries) /\ Len(a) <= Len(s) /\ \A i \in 1 .. Len(a) : a[i] = s[i]
  <2>1. Len(s) \in Nat /\ n \in Int /\ 0 <= n /\ n <= Len(s) - 1
    BY <1>3
  <2>2. \A i \in 1 .. n : s[i] \in Entries
    BY <1>3, <2>1, Elements
  <2>3. QED BY <1>3, <2>1, <2>2, SubSeqProperties
<1> HIDE DEF a
<1>5. a \in Tails(c)
  BY <1>3, <1>4, TailBegins
<1>6. a \o <<>> = a /\ <<>> \in Seq(Entries)
  BY <1>4
<1>7. hub[c].parts \in Nat
  BY HubTyped
<1>8. (a \o <<>>) \in Tails(c)'
  BY <1>2, <1>5, <1>6, <1>7, TailGrows
<1>9. QED BY <1>2, <1>4, <1>6, <1>8, ConvoTaken

LEMMA ConvoStep ==
    ASSUME IInv, AppInv', [Next]_vars
    PROVE  ConvoInv'
<1>0. AppInv /\ ConvoInv /\ AppInv'
  BY DEF IInv
<1> USE <1>0
<1>1. ASSUME NEW c \in Convos, OtherSends(c) PROVE ConvoInv'
  BY <1>1, ClaimConvo DEF OtherSends
<1>2. ASSUME NEW b \in bodies, BodyStarts(b[1], b[2]) PROVE ConvoInv'
  <2>1. b[2] \in Convos /\ UNCHANGED convo
    BY <1>2 DEF BodyStarts, AppInv, AppTyped
  <2>2. CASE hub' = [hub EXCEPT ![b[2]].phase = "driven"]
    <3>1. ASSUME NEW x \in Convos PROVE Held(x)
      <4>1. /\ hub'[x].run = hub[x].run /\ hub'[x].parts = hub[x].parts
            /\ hub[x].phase = "driven" => hub'[x].phase = "driven"
        BY <2>1, <2>2 DEF AppInv, AppTyped, Hubs
      <4>2. QED BY <2>1, <4>1, HubTyped DEF Held
    <3>2. QED BY <2>1, <3>1, ConvoKept DEF ConvoInv, ConvoTyped
  <2>3. CASE UNCHANGED hub
    BY <2>1, <2>3, ConvoSame
  <2>4. QED BY <1>2, <2>2, <2>3 DEF BodyStarts
<1>3. ASSUME NEW c \in Convos, ExpireUnstarted(c) \/ End(c) \/ CutEnds(c) PROVE ConvoInv'
  <2>1. hub[c].phase # "driven" /\ convo' = convo /\ hub' = [hub EXCEPT ![c] = Freed(@)]
    BY <1>3 DEF ExpireUnstarted, End, CutEnds, Released
  <2>2. \A x \in Convos : x # c => hub'[x] = hub[x]
    BY <2>1, HubSet
  <2>3. QED BY <2>1, <2>2, ConvoGone
<1>4. ASSUME NEW c \in Convos, Finish(c) \/ Cancelled(c) \/ Cut(c) PROVE ConvoInv'
  <2>1. convo' = [convo EXCEPT ![c] = Fresh]
    BY <1>4 DEF Finish, Cancelled, Cut
  <2>2. \A x \in Convos : x # c => hub'[x] = hub[x]
    BY <1>4 DEF Finish, Cancelled, Cut, Released, AppInv, AppTyped
  <2>3. QED BY <2>1, <2>2, ConvoGone
<1>5. ASSUME NEW c \in Convos, Speak(c) PROVE ConvoInv'
  BY <1>5, SpeakConvo
<1>6. ASSUME NEW c \in Convos, ToolsDone(c) PROVE ConvoInv'
  BY <1>6, ToolsConvo
<1>7. ASSUME NEW c \in Convos, DropRound(c) PROVE ConvoInv'
  BY <1>7, DropConvo
<1>8. ASSUME NEW c \in Convos, OtherStops(c) PROVE ConvoInv'
  BY <1>8, StopConvo DEF OtherStops
<1>9. ASSUME Stop PROVE ConvoInv'
  <2>1. active \in Convos
    BY <1>9 DEF Stop, IInv, WatchInv
  <2>2. QED BY <1>9, <2>1, StopConvo DEF Stop
<1>10. ASSUME RestartApp PROVE ConvoInv'
  <2>1. convo' = [c \in Convos |-> Fresh]
    BY <1>10 DEF RestartApp
  <2>2. Fresh \in [told : Seq(Entries), tools : Seq(Entries)]
    BY DEF Fresh
  <2>3. ConvoTyped' /\ \A x \in Convos : convo'[x] = Fresh
    BY <2>1, <2>2 DEF ConvoTyped
  <2>4. QED BY <2>3, ConvoKept
<1>11. ASSUME PostArrives PROVE ConvoInv'
  <2>1. post.conv \in Convos /\ UNCHANGED convo
    BY <1>11 DEF PostArrives, IInv, PostInv
  <2>2. CASE Claim(post.conv, Len(asks) + 1)
    BY <2>1, <2>2, ClaimConvo
  <2>3. CASE UNCHANGED hub
    BY <2>1, <2>3, ConvoSame
  <2>4. QED BY <1>11, <2>2, <2>3 DEF PostArrives
<1>12. ASSUME \/ \E b \in bodies : NeverStarts(b[1], b[2])
              \/ \E c \in Convos : \/ Checkpoint(c) \/ OtherDeletes(c) \/ Delete(c)
                                   \/ SendCreates(c) \/ NewConvo(c) \/ DropHub(c) \/ Open(c)
              \/ BreakWatch \/ Leave \/ Apply \/ WatchEnters \/ Subscribe \/ Deliver
              \/ CreatedForSend \/ SendEnds \/ Send \/ PostFails \/ UNCHANGED vars
       PROVE  ConvoInv'
  <2>1. CASE \/ \E b \in bodies : NeverStarts(b[1], b[2])
             \/ \E c \in Convos : \/ Checkpoint(c) \/ OtherDeletes(c) \/ Delete(c)
                                  \/ SendCreates(c) \/ NewConvo(c)
    <3>1. ASSUME NEW b \in bodies, NeverStarts(b[1], b[2]) PROVE convo' = convo /\ UNCHANGED hub
      BY <3>1 DEF NeverStarts
    <3>2. ASSUME NEW c \in Convos, Checkpoint(c) \/ OtherDeletes(c) \/ Delete(c)
          PROVE  convo' = convo /\ UNCHANGED hub
      BY <3>2 DEF Checkpoint, OtherDeletes, Delete
    <3>3. ASSUME NEW c \in Convos, SendCreates(c) \/ NewConvo(c)
          PROVE  convo' = convo /\ UNCHANGED hub
      BY <3>3 DEF SendCreates, NewConvo
    <3>4. convo' = convo /\ UNCHANGED hub
      BY <2>1, <3>1, <3>2, <3>3
    <3>5. QED BY <3>4, ConvoSame
  <2>2. CASE \/ \E c \in Convos : DropHub(c) \/ Open(c)
             \/ BreakWatch \/ Leave \/ Apply \/ WatchEnters \/ Subscribe \/ Deliver
             \/ CreatedForSend \/ SendEnds \/ Send \/ PostFails \/ UNCHANGED vars
    <3>1. convo' = convo /\ UNCHANGED hub
      BY <2>2 DEF DropHub, Open, BreakWatch, Leave, Apply, WatchEnters, Subscribe, Deliver,
                  CreatedForSend, SendEnds, Send, PostFails, vars, app
    <3>2. QED BY <3>1, ConvoSame
  <2>3. QED BY <1>12, <2>1, <2>2
<1>13. QED
  BY <1>1, <1>2, <1>3, <1>4, <1>5, <1>6, <1>7, <1>8, <1>9, <1>10, <1>11, <1>12
     DEF Next, App, Body, Driver, Page

-----------------------------------------------------------------------------
(* The files stay in order. *)
(* What a file is rewritten with: the file before the run, its question and *)
(* some of what it said.                                                    *)
LEMMA TellsIs ==
    ASSUME NEW s \in Seq(Entries), NEW r \in Nat, NEW t \in Seq(Entries)
    PROVE  LET b == Before(s, r)
               g == (b \o <<User(r)>>) \o t
           IN /\ g \in Seq(Entries) /\ Len(b) \in Nat /\ Len(t) \in Nat
              /\ Len(g) = Len(b) + 1 + Len(t)
              /\ \A i \in 1 .. Len(b) : i \in 1 .. Len(s) /\ g[i] = s[i] /\ g[i].run # r
              /\ g[Len(b) + 1] = User(r)
              /\ \A i \in Len(b) + 2 .. Len(g) : i - (Len(b) + 1) \in 1 .. Len(t)
                                                 /\ g[i] = t[i - (Len(b) + 1)]
<1> DEFINE b == Before(s, r)
           u == <<User(r)>>
           m == b \o u
           g == m \o t
<1>1. /\ b \in Seq(Entries) /\ Len(b) <= Len(s)
      /\ \A i \in 1 .. Len(b) : b[i] = s[i] /\ s[i].run # r
  BY BeforeCuts
<1>2. u \in Seq(Entries) /\ Len(u) = 1 /\ u[1] = User(r)
  <2>1. User(r) \in Entries
    BY BoundsAssumption DEF User, Entries
  <2>2. QED BY <2>1
<1> HIDE DEF b, u
<1>3. Len(b) \in Nat /\ Len(t) \in Nat /\ Len(s) \in Nat
  BY <1>1
<1>4. /\ m \in Seq(Entries) /\ Len(m) = Len(b) + Len(u)
      /\ \A i \in 1 .. Len(b) : m[i] = b[i]
      /\ \A i \in Len(b) + 1 .. Len(b) + Len(u) : m[i] = u[i - Len(b)]
  <2>1. b \in Seq(Entries) /\ u \in Seq(Entries)
    BY <1>1, <1>2
  <2>2. /\ b \o u \in Seq(Entries) /\ Len(b \o u) = Len(b) + Len(u)
        /\ \A i \in 1 .. Len(b) : (b \o u)[i] = b[i]
        /\ \A i \in Len(b) + 1 .. Len(b) + Len(u) : (b \o u)[i] = u[i - Len(b)]
    BY <2>1, Joined
  <2>3. QED BY <2>2
<1> HIDE DEF m
<1>5. /\ g \in Seq(Entries) /\ Len(g) = Len(m) + Len(t)
      /\ \A i \in 1 .. Len(m) : g[i] = m[i]
      /\ \A i \in Len(m) + 1 .. Len(m) + Len(t) : g[i] = t[i - Len(m)]
  <2>1. m \in Seq(Entries)
    BY <1>4
  <2>2. /\ m \o t \in Seq(Entries) /\ Len(m \o t) = Len(m) + Len(t)
        /\ \A i \in 1 .. Len(m) : (m \o t)[i] = m[i]
        /\ \A i \in Len(m) + 1 .. Len(m) + Len(t) : (m \o t)[i] = t[i - Len(m)]
    BY <2>1, Joined
  <2>3. QED BY <2>2
<1> HIDE DEF g
<1>6. Len(m) = Len(b) + 1 /\ Len(g) = Len(b) + 1 + Len(t)
  BY <1>2, <1>3, <1>4, <1>5
<1>7. ASSUME NEW i \in 1 .. Len(b) PROVE i \in 1 .. Len(s) /\ g[i] = s[i] /\ g[i].run # r
  <2>1. i \in 1 .. Len(s) /\ i \in 1 .. Len(m)
    BY <1>1, <1>3, <1>6
  <2>2. QED BY <1>1, <1>4, <1>5, <2>1
<1>8. g[Len(b) + 1] = User(r)
  <2>1. Len(b) + 1 \in 1 .. Len(m) /\ Len(b) + 1 \in Len(b) + 1 .. Len(b) + Len(u)
        /\ (Len(b) + 1) - Len(b) = 1
    BY <1>2, <1>3, <1>6
  <2>2. QED BY <1>2, <1>4, <1>5, <2>1
<1>9. ASSUME NEW i \in Len(b) + 2 .. Len(g)
      PROVE  i - (Len(b) + 1) \in 1 .. Len(t) /\ g[i] = t[i - (Len(b) + 1)]
  <2>1. i - (Len(b) + 1) \in 1 .. Len(t) /\ i \in Len(m) + 1 .. Len(m) + Len(t)
    BY <1>3, <1>6
  <2>2. QED BY <1>5, <1>6, <2>1
<1>10. QED BY <1>3, <1>5, <1>6, <1>7, <1>8, <1>9 DEF g, m, b, u

LEMMA TellsInOrder ==
    ASSUME NEW s \in Seq(Entries), InOrder(s), NEW r \in Nat, NEW t \in Seq(Entries), Rising(t),
           \A i \in 1 .. Len(t) : t[i].run = r /\ t[i].part \in Nat /\ t[i].part > 0
    PROVE  InOrder((Before(s, r) \o <<User(r)>>) \o t)
<1> DEFINE b == Before(s, r)
           g == (b \o <<User(r)>>) \o t
<1>1. /\ g \in Seq(Entries) /\ Len(b) \in Nat /\ Len(t) \in Nat
      /\ Len(g) = Len(b) + 1 + Len(t)
      /\ \A i \in 1 .. Len(b) : i \in 1 .. Len(s) /\ g[i] = s[i] /\ g[i].run # r
      /\ g[Len(b) + 1] = User(r)
      /\ \A i \in Len(b) + 2 .. Len(g) : i - (Len(b) + 1) \in 1 .. Len(t)
                                         /\ g[i] = t[i - (Len(b) + 1)]
  BY TellsIs, SMTT(30)
<1> HIDE DEF b, g
<1>a. User(r).run = r /\ User(r).part = 0
  BY DEF User
<1>t. \A i, j \in 1 .. Len(t) : i < j => t[i].part < t[j].part
  BY DEF Rising
<1>2. ASSUME NEW i \in 1 .. Len(g), NEW j \in 1 .. Len(g), i < j, g[i].run = g[j].run
      PROVE  g[i].part < g[j].part
  <2>1. CASE j \in 1 .. Len(b)
    <3>1. i \in 1 .. Len(b)
      BY <1>1, <1>2, <2>1
    <3>2. /\ i \in DOMAIN s /\ j \in DOMAIN s
          /\ g[i] = s[i] /\ g[j] = s[j]
      BY <1>1, <2>1, <3>1, Elements
    <3>3. QED BY <1>2, <3>2 DEF InOrder
  <2>2. CASE j = Len(b) + 1
    <3>1. i \in 1 .. Len(b)
      BY <1>1, <1>2, <2>2
    <3>2. QED BY <1>1, <1>2, <1>a, <2>2, <3>1
  <2>3. CASE j \in Len(b) + 2 .. Len(g)
    <3>1. j - (Len(b) + 1) \in 1 .. Len(t) /\ g[j] = t[j - (Len(b) + 1)]
      BY <1>1, <2>3
    <3>2. CASE i \in 1 .. Len(b) + 1
      <4>1. CASE i = Len(b) + 1
        <5>1. g[i].part = 0
          BY <1>1, <1>a, <4>1
        <5>2. QED BY <3>1, <5>1
      <4>2. CASE i \in 1 .. Len(b)
        BY <1>1, <1>2, <3>1, <4>2
      <4>3. QED BY <1>1, <3>2, <4>1, <4>2
    <3>3. CASE i \in Len(b) + 2 .. Len(g)
      <4>1. /\ i - (Len(b) + 1) \in 1 .. Len(t) /\ g[i] = t[i - (Len(b) + 1)]
            /\ i - (Len(b) + 1) < j - (Len(b) + 1)
        BY <1>1, <1>2, <3>3
      <4>2. QED BY <1>t, <3>1, <4>1
    <3>4. QED BY <1>1, <3>2, <3>3
  <2>4. QED BY <1>1, <2>1, <2>2, <2>3
<1>3. InOrder(g)
  <2>1. DOMAIN g = 1 .. Len(g)
    BY <1>1
  <2>2. QED BY <1>2, <2>1 DEF InOrder
<1>4. QED BY <1>3 DEF g, b

(* What a step does to a file. *)
FileMoves(x) ==
    \/ saved'[x] = saved[x]
    \/ \E t \in Tails(x) : saved'[x] = Tells(x, t)
    \/ saved'[x] = Append(saved[x], User(Len(asks) + 1))

LEMMA FileKept ==
    ASSUME AppInv, FilesInOrder, NEW x \in Convos, FileMoves(x)
    PROVE  InOrder(saved'[x])
<1>1. saved[x] \in Seq(Entries) /\ InOrder(saved[x]) /\ hub[x].run \in Nat
      /\ SavedOf(saved[x]) /\ asks \in Seq(Runs)
  BY HubTyped DEF AppInv, AppTyped, SavedKnows, FilesInOrder
<1>2. CASE \E t \in Tails(x) : saved'[x] = Tells(x, t)
  <2>1. PICK t \in Tails(x) : saved'[x] = Tells(x, t)
    BY <1>2
  <2>2. /\ t \in Seq(Entries) /\ Rising(t)
        /\ \A i \in 1 .. Len(t) : t[i].run = hub[x].run /\ t[i].part \in 1 .. hub[x].parts
    BY DEF Tails
  <2>3. \A i \in 1 .. Len(t) : t[i].run = hub[x].run /\ t[i].part \in Nat /\ t[i].part > 0
    BY <2>2, HubTyped
  <2>4. QED BY <1>1, <2>1, <2>2, <2>3, TellsInOrder DEF Tells, Asking
<1>3. CASE saved'[x] = Append(saved[x], User(Len(asks) + 1))
  <2> DEFINE s == saved[x]
             r == Len(asks) + 1
             g == Append(s, User(r))
  <2>1. Len(asks) \in Nat /\ r \in Nat /\ User(r) \in Entries /\ User(r).run = r
    BY <1>1, BoundsAssumption DEF User, Entries
  <2>2. \A i \in 1 .. Len(s) : s[i].run \in 1 .. Len(asks)
    BY <1>1, Elements DEF SavedOf
  <2>3. \A i \in 1 .. Len(s) : s[i].run # r
    BY <2>1, <2>2
  <2> HIDE DEF s, r
  <2>4. /\ g \in Seq(Entries) /\ Len(g) = Len(s) + 1 /\ Len(s) \in Nat
        /\ \A i \in 1 .. Len(s) : g[i] = s[i]
        /\ g[Len(s) + 1] = User(r)
    BY <1>1, <2>1, Appended DEF s
  <2> HIDE DEF g
  <2>5. ASSUME NEW i \in 1 .. Len(g), NEW j \in 1 .. Len(g), i < j, g[i].run = g[j].run
        PROVE  g[i].part < g[j].part
    <3>1. i \in 1 .. Len(s)
      BY <2>4, <2>5
    <3>2. j \in 1 .. Len(s)
      BY <2>1, <2>3, <2>4, <2>5, <3>1
    <3>3. i \in DOMAIN s /\ j \in DOMAIN s /\ g[i] = s[i] /\ g[j] = s[j]
      BY <1>1, <2>4, <3>1, <3>2, Elements DEF s
    <3>4. QED BY <1>1, <2>5, <3>3 DEF InOrder, s
  <2>6. DOMAIN g = 1 .. Len(g)
    BY <2>4
  <2>7. InOrder(g)
    BY <2>5, <2>6 DEF InOrder
  <2>8. QED BY <1>3, <2>7 DEF g, s, r
<1>4. QED BY <1>1, <1>2, <1>3 DEF FileMoves

LEMMA WritesMoves ==
    ASSUME AppInv, NEW c \in Convos, Writes(c), NEW x \in Convos PROVE FileMoves(x)
  BY DEF Writes, FileMoves, AppInv, AppTyped

LEMMA ClaimMoves ==
    ASSUME AppInv, NEW c \in Convos, NEW q, Claim(c, q), NEW x \in Convos PROVE FileMoves(x)
<1>1. saved' = [saved EXCEPT ![c] = Append(@, User(Len(asks) + 1))]
  BY DEF Claim
<1>2. QED BY <1>1 DEF FileMoves, AppInv, AppTyped

(* Every step, file by file. *)
LEMMA FilesMove ==
    ASSUME IInv, [Next]_vars, NEW x \in Convos
    PROVE  FileMoves(x)
<1>0. AppInv /\ ConvoInv
  BY DEF IInv
<1> USE <1>0
<1>1. ASSUME NEW c \in Convos, OtherSends(c) PROVE FileMoves(x)
  BY <1>1, ClaimMoves DEF OtherSends
<1>2. ASSUME NEW c \in Convos,
             Checkpoint(c) \/ ToolsDone(c) \/ DropRound(c) \/ Finish(c) \/ Cancelled(c)
      PROVE  FileMoves(x)
  BY <1>2, SavesInHand, WritesMoves
<1>3. CASE PostArrives
  <2>1. post.conv \in Convos
    BY <1>3 DEF PostArrives, IInv, PostInv
  <2>2. CASE Claim(post.conv, Len(asks) + 1)
    BY <2>1, <2>2, ClaimMoves
  <2>3. CASE UNCHANGED saved
    BY <2>3 DEF FileMoves
  <2>4. QED BY <1>3, <2>2, <2>3 DEF PostArrives
<1>4. CASE \/ \E b \in bodies : BodyStarts(b[1], b[2]) \/ NeverStarts(b[1], b[2])
           \/ \E c \in Convos : \/ ExpireUnstarted(c) \/ Speak(c) \/ End(c) \/ Cut(c) \/ CutEnds(c)
                                \/ OtherStops(c)
           \/ RestartApp \/ Stop
  <2>1. UNCHANGED saved
    BY <1>4 DEF BodyStarts, NeverStarts, ExpireUnstarted, Speak, End, Cut, CutEnds, OtherStops,
                RestartApp, Stop
  <2>2. QED BY <2>1 DEF FileMoves
<1>5. CASE \E c \in Convos : \/ OtherDeletes(c) \/ Delete(c) \/ SendCreates(c) \/ NewConvo(c)
                             \/ DropHub(c) \/ Open(c)
  <2>1. UNCHANGED saved
    BY <1>5 DEF OtherDeletes, Delete, SendCreates, NewConvo, DropHub, Open, app
  <2>2. QED BY <2>1 DEF FileMoves
<1>6. CASE \/ BreakWatch \/ Leave \/ Apply \/ WatchEnters \/ Subscribe \/ Deliver
           \/ CreatedForSend \/ SendEnds \/ Send \/ PostFails \/ UNCHANGED vars
  <2>1. UNCHANGED saved
    BY <1>6 DEF BreakWatch, Leave, Apply, WatchEnters, Subscribe, Deliver,
                CreatedForSend, SendEnds, Send, PostFails, vars, app
  <2>2. QED BY <2>1 DEF FileMoves
<1>7. QED
  BY <1>1, <1>2, <1>3, <1>4, <1>5, <1>6 DEF Next, App, Body, Driver, Page

LEMMA FilesStep ==
    ASSUME IInv, [Next]_vars
    PROVE  FilesInOrder'
<1>1. \A x \in Convos : InOrder(saved'[x])
  BY FilesMove, FileKept DEF IInv
<1>2. QED BY <1>1 DEF FilesInOrder, InOrder

-----------------------------------------------------------------------------
(* The stream. *)
OwnThen(entries, c) == \A e \in Range(entries) : e.run # 0 => User(e.run) \in Range(saved'[c])

LEMMA KeptOwn ==
    ASSUME Kept, NEW c \in Convos, NEW s, OwnOnly(s, c) PROVE OwnThen(s, c)
  BY DEF Kept, OwnOnly, OwnThen

LEMMA NoneOwned ==
    ASSUME NEW S
    PROVE  <<>> \in Seq(S) /\ Range(<<>>) = {} /\ \A c : OwnOnly(<<>>, c) /\ OwnThen(<<>>, c)
<1>1. <<>> \in Seq(S) /\ Range(<<>>) = {}
  BY DEF Range
<1>2. QED BY <1>1 DEF OwnOnly, OwnThen

(* The run of a claimed hub can be told of. *)
LEMMA RunOf ==
    ASSUME AppInv, Kept, NEW c \in Convos, Busy(c)
    PROVE  /\ hub[c].run \in Runs /\ hub[c].run \in Nat /\ hub[c].parts \in 0 .. MaxParts
           /\ Of(hub[c].run, c) /\ User(hub[c].run) \in Range(saved'[c])
<1>1. hub[c] \in Hubs /\ hub[c].run # 0 /\ Of(hub[c].run, c)
  BY DEF AppInv, AppTyped, HubKnows
<1>2. hub[c].run \in Nat /\ hub[c].parts \in 0 .. MaxParts
  BY <1>1 DEF Hubs
<1>3. User(hub[c].run) \in Range(saved'[c])
  BY <1>1 DEF Kept
<1>4. QED BY <1>1, <1>2, <1>3 DEF Runs

LEMMA FramesOf ==
    ASSUME NEW r \in Runs
    PROVE  /\ User(r) \in Frames /\ User(r).run = r /\ User(r).part = 0
           /\ DoneOf(r) \in Frames /\ DoneOf(r).run = r
           /\ \A n \in 0 .. Done : [run |-> r, part |-> n] \in Frames
<1>1. MaxParts \in Nat
  BY BoundsAssumption
<1>2. 0 \in 0 .. Done /\ Done \in 0 .. Done
  BY <1>1 DEF Done
<1>3. \A n \in 0 .. Done : [run |-> r, part |-> n] \in Frames
  BY DEF Frames
<1>4. QED BY <1>2, <1>3 DEF User, DoneOf

(* The replay tells of the run of the hub alone. *)
LEMMA Replayed ==
    ASSUME AppInv, NEW c \in Convos PROVE Buffer(c) \in Seq(Frames) /\ OwnOnly(Buffer(c), c)
<1> DEFINE r == hub[c].run
           n == hub[c].parts
           u == <<User(r)>>
           p == Parts(r, n)
           d == <<DoneOf(r)>>
           m == u \o p
           g == m \o d
<1>1. hub[c] \in Hubs /\ hub[c].phase \in Phases
  BY DEF AppInv, AppTyped, Hubs
<1>2. CASE hub[c].phase = "idle"
  BY <1>2, NoneOwned DEF Buffer
<1>3. CASE hub[c].phase # "idle"
  <2>1. r \in Runs /\ n \in 0 .. MaxParts /\ Of(r, c)
    <3>1. hub[c].run # 0 /\ Of(hub[c].run, c)
      BY <1>3 DEF AppInv, HubKnows, Busy
    <3>2. QED BY <1>1, <3>1 DEF Hubs, Runs
  <2>2. CASE hub[c].phase = "closing"
    <3>1. Buffer(c) = g
      BY <2>2 DEF Buffer
    <3> HIDE DEF r, n
    <3>2. /\ u \in Seq(Frames) /\ \A e \in Range(u) : e.run = r
          /\ p \in Seq(Frames) /\ \A e \in Range(p) : e.run = r
          /\ d \in Seq(Frames) /\ \A e \in Range(d) : e.run = r
      <4>1. User(r) \in Frames /\ User(r).run = r /\ DoneOf(r) \in Frames /\ DoneOf(r).run = r
        BY <2>1, FramesOf
      <4>2. u \in Seq(Frames) /\ Range(u) = {User(r)} /\ d \in Seq(Frames) /\ Range(d) = {DoneOf(r)}
        BY <4>1 DEF Range
      <4>3. n \in Nat /\ \A i \in 1 .. n : i \in 0 .. Done
        BY <2>1, BoundsAssumption DEF Done
      <4>4. \A i \in 1 .. n : [run |-> r, part |-> i] \in Frames
        BY <2>1, <4>3, FramesOf
      <4>5. p \in Seq(Frames) /\ \A e \in Range(p) : e.run = r
        BY <4>3, <4>4 DEF Parts, Range
      <4>6. QED BY <4>1, <4>2, <4>5
    <3> HIDE DEF u, p, d
    <3>3. m \in Seq(Frames) /\ Range(m) = Range(u) \cup Range(p)
      BY <3>2, Joined
    <3> HIDE DEF m
    <3>4. g \in Seq(Frames) /\ Range(g) = Range(m) \cup Range(d)
      BY <3>2, <3>3, Joined
    <3> HIDE DEF g
    <3>5. \A e \in Range(g) : e.run = r
      BY <3>2, <3>3, <3>4
    <3>6. QED BY <2>1, <3>1, <3>4, <3>5 DEF OwnOnly
  <2>3. CASE hub[c].phase \in {"claimed", "driven", "cut"}
    <3>1. Buffer(c) = m
      BY <2>3 DEF Buffer
    <3> HIDE DEF r, n
    <3>2. /\ u \in Seq(Frames) /\ \A e \in Range(u) : e.run = r
          /\ p \in Seq(Frames) /\ \A e \in Range(p) : e.run = r
      <4>1. User(r) \in Frames /\ User(r).run = r
        BY <2>1, FramesOf
      <4>2. u \in Seq(Frames) /\ Range(u) = {User(r)}
        BY <4>1 DEF Range
      <4>3. n \in Nat /\ \A i \in 1 .. n : i \in 0 .. Done
        BY <2>1, BoundsAssumption DEF Done
      <4>4. \A i \in 1 .. n : [run |-> r, part |-> i] \in Frames
        BY <2>1, <4>3, FramesOf
      <4>5. p \in Seq(Frames) /\ \A e \in Range(p) : e.run = r
        BY <4>3, <4>4 DEF Parts, Range
      <4>6. QED BY <4>1, <4>2, <4>5
    <3> HIDE DEF u, p
    <3>3. m \in Seq(Frames) /\ Range(m) = Range(u) \cup Range(p)
      BY <3>2, Joined
    <3> HIDE DEF m
    <3>4. \A e \in Range(m) : e.run = r
      BY <3>2, <3>3
    <3>5. QED BY <2>1, <3>1, <3>3, <3>4 DEF OwnOnly
  <2>4. QED BY <1>1, <1>3, <2>2, <2>3 DEF Phases
<1>4. QED BY <1>2, <1>3

Ats == {"none", "asked", "entered", "open", "outlived", "deaf"}
Watches == [at : Ats, frames : Seq(Frames)]

(* What the page watches after a step, by cases. *)
LEMMA WatchIs ==
    ASSUME NEW at \in Ats, NEW frames \in Seq(Frames),
           active' \in Convos \cup {NoConvo},
           watch' = [at |-> at, frames |-> frames],
           active' = NoConvo => at = "none" /\ frames = <<>>,
           active' # NoConvo => OwnThen(frames, active')
    PROVE  WatchInv'
<1>1. watch' \in Watches /\ watch'.frames = frames /\ watch'.at = at
  BY DEF Watches
<1>2. active' = NoConvo => watch' = NoWatch
  BY DEF NoWatch
<1>3. QED BY <1>1, <1>2 DEF WatchInv, Watches, Ats, OwnOnly, OwnThen, Of

LEMMA WatchFields ==
    ASSUME WatchInv
    PROVE  /\ watch.at \in Ats /\ watch.frames \in Seq(Frames)
           /\ watch = [at |-> watch.at, frames |-> watch.frames]
           /\ active \in Convos \cup {NoConvo}
           /\ active = NoConvo => watch.at = "none" /\ watch.frames = <<>>
           /\ active # NoConvo => active \in Convos /\ OwnOnly(watch.frames, active)
           /\ \A a \in Ats : [watch EXCEPT !.at = a] = [at |-> a, frames |-> watch.frames]
           /\ \A s : [watch EXCEPT !.frames = s] = [at |-> watch.at, frames |-> s]
<1>1. watch \in Watches
  BY DEF WatchInv, Watches, Ats
<1>2. QED BY <1>1 DEF WatchInv, Watches, NoWatch

LEMMA StreamKept ==
    ASSUME WatchInv, Kept, UNCHANGED <<watch, active>> PROVE WatchInv'
<1>1. active # NoConvo => OwnThen(watch.frames, active)
  BY WatchFields, KeptOwn
<1>2. QED BY <1>1, WatchFields, WatchIs

(* A frame is published. *)
LEMMA PublishKeeps ==
    ASSUME WatchInv, Kept, NEW c \in Convos, NEW f \in Frames, Publish(c, f),
           User(f.run) \in Range(saved'[c]), active' = active
    PROVE  WatchInv'
<1>1. CASE ~Hears(c)
  BY <1>1, StreamKept DEF Publish
<1>2. CASE Hears(c)
  <2> DEFINE s == watch.frames
             t == Append(s, f)
  <2>1. /\ active = c /\ watch.at = "open" /\ s \in Seq(Frames) /\ active \in Convos
        /\ OwnOnly(s, c) /\ active # NoConvo
    BY <1>2, WatchFields, ConvosAssumption DEF Hears
  <2>2. watch' = [at |-> watch.at, frames |-> t]
    <3>1. watch' = [watch EXCEPT !.frames = t]
      BY <1>2 DEF Publish
    <3>2. QED BY <3>1, WatchFields
  <2> HIDE DEF s
  <2>3. t \in Seq(Frames) /\ Range(t) = Range(s) \cup {f}
    BY <2>1, Appended
  <2> HIDE DEF t
  <2>4. OwnThen(s, c)
    BY <2>1, KeptOwn
  <2>5. OwnThen(t, c)
    BY <2>3, <2>4 DEF OwnThen
  <2>6. QED BY <2>1, <2>2, <2>3, <2>5, WatchFields, WatchIs
<1>3. QED BY <1>1, <1>2

(* The frames a run publishes: its parts, and its end. *)
LEMMA HubPublishes ==
    ASSUME AppInv, WatchInv, Kept, NEW c \in Convos, Busy(c), active' = active,
           NEW n \in 0 .. Done, Publish(c, [run |-> hub[c].run, part |-> n])
    PROVE  WatchInv'
<1> DEFINE f == [run |-> hub[c].run, part |-> n]
<1>1. f \in Frames /\ f.run = hub[c].run /\ User(hub[c].run) \in Range(saved'[c])
  BY RunOf, FramesOf
<1> HIDE DEF f
<1>2. Publish(c, f)
  BY DEF f
<1>3. QED BY <1>1, <1>2, PublishKeeps

LEMMA DonePublished ==
    ASSUME AppInv, WatchInv, Kept, NEW c \in Convos, Busy(c), active' = active,
           Publish(c, DoneOf(hub[c].run))
    PROVE  WatchInv'
<1>1. Done \in 0 .. Done
  BY BoundsAssumption DEF Done
<1>2. QED BY <1>1, HubPublishes DEF DoneOf

LEMMA ClaimPublished ==
    ASSUME AppInv, WatchInv, NEW c \in Convos, NEW q \in Runs, Claim(c, q),
           UNCHANGED <<stored, drivers>>, active' = active
    PROVE  WatchInv'
<1> DEFINE r == Len(asks) + 1
<1>1. /\ Kept /\ Len(asks') = r /\ r \in Runs /\ User(r) \in Range(saved'[c])
  <2>1. /\ Kept /\ User(Len(asks')) \in Range(saved'[c]) /\ Len(asks') \in Runs
    BY ClaimKeeps
  <2>2. Len(asks') = r
    <3>1. asks \in Seq(Runs) /\ asks' = Append(asks, q)
      BY DEF AppInv, AppTyped, Claim
    <3>2. QED BY <3>1
  <2>3. QED BY <2>1, <2>2
<1>2. Publish(c, User(r))
  BY DEF Claim
<1> HIDE DEF r
<1>3. User(r) \in Frames /\ User(r).run = r
  BY <1>1, FramesOf
<1>4. QED BY <1>1, <1>2, <1>3, PublishKeeps

LEMMA ActivateKeeps ==
    ASSUME WatchInv, Kept, NEW c \in Convos, Activate(c) PROVE WatchInv'
<1>1. CASE active = c
  <2>1. active' = active /\ watch' = watch
    BY <1>1 DEF Activate
  <2>2. QED BY <2>1, StreamKept
<1>2. CASE active # c
  <2>1. active' = c /\ watch' = [at |-> "asked", frames |-> <<>>] /\ c # NoConvo
    BY <1>2, ConvosAssumption DEF Activate
  <2>2. "asked" \in Ats
    BY DEF Ats
  <2>3. QED BY <2>1, <2>2, NoneOwned, WatchIs
<1>3. QED BY <1>1, <1>2

(* The stream is asked for again, or is in another state. *)
LEMMA AtMoves ==
    ASSUME WatchInv, Kept, active # NoConvo, active' = active, NEW a \in Ats,
           NEW s \in Seq(Frames), watch' = [at |-> a, frames |-> s],
           Range(s) \subseteq Range(watch.frames) \/ OwnOnly(s, active)
    PROVE  WatchInv'
<1>1. active \in Convos /\ OwnOnly(watch.frames, active)
  BY WatchFields
<1>2. OwnOnly(s, active)
  BY <1>1 DEF OwnOnly
<1>3. OwnThen(s, active)
  BY <1>1, <1>2, KeptOwn
<1>4. QED BY <1>1, <1>3, WatchIs

LEMMA LeftKeeps ==
    ASSUME active' = NoConvo, watch' = NoWatch PROVE WatchInv'
<1>1. "none" \in Ats
  BY DEF Ats
<1>2. QED BY <1>1, NoneOwned, WatchIs DEF NoWatch

LEMMA StopPublished ==
    ASSUME AppInv, WatchInv, Kept, NEW c \in Convos, Stopped(c), active' = active
    PROVE  WatchInv'
<1>1. CASE hub[c].phase = "claimed"
  <2>1. Busy(c) /\ Publish(c, DoneOf(hub[c].run))
    BY <1>1 DEF Stopped, Busy
  <2>2. QED BY <2>1, DonePublished
<1>2. CASE hub[c].phase # "claimed"
  <2>1. watch' = watch
    BY <1>2 DEF Stopped, Silent
  <2>2. QED BY <2>1, StreamKept
<1>3. QED BY <1>1, <1>2

LEMMA WatchStep ==
    ASSUME IInv, [Next]_vars PROVE WatchInv'
<1>0. AppInv /\ WatchInv /\ PostInv /\ AnswerInv /\ Kept
  BY AppStep DEF IInv
<1> USE <1>0
<1>1. ASSUME NEW c \in Convos, OtherSends(c) PROVE WatchInv'
  <2>1. PICK q \in {Len(asks) + 1} \cup Range(asks) : Claim(c, q)
    BY <1>1 DEF OtherSends
  <2>2. q \in Runs
    <3>1. asks \in Seq(Runs)
      BY DEF AppInv, AppTyped
    <3>2. Len(asks) + 1 \in Runs /\ Range(asks) \subseteq Runs
      BY <3>1, Elements DEF Runs
    <3>3. QED BY <3>2
  <2>3. UNCHANGED <<stored, drivers>> /\ active' = active
    BY <1>1 DEF OtherSends, page
  <2>4. QED BY <2>1, <2>2, <2>3, ClaimPublished
<1>2. ASSUME PostArrives PROVE WatchInv'
  <2>1. post.conv \in Convos /\ UNCHANGED <<stored, drivers>> /\ active' = active
    BY <1>2 DEF PostArrives, PostInv, page
  <2>2. CASE Claim(post.conv, Len(asks) + 1)
    <3>1. Len(asks) + 1 \in Runs
      <4>1. asks \in Seq(Runs)
        BY DEF AppInv, AppTyped
      <4>2. QED BY <4>1 DEF Runs
    <3>2. QED BY <2>1, <2>2, <3>1, ClaimPublished
  <2>3. CASE UNCHANGED watch
    BY <2>1, <2>3, StreamKept
  <2>4. QED BY <1>2, <2>2, <2>3 DEF PostArrives
<1>3. ASSUME NEW c \in Convos, ExpireUnstarted(c) PROVE WatchInv'
  <2>1. Busy(c) /\ Publish(c, DoneOf(hub[c].run)) /\ active' = active
    BY <1>3 DEF ExpireUnstarted, Busy, page
  <2>2. QED BY <2>1, DonePublished
<1>4. ASSUME NEW c \in Convos, Speak(c) PROVE WatchInv'
  <2>1. /\ Busy(c) /\ active' = active
        /\ Publish(c, [run |-> hub[c].run, part |-> hub[c].parts + 1])
    BY <1>4 DEF Speak, Busy
  <2>2. hub[c].parts + 1 \in 0 .. Done
    <3>1. hub[c].parts \in 0 .. MaxParts /\ MaxParts \in Nat
      BY <2>1, RunOf, BoundsAssumption
    <3>2. QED BY <3>1 DEF Done
  <2>3. QED BY <2>1, <2>2, HubPublishes
<1>5. ASSUME NEW c \in Convos, Finish(c) \/ Cancelled(c) PROVE WatchInv'
  <2>1. Busy(c) /\ Publish(c, DoneOf(hub[c].run)) /\ active' = active
    BY <1>5 DEF Finish, Cancelled, Busy
  <2>2. QED BY <2>1, DonePublished
<1>6. ASSUME NEW c \in Convos, CutEnds(c) PROVE WatchInv'
  <2>1. Busy(c) /\ active' = active
    BY <1>6 DEF CutEnds, Busy, page
  <2>2. CASE Publish(c, DoneOf(hub[c].run))
    BY <2>1, <2>2, DonePublished
  <2>3. CASE UNCHANGED watch
    BY <2>1, <2>3, StreamKept
  <2>4. QED BY <1>6, <2>2, <2>3 DEF CutEnds
<1>7. ASSUME (\E c \in Convos : OtherStops(c)) \/ Stop PROVE WatchInv'
  <2>1. CASE Stop
    <3>1. active \in Convos /\ Stopped(active) /\ active' = active
      BY <2>1, WatchFields DEF Stop, page
    <3>2. QED BY <3>1, StopPublished
  <2>2. ASSUME NEW c \in Convos, OtherStops(c) PROVE WatchInv'
    <3>1. Stopped(c) /\ active' = active
      BY <2>2 DEF OtherStops, page
    <3>2. QED BY <3>1, StopPublished
  <2>3. QED BY <1>7, <2>1, <2>2
<1>8. ASSUME \/ \E b \in bodies : BodyStarts(b[1], b[2]) \/ NeverStarts(b[1], b[2])
             \/ \E c \in Convos : \/ End(c) \/ Checkpoint(c) \/ Cut(c) \/ OtherDeletes(c)
                                  \/ SendCreates(c) \/ ToolsDone(c) \/ DropRound(c)
             \/ Apply \/ SendEnds \/ Send \/ PostFails \/ UNCHANGED vars
      PROVE  WatchInv'
  <2>1. UNCHANGED <<watch, active>>
    BY <1>8 DEF BodyStarts, NeverStarts, End, Checkpoint, Cut, OtherDeletes, SendCreates,
                ToolsDone, DropRound, Apply, SendEnds, Send, PostFails, vars, page, Silent
  <2>2. QED BY <2>1, StreamKept
<1>9. ASSUME (\E c \in Convos : Open(c) \/ NewConvo(c)) \/ CreatedForSend PROVE WatchInv'
  <2>1. \E c \in Convos : Activate(c)
    BY <1>9 DEF Open, NewConvo, CreatedForSend, PostInv
  <2>2. QED BY <2>1, ActivateKeeps
<1>10. ASSUME NEW c \in Convos, Delete(c) PROVE WatchInv'
  <2>1. CASE UNCHANGED <<active, watch>>
    BY <2>1, StreamKept
  <2>2. CASE \E d \in stored' : Activate(d)
    <3>1. stored' \subseteq Convos
      BY AppStep DEF AppInv, AppTyped
    <3>2. QED BY <2>2, <3>1, ActivateKeeps
  <2>3. CASE active' = NoConvo /\ watch' = NoWatch
    BY <2>3, LeftKeeps
  <2>4. QED BY <1>10, <2>1, <2>2, <2>3 DEF Delete
<1>11. ASSUME Leave PROVE WatchInv'
  BY <1>11, LeftKeeps DEF Leave
<1>12. ASSUME (\E c \in Convos : DropHub(c)) \/ WatchEnters PROVE WatchInv'
  <2>1. /\ active # NoConvo /\ active' = active
        /\ \E a \in Ats : watch' = [watch EXCEPT !.at = a]
    BY <1>12, WatchFields, ConvosAssumption DEF DropHub, WatchEnters, page, Ats
  <2>2. QED BY <2>1, WatchFields, AtMoves
<1>13. ASSUME BreakWatch PROVE WatchInv'
  <2>1. /\ active # NoConvo /\ active' = active /\ watch' = [at |-> "asked", frames |-> <<>>]
    BY <1>13, WatchFields DEF BreakWatch
  <2>2. "asked" \in Ats /\ <<>> \in Seq(Frames) /\ OwnOnly(<<>>, active)
    BY NoneOwned DEF Ats
  <2>3. QED BY <2>1, <2>2, AtMoves
<1>14. ASSUME RestartApp PROVE WatchInv'
  <2>1. CASE watch.at = "none"
    BY <1>14, <2>1, StreamKept DEF RestartApp
  <2>2. CASE watch.at # "none"
    <3>1. active # NoConvo /\ active' = active /\ watch' = [at |-> "asked", frames |-> <<>>]
      BY <1>14, <2>2, WatchFields DEF RestartApp
    <3>2. "asked" \in Ats /\ <<>> \in Seq(Frames) /\ OwnOnly(<<>>, active)
      BY NoneOwned DEF Ats
    <3>3. QED BY <3>1, <3>2, AtMoves
  <2>3. QED BY <2>1, <2>2
<1>15. ASSUME Subscribe PROVE WatchInv'
  <2>1. /\ active # NoConvo /\ active \in Convos /\ active' = active
    BY <1>15, WatchFields DEF Subscribe, page
  <2>2. CASE watch.at = "entered"
    <3> DEFINE s == Buffer(active)
    <3>1. s \in Seq(Frames) /\ OwnOnly(s, active)
      BY <2>1, Replayed
    <3>2. watch' = [at |-> "open", frames |-> s] /\ "open" \in Ats
      BY <1>15, <2>2 DEF Subscribe, Ats
    <3> HIDE DEF s
    <3>3. QED BY <2>1, <3>1, <3>2, AtMoves
  <2>3. CASE watch.at = "outlived"
    <3>1. watch' = [watch EXCEPT !.at = "deaf"] /\ "deaf" \in Ats
      BY <1>15, <2>3 DEF Subscribe, Ats
    <3>2. QED BY <2>1, <3>1, WatchFields, AtMoves
  <2>4. QED BY <1>15, <2>2, <2>3 DEF Subscribe
<1>16. ASSUME Deliver PROVE WatchInv'
  <2> DEFINE s == watch.frames
             t == Tail(s)
  <2>1. /\ active # NoConvo /\ active' = active /\ s \in Seq(Frames) /\ s # <<>>
        /\ watch' = [watch EXCEPT !.frames = t]
    BY <1>16, WatchFields DEF Deliver
  <2>2. watch' = [at |-> watch.at, frames |-> t] /\ watch.at \in Ats
    BY <2>1, WatchFields
  <2> HIDE DEF s
  <2>3. t \in Seq(Frames) /\ Range(t) \subseteq Range(s)
    <3>1. /\ t \in Seq(Frames) /\ Len(t) = Len(s) - 1 /\ Len(s) \in Nat
          /\ DOMAIN t = 1 .. Len(s) - 1 /\ DOMAIN s = 1 .. Len(s)
          /\ \A i \in 1 .. Len(s) - 1 : t[i] = s[i + 1]
      BY <2>1
    <3> HIDE DEF t
    <3>2. \A i \in 1 .. Len(s) - 1 : i + 1 \in 1 .. Len(s)
      BY <3>1
    <3>3. QED BY <3>1, <3>2 DEF Range
  <2> HIDE DEF t
  <2>4. QED BY <2>1, <2>2, <2>3, AtMoves DEF s
<1>17. QED
  BY <1>1, <1>2, <1>3, <1>4, <1>5, <1>6, <1>7, <1>8, <1>9, <1>10, <1>11, <1>12, <1>13,
     <1>14, <1>15, <1>16 DEF Next, App, Body, Driver, Page

-----------------------------------------------------------------------------
(* The POST and the GET. *)
PostAts == {"none", "creating", "asked", "streaming", "closed"}

LEMMA PostFields ==
    ASSUME PostInv
    PROVE  /\ post = [at |-> post.at, conv |-> post.conv, run |-> post.run]
           /\ post.at \in PostAts /\ post.conv \in Convos \cup {NoConvo} /\ post.run \in Nat
           /\ \A a \in PostAts :
                 [post EXCEPT !.at = a] = [at |-> a, conv |-> post.conv, run |-> post.run]
<1>1. post \in [at : PostAts, conv : Convos \cup {NoConvo}, run : Nat]
  BY DEF PostInv, PostAts
<1>2. QED BY <1>1

LEMMA PostIs ==
    ASSUME NEW a \in PostAts, NEW c \in Convos \cup {NoConvo}, NEW r \in Nat,
           post' = [at |-> a, conv |-> c, run |-> r],
           a # "none" => c \in Convos,
           r # 0 => c \in Convos /\ User(r) \in Range(saved'[c])
    PROVE  PostInv'
<1>1. /\ post' \in [at : PostAts, conv : Convos \cup {NoConvo}, run : Nat]
      /\ post'.at = a /\ post'.conv = c /\ post'.run = r
  OBVIOUS
<1>2. QED BY <1>1 DEF PostInv, PostAts, Of

(* The POST goes on: it is at another point, of the same run. *)
LEMMA PostMoves ==
    ASSUME PostInv, Kept, NEW a \in PostAts, post' = [post EXCEPT !.at = a],
           a # "none" => post.at # "none"
    PROVE  PostInv'
<1>1. post' = [at |-> a, conv |-> post.conv, run |-> post.run]
  BY PostFields
<1>2. post.run # 0 => post.conv \in Convos /\ User(post.run) \in Range(saved'[post.conv])
  BY DEF PostInv, Kept, Of
<1>3. a # "none" => post.conv \in Convos
  BY DEF PostInv
<1>4. QED BY <1>1, <1>2, <1>3, PostFields, PostIs

LEMMA PostKept ==
    ASSUME PostInv, Kept, UNCHANGED post PROVE PostInv'
<1>1. post' = [post EXCEPT !.at = post.at]
  BY PostFields
<1>2. QED BY <1>1, PostFields, PostMoves

LEMMA PostYields ==
    ASSUME PostInv, Kept, NEW r, NEW f, Yield(r, f) PROVE PostInv'
<1>1. CASE UNCHANGED post
  BY <1>1, PostKept
<1>2. CASE post.at = "streaming" /\ post' = [post EXCEPT !.at = "closed"]
  <2>1. "closed" \in PostAts
    BY DEF PostAts
  <2>2. QED BY <1>2, <2>1, PostMoves
<1>3. QED BY <1>1, <1>2 DEF Yield, Reads

LEMMA PostBegins ==
    ASSUME NEW a \in PostAts, NEW c \in Convos, post' = [NoPost EXCEPT !.at = a, !.conv = c]
    PROVE  PostInv'
<1>1. post' = [at |-> a, conv |-> c, run |-> 0]
  BY DEF NoPost
<1>2. QED BY <1>1, PostIs

LEMMA PostOver == ASSUME post' = NoPost PROVE PostInv'
<1>1. "none" \in PostAts
  BY DEF PostAts
<1>2. QED BY <1>1, PostIs DEF NoPost

LEMMA PostStep ==
    ASSUME IInv, [Next]_vars PROVE PostInv'
<1>0. AppInv /\ WatchInv /\ PostInv /\ Kept
  BY AppStep DEF IInv
<1> USE <1>0
<1>1. ASSUME NEW b \in bodies, BodyStarts(b[1], b[2]) \/ NeverStarts(b[1], b[2]) PROVE PostInv'
  <2>1. UNCHANGED post \/ \E r, f : Yield(r, f)
    BY <1>1 DEF BodyStarts, NeverStarts
  <2>2. QED BY <2>1, PostYields, PostKept
<1>2. ASSUME NEW c \in Convos, Speak(c) \/ Finish(c) \/ Cancelled(c) \/ Cut(c) PROVE PostInv'
  <2>1. \E r, f : Yield(r, f)
    BY <1>2 DEF Speak, Finish, Cancelled, Cut
  <2>2. QED BY <2>1, PostYields
<1>3. ASSUME RestartApp PROVE PostInv'
  <2>1. CASE post.at \in {"asked", "streaming"}
    <3>1. post' = [post EXCEPT !.at = "closed"] /\ "closed" \in PostAts /\ post.at # "none"
      BY <1>3, <2>1 DEF RestartApp, PostAts
    <3>2. QED BY <3>1, PostMoves
  <2>2. CASE post.at \notin {"asked", "streaming"}
    BY <1>3, <2>2, PostKept DEF RestartApp
  <2>3. QED BY <2>1, <2>2
<1>4. ASSUME Send \/ CreatedForSend PROVE PostInv'
  <2>1. \E c \in Convos : Sends(c)
    BY <1>4, WatchFields DEF Send, CreatedForSend, PostInv
  <2>2. PICK c \in Convos : post' = [NoPost EXCEPT !.at = "asked", !.conv = c]
    BY <2>1 DEF Sends
  <2>3. "asked" \in PostAts
    BY DEF PostAts
  <2>4. QED BY <2>2, <2>3, PostBegins
<1>5. ASSUME NEW c \in Convos, SendCreates(c) PROVE PostInv'
  <2>1. post' = [NoPost EXCEPT !.at = "creating", !.conv = c] /\ "creating" \in PostAts
    BY <1>5 DEF SendCreates, PostAts
  <2>2. QED BY <2>1, PostBegins
<1>6. ASSUME PostArrives PROVE PostInv'
  <2>1. post.at = "asked" /\ post.conv \in Convos /\ UNCHANGED <<stored, drivers>>
    BY <1>6 DEF PostArrives, PostInv
  <2>2. CASE Claim(post.conv, Len(asks) + 1) /\ post' = [post EXCEPT !.at = "streaming", !.run = Len(asks')]
    <3>1. Len(asks) + 1 \in Runs
      <4>1. asks \in Seq(Runs)
        BY DEF AppInv, AppTyped
      <4>2. QED BY <4>1 DEF Runs
    <3>2. User(Len(asks')) \in Range(saved'[post.conv]) /\ Len(asks') \in Nat
      <4>1. User(Len(asks)') \in Range(saved'[post.conv]) /\ Len(asks)' \in Runs
        BY <2>1, <2>2, <3>1, ClaimKeeps
      <4>2. QED BY <4>1 DEF Runs
    <3> DEFINE n == Len(asks')
    <3>3. post' = [post EXCEPT !.at = "streaming", !.run = n] /\ "streaming" \in PostAts
      BY <2>2 DEF PostAts
    <3>4. n \in Nat /\ User(n) \in Range(saved'[post.conv])
      BY <3>2
    <3> HIDE DEF n
    <3>5. post' = [at |-> "streaming", conv |-> post.conv, run |-> n]
      <4>1. post = [at |-> post.at, conv |-> post.conv, run |-> post.run]
        BY PostFields
      <4>2. QED BY <3>3, <4>1
    <3>6. QED BY <2>1, <3>3, <3>4, <3>5, PostIs
  <2>3. CASE post' = [post EXCEPT !.at = "closed"]
    <3>1. "closed" \in PostAts
      BY DEF PostAts
    <3>2. QED BY <2>1, <2>3, <3>1, PostMoves
  <2>4. QED BY <1>6, <2>2, <2>3 DEF PostArrives
<1>7. ASSUME PostFails PROVE PostInv'
  <2>1. post' = [post EXCEPT !.at = "closed"] /\ post.at = "asked" /\ "closed" \in PostAts
    BY <1>7 DEF PostFails, PostAts
  <2>2. QED BY <2>1, PostMoves
<1>8. ASSUME SendEnds \/ Leave PROVE PostInv'
  BY <1>8, PostOver DEF SendEnds, Leave
<1>9. ASSUME \/ \E c \in Convos : \/ End(c) \/ CutEnds(c) \/ ExpireUnstarted(c) \/ Checkpoint(c)
                                  \/ ToolsDone(c) \/ DropRound(c)
                                  \/ OtherSends(c) \/ OtherStops(c) \/ OtherDeletes(c)
                                  \/ DropHub(c) \/ Open(c) \/ NewConvo(c) \/ Delete(c)
             \/ BreakWatch \/ Apply \/ WatchEnters \/ Subscribe \/ Deliver \/ Stop
             \/ UNCHANGED vars
      PROVE  PostInv'
  <2>1. UNCHANGED post
    BY <1>9 DEF End, CutEnds, ExpireUnstarted, Checkpoint, ToolsDone, DropRound, OtherSends, OtherStops, OtherDeletes,
                DropHub, Open, NewConvo, Delete, BreakWatch, Apply, WatchEnters, Subscribe,
                Deliver, Stop, vars, requests
  <2>2. QED BY <2>1, PostKept
<1>10. QED
  BY <1>1, <1>2, <1>3, <1>4, <1>5, <1>6, <1>7, <1>8, <1>9 DEF Next, App, Body, Driver, Page

(* What a file shows is of runs whose questions it has. *)
LEMMA SavedOwn ==
    ASSUME AppInv, NEW c \in Convos PROVE OwnOnly(saved[c], c) /\ saved[c] \in Seq(Entries)
<1>1. saved[c] \in Seq(Entries) /\ SavedOf(saved[c])
  BY DEF AppInv, AppTyped, SavedKnows
<1>2. \A e \in Range(saved[c]) : \E i \in DOMAIN saved[c] : e = saved[c][i]
  BY <1>1, Elements
<1>3. QED BY <1>1, <1>2 DEF SavedOf, OwnOnly, Of

LEMMA Gotten ==
    ASSUME AppInv, NEW c \in Convos, NEW to \in {"open", "refresh"}
    PROVE  /\ Get(to, c) \in Answers /\ Get(to, c).to = to /\ Get(to, c).conv = c
           /\ Get(to, c).msgs \in Seq(Entries) /\ OwnOnly(Get(to, c).msgs, c)
<1> DEFINE msgs == IF c \in stored THEN saved[c] ELSE <<>>
           running == c \in stored /\ Busy(c)
<1>1. msgs \in Seq(Entries) /\ OwnOnly(msgs, c)
  BY SavedOwn, NoneOwned
<1>2. running \in BOOLEAN
  BY DEF Busy
<1>3. Get(to, c) = [to |-> to, conv |-> c, msgs |-> msgs, running |-> running]
  BY DEF Get
<1> HIDE DEF msgs, running
<1>4. QED BY <1>1, <1>2, <1>3 DEF Answers

LEMMA AnswerKept ==
    ASSUME AnswerInv, Kept, UNCHANGED answer PROVE AnswerInv'
<1>1. answer.to # "none" => answer.conv \in Convos /\ OwnThen(answer.msgs, answer.conv)
  BY KeptOwn DEF AnswerInv
<1>2. QED BY <1>1 DEF AnswerInv, OwnOnly, OwnThen, Of

LEMMA AnswerGotten ==
    ASSUME AppInv, Kept, NEW c \in Convos, NEW to \in {"open", "refresh"}, answer' = Get(to, c)
    PROVE  AnswerInv'
<1> DEFINE g == Get(to, c)
<1>1. g \in Answers /\ g.conv = c /\ OwnThen(g.msgs, c)
  BY Gotten, KeptOwn
<1>2. answer' = g
  OBVIOUS
<1> HIDE DEF g
<1>3. QED BY <1>1, <1>2 DEF AnswerInv, OwnOnly, OwnThen, Of

LEMMA AnswerUsed == ASSUME answer' = Nothing PROVE AnswerInv'
  BY NoneOwned DEF AnswerInv, Answers, Nothing

LEMMA AnswerTold ==
    ASSUME NEW c \in Convos, answer' = [Nothing EXCEPT !.to = "stopped", !.conv = c]
    PROVE  AnswerInv'
<1>1. answer' = [to |-> "stopped", conv |-> c, msgs |-> <<>>, running |-> FALSE]
  BY DEF Nothing
<1>2. <<>> \in Seq(Entries) /\ OwnThen(<<>>, c)
  BY NoneOwned
<1> DEFINE m == <<>>
           g == [to |-> "stopped", conv |-> c, msgs |-> m, running |-> FALSE]
<1>3. m \in Seq(Entries) /\ OwnThen(m, c)
  BY <1>2
<1> HIDE DEF m
<1>4. g \in Answers /\ g.conv = c /\ g.msgs = m
  BY <1>3 DEF Answers
<1>5. answer' = g
  BY <1>1 DEF m
<1> HIDE DEF g
<1>6. QED BY <1>3, <1>4, <1>5 DEF AnswerInv, OwnOnly, OwnThen, Of

LEMMA AnswerRefreshed ==
    ASSUME AppInv, AnswerInv, Kept, active \in Convos, NEW s, Refreshes(s) PROVE AnswerInv'
  BY AnswerKept, AnswerGotten DEF Refreshes

LEMMA AnswerStep ==
    ASSUME IInv, [Next]_vars PROVE AnswerInv'
<1>0. AppInv /\ WatchInv /\ AnswerInv /\ Kept /\ AppInv'
  BY AppStep DEF IInv
<1> USE <1>0
<1>1. ASSUME Apply \/ Leave PROVE AnswerInv'
  <2>1. CASE answer' = Nothing
    BY <2>1, AnswerUsed
  <2>2. CASE active = answer.conv /\ answer.to # "none" /\ answer' = Get("refresh", active)
    BY <2>2, AnswerGotten DEF AnswerInv
  <2>3. QED BY <1>1, <2>1, <2>2 DEF Apply, Leave
<1>2. ASSUME NEW c \in Convos, Open(c) \/ NewConvo(c) PROVE AnswerInv'
  <2>1. answer' = Get("open", c)
    BY <1>2 DEF Open, NewConvo
  <2>2. QED BY <2>1, AnswerGotten
<1>3. ASSUME NEW c \in Convos, Delete(c) PROVE AnswerInv'
  <2>1. stored' \subseteq Convos
    BY DEF AppInv, AppTyped
  <2>2. UNCHANGED answer \/ \E d \in Convos : answer' = Get("open", d)
    BY <1>3, <2>1 DEF Delete
  <2>3. QED BY <2>2, AnswerKept, AnswerGotten
<1>4. ASSUME Deliver PROVE AnswerInv'
  <2>1. active \in Convos
    BY <1>4, WatchFields DEF Deliver
  <2>2. UNCHANGED answer \/ \E s : Refreshes(s)
    BY <1>4 DEF Deliver
  <2>3. QED BY <2>1, <2>2, AnswerKept, AnswerRefreshed
<1>5. ASSUME Stop PROVE AnswerInv'
  <2>1. active \in Convos
    BY <1>5, WatchFields DEF Stop
  <2>2. answer' = Nothing \/ answer' = [Nothing EXCEPT !.to = "stopped", !.conv = active]
    BY <1>5 DEF Stop
  <2>3. QED BY <2>1, <2>2, AnswerUsed, AnswerTold
<1>6. ASSUME \/ \E b \in bodies : BodyStarts(b[1], b[2]) \/ NeverStarts(b[1], b[2])
             \/ \E c \in Convos : \/ Speak(c) \/ Finish(c) \/ End(c) \/ CutEnds(c)
                                  \/ ExpireUnstarted(c) \/ Checkpoint(c) \/ Cancelled(c) \/ Cut(c)
                                  \/ ToolsDone(c) \/ DropRound(c) \/ OtherSends(c) \/ OtherStops(c)
                                  \/ OtherDeletes(c) \/ DropHub(c) \/ SendCreates(c)
             \/ RestartApp \/ BreakWatch \/ WatchEnters \/ Subscribe \/ CreatedForSend
             \/ PostArrives \/ SendEnds \/ Send \/ PostFails \/ UNCHANGED vars
      PROVE  AnswerInv'
  <2>1. UNCHANGED answer
    BY <1>6 DEF BodyStarts, NeverStarts, Speak, Finish, End, CutEnds, ExpireUnstarted, Checkpoint,
                ToolsDone, DropRound, Cancelled, Cut, OtherSends, OtherStops, OtherDeletes,
                DropHub, SendCreates, RestartApp, BreakWatch, WatchEnters, Subscribe,
                CreatedForSend, PostArrives, SendEnds, Send, PostFails, vars, requests
  <2>2. QED BY <2>1, AnswerKept
<1>7. QED
  BY <1>1, <1>2, <1>3, <1>4, <1>5, <1>6 DEF Next, App, Body, Driver, Page

-----------------------------------------------------------------------------
(* The screen. *)
ScreenFine == ScreenTyped /\ ScreenKnows

LEMMA ScreenFields ==
    ASSUME ScreenTyped
    PROVE  /\ screen.messages \in Seq(Entries) /\ screen.live \in Seq(Entries)
           /\ screen.running \in BOOLEAN
           /\ screen = [messages |-> screen.messages, live |-> screen.live,
                        running |-> screen.running]
  BY DEF ScreenTyped

(* What is on screen after a step, by cases. *)
LEMMA ScreenIs ==
    ASSUME NEW m \in Seq(Entries), NEW l \in Seq(Entries), NEW b \in BOOLEAN,
           screen' = [messages |-> m, live |-> l, running |-> b],
           active' = NoConvo => \A e \in Range(m) : e.run = 0,
           active' # NoConvo => OwnThen(l, active'),
           active' # NoConvo => (Sending(active)' /\ astray') \/ OwnThen(m, active')
    PROVE  ScreenFine'
<1>1. screen'.messages = m /\ screen'.live = l
  OBVIOUS
<1>2. ScreenTyped'
  BY DEF ScreenTyped
<1>3. ScreenKnows'
  BY <1>1 DEF ScreenKnows, OwnOnly, OwnThen, Of
<1>4. QED BY <1>2, <1>3 DEF ScreenFine

(* A message goes on: the page still sends to where it sent.                *)
Onward == Sending(active) => Sending(active)'

LEMMA SendsOn ==
    ASSUME active' = active, \/ UNCHANGED post
                             \/ post'.conv = post.conv /\ post'.at \in {"streaming", "closed"}
    PROVE  Onward
  BY DEF Onward, Sending

(* The messages stay, and what is live stays, goes, or is the page's own.   *)
LEMMA MessagesStay ==
    ASSUME ScreenFine, active \in Convos \cup {NoConvo}, Kept, active' = active,
           active # NoConvo => Onward /\ (astray => astray'),
           NEW l \in Seq(Entries), NEW b \in BOOLEAN,
           screen' = [messages |-> screen.messages, live |-> l, running |-> b],
           active # NoConvo => OwnThen(l, active)
    PROVE  ScreenFine'
<1> DEFINE m == screen.messages
<1>1. m \in Seq(Entries) /\ screen' = [messages |-> m, live |-> l, running |-> b]
  BY ScreenFields DEF ScreenFine
<1>2. active' = NoConvo => \A e \in Range(m) : e.run = 0
  BY DEF ScreenFine, ScreenKnows
<1>3. active' # NoConvo => (Sending(active)' /\ astray') \/ OwnThen(m, active')
  <2>1. CASE active # NoConvo /\ (Sending(active) /\ astray)
    BY <2>1 DEF Onward
  <2>2. CASE active # NoConvo /\ (~Sending(active) \/ ~astray)
    <3>1. OwnOnly(m, active) /\ active \in Convos
      BY <2>2 DEF ScreenFine, ScreenKnows
    <3>2. QED BY <3>1, KeptOwn
  <2>3. QED BY <2>1, <2>2
<1> HIDE DEF m
<1>4. QED BY <1>1, <1>2, <1>3, ScreenIs

LEMMA ScreenKept ==
    ASSUME ScreenFine, active \in Convos \cup {NoConvo}, Kept, UNCHANGED <<screen, active>>,
           active # NoConvo => Onward /\ (astray => astray')
    PROVE  ScreenFine'
<1>1. active # NoConvo => OwnThen(screen.live, active)
  BY KeptOwn DEF ScreenFine, ScreenKnows
<1>2. screen.live \in Seq(Entries) /\ screen.running \in BOOLEAN
      /\ screen' = [messages |-> screen.messages, live |-> screen.live,
                    running |-> screen.running]
  BY ScreenFields DEF ScreenFine
<1>3. QED BY <1>1, <1>2, MessagesStay

(* The messages are read again. *)
LEMMA MessagesRead ==
    ASSUME ScreenFine, Kept, active \in Convos, active' = active,
           NEW m \in Seq(Entries), OwnOnly(m, active),
           NEW l \in Seq(Entries), OwnOnly(l, active), NEW b \in BOOLEAN,
           screen' = [messages |-> m, live |-> l, running |-> b]
    PROVE  ScreenFine'
<1>1. active' # NoConvo /\ OwnThen(m, active) /\ OwnThen(l, active)
  BY ConvosAssumption, KeptOwn
<1>2. QED BY <1>1, ScreenIs

LEMMA BlankFine == ASSUME screen' = Blank PROVE ScreenFine'
<1>1. <<>> \in Seq(Entries) /\ FALSE \in BOOLEAN /\ Range(<<>>) = {}
      /\ screen' = [messages |-> <<>>, live |-> <<>>, running |-> FALSE]
      /\ \A c : OwnThen(<<>>, c)
  BY NoneOwned DEF Blank
<1>2. QED BY <1>1, ScreenIs

(* The sender reads a part of its run, which is of its conversation.        *)
LEMMA YieldFine ==
    ASSUME ScreenFine, PostInv, active \in Convos \cup {NoConvo}, Kept, active' = active,
           astray => astray', NEW r \in Runs, NEW n \in 0 .. Done,
           Yield(r, [run |-> r, part |-> n])
    PROVE  ScreenFine'
<1> DEFINE f == [run |-> r, part |-> n]
           s == screen.live
           t == Append(s, f)
<1>1. Onward
  <2>1. UNCHANGED post \/ post' = [post EXCEPT !.at = "closed"]
    BY DEF Yield
  <2>2. UNCHANGED post \/ (post'.conv = post.conv /\ post'.at \in {"streaming", "closed"})
    <3>1. post = [at |-> post.at, conv |-> post.conv, run |-> post.run]
      BY PostFields
    <3>2. QED BY <2>1, <3>1
  <2>3. QED BY <2>2, SendsOn
<1>2. CASE UNCHANGED screen
  BY <1>1, <1>2, ScreenKept
<1>3. CASE Reads(r) /\ active = post.conv /\ n # Done /\ screen' = [screen EXCEPT !.live = t]
  <2>1. active \in Convos /\ active # NoConvo /\ Of(r, active)
    BY <1>3, ConvosAssumption DEF Reads, PostInv, Runs
  <2>2. f \in Entries /\ f.run = r
    <3>1. MaxParts \in Nat /\ n \in 0 .. MaxParts /\ r \in Nat
      BY <1>3, BoundsAssumption DEF Done, Runs
    <3>2. QED BY <3>1 DEF Entries
  <2>3. /\ s \in Seq(Entries) /\ screen.running \in BOOLEAN
        /\ screen = [messages |-> screen.messages, live |-> s, running |-> screen.running]
        /\ OwnOnly(s, active)
    BY <2>1, ScreenFields DEF ScreenFine, ScreenKnows
  <2> HIDE DEF f, s
  <2>4. t \in Seq(Entries) /\ Range(t) = Range(s) \cup {f}
    BY <2>2, <2>3, Appended
  <2>5. screen' = [messages |-> screen.messages, live |-> t, running |-> screen.running]
    BY <1>3, <2>3
  <2> HIDE DEF t
  <2>6. OwnThen(t, active)
    <3>1. OwnThen(s, active) /\ User(r) \in Range(saved'[active])
      BY <2>1, <2>3, KeptOwn DEF Kept
    <3>2. QED BY <2>2, <2>4, <3>1 DEF OwnThen
  <2>7. QED BY <1>1, <2>1, <2>3, <2>4, <2>5, <2>6, MessagesStay
<1>4. UNCHANGED screen \/ (Reads(r) /\ active = post.conv /\ n # Done
                           /\ screen' = [screen EXCEPT !.live = t])
  <2>1. f.part = n
    OBVIOUS
  <2>2. QED BY <2>1 DEF Yield, IsDone
<1>5. QED BY <1>2, <1>3, <1>4

LEMMA DoneYields ==
    ASSUME ScreenFine, PostInv, active \in Convos \cup {NoConvo}, Kept, active' = active,
           astray => astray', NEW r \in Runs, Yield(r, DoneOf(r))
    PROVE  ScreenFine'
<1>1. Done \in 0 .. Done
  BY BoundsAssumption DEF Done
<1>2. QED BY <1>1, YieldFine DEF DoneOf

(* A user frame adds its own question, or cuts. *)
LEMMA AskedOf ==
    ASSUME NEW m \in Seq(Entries), NEW f \in Entries
    PROVE  Asked(m, f) \in Seq(Entries) /\ Range(Asked(m, f)) \subseteq Range(m) \cup {f}
<1> DEFINE same == {i \in DOMAIN m : SameQuestion(m[i], f)}
           k == CHOOSE i \in same : \A j \in same : j <= i
           b == SubSeq(m, 1, k)
<1>1. Len(m) \in Nat /\ DOMAIN m = 1 .. Len(m) /\ \A i \in 1 .. Len(m) : m[i] \in Entries /\ m[i] \in Range(m)
  BY Elements
<1>2. CASE same = {}
  BY <1>2, Appended DEF Asked
<1>3. CASE same # {}
  <2>1. same \subseteq 1 .. Len(m)
    BY <1>1
  <2>2. Asked(m, f) = b
    BY <1>3 DEF Asked
  <2> HIDE DEF same
  <2>3. \E i \in same : \A j \in same : j <= i
    <3> DEFINE T == {Len(m) - i : i \in same}
    <3>1. T \in SUBSET Nat /\ T # {}
      <4>1. \A i \in same : Len(m) - i \in Nat
        BY <1>1, <2>1
      <4>2. QED BY <1>3, <4>1
    <3>2. PICK x \in T : \A y \in T : x <= y
      <4> HIDE DEF T
      <4>1. QED BY <3>1, LeastNat
    <3>3. PICK i \in same : x = Len(m) - i
      BY <3>2
    <3>4. \A j \in same : Len(m) - i <= Len(m) - j
      BY <3>2, <3>3
    <3>5. \A j \in same : j <= i
      BY <1>1, <2>1, <3>3, <3>4
    <3>6. QED BY <3>5
  <2>4. k \in same
    BY <2>3
  <2> HIDE DEF k
  <2>5. k \in 1 .. Len(m) /\ k \in Int /\ 1 \in Int
    BY <1>1, <2>1, <2>4
  <2>6. \A i \in 1 .. k : i \in 1 .. Len(m) /\ m[i] \in Entries /\ m[i] \in Range(m)
    BY <1>1, <2>5
  <2>7. /\ b \in Seq(Entries)
        /\ Len(b) = IF 1 <= k THEN k - 1 + 1 ELSE 0
        /\ \A i \in 1 .. k - 1 + 1 : b[i] = m[1 + i - 1]
    BY <2>5, <2>6, SubSeqProperties
  <2> HIDE DEF b
  <2>8. k - 1 + 1 = k /\ Len(b) = k /\ \A i \in 1 .. k : 1 + i - 1 = i
    BY <2>5, <2>7
  <2>9. \A x \in Range(b) : \E i \in 1 .. Len(b) : x = b[i]
    BY <2>7, Elements
  <2>10. Range(b) \subseteq Range(m)
    BY <2>6, <2>7, <2>8, <2>9
  <2>11. QED BY <2>2, <2>7, <2>10
<1>4. QED BY <1>2, <1>3

(* A frame of the stream is of a run of the open conversation.              *)
LEMMA ShownOf ==
    ASSUME ScreenFine, active \in Convos, ~Sending(active), NEW f \in Frames, Of(f.run, active)
    PROVE  /\ Shown(f) = [messages |-> Shown(f).messages, live |-> Shown(f).live,
                          running |-> Shown(f).running]
           /\ Shown(f).messages \in Seq(Entries) /\ OwnOnly(Shown(f).messages, active)
           /\ Shown(f).live \in Seq(Entries) /\ OwnOnly(Shown(f).live, active)
           /\ Shown(f).running \in BOOLEAN
<1> DEFINE m == screen.messages
           l == screen.live
           r == screen.running
           a == Asked(m, f)
           t == Append(l, f)
<1>1. /\ m \in Seq(Entries) /\ OwnOnly(m, active) /\ l \in Seq(Entries) /\ OwnOnly(l, active)
      /\ screen = [messages |-> m, live |-> l, running |-> r]
  BY ScreenFields, ConvosAssumption DEF ScreenFine, ScreenKnows
<1>2. MaxParts \in Nat /\ Done = MaxParts + 1 /\ f.part \in 0 .. Done /\ f.run \in Runs
      /\ f = [run |-> f.run, part |-> f.part]
  BY BoundsAssumption DEF Frames, Done
<1>3. <<>> \in Seq(Entries) /\ OwnOnly(<<>>, active)
  BY NoneOwned
<1> HIDE DEF m, l, r
<1>4. f.part # Done => f \in Entries
  BY <1>2 DEF Entries, Runs
<1>5. CASE f.part = 0
  <2>1. f \in Entries
    BY <1>2, <1>4, <1>5
  <2>2. a \in Seq(Entries) /\ Range(a) \subseteq Range(m) \cup {f}
    BY <1>1, <2>1, AskedOf
  <2>3. Shown(f) = [messages |-> a, live |-> <<>>, running |-> TRUE]
    <3>1. f.part \notin 1 .. MaxParts /\ ~IsDone(f)
      BY <1>2, <1>5 DEF IsDone
    <3>2. QED BY <1>5, <3>1 DEF Shown, m
  <2> HIDE DEF a
  <2>4. OwnOnly(a, active)
    BY <1>1, <2>2 DEF OwnOnly
  <2>5. QED BY <1>3, <2>2, <2>3, <2>4
<1>6. CASE f.part \in 1 .. MaxParts
  <2>1. f \in Entries
    BY <1>2, <1>4, <1>6
  <2>2. t \in Seq(Entries) /\ Range(t) = Range(l) \cup {f}
    BY <1>1, <2>1, Appended
  <2>3. Shown(f) = [screen EXCEPT !.live = t, !.running = TRUE]
    <3>1. f.part # 0
      BY <1>2, <1>6
    <3>2. ~IsDone(f)
      BY <1>2, <1>6 DEF IsDone
    <3>3. QED BY <1>6, <3>1, <3>2 DEF Shown, l
  <2> HIDE DEF t
  <2>4. Shown(f) = [messages |-> m, live |-> t, running |-> TRUE]
    BY <1>1, <2>3
  <2>5. OwnOnly(t, active)
    BY <1>1, <2>2 DEF OwnOnly
  <2>6. QED BY <1>1, <2>2, <2>4, <2>5
<1>7. CASE f.part = Done
  <2>1. Shown(f) = [screen EXCEPT !.live = <<>>, !.running = FALSE]
    <3>1. f.part # 0 /\ f.part \notin 1 .. MaxParts /\ IsDone(f)
      BY <1>2, <1>7 DEF IsDone
    <3>2. QED BY <3>1 DEF Shown
  <2>2. Shown(f) = [messages |-> m, live |-> <<>>, running |-> FALSE]
    BY <1>1, <2>1
  <2>3. QED BY <1>1, <1>3, <2>2
<1>8. QED BY <1>2, <1>5, <1>6, <1>7

(* A GET that is used later leaves the messages; one used at once gives the *)
(* file's.                                                                  *)
LEMMA Refreshed ==
    ASSUME AppInv, active \in Convos, NEW s, Refreshes(s),
           s = [messages |-> s.messages, live |-> s.live, running |-> s.running]
    PROVE  \/ screen' = s
           \/ \E m \in Seq(Entries) :
                 /\ OwnOnly(m, active)
                 /\ screen' = [messages |-> m, live |-> s.live, running |-> s.running]
<1> DEFINE m == Get("refresh", active).msgs
<1>1. m \in Seq(Entries) /\ OwnOnly(m, active)
  BY Gotten
<1>2. screen' = s \/ screen' = [s EXCEPT !.messages = m]
  BY DEF Refreshes
<1> HIDE DEF m
<1>3. [s EXCEPT !.messages = m] = [messages |-> m, live |-> s.live, running |-> s.running]
  OBVIOUS
<1>4. QED BY <1>1, <1>2, <1>3

(* What the page has missed stays missed when a frame is published. *)
LEMMA StaysAstray == ASSUME NEW c, NEW f, Publish(c, f), astray PROVE astray'
<1>1. astray' = (astray \/ Misses(c, f))
  BY DEF Publish
<1>2. QED BY <1>1, Zenon

LEMMA ScreenStep ==
    ASSUME IInv, [Next]_vars PROVE ScreenFine'
<1>0. /\ AppInv /\ WatchInv /\ PostInv /\ AnswerInv /\ ScreenFine /\ Kept /\ AppInv'
      /\ active \in Convos \cup {NoConvo} /\ NoConvo \notin Convos
  BY AppStep, ConvosAssumption DEF IInv, WatchInv, ScreenFine
<1> USE <1>0
<1>1. ASSUME NEW b \in bodies, BodyStarts(b[1], b[2]) \/ NeverStarts(b[1], b[2])
      PROVE  ScreenFine'
  <2>1. b[1] \in Runs /\ active' = active /\ astray' = astray
    BY <1>1 DEF AppInv, AppTyped, BodyStarts, NeverStarts, Silent
  <2>2. CASE Yield(b[1], DoneOf(b[1]))
    BY <2>1, <2>2, DoneYields
  <2>3. CASE UNCHANGED <<post, screen>>
    BY <2>1, <2>3, SendsOn, ScreenKept
  <2>4. QED BY <1>1, <2>2, <2>3 DEF BodyStarts, NeverStarts
<1>2. ASSUME NEW c \in Convos, Speak(c) PROVE ScreenFine'
  <2> DEFINE r == hub[c].run
             n == hub[c].parts + 1
  <2>1. /\ Busy(c) /\ active' = active /\ Yield(r, [run |-> r, part |-> n])
        /\ (astray => astray')
    BY <1>2 DEF Speak, Busy, Publish
  <2>2. r \in Runs /\ n \in 0 .. Done
    <3>1. r \in Runs /\ hub[c].parts \in 0 .. MaxParts /\ MaxParts \in Nat
      BY <2>1, RunOf, BoundsAssumption
    <3>2. QED BY <3>1 DEF Done
  <2> HIDE DEF r, n
  <2>3. QED BY <2>1, <2>2, YieldFine
<1>3. ASSUME NEW c \in Convos, Finish(c) \/ Cancelled(c) \/ Cut(c) PROVE ScreenFine'
  <2>1. /\ Busy(c) /\ active' = active /\ Yield(hub[c].run, DoneOf(hub[c].run))
        /\ (astray => astray')
    <3>1. /\ hub[c].phase = "driven" /\ active' = active
          /\ Yield(hub[c].run, DoneOf(hub[c].run))
          /\ UNCHANGED astray \/ Publish(c, DoneOf(hub[c].run))
      BY <1>3 DEF Finish, Cancelled, Cut, Silent
    <3>2. QED BY <3>1, StaysAstray DEF Busy
  <2>2. hub[c].run \in Runs
    BY <2>1, RunOf
  <2>3. QED BY <2>1, <2>2, DoneYields
<1>4. ASSUME RestartApp PROVE ScreenFine'
  <2>1. active' = active /\ Onward /\ (active # NoConvo => astray')
    <3>1. active' = active /\ astray' = (active # NoConvo)
          /\ (UNCHANGED post \/ post' = [post EXCEPT !.at = "closed"])
      BY <1>4 DEF RestartApp
    <3>2. UNCHANGED post \/ (post'.conv = post.conv /\ post'.at \in {"streaming", "closed"})
      <4>1. post = [at |-> post.at, conv |-> post.conv, run |-> post.run]
        BY PostFields
      <4>2. QED BY <3>1, <4>1
    <3>3. QED BY <3>1, <3>2, SendsOn
  <2>2. CASE UNCHANGED screen
    BY <2>1, <2>2, ScreenKept
  <2>3. CASE screen' = [screen EXCEPT !.live = <<>>]
    <3>1. screen' = [messages |-> screen.messages, live |-> <<>>, running |-> screen.running]
          /\ screen.running \in BOOLEAN
      BY <2>3, ScreenFields DEF ScreenFine
    <3>2. <<>> \in Seq(Entries) /\ OwnThen(<<>>, active)
      BY NoneOwned
    <3>3. QED BY <2>1, <3>1, <3>2, MessagesStay
  <2>4. QED BY <1>4, <2>2, <2>3 DEF RestartApp
<1>5. ASSUME BreakWatch PROVE ScreenFine'
  <2>1. active' = active /\ UNCHANGED post /\ (astray => astray')
        /\ screen' = [screen EXCEPT !.live = <<>>]
    BY <1>5 DEF BreakWatch, requests
  <2>2. screen' = [messages |-> screen.messages, live |-> <<>>, running |-> screen.running]
        /\ screen.running \in BOOLEAN
    BY <2>1, ScreenFields DEF ScreenFine
  <2>3. <<>> \in Seq(Entries) /\ OwnThen(<<>>, active)
    BY NoneOwned
  <2>4. QED BY <2>1, <2>2, <2>3, SendsOn, MessagesStay
<1>6. ASSUME (\E c \in Convos : Open(c) \/ NewConvo(c)) \/ Leave PROVE ScreenFine'
  BY <1>6, BlankFine DEF Open, NewConvo, Leave
<1>7. ASSUME NEW c \in Convos, Delete(c) PROVE ScreenFine'
  <2>1. UNCHANGED post
    BY <1>7 DEF Delete
  <2>2. CASE UNCHANGED <<active, screen, astray>>
    BY <2>1, <2>2, SendsOn, ScreenKept
  <2>3. CASE screen' = Blank
    BY <2>3, BlankFine
  <2>4. CASE active' = NoConvo /\ screen' = [screen EXCEPT !.messages = <<>>]
    <3>1. /\ screen' = [messages |-> <<>>, live |-> screen.live, running |-> screen.running]
          /\ screen.live \in Seq(Entries) /\ screen.running \in BOOLEAN
      BY <2>4, ScreenFields DEF ScreenFine
    <3>2. <<>> \in Seq(Entries) /\ Range(<<>>) = {}
      BY NoneOwned
    <3>3. QED BY <2>4, <3>1, <3>2, ScreenIs
  <2>5. QED BY <1>7, <2>2, <2>3, <2>4 DEF Delete
<1>8. ASSUME Apply PROVE ScreenFine'
  <2>1. /\ active' = active /\ UNCHANGED post /\ answer.to # "none"
        /\ (astray => astray')
        /\ \/ UNCHANGED screen \/ screen' = Ended(screen.messages)
           \/ active = answer.conv /\ \E b \in {screen.running, answer.running} :
                 screen' = [screen EXCEPT !.messages = answer.msgs, !.running = b]
    <3>1. screen = [messages |-> screen.messages, live |-> screen.live,
                    running |-> screen.running]
      BY ScreenFields DEF ScreenFine
    <3>2. CASE active = answer.conv /\ answer.to = "refresh"
      <4>1. screen' = [screen EXCEPT !.messages = answer.msgs]
        BY <1>8, <3>2 DEF Apply
      <4>2. screen' = [screen EXCEPT !.messages = answer.msgs, !.running = screen.running]
        BY <3>1, <4>1
      <4>3. QED BY <1>8, <3>2, <4>2 DEF Apply
    <3>3. CASE active = answer.conv /\ answer.to = "open"
      <4>1. screen' = [screen EXCEPT !.messages = answer.msgs, !.running = answer.running]
        BY <1>8, <3>3 DEF Apply
      <4>2. QED BY <1>8, <3>3, <4>1 DEF Apply
    <3>4. CASE active # answer.conv
      BY <1>8, <3>4 DEF Apply
    <3>5. CASE active = answer.conv /\ answer.to = "stopped"
      BY <1>8, <3>5 DEF Apply
    <3>6. QED BY <1>8, <3>2, <3>3, <3>4, <3>5 DEF Apply
  <2>2. CASE UNCHANGED screen
    BY <2>1, <2>2, SendsOn, ScreenKept
  <2>a. CASE screen' = Ended(screen.messages)
    <3>1. screen' = [messages |-> screen.messages, live |-> <<>>, running |-> FALSE]
      BY <2>a DEF Ended
    <3>2. <<>> \in Seq(Entries) /\ FALSE \in BOOLEAN /\ OwnThen(<<>>, active)
      BY NoneOwned
    <3>3. QED BY <2>1, <3>1, <3>2, SendsOn, MessagesStay
  <2>3. ASSUME active = answer.conv, NEW b \in {screen.running, answer.running},
               screen' = [screen EXCEPT !.messages = answer.msgs, !.running = b]
        PROVE  ScreenFine'
    <3> DEFINE m == answer.msgs
    <3>1. answer \in Answers /\ active \in Convos /\ OwnOnly(m, active)
      BY <2>1, <2>3 DEF AnswerInv
    <3>2. m \in Seq(Entries) /\ answer.running \in BOOLEAN
      BY <3>1 DEF Answers
    <3> HIDE DEF m
    <3>3. /\ screen' = [messages |-> m, live |-> screen.live, running |-> b]
          /\ screen.live \in Seq(Entries) /\ b \in BOOLEAN /\ OwnOnly(screen.live, active)
      <4>1. screen.live \in Seq(Entries) /\ screen.running \in BOOLEAN
            /\ screen = [messages |-> screen.messages, live |-> screen.live,
                         running |-> screen.running]
        BY ScreenFields DEF ScreenFine
      <4>2. screen' = [messages |-> m, live |-> screen.live, running |-> b]
        BY <2>3, <4>1 DEF m
      <4>3. OwnOnly(screen.live, active)
        BY <3>1 DEF ScreenFine, ScreenKnows
      <4>4. b \in BOOLEAN
        BY <2>3, <3>2, <4>1
      <4>5. QED BY <4>1, <4>2, <4>3, <4>4
    <3>4. QED BY <2>1, <3>1, <3>2, <3>3, MessagesRead
  <2>4. QED BY <2>1, <2>2, <2>a, <2>3
<1>9. ASSUME Deliver PROVE ScreenFine'
  <2> DEFINE f == Head(watch.frames)
  <2>1. /\ watch.frames # <<>> /\ active \in Convos /\ active' = active /\ UNCHANGED post
        /\ watch.frames \in Seq(Frames) /\ OwnOnly(watch.frames, active)
    BY <1>9, WatchFields DEF Deliver
  <2>2. f \in Frames /\ Of(f.run, active)
    <3>1. f = watch.frames[1] /\ Len(watch.frames) \in Nat /\ 1 \in 1 .. Len(watch.frames)
      BY <2>1
    <3>2. f \in Frames /\ f \in Range(watch.frames)
      BY <2>1, <3>1, Elements
    <3> HIDE DEF f
    <3>3. f.run # 0
      BY <3>2 DEF Frames, Runs
    <3>4. QED BY <2>1, <3>2, <3>3 DEF OwnOnly
  <2>3. CASE Sending(active)
    <3>1. UNCHANGED screen /\ (astray => astray')
      BY <1>9, <2>3 DEF Deliver
    <3>2. QED BY <2>1, <3>1, SendsOn, ScreenKept
  <2>4. CASE ~Sending(active)
    <3> DEFINE s == Shown(f)
    <3>1. screen' = s \/ Refreshes(s)
      BY <1>9, <2>4 DEF Deliver
    <3> HIDE DEF f
    <3>2. /\ s = [messages |-> s.messages, live |-> s.live, running |-> s.running]
          /\ s.messages \in Seq(Entries) /\ OwnOnly(s.messages, active)
          /\ s.live \in Seq(Entries) /\ OwnOnly(s.live, active)
          /\ s.running \in BOOLEAN
      BY <2>1, <2>2, <2>4, ShownOf
    <3> HIDE DEF s
    <3>3. \E m \in Seq(Entries) :
             /\ OwnOnly(m, active)
             /\ screen' = [messages |-> m, live |-> s.live, running |-> s.running]
      <4>1. CASE screen' = s
        BY <3>2, <4>1
      <4>2. CASE Refreshes(s)
        BY <2>1, <3>2, <4>2, Refreshed
      <4>3. QED BY <3>1, <4>1, <4>2
    <3>4. QED BY <2>1, <3>2, <3>3, MessagesRead
  <2>5. QED BY <2>3, <2>4
<1>10. ASSUME Send \/ CreatedForSend PROVE ScreenFine'
  <2> DEFINE m == screen.messages
             e == [run |-> 0, part |-> 0]
             a == Append(m, e)
  <2>1. PICK c \in Convos : Sends(c) /\ active' = c
    BY <1>10 DEF Send, CreatedForSend, Activate, PostInv, page
  <2>2. /\ screen' = [messages |-> a, live |-> <<>>, running |-> TRUE]
        /\ post' = [NoPost EXCEPT !.at = "asked", !.conv = c] /\ c # NoConvo
    BY <2>1 DEF Sends
  <2>3. e \in Entries /\ e.run = 0 /\ m \in Seq(Entries)
    BY ScreenFields, BoundsAssumption DEF Entries, ScreenFine
  <2>4. Sending(active)'
    BY <2>1, <2>2 DEF Sending, NoPost
  <2>5. \/ \A x \in Range(m) : x.run = 0
        \/ (active = c /\ OwnOnly(m, c))
        \/ astray'
    <3>1. CASE Send
      <4>1. active = c /\ ~Sending(active) /\ active # NoConvo
        BY <2>1, <3>1 DEF Send, RunBusy
      <4>2. QED BY <4>1 DEF ScreenFine, ScreenKnows
    <3>2. CASE CreatedForSend
      BY <3>2 DEF CreatedForSend, ScreenFine, ScreenKnows
    <3>3. QED BY <1>10, <3>1, <3>2
  <2> HIDE DEF m, e
  <2>6. a \in Seq(Entries) /\ Range(a) = Range(m) \cup {e}
    BY <2>3, Appended
  <2> HIDE DEF a
  <2>7. OwnThen(a, c) \/ astray'
    <3>1. CASE \A x \in Range(m) : x.run = 0
      BY <2>3, <2>6, <3>1 DEF OwnThen
    <3>2. CASE OwnOnly(m, c)
      <4>1. OwnThen(m, c)
        BY <3>2, KeptOwn
      <4>2. QED BY <2>3, <2>6, <4>1 DEF OwnThen
    <3>3. QED BY <2>5, <3>1, <3>2
  <2>8. <<>> \in Seq(Entries) /\ OwnThen(<<>>, c) /\ TRUE \in BOOLEAN
    BY NoneOwned
  <2>9. QED BY <2>1, <2>2, <2>4, <2>6, <2>7, <2>8, ScreenIs
<1>11. ASSUME SendEnds PROVE ScreenFine'
  <2>1. active' = active /\ post.at = "closed" /\ post.conv \in Convos
    BY <1>11 DEF SendEnds, PostInv
  <2>2. CASE active = post.conv
    <3> DEFINE m == Get("refresh", active).msgs
    <3>1. screen' = [messages |-> m, live |-> <<>>, running |-> FALSE]
      BY <1>11, <2>2 DEF SendEnds, Ended
    <3>2. m \in Seq(Entries) /\ OwnOnly(m, active) /\ active \in Convos
      BY <2>1, <2>2, Gotten
    <3>3. <<>> \in Seq(Entries) /\ OwnOnly(<<>>, active) /\ FALSE \in BOOLEAN
      BY NoneOwned
    <3> HIDE DEF m
    <3>4. QED BY <2>1, <3>1, <3>2, <3>3, MessagesRead
  <2>3. CASE active # post.conv
    <3>1. UNCHANGED <<screen, active, astray>>
      BY <1>11, <2>1, <2>3 DEF SendEnds
    <3>2. Onward
      BY <2>3 DEF Onward, Sending
    <3>3. QED BY <3>1, <3>2, ScreenKept
  <2>4. QED BY <2>2, <2>3
<1>12. ASSUME Stop PROVE ScreenFine'
  <2>1. UNCHANGED <<screen, active, post>>
    BY <1>12 DEF Stop, page
  <2>2. astray => astray'
    <3>1. UNCHANGED astray \/ Publish(active, DoneOf(hub[active].run))
      BY <1>12 DEF Stop, Stopped, Silent
    <3>2. QED BY <3>1, StaysAstray
  <2>3. QED BY <2>1, <2>2, SendsOn, ScreenKept
<1>13. ASSUME (\E c \in Convos : SendCreates(c)) \/ PostArrives \/ PostFails PROVE ScreenFine'
  <2>1. UNCHANGED <<screen, active>> /\ (astray => astray')
    <3>1. UNCHANGED <<screen, active>>
      BY <1>13 DEF SendCreates, PostArrives, PostFails, page
    <3>2. CASE PostArrives
      <4>1. UNCHANGED astray \/ Publish(post.conv, User(Len(asks) + 1))
        BY <3>2 DEF PostArrives, Claim
      <4>2. QED BY <3>1, <4>1, StaysAstray
    <3>3. CASE PostFails \/ \E c \in Convos : SendCreates(c)
      <4>1. UNCHANGED astray
        BY <3>3 DEF SendCreates, PostFails
      <4>2. QED BY <3>1, <4>1
    <3>4. QED BY <1>13, <3>2, <3>3
  <2>2. active # NoConvo => Onward
    <3>1. CASE PostArrives \/ PostFails
      <4>1. post = [at |-> post.at, conv |-> post.conv, run |-> post.run]
        BY PostFields
      <4>2. post'.conv = post.conv /\ post'.at \in {"streaming", "closed"}
        BY <3>1, <4>1 DEF PostArrives, PostFails
      <4>3. QED BY <2>1, <4>2, SendsOn
    <3>2. CASE \E c \in Convos : SendCreates(c)
      BY <3>2 DEF SendCreates
    <3>3. QED BY <1>13, <3>1, <3>2
  <2>3. QED BY <2>1, <2>2, ScreenKept
<1>14. ASSUME \/ \E c \in Convos : \/ End(c) \/ CutEnds(c) \/ ExpireUnstarted(c) \/ Checkpoint(c)
                                   \/ ToolsDone(c) \/ DropRound(c) \/ OtherSends(c) \/ OtherStops(c)
                                   \/ OtherDeletes(c) \/ DropHub(c)
              \/ WatchEnters \/ Subscribe \/ UNCHANGED vars
       PROVE  ScreenFine'
  <2>1. UNCHANGED <<screen, active, post>>
    BY <1>14 DEF End, CutEnds, ExpireUnstarted, Checkpoint, ToolsDone, DropRound, OtherSends,
                 OtherStops, OtherDeletes, DropHub, WatchEnters, Subscribe, vars, requests, page
  <2>2. astray => astray'
    BY <1>14 DEF End, CutEnds, ExpireUnstarted, Checkpoint, ToolsDone, DropRound, OtherSends,
                 OtherStops, OtherDeletes, DropHub, WatchEnters, Subscribe, Claim, Stopped,
                 Publish, Silent, vars
  <2>3. QED BY <2>1, <2>2, SendsOn, ScreenKept
<1>15. QED
  BY <1>1, <1>2, <1>3, <1>4, <1>5, <1>6, <1>7, <1>8, <1>9, <1>10, <1>11, <1>12, <1>13,
     <1>14 DEF Next, App, Body, Driver, Page

-----------------------------------------------------------------------------
(* The rest, and the invariant. *)
LEMMA RestStep ==
    ASSUME IInv, [Next]_vars PROVE astray' \in BOOLEAN /\ faults' \in Nat /\ size' \in Sizes
<1>0. astray \in BOOLEAN /\ faults \in Nat /\ size \in Sizes
  BY DEF IInv
<1>1. UNCHANGED bounds \/ Fault
  BY DEF Next, App, Body, Driver, Page, BodyStarts, NeverStarts, Speak, Finish, End, CutEnds,
         ExpireUnstarted, Checkpoint, ToolsDone, DropRound, Cancelled, Cut, OtherSends,
         OtherStops, OtherDeletes, DropHub, Open, SendCreates, NewConvo, Delete, RestartApp,
         BreakWatch, Leave, Apply,
         WatchEnters, Subscribe, Deliver, CreatedForSend, PostArrives, SendEnds, Send,
         PostFails, Stop, vars, bounds
<1>2. faults' \in Nat /\ size' \in Sizes
  BY <1>0, <1>1 DEF Fault, bounds
<1>3. astray' \in BOOLEAN
  BY <1>0, ZenonT(40)
     DEF Next, App, Body, Driver, Page, BodyStarts, NeverStarts, Speak, Finish, End, CutEnds,
         ExpireUnstarted, Checkpoint, ToolsDone, DropRound, Cancelled, Cut, OtherSends,
         OtherStops, OtherDeletes, DropHub, Open, SendCreates, NewConvo, Delete, RestartApp,
         BreakWatch, Leave, Apply,
         WatchEnters, Subscribe, Deliver, CreatedForSend, PostArrives, SendEnds, Send,
         PostFails, Stop, Stopped, Claim, Publish, Silent, vars, page
<1>4. QED BY <1>2, <1>3

LEMMA InvInit == Init => IInv
<1> SUFFICES ASSUME Init PROVE IInv
  OBVIOUS
<1>1. /\ size \in Sizes /\ stored \in {{}, size.convos}
      /\ saved = [c \in Convos |-> <<>>] /\ hub = [c \in Convos |-> Idle]
      /\ convo = [c \in Convos |-> Fresh] /\ bodies = {} /\ drivers = {} /\ asks = <<>>
      /\ watch = NoWatch /\ post = NoPost /\ answer = Nothing
      /\ active = NoConvo /\ screen = Blank /\ astray = FALSE /\ faults = 0
  BY DEF Init
<1>2. MaxParts \in Nat /\ size.convos \subseteq Convos /\ NoConvo \notin Convos
  BY <1>1, BoundsAssumption, ConvosAssumption
<1>3. AppTyped
  <2>1. Idle \in Hubs
    BY <1>2 DEF Idle, Hubs, Phases
  <2>2. <<>> \in Seq(Entries) /\ <<>> \in Seq(Runs)
    OBVIOUS
  <2>3. QED BY <1>1, <1>2, <2>1, <2>2 DEF AppTyped
<1>4. HubKnows /\ SavedKnows
  <2>1. Len(asks) = 0 /\ \A c \in Convos : DOMAIN saved[c] = {} /\ hub[c].run = 0 /\ ~Busy(c)
    BY <1>1 DEF Idle, Busy
  <2>2. QED BY <1>1, <2>1 DEF HubKnows, SavedKnows, SavedOf
<1>5. WatchInv
  BY <1>1, NoneOwned DEF WatchInv, NoWatch
<1>6. PostInv
  BY <1>1 DEF PostInv, NoPost
<1>7. AnswerInv
  BY <1>1, NoneOwned DEF AnswerInv, Answers, Nothing
<1>8. ScreenTyped /\ ScreenKnows
  BY <1>1, NoneOwned DEF ScreenTyped, ScreenKnows, Blank
<1>9. ConvoInv
  <2>1. Fresh \in [told : Seq(Entries), tools : Seq(Entries)] /\ Fresh.told \o Fresh.tools = <<>>
    BY DEF Fresh
  <2>2. ConvoTyped /\ \A c \in Convos : convo[c] = Fresh
    BY <1>1, <2>1 DEF ConvoTyped
  <2>3. QED BY <2>1, <2>2, NoTail DEF ConvoInv, ConvoOf
<1>10. FilesInOrder
  <2>1. \A c \in Convos : DOMAIN saved[c] = {}
    BY <1>1
  <2>2. QED BY <2>1 DEF FilesInOrder, InOrder
<1>11. QED BY <1>1, <1>3, <1>4, <1>5, <1>6, <1>7, <1>8, <1>9, <1>10 DEF IInv, AppInv

LEMMA InvStep == IInv /\ [Next]_vars => IInv'
<1> SUFFICES ASSUME IInv, [Next]_vars PROVE IInv'
  OBVIOUS
<1>1. /\ AppInv' /\ WatchInv' /\ PostInv' /\ AnswerInv'
      /\ ConvoInv' /\ FilesInOrder'
  BY AppStep, ConvoStep, FilesStep, WatchStep, PostStep, AnswerStep
<1>2. ScreenTyped' /\ ScreenKnows'
  BY ScreenStep DEF ScreenFine
<1>3. astray' \in BOOLEAN /\ faults' \in Nat /\ size' \in Sizes
  BY RestStep
<1>4. QED BY <1>1, <1>2, <1>3 DEF IInv

(* Whatever comes and in whatever order, what each part of the system has   *)
(* of a run is of the conversation it was asked in.                         *)
THEOREM Invariant == Spec => []IInv
<1>1. Init => IInv
  BY InvInit
<1>2. IInv /\ [Next]_vars => IInv'
  BY InvStep
<1>3. QED BY <1>1, <1>2, PTL DEF Spec

(* At most one run works on a conversation at a time, nothing of another    *)
(* conversation comes on screen, and all state is well formed: for every    *)
(* number of conversations, runs, parts and faults.                         *)
THEOREM RunCorrect == Spec => []RunInv
<1>1. IInv => RunInv
  <2> SUFFICES ASSUME IInv PROVE RunInv
    OBVIOUS
  <2>1. TypeOK
    <3>1. AppTyped /\ ConvoTyped /\ WatchInv /\ PostInv /\ AnswerInv /\ ScreenTyped
      BY DEF IInv, AppInv, ConvoInv
    <3>2. \A d \in bodies \cup drivers : d \in Runs \X Convos
      BY <3>1 DEF AppTyped
    <3>3. watch.at \in {"none", "asked", "entered", "open", "outlived", "deaf"}
          /\ watch.frames \in Seq(Frames)
      BY <3>1 DEF WatchInv
    <3>4. QED BY <3>1, <3>2, <3>3 DEF IInv, TypeOK, AppTyped, ConvoTyped, Hubs, WatchInv, PostInv,
                                      AnswerInv, ScreenTyped
  <2>2. OneDriver
    <3>1. \A d \in drivers : d[2] \in Convos /\ d = <<hub[d[2]].run, d[2]>>
      BY Undriven DEF IInv
    <3>2. QED BY <3>1 DEF OneDriver
  <2>3. NothingForeign
    <3> SUFFICES ASSUME active # NoConvo, ~astray PROVE
            \A e \in Range(screen.messages \o screen.live) :
                e.run # 0 => User(e.run) \in Range(saved[active])
      BY DEF NothingForeign
    <3>1. OwnOnly(screen.messages, active) /\ OwnOnly(screen.live, active)
      BY DEF IInv, ScreenKnows
    <3>2. screen.messages \in Seq(Entries) /\ screen.live \in Seq(Entries)
      BY ScreenFields DEF IInv
    <3>3. Range(screen.messages \o screen.live) = Range(screen.messages) \cup Range(screen.live)
      BY <3>2, Joined
    <3>4. QED BY <3>1, <3>3 DEF OwnOnly, Of
  <2>4. QED BY <2>1, <2>2, <2>3 DEF RunInv
<1>2. QED BY <1>1, Invariant, PTL

-----------------------------------------------------------------------------
(* PageAgrees.  While something is on its way the screen may be behind, so  *)
(* the invariant says by how much: a page that has heard of the run under   *)
(* way shows what was said before it, its question, and all its parts but   *)
(* those still in the stream; one that has not shows a beginning which the  *)
(* question still to come completes or cuts.  A "done" in the stream makes  *)
(* the page read the file again, so that nothing need hold until then; what *)
(* it shows from then on is what the file kept.                             *)
Lag == Len(watch.frames)

(* What was said before the run of the hub, and up to its part n.           *)
Base(c) == Before(saved[c], hub[c].run)
Upto(c, n) == Base(c) \o <<User(hub[c].run)>> \o Parts(hub[c].run, n)

(* The file of a run under way has its question and some of its parts; a    *)
(* response whose body has not started has no run under way but its claim.  *)
FileShape(c) == Busy(c) => c \in stored /\ \E t \in Tails(c) : saved[c] = Tells(c, t)
BodyShape(d) == /\ d[1] \in 1 .. Len(asks)
                /\ hub[d[2]].run = d[1] => hub[d[2]].phase \in {"claimed", "idle"}
AppShape == (\A c \in Convos : FileShape(c)) /\ (\A d \in bodies : BodyShape(d))

(* The stream of a page that is not astray: n frames up to a "done", and    *)
(* then the last ones of the run under way, all of them after a "done".     *)
Follows(c, n) ==
    /\ \A i \in n + 1 .. Lag :
          watch.frames[i] = [run |-> hub[c].run, part |-> hub[c].parts + i - Lag]
    /\ n = 0 => Lag <= hub[c].parts + 1
    /\ n # 0 => IsDone(watch.frames[n])
    /\ n # 0 /\ Going(c) => Lag = n + hub[c].parts + 1
    /\ ~Going(c) => n = Lag

StreamFine(c) ==
    /\ \A i \in 1 .. Lag :
          watch.frames[i] = DoneOf(hub[c].run) => i = Lag /\ ~Going(c)
    /\ watch.at = "open" /\ ~astray => \E n \in 0 .. Lag : Follows(c, n)
StreamShape ==
    /\ watch.at # "open" => watch.frames = <<>>
    /\ active # NoConvo => StreamFine(active)

(* What the page shows of conversation c, once it has to; the answer of a   *)
(* Stop brings nothing that is shown.                                       *)
Heard(c) == watch.at = "open" /\ Lag <= hub[c].parts
Settled(c) == hub[c].phase = "idle" \/ (hub[c].phase = "closing" /\ watch.at = "open")
Awaits(c) == answer.to \in {"open", "refresh"} /\ answer.conv = c

Begins(c, m) ==
    /\ Going(c) /\ ~Heard(c) => m = Base(c) \/ \E t \in Tails(c) : m = Tells(c, t)
    /\ Settled(c) => m = saved[c]

Shows(c) ==
    /\ Going(c) /\ Heard(c) =>
          /\ screen.running
          /\ ~Awaits(c) => /\ screen.messages = Base(c) \o <<User(hub[c].run)>>
                           /\ screen.live = Parts(hub[c].run, hub[c].parts - Lag)
    /\ Settled(c) => screen.live = <<>> /\ ~screen.running
    /\ screen.live # <<>> => screen.running
    /\ ~Awaits(c) => Begins(c, screen.messages)
    /\ Awaits(c) /\ answer.to = "open" /\ screen = Blank => Begins(c, answer.msgs)

(* A deleted conversation is shown as it was; a page that sends waits for   *)
(* its POST to end.                                                        *)
Knows(c) == c \in stored \/ saved[c] = <<>>
NoDone == \A i \in 1 .. Lag : ~IsDone(watch.frames[i])
Required(c) == Knows(c) /\ ~astray /\ ~Sending(c) /\ NoDone
ScreenShape == active # NoConvo /\ Required(active) => Shows(active)

(* What an answer brings was said by a run. *)
AnswerShape == \A i \in 1 .. Len(answer.msgs) : answer.msgs[i].run # 0

PageInv == AppShape /\ StreamShape /\ ScreenShape /\ AnswerShape

-----------------------------------------------------------------------------
(* What a conversation consists of. *)

(* An entry of run r is not in s. *)
Without(s, r) == \A i \in 1 .. Len(s) : s[i].run # r

LEMMA SameEntries ==
    ASSUME NEW s \in Seq(Entries), NEW t \in Seq(Entries), Len(s) = Len(t),
           \A i \in 1 .. Len(s) : s[i] = t[i]
    PROVE  s = t
  BY SeqEqual

LEMMA Tale ==
    ASSUME NEW s \in Seq(Entries), NEW r \in Nat, NEW p \in Seq(Entries)
    PROVE  LET t == (s \o <<User(r)>>) \o p
           IN /\ t \in Seq(Entries) /\ Len(t) = Len(s) + 1 + Len(p)
              /\ Len(s) \in Nat /\ Len(p) \in Nat
              /\ \A i \in 1 .. Len(s) : t[i] = s[i]
              /\ t[Len(s) + 1] = User(r)
              /\ \A i \in Len(s) + 2 .. Len(s) + 1 + Len(p) : t[i] = p[i - (Len(s) + 1)]
<1> DEFINE n == Len(p)
           u == <<User(r)>>
           m == s \o u
           t == m \o p
<1>1. n \in Nat /\ Len(s) \in Nat
  BY Elements
<1>2. /\ p \in Seq(Entries) /\ Len(p) = n /\ u \in Seq(Entries) /\ Len(u) = 1 /\ u[1] = User(r)
  <2>1. User(r) \in Entries
    BY BoundsAssumption DEF User, Entries
  <2>2. QED BY <2>1
<1> HIDE DEF u, n
<1>4. /\ m \in Seq(Entries) /\ Len(m) = Len(s) + 1
      /\ \A i \in 1 .. Len(s) : m[i] = s[i]
      /\ m[Len(s) + 1] = User(r)
  <2>1. /\ m \in Seq(Entries) /\ Len(m) = Len(s) + Len(u)
        /\ \A i \in 1 .. Len(s) : m[i] = s[i]
        /\ \A i \in Len(s) + 1 .. Len(s) + Len(u) : m[i] = u[i - Len(s)]
    BY <1>2, Joined
  <2> HIDE DEF m
  <2>2. Len(s) + 1 \in Len(s) + 1 .. Len(s) + 1 /\ (Len(s) + 1) - Len(s) = 1
    BY <1>1
  <2>3. QED BY <1>2, <2>1, <2>2
<1> HIDE DEF m
<1>5. /\ t \in Seq(Entries) /\ Len(t) = Len(m) + n
      /\ \A i \in 1 .. Len(m) : t[i] = m[i]
      /\ \A i \in Len(m) + 1 .. Len(m) + n : t[i] = p[i - Len(m)]
  <2>1. /\ t \in Seq(Entries) /\ Len(t) = Len(m) + Len(p)
        /\ \A i \in 1 .. Len(m) : t[i] = m[i]
        /\ \A i \in Len(m) + 1 .. Len(m) + Len(p) : t[i] = p[i - Len(m)]
    <3>1. m \in Seq(Entries) /\ p \in Seq(Entries)
      BY <1>2, <1>4
    <3>2. QED BY <3>1, Joined
  <2>2. QED BY <1>2, <2>1
<1> HIDE DEF t
<1>6. \A i \in 1 .. Len(s) : t[i] = s[i]
  BY <1>1, <1>4, <1>5
<1>7. t[Len(s) + 1] = User(r)
  BY <1>1, <1>4, <1>5
<1>8. \A i \in Len(s) + 2 .. Len(s) + 1 + n : t[i] = p[i - (Len(s) + 1)]
  <2> TAKE i \in Len(s) + 2 .. Len(s) + 1 + n
  <2>1. i \in Len(m) + 1 .. Len(m) + n /\ i - Len(m) = i - (Len(s) + 1)
    BY <1>1, <1>4
  <2>2. QED BY <1>5, <2>1
<1>9. Len(t) = Len(s) + 1 + n
  BY <1>1, <1>4, <1>5
<1>10. QED BY <1>1, <1>5, <1>6, <1>7, <1>8, <1>9 DEF t, m, u, n

(* Nothing of a run comes before it. *)
LEMMA BeforeIsWithout ==
    ASSUME NEW s \in Seq(Entries), NEW r \in Nat
    PROVE  Before(s, r) \in Seq(Entries) /\ Without(Before(s, r), r)
  BY BeforeCuts DEF Without

(* The beginning that a run has added to. *)
LEMMA BeforeTale ==
    ASSUME NEW s \in Seq(Entries), NEW r \in Nat, NEW p \in Seq(Entries), Without(s, r)
    PROVE  Before((s \o <<User(r)>>) \o p, r) = s
<1> DEFINE t == (s \o <<User(r)>>) \o p
           b == Before(t, r)
<1>1. /\ t \in Seq(Entries) /\ Len(t) = Len(s) + 1 + Len(p) /\ Len(s) \in Nat /\ Len(p) \in Nat
      /\ \A i \in 1 .. Len(s) : t[i] = s[i]
      /\ t[Len(s) + 1] = User(r)
  <2>1. t \in Seq(Entries) /\ Len(t) = Len(s) + 1 + Len(p) /\ Len(s) \in Nat /\ Len(p) \in Nat
    BY Tale
  <2>2. (\A i \in 1 .. Len(s) : t[i] = s[i]) /\ t[Len(s) + 1] = User(r)
    BY Tale
  <2> HIDE DEF t
  <2>3. QED BY <2>1, <2>2
<1> HIDE DEF t
<1>2. /\ b \in Seq(Entries) /\ Len(b) <= Len(t)
      /\ \A i \in 1 .. Len(b) : b[i] = t[i] /\ t[i].run # r
      /\ Len(b) < Len(t) => t[Len(b) + 1].run = r
  BY <1>1, BeforeCuts
<1> HIDE DEF b
<1>3. Len(b) \in Nat
  BY <1>2
<1>4. Len(b) <= Len(s)
  <2> SUFFICES ASSUME Len(b) > Len(s) PROVE FALSE
    BY <1>1, <1>3
  <2>1. Len(s) + 1 \in 1 .. Len(b)
    BY <1>1, <1>3
  <2>2. t[Len(s) + 1].run = r
    BY <1>1 DEF User
  <2>3. QED BY <1>2, <2>1, <2>2
<1>5. Len(b) >= Len(s)
  <2> SUFFICES ASSUME Len(b) < Len(s) PROVE FALSE
    BY <1>1, <1>3
  <2>1. Len(b) + 1 \in 1 .. Len(s) /\ Len(b) < Len(t)
    BY <1>1, <1>3
  <2>2. t[Len(b) + 1] = s[Len(b) + 1] /\ t[Len(b) + 1].run = r
    BY <1>1, <1>2, <2>1
  <2>3. QED BY <2>1, <2>2 DEF Without
<1>6. Len(b) = Len(s)
  BY <1>1, <1>3, <1>4, <1>5
<1>7. \A i \in 1 .. Len(s) : b[i] = s[i]
  BY <1>1, <1>2, <1>6
<1>8. b = s
  BY <1>2, <1>6, <1>7, SameEntries
<1>9. QED BY <1>8 DEF b, t

LEMMA NoParts ==
    ASSUME NEW s \in Seq(Entries), NEW r \in Nat
    PROVE  /\ s \o <<User(r)>> \o Parts(r, 0) = s \o <<User(r)>>
           /\ s \o <<User(r)>> = Append(s, User(r))
<1>1. 0 \in 0 .. MaxParts /\ User(r) \in Entries
  BY BoundsAssumption, PartsSaid
<1>2. Parts(r, 0) = <<>>
  BY DEF Parts
<1>3. s \o <<User(r)>> \in Seq(Entries)
  BY <1>1
<1>4. s \o <<User(r)>> \o <<>> = s \o <<User(r)>>
  BY <1>3
<1>5. s \o <<User(r)>> = Append(s, User(r))
  BY <1>1
<1>6. QED BY <1>2, <1>4, <1>5

LEMMA OneMorePart ==
    ASSUME NEW r \in Nat, NEW n \in Nat, n < MaxParts
    PROVE  Append(Parts(r, n), [run |-> r, part |-> n + 1]) = Parts(r, n + 1)
<1> DEFINE p == Parts(r, n)
           e == [run |-> r, part |-> n + 1]
           q == Parts(r, n + 1)
<1>1. MaxParts \in Nat /\ n \in 0 .. MaxParts /\ n + 1 \in 0 .. MaxParts
  BY BoundsAssumption
<1>2. p \in Seq(Entries) /\ Len(p) = n /\ q \in Seq(Entries) /\ Len(q) = n + 1
  BY <1>1, PartsSaid
<1>3. e \in Entries
  BY <1>1 DEF Entries
<1>4. /\ \A i \in 1 .. n : p[i] = [run |-> r, part |-> i]
      /\ \A i \in 1 .. n + 1 : q[i] = [run |-> r, part |-> i]
  BY DEF Parts
<1>5. e = [run |-> r, part |-> n + 1]
  OBVIOUS
<1> HIDE DEF p, q, e
<1>6. /\ Append(p, e) \in Seq(Entries) /\ Len(Append(p, e)) = n + 1
      /\ \A i \in 1 .. n : Append(p, e)[i] = p[i]
      /\ Append(p, e)[n + 1] = e
  BY <1>2, <1>3, Appended
<1>7. \A i \in 1 .. n + 1 : Append(p, e)[i] = q[i]
  <2> TAKE i \in 1 .. n + 1
  <2>1. CASE i \in 1 .. n
    BY <1>4, <1>6, <2>1
  <2>2. CASE i = n + 1
    BY <1>4, <1>5, <1>6, <2>2
  <2>3. i \in 1 .. n \/ i = n + 1
    OBVIOUS
  <2>4. QED BY <2>1, <2>2, <2>3
<1>8. Append(p, e) = q
  BY <1>2, <1>6, <1>7, SameEntries
<1>9. QED BY <1>8 DEF p, q, e

(* The file of a run under way. *)
LEMMA Told ==
    ASSUME AppInv, NEW c \in Convos, Busy(c)
    PROVE  /\ hub[c].run \in Runs /\ hub[c].run \in Nat /\ hub[c].parts \in 0 .. MaxParts
           /\ hub[c].parts \in Nat /\ hub[c].run \in 1 .. Len(asks)
           /\ Base(c) \in Seq(Entries) /\ Without(Base(c), hub[c].run)
           /\ Going(c) => Said(c) = Upto(c, hub[c].parts)
           /\ \A t \in Tails(c) : /\ Tells(c, t) \in Seq(Entries) /\ Tells(c, t) # <<>>
                                  /\ Before(Tells(c, t), hub[c].run) = Base(c)
<1>1. /\ hub[c] \in Hubs /\ hub[c].run # 0 /\ saved[c] \in Seq(Entries)
      /\ hub[c].run \in 0 .. Len(asks) /\ asks \in Seq(Runs)
  BY DEF AppInv, AppTyped, HubKnows
<1>2. /\ hub[c].run \in Runs /\ hub[c].run \in Nat /\ hub[c].parts \in 0 .. MaxParts
      /\ hub[c].run \in 1 .. Len(asks) /\ hub[c].parts \in Nat
  BY <1>1, BoundsAssumption DEF Hubs, Runs
<1>3. Base(c) \in Seq(Entries) /\ Without(Base(c), hub[c].run)
  BY <1>1, <1>2, BeforeIsWithout DEF Base
<1>4. Going(c) => Said(c) = Upto(c, hub[c].parts)
  BY DEF Said, Asking, Upto, Base
<1> DEFINE b == Base(c)
           r == hub[c].run
<1> HIDE DEF b, r
<1>5. ASSUME NEW p \in Tails(c)
      PROVE  /\ Tells(c, p) \in Seq(Entries) /\ Tells(c, p) # <<>>
             /\ Before(Tells(c, p), hub[c].run) = Base(c)
  <2>1. b \in Seq(Entries) /\ r \in Nat /\ Without(b, r) /\ p \in Seq(Entries)
    BY <1>2, <1>3 DEF b, r, Tails
  <2>2. Tells(c, p) = (b \o <<User(r)>>) \o p
    BY DEF Tells, Asking, Base, b, r
  <2> DEFINE t == (b \o <<User(r)>>) \o p
  <2>3. t \in Seq(Entries) /\ Len(t) = Len(b) + 1 + Len(p) /\ Len(b) \in Nat /\ Len(p) \in Nat
    BY <2>1, Tale
  <2>4. Before(t, r) = b
    BY <2>1, BeforeTale
  <2> HIDE DEF t
  <2>5. t # <<>>
    BY <2>3
  <2>6. Tells(c, p) = t
    BY <2>2 DEF t
  <2>7. QED BY <2>3, <2>4, <2>5, <2>6 DEF b, r
<1>6. QED BY <1>2, <1>3, <1>4, <1>5

(* What a file tells is its beginning, its question and some parts; with    *)
(* none of them, the question comes last.                                   *)
LEMMA TellsOf ==
    ASSUME NEW c, NEW t
    PROVE  Tells(c, t) = (Base(c) \o <<User(hub[c].run)>>) \o t
  BY DEF Tells, Asking, Base

LEMMA TellsNothing ==
    ASSUME NEW c, Base(c) \in Seq(Entries), hub[c].run \in Nat
    PROVE  Tells(c, <<>>) = Append(Base(c), User(hub[c].run))
<1>1. Parts(hub[c].run, 0) = <<>>
  BY DEF Parts
<1>2. QED BY <1>1, NoParts, TellsOf

(* A question that is not on screen is added: of a page that a cut would    *)
(* not take anything else from.                                             *)
LEMMA AskedNew ==
    ASSUME NEW m \in Seq(Entries), NEW r \in Nat, Without(m, r),
           (\E e \in Range(m) : SameQuestion(e, User(r))) => User(r) \in Range(m)
    PROVE  Asked(m, User(r)) = m \o <<User(r)>>
<1>1. /\ DOMAIN m = 1 .. Len(m)
      /\ \A i \in 1 .. Len(m) : m[i] \in Range(m)
      /\ \A x \in Range(m) : \E i \in 1 .. Len(m) : x = m[i]
  BY Elements
<1>2. User(r) \notin Range(m)
  <2> SUFFICES ASSUME User(r) \in Range(m) PROVE FALSE
    OBVIOUS
  <2>1. PICK i \in 1 .. Len(m) : User(r) = m[i]
    BY <1>1
  <2>2. User(r).run = r
    BY DEF User
  <2>3. QED BY <2>1, <2>2 DEF Without
<1>3. {i \in DOMAIN m : SameQuestion(m[i], User(r))} = {}
  BY <1>1, <1>2
<1>4. Asked(m, User(r)) = Append(m, User(r))
  BY <1>3 DEF Asked
<1>5. QED BY <1>4, NoParts

(* One that is there is cut after: it is the last question of its run.      *)
LEMMA AskedTale ==
    ASSUME NEW s \in Seq(Entries), NEW r \in Nat, r # 0, NEW p \in Seq(Entries),
           \A i \in 1 .. Len(p) : p[i].part # 0
    PROVE  Asked((s \o <<User(r)>>) \o p, User(r)) = s \o <<User(r)>>
<1> DEFINE n == Len(p)
           t == (s \o <<User(r)>>) \o p
           f == User(r)
           same == {i \in DOMAIN t : SameQuestion(t[i], f)}
           k == CHOOSE i \in same : \A j \in same : j <= i
           b == SubSeq(t, 1, k)
           a == Append(s, f)
<1>1. /\ t \in Seq(Entries) /\ Len(t) = Len(s) + 1 + n /\ Len(s) \in Nat /\ n \in Nat
      /\ \A i \in 1 .. Len(s) : t[i] = s[i]
      /\ t[Len(s) + 1] = f
      /\ \A i \in Len(s) + 2 .. Len(s) + 1 + n : t[i] = p[i - (Len(s) + 1)]
  BY Tale
<1>2. f \in Entries /\ f.run = r /\ f.part = 0
  BY PartsSaid, BoundsAssumption DEF User
<1>3. Asked(t, f) = IF same = {} THEN Append(t, f) ELSE b
  BY DEF Asked
<1>4. s \o <<User(r)>> = a
  BY NoParts
<1> HIDE DEF t, f, n
<1>5. DOMAIN t = 1 .. Len(s) + 1 + n
  BY <1>1, Elements
<1>6. Len(s) + 1 \in same
  <2>1. Len(s) + 1 \in DOMAIN t
    BY <1>1, <1>5
  <2>2. SameQuestion(t[Len(s) + 1], f)
    BY <1>1, <1>2 DEF SameQuestion
  <2>3. QED BY <2>1, <2>2
<1>7. \A j \in same : j <= Len(s) + 1 /\ j \in Nat
  <2> TAKE j \in same
  <2>1. j \in 1 .. Len(s) + 1 + n /\ t[j].part = 0
    BY <1>5 DEF SameQuestion
  <2>2. CASE j \in Len(s) + 2 .. Len(s) + 1 + n
    <3>1. t[j] = p[j - (Len(s) + 1)] /\ j - (Len(s) + 1) \in 1 .. n
      BY <1>1, <2>2
    <3>2. QED BY <2>1, <3>1 DEF n
  <2>3. QED BY <1>1, <2>1, <2>2
<1> HIDE DEF same
<1>8. k \in same /\ \A j \in same : j <= k
  BY <1>6, <1>7
<1> HIDE DEF k
<1>9. k = Len(s) + 1
  BY <1>1, <1>6, <1>7, <1>8
<1>10. /\ b \in Seq(Entries) /\ Len(b) = Len(s) + 1
       /\ \A i \in 1 .. Len(s) + 1 : b[i] = t[i]
  <2>1. \A i \in 1 .. k : t[i] \in Entries
    <3>1. \A i \in 1 .. k : i \in 1 .. Len(t)
      BY <1>1, <1>9
    <3>2. QED BY <1>1, <3>1, Elements
  <2>2. k \in Int /\ 1 \in Int /\ 1 <= k
    BY <1>1, <1>9
  <2>3. /\ b \in Seq(Entries)
        /\ Len(b) = IF 1 <= k THEN k - 1 + 1 ELSE 0
        /\ \A i \in 1 .. k - 1 + 1 : b[i] = t[1 + i - 1]
    BY <2>1, <2>2, SubSeqProperties
  <2> HIDE DEF b
  <2>4. k - 1 + 1 = Len(s) + 1 /\ \A i \in 1 .. Len(s) + 1 : 1 + i - 1 = i
    BY <1>1, <1>9
  <2>5. QED BY <2>2, <2>3, <2>4
<1> HIDE DEF b
<1>11. /\ a \in Seq(Entries) /\ Len(a) = Len(s) + 1
       /\ \A i \in 1 .. Len(s) : a[i] = s[i]
       /\ a[Len(s) + 1] = f
  BY <1>2, Appended
<1> HIDE DEF a
<1>12. \A i \in 1 .. Len(s) + 1 : b[i] = a[i]
  <2> TAKE i \in 1 .. Len(s) + 1
  <2>1. i \in 1 .. Len(s) \/ i = Len(s) + 1
    BY <1>1
  <2>2. QED BY <1>1, <1>10, <1>11, <2>1
<1>13. b = a
  BY <1>10, <1>11, <1>12, SameEntries
<1>14. QED BY <1>3, <1>4, <1>6, <1>13 DEF t, f

-----------------------------------------------------------------------------
(* What the stream brings. *)
LEMMA FrameOf ==
    ASSUME NEW r \in Runs, NEW n \in 0 .. MaxParts
    PROVE  /\ [run |-> r, part |-> n] \in Frames /\ ~IsDone([run |-> r, part |-> n])
           /\ DoneOf(r) \in Frames /\ IsDone(DoneOf(r)) /\ DoneOf(r).run = r
           /\ DoneOf(r) # [run |-> r, part |-> n]
<1>1. n \in 0 .. Done /\ n # Done /\ Done \in 0 .. Done
  BY BoundsAssumption DEF Done
<1>2. DoneOf(r).part = Done /\ DoneOf(r).run = r
  BY DEF DoneOf
<1>3. [run |-> r, part |-> n] \in Frames /\ DoneOf(r) \in Frames
  BY <1>1, FramesOf
<1>4. [run |-> r, part |-> n].part = n
  OBVIOUS
<1>5. QED BY <1>1, <1>2, <1>3, <1>4 DEF IsDone

(* The replay of a run under way: its question and its parts, numbered on;  *)
(* and its end, while the hub closes.                                       *)
LEMMA ReplayIs ==
    ASSUME AppInv, NEW c \in Convos
    PROVE  LET s == Buffer(c)
               n == hub[c].parts
               r == hub[c].run
           IN /\ s \in Seq(Frames) /\ Len(s) \in Nat
              /\ hub[c].phase = "idle" => s = <<>>
              /\ Busy(c) => \A i \in 1 .. n + 1 : s[i] = [run |-> r, part |-> i - 1]
              /\ Going(c) => Len(s) = n + 1
              /\ hub[c].phase = "closing" => Len(s) = n + 2 /\ s[n + 2] = DoneOf(r)
<1> DEFINE s == Buffer(c)
           n == hub[c].parts
           r == hub[c].run
           u == <<User(r)>>
           p == Parts(r, n)
           d == <<DoneOf(r)>>
           m == u \o p
           g == m \o d
<1>1. s \in Seq(Frames) /\ Len(s) \in Nat
  BY Replayed, Elements
<1>2. CASE hub[c].phase = "idle"
  BY <1>1, <1>2 DEF Buffer, Busy, Going
<1>3. CASE Busy(c)
  <2>1. r \in Runs /\ n \in 0 .. MaxParts /\ n \in Nat
    BY <1>3, Told
  <2>2. s = IF hub[c].phase = "closing" THEN g ELSE m
    <3>1. hub[c].phase \in Phases
      BY DEF AppInv, AppTyped, Hubs
    <3>2. QED BY <1>3, <3>1 DEF Buffer, Busy, Phases
  <2>3. Going(c) => hub[c].phase # "closing"
    BY DEF Going
  <2> HIDE DEF s, n, r
  <2>4. MaxParts \in Nat
    BY BoundsAssumption
  <2>5. u \in Seq(Frames) /\ Len(u) = 1 /\ u[1] = [run |-> r, part |-> 0]
    <3>1. User(r) \in Frames /\ User(r) = [run |-> r, part |-> 0]
      BY <2>1, FramesOf DEF User
    <3>2. QED BY <3>1
  <2>6. p \in Seq(Frames) /\ Len(p) = n /\ \A i \in 1 .. n : p[i] = [run |-> r, part |-> i]
    <3>1. \A i \in 1 .. n : i \in 0 .. MaxParts
      BY <2>1, <2>4
    <3>2. \A i \in 1 .. n : [run |-> r, part |-> i] \in Frames
      BY <2>1, <3>1, FrameOf
    <3>3. QED BY <2>1, <3>2 DEF Parts
  <2>7. d \in Seq(Frames) /\ Len(d) = 1 /\ d[1] = DoneOf(r)
    <3>1. DoneOf(r) \in Frames
      BY <2>1, FrameOf
    <3>2. QED BY <3>1
  <2> HIDE DEF u, p, d
  <2>8. m \in Seq(Frames) /\ Len(m) = n + 1 /\ \A i \in 1 .. n + 1 : m[i] = [run |-> r, part |-> i - 1]
    <3>1. /\ m \in Seq(Frames) /\ Len(m) = Len(u) + Len(p)
          /\ \A i \in 1 .. Len(u) : m[i] = u[i]
          /\ \A i \in Len(u) + 1 .. Len(u) + Len(p) : m[i] = p[i - Len(u)]
      <4>1. u \in Seq(Frames) /\ p \in Seq(Frames)
        BY <2>5, <2>6
      <4>2. QED BY <4>1, Joined
    <3> HIDE DEF m
    <3>2. ASSUME NEW i \in 1 .. n + 1 PROVE m[i] = [run |-> r, part |-> i - 1]
      <4>1. CASE i = 1
        BY <2>5, <3>1, <4>1
      <4>2. CASE i \in 2 .. n + 1
        <5>1. i - 1 \in 1 .. n /\ i \in Len(u) + 1 .. Len(u) + Len(p)
          BY <2>1, <2>5, <2>6, <4>2
        <5>2. QED BY <2>5, <2>6, <3>1, <5>1
      <4>3. QED BY <2>1, <4>1, <4>2
    <3>3. Len(m) = n + 1
      BY <2>1, <2>5, <2>6, <3>1
    <3>4. QED BY <3>1, <3>2, <3>3
  <2> HIDE DEF m
  <2>9. /\ Len(g) = n + 2 /\ \A i \in 1 .. n + 1 : g[i] = m[i]
        /\ g[n + 2] = DoneOf(r)
    <3>1. /\ g \in Seq(Frames) /\ Len(g) = Len(m) + Len(d)
          /\ \A i \in 1 .. Len(m) : g[i] = m[i]
          /\ \A i \in Len(m) + 1 .. Len(m) + Len(d) : g[i] = d[i - Len(m)]
      <4>1. m \in Seq(Frames) /\ d \in Seq(Frames)
        BY <2>7, <2>8
      <4>2. QED BY <4>1, Joined
    <3> HIDE DEF g
    <3>2. n + 2 \in Len(m) + 1 .. Len(m) + Len(d) /\ (n + 2) - Len(m) = 1
          /\ Len(m) + Len(d) = n + 2
      BY <2>1, <2>7, <2>8
    <3>3. QED BY <2>7, <2>8, <3>1, <3>2
  <2> HIDE DEF g
  <2>10. hub[c].phase # "idle"
    BY <1>3 DEF Busy
  <2>11. CASE hub[c].phase = "closing"
    BY <1>1, <2>2, <2>3, <2>8, <2>9, <2>11 DEF s, n, r
  <2>12. CASE hub[c].phase # "closing"
    BY <1>1, <2>2, <2>8, <2>10, <2>12 DEF s, n, r
  <2>13. QED BY <2>11, <2>12
<1>4. QED BY <1>2, <1>3 DEF Busy

-----------------------------------------------------------------------------
(* What a step is to a conversation: its run is claimed, speaks, goes on,   *)
(* ends, or frees its hub; or nothing happens to it.                        *)
Keeps(c) == hub'[c].run = hub[c].run /\ hub'[c].parts = hub[c].parts
Rests(c) == Keeps(c) /\ hub'[c].phase = hub[c].phase /\ saved'[c] = saved[c]

IsClaimed(c) ==
    LET r == Len(asks) + 1
    IN /\ ~Busy(c) /\ c \in stored
       /\ hub'[c].run = r /\ hub'[c].phase = "claimed" /\ hub'[c].parts = 0
       /\ saved'[c] = Append(saved[c], User(r))
       /\ Publish(c, User(r))
Speaks(c) ==
    /\ hub[c].phase = "driven" /\ hub'[c].phase = "driven" /\ hub[c].parts < MaxParts
    /\ hub'[c].run = hub[c].run /\ hub'[c].parts = hub[c].parts + 1
    /\ saved'[c] = saved[c]
    /\ Publish(c, [run |-> hub[c].run, part |-> hub[c].parts + 1])
Rewrites(c) == saved'[c] = saved[c] \/ \E t \in Tails(c) : saved'[c] = Tells(c, t)
GoesOn(c) ==
    /\ Going(c) /\ hub'[c].phase \in {"driven", "cut"} /\ Keeps(c)
    /\ hub[c].phase = "claimed" => <<hub[c].run, c>> \notin bodies'
    /\ Rewrites(c) /\ Silent
IsOver(c) ==
    /\ Going(c) /\ hub'[c].phase \in {"idle", "closing"} /\ Keeps(c)
    /\ Rewrites(c)
    /\ hub'[c].phase = "closing" => hub[c].phase = "driven"
    /\ \/ Publish(c, DoneOf(hub[c].run))
       \/ astray' = (astray \/ active = c) /\ UNCHANGED watch
IsFreed(c) ==
    /\ hub[c].phase = "closing" /\ hub'[c].phase = "idle" /\ Keeps(c)
    /\ saved'[c] = saved[c]
    /\ astray' = (astray \/ Misses(c, DoneOf(hub[c].run))) /\ UNCHANGED watch

Turns(c) == IsClaimed(c) \/ Speaks(c) \/ GoesOn(c) \/ IsOver(c) \/ IsFreed(c)

(* At most conversation c has a turn, and no other page sees anything.      *)
OnlyTurn(c) ==
    /\ Turns(c) \/ (Rests(c) /\ Silent)
    /\ \A x \in Convos \ {c} : Rests(x) /\ (x = active => Silent)

LEMMA Elsewhere ==
    ASSUME AppInv, NEW c \in Convos, NEW h, NEW s,
           hub' = [hub EXCEPT ![c] = h], saved' \in {saved, [saved EXCEPT ![c] = s]}
    PROVE  /\ \A x \in Convos \ {c} : Rests(x)
           /\ hub'[c] = h /\ saved'[c] \in {saved[c], s}
           /\ saved' # saved => saved'[c] = s
           /\ saved' = saved => saved'[c] = saved[c]
<1>1. hub \in [Convos -> Hubs] /\ saved \in [Convos -> Seq(Entries)]
  BY DEF AppInv, AppTyped
<1>2. /\ hub'[c] = h
      /\ \A x \in Convos \ {c} : hub'[x] = hub[x]
  BY <1>1
<1>3. /\ \A x \in Convos \ {c} : saved'[x] = saved[x]
      /\ saved' # saved => saved'[c] = s
      /\ saved' = saved => saved'[c] = saved[c]
  BY <1>1
<1>4. QED BY <1>2, <1>3 DEF Rests, Keeps

LEMMA Rewritten ==
    ASSUME AppInv, NEW c \in Convos, NEW h, hub' = [hub EXCEPT ![c] = h], Writes(c)
    PROVE  /\ \A x \in Convos \ {c} : Rests(x)
           /\ hub'[c] = h /\ Rewrites(c)
           /\ saved' = saved => saved'[c] = saved[c]
<1>1. CASE saved' = saved
  <2> DEFINE s == saved[c]
  <2>1. saved' \in {saved, [saved EXCEPT ![c] = s]}
    BY <1>1
  <2>2. QED BY <1>1, <2>1, Elsewhere DEF Rewrites
<1>2. CASE \E t \in Tails(c) : saved' = [saved EXCEPT ![c] = Tells(c, t)]
  <2>1. PICK t \in Tails(c) : saved' = [saved EXCEPT ![c] = Tells(c, t)]
    BY <1>2
  <2> DEFINE s == Tells(c, t)
  <2>2. saved' \in {saved, [saved EXCEPT ![c] = s]}
    BY <2>1
  <2> HIDE DEF s
  <2>3. /\ \A x \in Convos \ {c} : Rests(x)
        /\ hub'[c] = h /\ saved'[c] \in {saved[c], s}
        /\ saved' = saved => saved'[c] = saved[c]
    BY <2>2, Elsewhere
  <2>4. QED BY <2>3 DEF Rewrites, s
<1>3. QED BY <1>1, <1>2 DEF Writes

LEMMA NotThisPage ==
    ASSUME NEW c, NEW f, Publish(c, f) \/ Silent, astray \in BOOLEAN
    PROVE  active # c => Silent
<1>1. CASE Silent
  BY <1>1
<1>2. CASE Publish(c, f) /\ active # c
  <2>1. ~Hears(c) /\ ~Misses(c, f)
    BY <1>2 DEF Hears, Misses
  <2>2. watch' = watch
    BY <1>2, <2>1 DEF Publish
  <2>3. astray' = (astray \/ Misses(c, f))
    BY <1>2 DEF Publish
  <2>4. astray' = astray
    BY <2>1, <2>3, Zenon
  <2>5. QED BY <2>2, <2>4 DEF Silent
<1>3. QED BY <1>1, <1>2

LEMMA ClaimTurn ==
    ASSUME AppInv, astray \in BOOLEAN, NEW c \in stored, NEW q, Claim(c, q)
    PROVE  OnlyTurn(c)
<1> DEFINE r == Len(asks) + 1
           h == [run |-> r, phase |-> "claimed", parts |-> 0, stopping |-> FALSE]
           s == Append(saved[c], User(r))
<1>1. /\ ~Busy(c) /\ hub' = [hub EXCEPT ![c] = h] /\ Publish(c, User(r))
      /\ c \in Convos
  BY DEF Claim, AppInv, AppTyped
<1>2. saved' = [saved EXCEPT ![c] = s]
  <2>1. saved' = [saved EXCEPT ![c] = Append(@, User(r))]
    BY DEF Claim
  <2>2. QED BY <2>1
<1>3. h.run = r /\ h.phase = "claimed" /\ h.parts = 0
  OBVIOUS
<1> HIDE DEF h, s
<1>4. /\ \A x \in Convos \ {c} : Rests(x)
      /\ hub'[c] = h
  BY <1>1, <1>2, Elsewhere
<1>5. saved'[c] = s
  <2>1. saved \in [Convos -> Seq(Entries)]
    BY DEF AppInv, AppTyped
  <2>2. QED BY <1>1, <1>2, <2>1
<1>6. IsClaimed(c)
  BY <1>1, <1>3, <1>4, <1>5 DEF IsClaimed, s
<1>7. active # c => Silent
  BY <1>1, NotThisPage
<1>8. QED BY <1>4, <1>6, <1>7 DEF OnlyTurn, Turns

(* The phase of the hub changes, and perhaps a "done" is said. *)
LEMMA PhaseTurn ==
    ASSUME AppInv, astray \in BOOLEAN, NEW c \in Convos, NEW p \in Phases,
           Moves(c, p), Writes(c),
           \/ /\ Going(c) /\ p \in {"driven", "cut"} /\ Silent
              /\ hub[c].phase = "claimed" => <<hub[c].run, c>> \notin bodies'
           \/ /\ Going(c) /\ p \in {"idle", "closing"}
              /\ p = "closing" => hub[c].phase = "driven"
              /\ \/ Publish(c, DoneOf(hub[c].run))
                 \/ astray' = (astray \/ active = c) /\ UNCHANGED watch
           \/ /\ hub[c].phase = "closing" /\ p = "idle" /\ saved' = saved
              /\ astray' = (astray \/ Misses(c, DoneOf(hub[c].run))) /\ UNCHANGED watch
    PROVE  OnlyTurn(c)
<1> DEFINE h == InPhase(hub[c], p)
<1>1. /\ hub' = [hub EXCEPT ![c] = h] /\ h.run = hub[c].run /\ h.phase = p
      /\ h.parts = hub[c].parts
  BY FieldsOf DEF Moves
<1> HIDE DEF h
<1>2. /\ \A x \in Convos \ {c} : Rests(x)
      /\ hub'[c] = h /\ Rewrites(c)
      /\ saved' = saved => saved'[c] = saved[c]
  BY <1>1, Rewritten
<1>4. Keeps(c) /\ hub'[c].phase = p
  BY <1>1, <1>2 DEF Keeps
<1>5. Turns(c)
  BY <1>2, <1>4 DEF Turns, GoesOn, IsOver, IsFreed
<1>6. active # c => Silent
  <2>1. CASE Publish(c, DoneOf(hub[c].run)) \/ Silent
    BY <2>1, NotThisPage
  <2>2. CASE astray' = (astray \/ active = c) /\ UNCHANGED watch
    <3>1. active # c => astray' = astray
      BY <2>2, Zenon
    <3>2. QED BY <2>2, <3>1 DEF Silent
  <2>3. CASE astray' = (astray \/ Misses(c, DoneOf(hub[c].run))) /\ UNCHANGED watch
    <3>1. active # c => ~Misses(c, DoneOf(hub[c].run))
      BY DEF Misses
    <3>2. active # c => astray' = astray
      BY <2>3, <3>1, Zenon
    <3>3. QED BY <2>3, <3>2 DEF Silent
  <2>4. QED BY <2>1, <2>2, <2>3
<1>7. QED BY <1>2, <1>5, <1>6 DEF OnlyTurn

(* Nothing that is shown changes. *)
LEMMA NoTurn ==
    ASSUME AppInv, NEW c \in Convos, UNCHANGED <<hub, saved>>, Silent PROVE OnlyTurn(c)
  BY DEF OnlyTurn, Rests, Keeps

LEMMA StopTurn ==
    ASSUME AppInv, astray \in BOOLEAN, NEW c \in Convos, Stopped(c), UNCHANGED saved
    PROVE  OnlyTurn(c)
<1>1. CASE hub[c].phase = "claimed"
  <2>1. /\ Moves(c, "idle") /\ "idle" \in Phases /\ Writes(c)
        /\ Publish(c, DoneOf(hub[c].run)) /\ Going(c)
    BY <1>1, Moved DEF Stopped, Phases, Going, Writes
  <2>2. QED BY <2>1, PhaseTurn
<1>2. CASE hub[c].phase # "claimed"
  <2> DEFINE b == Busy(c)
             h == [hub[c] EXCEPT !.stopping = b]
  <2>1. hub' = [hub EXCEPT ![c].stopping = b] /\ b \in BOOLEAN /\ Silent
    BY <1>2 DEF Stopped, Busy
  <2> HIDE DEF b
  <2>2. /\ h.run = hub[c].run /\ h.phase = hub[c].phase /\ h.parts = hub[c].parts
        /\ hub' = [hub EXCEPT ![c] = h]
    <3>1. hub[c] \in Hubs
      BY DEF AppInv, AppTyped
    <3>2. h.parts = hub[c].parts
      BY <3>1 DEF Hubs
    <3>3. QED BY <2>1, <3>2, FieldsOf
  <2> HIDE DEF h
  <2>3. /\ \A x \in Convos \ {c} : Rests(x) /\ hub'[c] = h
        /\ saved'[c] = saved[c] /\ hub'[c] = h
    <3>1. Writes(c)
      BY DEF Writes
    <3>2. hub' = [hub EXCEPT ![c] = h]
      BY <2>2
    <3>3. QED BY <3>1, <3>2, Rewritten
  <2>4. Rests(c)
    BY <2>2, <2>3 DEF Rests, Keeps
  <2>5. QED BY <2>1, <2>3, <2>4 DEF OnlyTurn
<1>3. QED BY <1>1, <1>2

LEMMA SpeakTurn ==
    ASSUME AppInv, astray \in BOOLEAN, NEW c \in Convos, Speak(c) PROVE OnlyTurn(c)
<1> DEFINE h == [hub[c] EXCEPT !.parts = @ + 1]
<1>1. /\ hub[c].phase = "driven" /\ hub[c].parts < MaxParts /\ saved' = saved
      /\ hub' = [hub EXCEPT ![c].parts = @ + 1]
      /\ Publish(c, [run |-> hub[c].run, part |-> hub[c].parts + 1])
  BY DEF Speak
<1>2. hub[c] \in Hubs /\ hub \in [Convos -> Hubs]
  BY DEF AppInv, AppTyped
<1>3. /\ h.run = hub[c].run /\ h.phase = hub[c].phase /\ h.parts = hub[c].parts + 1
      /\ hub' = [hub EXCEPT ![c] = h]
  BY <1>1, <1>2 DEF Hubs
<1> HIDE DEF h
<1>4. /\ \A x \in Convos \ {c} : Rests(x)
      /\ hub'[c] = h /\ saved'[c] = saved[c]
  <2>1. Writes(c)
    BY <1>1 DEF Writes
  <2>2. QED BY <1>1, <1>3, <2>1, Rewritten
<1>5. Speaks(c)
  BY <1>1, <1>3, <1>4 DEF Speaks
<1>6. active # c => Silent
  BY <1>1, NotThisPage
<1>7. QED BY <1>4, <1>5, <1>6 DEF OnlyTurn, Turns

LEMMA CheckpointTurn ==
    ASSUME AppInv, ConvoInv, NEW c \in Convos, Checkpoint(c) \/ ToolsDone(c) \/ DropRound(c)
    PROVE  OnlyTurn(c)
<1>1. hub[c].phase = "driven" /\ hub' = hub /\ Silent /\ Writes(c)
  BY SavesInHand DEF Checkpoint, ToolsDone, DropRound, Silent
<1> DEFINE h == hub[c]
<1>2. hub' = [hub EXCEPT ![c] = h]
  BY <1>1 DEF AppInv, AppTyped
<1>3. (\A x \in Convos \ {c} : Rests(x)) /\ Rewrites(c)
  BY <1>1, <1>2, Rewritten
<1>4. GoesOn(c)
  BY <1>1, <1>3 DEF GoesOn, Going, Keeps
<1>5. QED BY <1>1, <1>3, <1>4 DEF OnlyTurn, Turns

(* The steps that the page has no part in, or only its POST: what is shown  *)
(* stays, unless the page reads it from its POST.                           *)
ByTheApp ==
    \/ \E b \in bodies : BodyStarts(b[1], b[2]) \/ NeverStarts(b[1], b[2])
    \/ \E c \in Convos : \/ Driver(c) \/ ExpireUnstarted(c) \/ Checkpoint(c) \/ DropRound(c)
                         \/ Cancelled(c) \/ Cut(c) \/ OtherSends(c) \/ OtherStops(c) \/ OtherDeletes(c)
                         \/ SendCreates(c) \/ (Delete(c) /\ active # c)
    \/ PostArrives \/ PostFails

StaysPut ==
    /\ UNCHANGED <<active, answer>> /\ (UNCHANGED screen \/ Sending(active))
    /\ \A x \in Convos : Sending(x)' <=> Sending(x)
StoreKeeps ==
    /\ \A x \in stored : x \in stored' \/ (hub[x].phase = "idle" /\ hub'[x].phase = "idle")
    /\ \A x \in stored' : x \in stored \/ saved[x] = <<>>

LEMMA YieldStays ==
    ASSUME PostInv, NEW r, NEW f, Yield(r, f)
    PROVE  (UNCHANGED screen \/ Sending(active)) /\ \A x \in Convos : Sending(x)' <=> Sending(x)
<1>1. UNCHANGED screen \/ Sending(active)
  BY DEF Yield, Reads, Sending
<1>2. CASE UNCHANGED post
  BY <1>1, <1>2 DEF Sending
<1>3. CASE post.at = "streaming" /\ post' = [post EXCEPT !.at = "closed"]
  <2>1. post' = [at |-> "closed", conv |-> post.conv, run |-> post.run]
    BY <1>3, PostFields DEF PostAts
  <2>2. post'.at = "closed" /\ post'.conv = post.conv
    BY <2>1
  <2>3. QED BY <1>1, <1>3, <2>2 DEF Sending
<1>4. QED BY <1>2, <1>3 DEF Yield, Reads

LEMMA SameRequests ==
    ASSUME UNCHANGED <<active, answer, post, screen>> PROVE StaysPut
  BY DEF StaysPut, Sending

LEMMA AppActs ==
    ASSUME IInv, AppShape, ByTheApp
    PROVE  (\E c \in Convos : OnlyTurn(c)) /\ StaysPut /\ StoreKeeps
<1>0. AppInv /\ ConvoInv /\ PostInv /\ astray \in BOOLEAN /\ stored \subseteq Convos
  BY DEF IInv, AppInv, AppTyped
<1> USE <1>0
<1> DEFINE Goal == (\E c \in Convos : OnlyTurn(c)) /\ StaysPut /\ StoreKeeps
<1>a. stored' = stored => StoreKeeps
  BY DEF StoreKeeps
<1>c. saved' = saved => \A c : Writes(c)
  BY DEF Writes
<1>b. {"idle", "driven", "closing", "cut"} \subseteq Phases
  BY DEF Phases
<1>1. ASSUME NEW b \in bodies, BodyStarts(b[1], b[2]) PROVE Goal
  <2> DEFINE c == b[2]
  <2>1. c \in Convos /\ stored' = stored /\ saved' = saved /\ Silent /\ UNCHANGED <<active, answer>>
    BY <1>1 DEF BodyStarts, AppInv, AppTyped
  <2>2. CASE Starts(b[1], c) /\ hub' = [hub EXCEPT ![c].phase = "driven"] /\ UNCHANGED <<post, screen>>
    <3>1. hub[c].phase = "claimed"
      BY <2>2 DEF Starts, Busy, AppShape, BodyShape
    <3>2. Going(c) /\ Moves(c, "driven") /\ Writes(c)
      BY <1>c, <2>1, <2>2, <3>1, Moved DEF Going
    <3>3. OnlyTurn(c)
      <4>1. <<hub[c].run, c>> \notin bodies'
        BY <1>1, <2>2 DEF BodyStarts, Starts
      <4>2. QED BY <1>b, <2>1, <2>2, <3>2, <4>1, PhaseTurn
    <3>4. QED BY <1>a, <2>1, <2>2, <3>3, SameRequests
  <2>3. CASE Yield(b[1], DoneOf(b[1])) /\ hub' = hub
    <3>1. OnlyTurn(c)
      BY <2>1, <2>3, NoTurn
    <3>2. StaysPut
      BY <2>1, <2>3, YieldStays DEF StaysPut
    <3>3. QED BY <1>a, <2>1, <3>1, <3>2
  <2>4. QED BY <1>1, <2>2, <2>3 DEF BodyStarts
<1>2. ASSUME NEW b \in bodies, NeverStarts(b[1], b[2]) PROVE Goal
  <2>1. /\ b[2] \in Convos /\ UNCHANGED <<stored, saved, hub, active, answer>> /\ Silent
        /\ Yield(b[1], DoneOf(b[1]))
    BY <1>2 DEF NeverStarts, AppInv, AppTyped
  <2>2. OnlyTurn(b[2])
    BY <2>1, NoTurn
  <2>3. StaysPut
    BY <2>1, YieldStays DEF StaysPut
  <2>4. QED BY <1>a, <2>1, <2>2, <2>3
<1>3. ASSUME NEW c \in Convos, Speak(c) PROVE Goal
  <2>1. OnlyTurn(c)
    BY <1>3, SpeakTurn
  <2>2. StaysPut /\ stored' = stored
    BY <1>3, YieldStays DEF Speak, StaysPut
  <2>3. QED BY <1>a, <2>1, <2>2
<1>4. ASSUME NEW c \in Convos, Finish(c) \/ Cancelled(c) PROVE Goal
  <2>1. /\ hub[c].phase = "driven" /\ Going(c) /\ Writes(c)
        /\ Publish(c, DoneOf(hub[c].run)) /\ Yield(hub[c].run, DoneOf(hub[c].run))
        /\ UNCHANGED <<stored, active, answer>>
    BY <1>4, SavesInHand DEF Finish, Cancelled, Going
  <2>a. \E p \in {"idle", "closing"} : Moves(c, p)
    BY <1>4, Moved DEF Finish, Cancelled, Released
  <2>2. OnlyTurn(c)
    BY <1>b, <2>1, <2>a, PhaseTurn
  <2>3. StaysPut
    BY <2>1, YieldStays DEF StaysPut
  <2>4. QED BY <1>a, <2>1, <2>2, <2>3
<1>5. ASSUME NEW c \in Convos, Cut(c) PROVE Goal
  <2>1. /\ Going(c) /\ saved' = saved /\ Silent /\ Moves(c, "cut")
        /\ Yield(hub[c].run, DoneOf(hub[c].run)) /\ UNCHANGED <<stored, active, answer>>
    BY <1>5, Moved DEF Cut, Going
  <2>a. hub[c].phase # "claimed"
    BY <1>5 DEF Cut
  <2>2. OnlyTurn(c)
    BY <1>b, <1>c, <2>1, <2>a, PhaseTurn
  <2>3. StaysPut
    BY <2>1, YieldStays DEF StaysPut
  <2>4. QED BY <1>a, <2>1, <2>2, <2>3
<1>6. ASSUME NEW c \in Convos, End(c) PROVE Goal
  <2>1. /\ hub[c].phase = "closing" /\ saved' = saved /\ Moves(c, "idle")
        /\ astray' = (astray \/ Misses(c, DoneOf(hub[c].run))) /\ UNCHANGED watch
        /\ UNCHANGED <<stored, active, answer, post, screen>>
    BY <1>6, Moved DEF End, Released, requests, page
  <2>2. OnlyTurn(c)
    BY <1>b, <1>c, <2>1, PhaseTurn
  <2>3. QED BY <1>a, <2>1, <2>2, SameRequests
<1>7. ASSUME NEW c \in Convos, CutEnds(c) \/ ExpireUnstarted(c) PROVE Goal
  <2>1. /\ Going(c) /\ saved' = saved /\ Moves(c, "idle")
        /\ \/ Publish(c, DoneOf(hub[c].run))
           \/ astray' = (astray \/ active = c) /\ UNCHANGED watch
        /\ UNCHANGED <<stored, active, answer, post, screen>>
    BY <1>7, Moved DEF CutEnds, ExpireUnstarted, Released, requests, page, Going
  <2>2. OnlyTurn(c)
    BY <1>b, <1>c, <2>1, PhaseTurn
  <2>3. QED BY <1>a, <2>1, <2>2, SameRequests
<1>8. ASSUME NEW c \in Convos, Checkpoint(c) \/ ToolsDone(c) \/ DropRound(c) PROVE Goal
  <2>1. UNCHANGED <<stored, active, answer, post, screen>>
    BY <1>8 DEF Checkpoint, ToolsDone, DropRound, requests, page
  <2>2. OnlyTurn(c)
    BY <1>8, CheckpointTurn
  <2>3. QED BY <1>a, <2>1, <2>2, SameRequests
<1>9. ASSUME NEW c \in Convos, OtherSends(c) PROVE Goal
  <2>1. /\ c \in stored /\ UNCHANGED <<stored, active, answer, post, screen>>
        /\ \E q : Claim(c, q)
    BY <1>9 DEF OtherSends, requests, page
  <2>2. OnlyTurn(c)
    BY <2>1, ClaimTurn
  <2>3. QED BY <1>a, <2>1, <2>2, SameRequests
<1>10. ASSUME NEW c \in Convos, OtherStops(c) PROVE Goal
  <2>1. Stopped(c) /\ UNCHANGED <<stored, saved, active, answer, post, screen>>
    BY <1>10 DEF OtherStops, requests, page
  <2>2. OnlyTurn(c)
    BY <2>1, StopTurn
  <2>3. QED BY <1>a, <2>1, <2>2, SameRequests
<1>11. ASSUME NEW c \in Convos, OtherDeletes(c) \/ (Delete(c) /\ active # c) PROVE Goal
  <2>1. /\ ~Busy(c) /\ stored' = stored \ {c} /\ Silent
        /\ UNCHANGED <<hub, saved, active, answer, post, screen>>
    BY <1>11 DEF OtherDeletes, Delete, Silent, requests, page
  <2>2. OnlyTurn(c)
    BY <2>1, NoTurn
  <2>3. QED BY <2>1, <2>2, SameRequests DEF StoreKeeps, Busy
<1>12. ASSUME NEW c \in Convos, SendCreates(c) PROVE Goal
  <2>1. /\ saved[c] = <<>> /\ stored' = stored \cup {c} /\ Silent
        /\ UNCHANGED <<hub, saved, active, answer, screen>>
        /\ post.at = "none" /\ post' = [NoPost EXCEPT !.at = "creating", !.conv = c]
    BY <1>12 DEF SendCreates, Makes, Silent, page
  <2>2. post'.at = "creating"
    BY <2>1 DEF NoPost
  <2>3. StaysPut
    BY <2>1, <2>2 DEF StaysPut, Sending
  <2>4. OnlyTurn(c)
    BY <2>1, NoTurn
  <2>5. QED BY <2>1, <2>3, <2>4 DEF StoreKeeps
<1>13. ASSUME PostArrives \/ PostFails PROVE Goal
  <2> DEFINE c == post.conv
  <2>1. /\ post.at = "asked" /\ c \in Convos /\ UNCHANGED <<stored, active, answer, screen>>
    BY <1>13 DEF PostArrives, PostFails, PostInv, app, page
  <2>2. StaysPut
    <3>1. post = [at |-> post.at, conv |-> post.conv, run |-> post.run]
      BY PostFields
    <3>2. post'.conv = post.conv /\ post'.at \in {"streaming", "closed"}
      BY <1>13, <3>1 DEF PostArrives, PostFails
    <3>3. QED BY <2>1, <3>2 DEF StaysPut, Sending
  <2>3. CASE c \in stored /\ Claim(c, Len(asks) + 1)
    <3>1. OnlyTurn(c)
      BY <2>3, ClaimTurn
    <3>2. QED BY <1>a, <2>1, <2>2, <3>1
  <2>4. CASE UNCHANGED <<saved, hub, watch, astray>>
    <3>1. OnlyTurn(c)
      BY <2>1, <2>4, NoTurn DEF Silent
    <3>2. QED BY <1>a, <2>1, <2>2, <3>1
  <2>5. QED BY <1>13, <2>3, <2>4 DEF PostArrives, PostFails, app
<1>14. QED
  BY <1>1, <1>2, <1>3, <1>4, <1>5, <1>6, <1>7, <1>8, <1>9, <1>10, <1>11, <1>12, <1>13
     DEF ByTheApp, Driver

-----------------------------------------------------------------------------
(* The files. *)

(* A checkpoint, or the end of a run, rewrites the file from where the run  *)
(* begins.                                                                 *)
LEMMA BaseStays ==
    ASSUME AppInv, NEW c \in Convos, FileShape(c), Busy(c), hub'[c].run = hub[c].run,
           Rewrites(c)
    PROVE  /\ Base(c)' = Base(c) /\ \A n : Upto(c, n)' = Upto(c, n)
           /\ \A t : Tells(c, t)' = Tells(c, t)
           /\ \E t \in Tails(c) : saved'[c] = Tells(c, t)
<1>1. \A t \in Tails(c) : Before(Tells(c, t), hub[c].run) = Base(c)
  BY Told
<1>2. \E t \in Tails(c) : saved'[c] = Tells(c, t)
  BY DEF FileShape, Rewrites
<1>3. PICK t \in Tails(c) : saved'[c] = Tells(c, t)
  BY <1>2
<1>4. Before(saved'[c], hub'[c].run) = Base(c)
  BY <1>1, <1>3
<1>5. Base(c)' = Base(c)
  BY <1>4 DEF Base
<1>6. \A n : Upto(c, n)' = Upto(c, n)
  BY <1>5 DEF Upto
<1>7. \A u : Tells(c, u)' = Tells(c, u)
  BY <1>5 DEF Tells, Asking, Base
<1>8. QED BY <1>2, <1>5, <1>6, <1>7

(* What the file may hold of a run, it may still hold when more is said.    *)
LEMMA TailsStay ==
    ASSUME AppInv, NEW c \in Convos, Busy(c), Rests(c) \/ Turns(c)
    PROVE  \A t \in Tails(c) : t \in Tails(c)'
<1>1. hub[c].parts \in Nat
  BY HubTyped
<1>2. hub'[c].run = hub[c].run /\ hub'[c].parts \in {hub[c].parts, hub[c].parts + 1}
  BY DEF Rests, Turns, IsClaimed, Speaks, GoesOn, IsOver, IsFreed, Keeps
<1>3. hub'[c].parts \in Nat /\ hub[c].parts <= hub'[c].parts
  BY <1>1, <1>2
<1>4. QED BY <1>1, <1>2, <1>3, TailGrows

(* A claimed run comes after all that was said. *)
LEMMA BaseClaimed ==
    ASSUME AppInv, NEW c \in Convos, IsClaimed(c)
    PROVE  /\ Base(c)' = saved[c] /\ Tells(c, <<>>)' = saved'[c] /\ saved'[c] # <<>>
           /\ (<<>> \in Tails(c))'
<1> DEFINE r == Len(asks) + 1
           s == saved[c]
<1>1. /\ s \in Seq(Entries) /\ SavedOf(s) /\ r \in Nat /\ Len(asks) \in Nat
      /\ DOMAIN s = 1 .. Len(s)
  <2>1. saved[c] \in Seq(Entries) /\ asks \in Seq(Runs) /\ SavedOf(saved[c])
    BY DEF AppInv, AppTyped, SavedKnows
  <2>2. QED BY <2>1, Elements
<1>2. hub'[c].run = r /\ saved'[c] = Append(s, User(r))
  BY DEF IsClaimed
<1>3. Without(s, r)
  BY <1>1 DEF SavedOf, Without
<1> HIDE DEF r, s
<1> DEFINE p == <<>>
           t == (s \o <<User(r)>>) \o p
<1>4. p \in Seq(Entries)
  OBVIOUS
<1>5. Before(t, r) = s /\ t = Append(s, User(r)) /\ t # <<>>
  <2>1. Before(t, r) = s
    BY <1>1, <1>3, <1>4, BeforeTale
  <2>2. t = Append(s, User(r))
    <3>1. Parts(r, 0) = <<>>
      BY DEF Parts
    <3>2. QED BY <1>1, <3>1, NoParts
  <2>3. Len(t) = Len(s) + 1 + Len(p) /\ Len(s) \in Nat /\ Len(p) \in Nat
    BY <1>1, <1>4, Tale
  <2> HIDE DEF t, p
  <2>4. t # <<>>
    BY <2>3
  <2>5. QED BY <2>1, <2>2, <2>4
<1>6. Base(c)' = s
  BY <1>2, <1>5 DEF Base
<1>7. Tells(c, <<>>)' = t
  BY <1>2, <1>6 DEF Tells, Asking, Base
<1>8. (<<>> \in Tails(c))'
  BY DEF Tails, Rising
<1>9. QED BY <1>2, <1>5, <1>6, <1>7, <1>8 DEF s

LEMMA TurnOf ==
    ASSUME NEW c \in Convos, OnlyTurn(c)
    PROVE  \A x \in Convos : Rests(x) \/ Turns(x)
  BY DEF OnlyTurn

LEMMA FileStep ==
    ASSUME AppInv, NEW c \in Convos, FileShape(c), Rests(c) \/ Turns(c), StoreKeeps
    PROVE  FileShape(c)'
<1> SUFFICES ASSUME hub'[c].phase # "idle"
             PROVE  c \in stored' /\ \E t \in Tails(c)' : saved'[c] = Tells(c, t)'
  BY DEF FileShape, Busy
<1>1. CASE IsClaimed(c)
  <2>1. Tells(c, <<>>)' = saved'[c] /\ <<>> \in Tails(c)' /\ c \in stored
    BY <1>1, BaseClaimed DEF IsClaimed
  <2>2. QED BY <2>1 DEF StoreKeeps, IsClaimed
<1>2. CASE ~IsClaimed(c)
  <2>1. Busy(c) /\ hub'[c].run = hub[c].run /\ Rewrites(c)
    BY <1>2 DEF Busy, Rests, Turns, Speaks, GoesOn, IsOver, IsFreed, Keeps, Going, Rewrites
  <2>2. c \in stored'
    BY <2>1 DEF FileShape, StoreKeeps
  <2>3. PICK t \in Tails(c) : saved'[c] = Tells(c, t)
    BY <2>1, BaseStays
  <2>4. Tells(c, t)' = Tells(c, t) /\ t \in Tails(c)'
    BY <2>1, BaseStays, TailsStay
  <2>5. QED BY <2>2, <2>3, <2>4
<1>3. QED BY <1>1, <1>2

(* A body that has not started: its hub is as it was claimed. *)
LEMMA BodyStep ==
    ASSUME AppInv, NEW d \in bodies, BodyShape(d), Rests(d[2]) \/ Turns(d[2]),
           Len(asks') >= Len(asks), asks' \in Seq(Runs), d \in bodies'
    PROVE  BodyShape(d)'
<1> DEFINE c == d[2]
<1>1. /\ d[1] \in 1 .. Len(asks) /\ c \in Convos /\ Len(asks) \in Nat /\ Len(asks') \in Nat
      /\ hub[c].run = d[1] => hub[c].phase \in {"claimed", "idle"}
  <2>1. asks \in Seq(Runs) /\ bodies \subseteq Runs \X Convos
    BY DEF AppInv, AppTyped
  <2>2. Len(asks) \in Nat /\ Len(asks') \in Nat
    BY <2>1
  <2>3. QED BY <2>1, <2>2 DEF BodyShape
<1>a. d = <<d[1], c>>
  BY DEF AppInv, AppTyped
<1>2. d[1] \in 1 .. Len(asks')
  BY <1>1
<1> SUFFICES ASSUME hub'[c].run = d[1] PROVE hub'[c].phase \in {"claimed", "idle"}
  BY <1>2 DEF BodyShape
<1>3. CASE IsClaimed(c)
  BY <1>1, <1>3 DEF IsClaimed
<1>4. CASE ~IsClaimed(c)
  <2>1. hub[c].run = d[1]
    BY <1>4 DEF Rests, Turns, Speaks, GoesOn, IsOver, IsFreed, Keeps
  <2>2. CASE hub[c].phase = "claimed"
    <3>1. ~GoesOn(c)
      BY <1>a, <2>1, <2>2 DEF GoesOn
    <3>2. QED BY <1>4, <2>2, <3>1 DEF Rests, Turns, Speaks, IsOver, IsFreed, Keeps
  <2>3. CASE hub[c].phase = "idle"
    BY <1>4, <2>3 DEF Rests, Turns, Speaks, GoesOn, IsOver, IsFreed, Keeps, Going
  <2>4. QED BY <1>1, <2>1, <2>2, <2>3
<1>5. QED BY <1>3, <1>4

-----------------------------------------------------------------------------
(* The stream. *)
LEMMA Wire ==
    ASSUME AppInv, WatchInv, NEW c \in Convos, active = c
    PROVE  /\ watch.frames \in Seq(Frames) /\ Lag \in Nat
           /\ \A i \in 1 .. Lag : watch.frames[i] \in Frames
           /\ \A i \in 1 .. Lag : watch.frames[i].run \in 1 .. Len(asks)
           /\ hub[c].parts \in 0 .. MaxParts /\ hub[c].parts \in Nat /\ MaxParts \in Nat
<1>1. watch.frames \in Seq(Frames) /\ OwnOnly(watch.frames, c)
  BY WatchFields, ConvosAssumption
<1>2. /\ Lag \in Nat
      /\ \A i \in 1 .. Lag : watch.frames[i] \in Frames /\ watch.frames[i] \in Range(watch.frames)
  BY <1>1, Elements DEF Lag
<1>3. ASSUME NEW i \in 1 .. Lag PROVE watch.frames[i].run \in 1 .. Len(asks)
  <2> DEFINE r == watch.frames[i].run
  <2>1. r # 0 /\ watch.frames[i] \in Range(watch.frames)
    BY <1>2 DEF Frames, Runs
  <2>2. User(r) \in Range(saved[c])
    BY <1>1, <2>1 DEF OwnOnly, Of
  <2> HIDE DEF r
  <2>3. saved[c] \in Seq(Entries) /\ SavedOf(saved[c])
    BY DEF AppInv, AppTyped, SavedKnows
  <2>4. PICK j \in DOMAIN saved[c] : User(r) = saved[c][j]
    BY <2>2, <2>3, Elements
  <2>5. User(r).run \in 1 .. Len(asks)
    BY <2>3, <2>4 DEF SavedOf
  <2>6. r \in 1 .. Len(asks)
    BY <2>5 DEF User
  <2>7. QED BY <2>6 DEF r
<1>4. hub[c].parts \in 0 .. MaxParts /\ MaxParts \in Nat
  BY BoundsAssumption DEF AppInv, AppTyped, Hubs
<1>5. hub[c].parts \in Nat
  BY <1>4
<1>6. QED BY <1>1, <1>2, <1>3, <1>4, <1>5

(* A frame is published to the page that watches. *)
LEMMA Heeded ==
    ASSUME WatchInv, NEW c \in Convos, active = c, NEW f \in Frames, Publish(c, f)
    PROVE  /\ watch'.at = watch.at
           /\ watch.at # "open" => watch' = watch
           /\ watch.at = "open" =>
                 /\ watch'.frames = Append(watch.frames, f)
                 /\ Lag' = Lag + 1
                 /\ \A i \in 1 .. Lag : watch'.frames[i] = watch.frames[i]
                 /\ watch'.frames[Lag + 1] = f
           /\ astray => astray'
           /\ watch.at # "open" /\ IsDone(f) => astray'
<1>1. watch.frames \in Seq(Frames)
  BY WatchFields
<1>2. astray => astray'
  BY StaysAstray
<1>3. watch.at # "open" /\ IsDone(f) => astray'
  <2>1. astray' = (astray \/ Misses(c, f))
    BY DEF Publish
  <2>2. watch.at # "open" /\ IsDone(f) => Misses(c, f)
    BY DEF Misses
  <2>3. QED BY <2>1, <2>2, Zenon
<1>4. watch.at # "open" => watch' = watch
  BY DEF Publish, Hears
<1>5. CASE watch.at = "open"
  <2> DEFINE s == watch.frames
             t == Append(s, f)
  <2>1. watch' = [watch EXCEPT !.frames = t]
    BY <1>5 DEF Publish, Hears
  <2>2. watch'.frames = t /\ watch'.at = watch.at
    <3>1. [watch EXCEPT !.frames = t] = [at |-> watch.at, frames |-> t]
      BY WatchFields
    <3>2. QED BY <2>1, <3>1
  <2> HIDE DEF s
  <2>3. /\ Len(t) = Len(s) + 1
        /\ \A i \in 1 .. Len(s) : t[i] = s[i]
        /\ t[Len(s) + 1] = f
    BY <1>1, Appended DEF s
  <2> HIDE DEF t
  <2>4. QED BY <1>2, <1>5, <2>2, <2>3 DEF Lag, s, t
<1>6. QED BY <1>2, <1>3, <1>4, <1>5

(* The stream and the run stay as they are, and what was missed is.         *)
LEMMA StreamStays ==
    ASSUME NEW c \in Convos, StreamFine(c), UNCHANGED watch, Keeps(c), Going(c)' <=> Going(c),
           astray => astray'
    PROVE  StreamFine(c)'
<1>1. Lag' = Lag /\ hub'[c].run = hub[c].run /\ hub'[c].parts = hub[c].parts
  BY DEF Lag, Keeps
<1>2. \A n : Follows(c, n) => Follows(c, n)'
  BY <1>1 DEF Follows
<1>3. QED BY <1>1, <1>2 DEF StreamFine

(* Nothing is in the stream, of a run that is over if it is open.           *)
LEMMA StreamEmpty ==
    ASSUME AppInv', NEW c \in Convos, active' = c, watch'.frames = <<>>,
           watch'.at # "open" \/ ~Going(c)'
    PROVE  StreamShape'
<1>1. Lag' = 0
  BY DEF Lag
<1>2. hub'[c].parts \in Nat
  <2>1. hub'[c].parts \in 0 .. MaxParts /\ MaxParts \in Nat
    BY BoundsAssumption DEF AppInv, AppTyped, Hubs
  <2>2. QED BY <2>1
<1>3. ~Going(c)' => Follows(c, 0)'
  BY <1>1, <1>2 DEF Follows
<1>4. StreamFine(c)'
  <2>1. 0 \in 0 .. Lag'
    BY <1>1
  <2>2. QED BY <1>1, <1>3, <2>1 DEF StreamFine
<1>5. QED BY <1>4 DEF StreamShape

LEMMA StreamClosed ==
    ASSUME watch'.frames = <<>>, active' = NoConvo PROVE StreamShape'
  BY DEF StreamShape

(* The stream of a run that turns. *)
LEMMA StreamTurns ==
    ASSUME AppInv, WatchInv, StreamShape, NEW c \in Convos, active = c, active' = c,
           Turns(c) \/ (Rests(c) /\ Silent)
    PROVE  StreamShape'
<1>0. /\ StreamFine(c) /\ (watch.at # "open" => watch.frames = <<>>)
      /\ Lag \in Nat /\ hub[c].parts \in Nat /\ MaxParts \in Nat
      /\ hub[c].parts \in 0 .. MaxParts
      /\ \A i \in 1 .. Lag : watch.frames[i].run \in 1 .. Len(asks)
  BY Wire, ConvosAssumption DEF StreamShape
<1> SUFFICES (watch'.at # "open" => watch'.frames = <<>>) /\ StreamFine(c)'
  BY DEF StreamShape
<1>1. CASE UNCHANGED watch /\ Keeps(c) /\ (Going(c)' <=> Going(c)) /\ (astray => astray')
  BY <1>0, <1>1, StreamStays
<1>2. CASE GoesOn(c) \/ IsFreed(c) \/ (Rests(c) /\ Silent)
  <2>1. UNCHANGED watch /\ Keeps(c) /\ (Going(c)' <=> Going(c))
    BY <1>2 DEF GoesOn, IsFreed, Rests, Silent, Going
  <2>2. astray => astray'
    BY <1>2, Zenon DEF GoesOn, IsFreed, Silent
  <2>3. QED BY <1>1, <2>1, <2>2
<1>3. CASE IsClaimed(c)
  <2> DEFINE r == Len(asks) + 1
  <2>1. /\ hub[c].phase = "idle" /\ hub'[c].run = r /\ hub'[c].phase = "claimed"
        /\ hub'[c].parts = 0 /\ Publish(c, User(r))
    BY <1>3 DEF IsClaimed, Busy
  <2>2. ~Going(c) /\ Going(c)'
    BY <2>1 DEF Going
  <2>3. r \in Runs /\ Len(asks) \in Nat
    <3>1. asks \in Seq(Runs)
      BY DEF AppInv, AppTyped
    <3>2. QED BY <3>1 DEF Runs
  <2>4. \A i \in 1 .. Lag : watch.frames[i].run # r
    BY <1>0, <2>3
  <2> HIDE DEF r
  <2>5. User(r) \in Frames /\ User(r) # DoneOf(r) /\ DoneOf(r).run = r /\ ~IsDone(User(r))
        /\ User(r) = [run |-> r, part |-> 0]
    <3>1. 0 \in 0 .. MaxParts
      BY <1>0
    <3>2. User(r) = [run |-> r, part |-> 0]
      BY DEF User
    <3>3. QED BY <2>3, <3>1, <3>2, FrameOf
  <2>6. /\ watch'.at = watch.at
        /\ watch.at # "open" => watch' = watch
        /\ watch.at = "open" =>
              /\ Lag' = Lag + 1
              /\ \A i \in 1 .. Lag : watch'.frames[i] = watch.frames[i]
              /\ watch'.frames[Lag + 1] = User(r)
        /\ astray => astray'
    BY <2>1, <2>5, Heeded
  <2>7. CASE watch.at # "open"
    <3>1. watch' = watch /\ Lag' = 0 /\ watch.frames = <<>>
      BY <1>0, <2>6, <2>7 DEF Lag
    <3>2. QED BY <2>7, <3>1 DEF StreamFine
  <2>8. CASE watch.at = "open"
    <3>1. ASSUME NEW i \in 1 .. Lag', watch'.frames[i] = DoneOf(r) PROVE FALSE
      <4>1. i \in 1 .. Lag \/ i = Lag + 1
        BY <1>0, <2>6, <2>8
      <4>2. QED BY <2>4, <2>5, <2>6, <2>8, <3>1, <4>1
    <3>2. ASSUME ~astray' PROVE \E n \in 0 .. Lag' : Follows(c, n)'
      <4>1. PICK n \in 0 .. Lag : Follows(c, n)
        BY <1>0, <2>6, <2>8, <3>2 DEF StreamFine
      <4>2. n = Lag /\ (n # 0 => IsDone(watch.frames[n])) /\ n \in Nat
        BY <1>0, <2>2, <4>1 DEF Follows
      <4>3. n # 0 => IsDone(watch'.frames[n])
        BY <1>0, <2>6, <2>8, <4>2
      <4>4. ASSUME NEW i \in n + 1 .. Lag'
            PROVE  watch'.frames[i] = [run |-> hub'[c].run, part |-> hub'[c].parts + i - Lag']
        <5>1. i = Lag + 1 /\ i = Lag' /\ hub'[c].parts + i - Lag' = 0
          BY <1>0, <2>1, <2>6, <2>8, <4>2
        <5>2. QED BY <2>1, <2>5, <2>6, <2>8, <5>1
      <4>5. /\ n = 0 => Lag' <= hub'[c].parts + 1
            /\ Lag' = n + hub'[c].parts + 1 /\ n \in 0 .. Lag'
        BY <1>0, <2>1, <2>6, <2>8, <4>2
      <4>6. Follows(c, n)'
        BY <2>2, <4>3, <4>4, <4>5 DEF Follows
      <4>7. QED BY <4>5, <4>6
    <3>3. QED BY <2>1, <2>6, <2>8, <3>1, <3>2, <1>0 DEF StreamFine
  <2>9. QED BY <2>7, <2>8
<1>4. CASE Speaks(c)
  <2> DEFINE r == hub[c].run
             k == hub[c].parts
             f == [run |-> r, part |-> k + 1]
  <2>1. /\ hub[c].phase = "driven" /\ hub'[c].run = r /\ hub'[c].phase = "driven"
        /\ hub'[c].parts = k + 1 /\ k < MaxParts /\ Publish(c, f)
    BY <1>4 DEF Speaks
  <2>2. Going(c) /\ Going(c)' /\ Busy(c)
    BY <2>1 DEF Going, Busy
  <2>3. r \in Runs /\ k \in Nat
    BY <2>2, Told
  <2>4. k + 1 \in 0 .. MaxParts
    BY <1>0, <2>1, <2>3
  <2>5. f \in Frames /\ f # DoneOf(r)
    BY <2>3, <2>4, FrameOf
  <2>6. /\ watch'.at = watch.at
        /\ watch.at # "open" => watch' = watch
        /\ watch.at = "open" =>
              /\ Lag' = Lag + 1
              /\ \A i \in 1 .. Lag : watch'.frames[i] = watch.frames[i]
              /\ watch'.frames[Lag + 1] = f
        /\ astray => astray'
    BY <2>1, <2>5, Heeded
  <2>7. CASE watch.at # "open"
    <3>1. watch' = watch /\ Lag' = 0 /\ watch.frames = <<>>
      BY <1>0, <2>6, <2>7 DEF Lag
    <3>2. QED BY <2>7, <3>1 DEF StreamFine
  <2>8. CASE watch.at = "open"
    <3>1. ASSUME NEW i \in 1 .. Lag', watch'.frames[i] = DoneOf(r) PROVE FALSE
      <4>1. i \in 1 .. Lag \/ i = Lag + 1
        BY <1>0, <2>6, <2>8
      <4>2. i \in 1 .. Lag => watch.frames[i] # DoneOf(r)
        BY <1>0, <2>2 DEF StreamFine
      <4>3. QED BY <2>5, <2>6, <2>8, <3>1, <4>1, <4>2
    <3>2. ASSUME ~astray' PROVE \E n \in 0 .. Lag' : Follows(c, n)'
      <4>1. PICK n \in 0 .. Lag : Follows(c, n)
        BY <1>0, <2>6, <2>8, <3>2 DEF StreamFine
      <4>2. /\ \A i \in n + 1 .. Lag : watch.frames[i] = [run |-> r, part |-> k + i - Lag]
            /\ n = 0 => Lag <= k + 1
            /\ n # 0 => IsDone(watch.frames[n])
            /\ n # 0 => Lag = n + k + 1
            /\ n \in Nat
        <5>1. n \in Nat
          BY <1>0
        <5>2. QED BY <2>2, <4>1, <5>1 DEF Follows
      <4>3. n # 0 => IsDone(watch'.frames[n])
        BY <1>0, <2>6, <2>8, <4>2
      <4>4. ASSUME NEW i \in n + 1 .. Lag'
            PROVE  watch'.frames[i] = [run |-> r, part |-> (k + 1) + i - Lag']
        <5>1. CASE i = Lag + 1
          <6>1. (k + 1) + i - Lag' = k + 1
            BY <1>0, <2>3, <2>6, <2>8, <5>1
          <6>2. QED BY <2>6, <2>8, <5>1, <6>1
        <5>2. CASE i \in n + 1 .. Lag
          <6>0. Lag' = Lag + 1 /\ Lag \in Nat /\ k \in Nat /\ n \in Nat
            BY <1>0, <2>3, <2>6, <2>8, <4>2
          <6>1. (k + 1) + i - Lag' = k + i - Lag /\ i \in 1 .. Lag
            <7> HIDE DEF k
            <7>1. QED BY <5>2, <6>0
          <6>2. watch'.frames[i] = watch.frames[i]
            BY <2>6, <2>8, <6>1
          <6>3. QED BY <4>2, <5>2, <6>1, <6>2
        <5>3. QED BY <1>0, <2>6, <2>8, <4>2, <5>1, <5>2
      <4>5. /\ n = 0 => Lag' <= (k + 1) + 1
            /\ n # 0 => Lag' = n + (k + 1) + 1
            /\ n \in 0 .. Lag'
        BY <1>0, <2>3, <2>6, <2>8, <4>2
      <4>6. Follows(c, n)'
        <5> HIDE DEF r, k
        <5>1. QED BY <2>1, <2>2, <4>3, <4>4, <4>5 DEF Follows
      <4>7. QED BY <4>5, <4>6
    <3>3. QED BY <1>0, <2>1, <2>6, <2>8, <3>1, <3>2 DEF StreamFine
  <2>9. QED BY <2>7, <2>8
<1>5. CASE IsOver(c)
  <2> DEFINE r == hub[c].run
  <2>1. /\ Going(c) /\ ~Going(c)' /\ Keeps(c) /\ Busy(c) /\ hub'[c].run = r
    BY <1>5 DEF IsOver, Going, Keeps, Busy
  <2>2. \A i \in 1 .. Lag : watch.frames[i] # DoneOf(r)
    BY <1>0, <2>1 DEF StreamFine
  <2>3. CASE astray' /\ UNCHANGED watch
    <3>1. Lag' = Lag
      BY <2>3 DEF Lag
    <3>2. QED BY <1>0, <2>1, <2>2, <2>3, <3>1 DEF StreamFine
  <2>4. CASE Publish(c, DoneOf(r))
    <3> DEFINE f == DoneOf(r)
    <3>1. f \in Frames /\ IsDone(f)
      <4>1. r \in Runs /\ 0 \in 0 .. MaxParts
        BY <1>0, <2>1, Told
      <4>2. QED BY <4>1, FrameOf
    <3> HIDE DEF f, r
    <3>2. Publish(c, f)
      BY <2>4 DEF f
    <3>3. /\ watch'.at = watch.at
          /\ watch.at # "open" => watch' = watch /\ astray'
          /\ watch.at = "open" =>
                /\ Lag' = Lag + 1
                /\ \A i \in 1 .. Lag : watch'.frames[i] = watch.frames[i]
                /\ watch'.frames[Lag + 1] = f
      BY <3>1, <3>2, Heeded
    <3>4. CASE watch.at # "open"
      <4>1. astray' /\ UNCHANGED watch
        BY <3>3, <3>4
      <4>2. QED BY <2>3, <4>1
    <3>5. CASE watch.at = "open"
      <4>1. ASSUME NEW i \in 1 .. Lag', watch'.frames[i] = DoneOf(r) PROVE i = Lag'
        <5>1. i \in 1 .. Lag \/ i = Lag + 1
          BY <1>0, <3>3, <3>5
        <5>2. QED BY <2>2, <3>3, <3>5, <4>1, <5>1
      <4>2. PICK n \in 0 .. Lag' : n = Lag' /\ n # 0 /\ n = Lag + 1
        BY <1>0, <3>3, <3>5
      <4>3. IsDone(watch'.frames[n])
        BY <3>1, <3>3, <3>5, <4>2
      <4>4. \A i \in n + 1 .. Lag' : FALSE
        BY <1>0, <4>2
      <4>5. Follows(c, n)'
        BY <2>1, <4>2, <4>3, <4>4 DEF Follows
      <4>6. QED BY <1>0, <2>1, <3>3, <3>5, <4>1, <4>5 DEF StreamFine
    <3>6. QED BY <3>4, <3>5
  <2>5. CASE astray' = (astray \/ active = c) /\ UNCHANGED watch
    <3>1. astray'
      BY <2>5, Zenon
    <3>2. QED BY <2>3, <2>5, <3>1
  <2>6. QED BY <1>5, <2>4, <2>5 DEF IsOver
<1>6. QED BY <1>2, <1>3, <1>4, <1>5 DEF Turns

LEMMA Taken ==
    ASSUME WatchInv, watch.frames # <<>>, watch' = [watch EXCEPT !.frames = Tail(@)]
    PROVE  /\ Lag \in Nat /\ Lag >= 1 /\ Lag' = Lag - 1 /\ watch'.at = watch.at
           /\ \A i \in 1 .. Lag - 1 : i + 1 \in 1 .. Lag /\ watch'.frames[i] = watch.frames[i + 1]
           /\ Head(watch.frames) = watch.frames[1] /\ watch.frames[1] \in Frames
<1> DEFINE s == watch.frames
           t == Tail(s)
<1>1. s \in Seq(Frames) /\ s # <<>> /\ watch' = [watch EXCEPT !.frames = t]
  BY WatchFields
<1>2. [watch EXCEPT !.frames = t] = [at |-> watch.at, frames |-> t]
  BY WatchFields
<1>3. watch'.frames = t /\ watch'.at = watch.at
  BY <1>1, <1>2
<1> HIDE DEF s
<1>4. /\ Len(t) = Len(s) - 1 /\ Len(s) \in Nat /\ Len(s) >= 1
      /\ \A i \in 1 .. Len(s) - 1 : t[i] = s[i + 1]
      /\ Head(s) = s[1] /\ s[1] \in Frames
  BY <1>1
<1> HIDE DEF t
<1>5. \A i \in 1 .. Len(s) - 1 : i + 1 \in 1 .. Len(s)
  BY <1>4
<1>6. QED BY <1>3, <1>4, <1>5 DEF Lag, s

LEMMA StreamDelivers ==
    ASSUME AppInv, WatchInv, StreamShape, NEW c \in Convos, active = c, active' = c,
           UNCHANGED hub, watch.frames # <<>>, watch' = [watch EXCEPT !.frames = Tail(@)],
           ~astray' => ~astray \/ watch.frames[1] = DoneOf(hub[c].run)
    PROVE  StreamShape'
<1> DEFINE r == hub[c].run
           k == hub[c].parts
<1>1. /\ StreamFine(c) /\ watch.at = "open" /\ k \in Nat
  BY Wire, ConvosAssumption DEF StreamShape
<1>2. /\ Lag \in Nat /\ Lag >= 1 /\ Lag' = Lag - 1 /\ watch'.at = watch.at
      /\ \A i \in 1 .. Lag - 1 : i + 1 \in 1 .. Lag /\ watch'.frames[i] = watch.frames[i + 1]
  BY Taken
<1>3. hub'[c].run = r /\ hub'[c].parts = k /\ (Going(c)' <=> Going(c))
  BY DEF Going
<1>4. \A i \in 1 .. Lag : watch.frames[i] = DoneOf(r) => i = Lag /\ ~Going(c)
  BY <1>1 DEF StreamFine
<1>5. ASSUME NEW i \in 1 .. Lag', watch'.frames[i] = DoneOf(r) PROVE i = Lag' /\ ~Going(c)
  <2>1. i + 1 \in 1 .. Lag /\ watch.frames[i + 1] = DoneOf(r)
    BY <1>2, <1>5
  <2>2. i + 1 = Lag /\ ~Going(c)
    BY <1>4, <2>1
  <2>3. QED BY <1>2, <2>2
<1>6. ASSUME ~astray' PROVE \E n \in 0 .. Lag' : Follows(c, n)'
  <2>1. CASE watch.frames[1] = DoneOf(r)
    <3>1. Lag = 1 /\ ~Going(c)
      BY <1>2, <1>4, <2>1
    <3>2. PICK n \in 0 .. Lag' : n = 0 /\ Lag' = 0
      BY <1>2, <3>1
    <3>3. Follows(c, n)'
      BY <1>1, <1>3, <3>1, <3>2 DEF Follows
    <3>4. QED BY <3>3
  <2>2. CASE ~astray
    <3>1. PICK n \in 0 .. Lag : Follows(c, n)
      BY <1>1, <2>2 DEF StreamFine
    <3>2. n \in Nat
      BY <1>2
    <3>3. /\ \A i \in n + 1 .. Lag : watch.frames[i] = [run |-> r, part |-> k + i - Lag]
          /\ n = 0 => Lag <= k + 1
          /\ n # 0 => IsDone(watch.frames[n])
          /\ n # 0 /\ Going(c) => Lag = n + k + 1
          /\ ~Going(c) => n = Lag
      BY <3>1 DEF Follows
    <3>4. PICK m \in 0 .. Lag' : m = IF n = 0 THEN 0 ELSE n - 1
      BY <1>2, <3>2
    <3> HIDE DEF r, k
    <3>5. ASSUME NEW i \in m + 1 .. Lag'
          PROVE  watch'.frames[i] = [run |-> r, part |-> k + i - Lag']
      <4>1. /\ i + 1 \in n + 1 .. Lag /\ i \in 1 .. Lag - 1
            /\ k + (i + 1) - Lag = k + i - Lag'
        BY <1>1, <1>2, <3>2, <3>4 DEF k
      <4>2. watch'.frames[i] = watch.frames[i + 1]
        BY <1>2, <4>1
      <4>3. watch.frames[i + 1] = [run |-> r, part |-> k + (i + 1) - Lag]
        BY <3>3, <4>1
      <4>4. QED BY <4>1, <4>2, <4>3
    <3>6. m # 0 => IsDone(watch'.frames[m])
      <4>1. m # 0 => m \in 1 .. Lag - 1 /\ m + 1 = n
        BY <1>2, <3>2, <3>4
      <4>2. QED BY <1>2, <3>2, <3>3, <3>4, <4>1
    <3>7. /\ m = 0 => Lag' <= k + 1
          /\ m # 0 /\ Going(c) => Lag' = m + k + 1
          /\ ~Going(c) => m = Lag'
      <4>1. CASE n = 0
        BY <1>1, <1>2, <3>2, <3>3, <3>4, <4>1 DEF k
      <4>2. CASE n # 0 /\ Going(c)
        <5>1. m = n - 1 /\ Lag = n + k + 1 /\ Lag' = Lag - 1 /\ k \in Nat
          BY <1>1, <1>2, <3>3, <3>4, <4>2 DEF k
        <5>2. QED BY <3>2, <4>2, <5>1
      <4>3. CASE n # 0 /\ ~Going(c)
        <5>1. m = n - 1 /\ n = Lag /\ Lag' = Lag - 1 /\ k \in Nat
          BY <1>1, <1>2, <3>3, <3>4, <4>3 DEF k
        <5>2. QED BY <3>2, <4>3, <5>1
      <4>4. QED BY <4>1, <4>2, <4>3
    <3>8. Follows(c, m)'
      BY <1>3, <3>5, <3>6, <3>7 DEF Follows
    <3>9. QED BY <3>8
  <2>3. QED BY <1>6, <2>1, <2>2
<1>7. StreamFine(c)'
  BY <1>3, <1>5, <1>6 DEF StreamFine
<1>8. QED BY <1>1, <1>2, <1>7 DEF StreamShape

(* The stream opens, with the replay. *)
LEMMA StreamOpens ==
    ASSUME AppInv, NEW c \in Convos, active' = c, UNCHANGED hub,
           watch' = [at |-> "open", frames |-> Buffer(c)]
    PROVE  StreamShape'
<1> DEFINE r == hub[c].run
           k == hub[c].parts
           s == Buffer(c)
<1>1. /\ s \in Seq(Frames) /\ Len(s) \in Nat
      /\ hub[c].phase = "idle" => s = <<>>
      /\ Busy(c) => \A i \in 1 .. k + 1 : s[i] = [run |-> r, part |-> i - 1]
      /\ Going(c) => Len(s) = k + 1
      /\ hub[c].phase = "closing" => Len(s) = k + 2 /\ s[k + 2] = DoneOf(r)
  BY ReplayIs
<1>2. k \in 0 .. MaxParts /\ MaxParts \in Nat /\ hub[c].phase \in Phases
  BY BoundsAssumption DEF AppInv, AppTyped, Hubs
<1>3. k \in Nat
  BY <1>2
<1> HIDE DEF s
<1>4. watch'.at = "open" /\ watch'.frames = s /\ Lag' = Len(s)
  BY DEF Lag, s
<1>5. hub'[c].run = r /\ hub'[c].parts = k /\ (Going(c)' <=> Going(c))
  BY DEF Going
<1> HIDE DEF r, k
<1>6. Busy(c) => /\ r \in Runs
                 /\ \A i \in 1 .. k + 1 : s[i] # DoneOf(r)
                 /\ IsDone(DoneOf(r))
  <2> SUFFICES ASSUME Busy(c)
               PROVE  r \in Runs /\ IsDone(DoneOf(r)) /\ \A i \in 1 .. k + 1 : s[i] # DoneOf(r)
    OBVIOUS
  <2>1. r \in Runs
    BY Told DEF r
  <2>2. 0 \in 0 .. MaxParts
    BY <1>2
  <2>3. \A i \in 1 .. k + 1 : i - 1 \in 0 .. MaxParts
    BY <1>2, <1>3
  <2>4. \A i \in 1 .. k + 1 : [run |-> r, part |-> i - 1] # DoneOf(r)
    BY <2>1, <2>3, FrameOf
  <2>5. QED BY <1>1, <2>1, <2>2, <2>4, FrameOf
<1>7. CASE hub[c].phase = "idle"
  <2>1. ~Going(c) /\ Lag' = 0
    BY <1>1, <1>4, <1>7 DEF Going
  <2>2. PICK n \in 0 .. Lag' : n = 0
    BY <2>1
  <2>3. Follows(c, n)'
    BY <1>3, <1>5, <2>1, <2>2 DEF Follows
  <2>4. QED BY <1>4, <2>1, <2>3 DEF StreamShape, StreamFine
<1>8. CASE Going(c)
  <2>1. Busy(c) /\ Lag' = k + 1
    BY <1>1, <1>4, <1>8 DEF Going, Busy
  <2>2. PICK n \in 0 .. Lag' : n = 0
    BY <1>3, <2>1
  <2>3. ASSUME NEW i \in 1 .. k + 1 PROVE s[i] = [run |-> r, part |-> k + i - (k + 1)]
    <3>1. k + i - (k + 1) = i - 1
      BY <1>3
    <3>2. QED BY <1>1, <2>1, <3>1
  <2>4. Follows(c, n)'
    BY <1>4, <1>5, <1>8, <2>1, <2>2, <2>3 DEF Follows
  <2>5. QED BY <1>4, <1>5, <1>6, <2>1, <2>4 DEF StreamShape, StreamFine
<1>9. CASE hub[c].phase = "closing"
  <2>1. Busy(c) /\ ~Going(c) /\ Lag' = k + 2 /\ s[k + 2] = DoneOf(r)
    BY <1>1, <1>4, <1>9 DEF Going, Busy
  <2>2. PICK n \in 0 .. Lag' : n = k + 2 /\ n # 0
    BY <1>3, <2>1
  <2>3. \A i \in n + 1 .. Lag' : FALSE
    BY <1>3, <2>1, <2>2
  <2>4. Follows(c, n)'
    BY <1>4, <1>5, <1>6, <2>1, <2>2, <2>3 DEF Follows
  <2>5. ASSUME NEW i \in 1 .. Lag', s[i] = DoneOf(r) PROVE i = Lag'
    <3>1. i \in 1 .. k + 1 \/ i = Lag'
      BY <1>3, <2>1
    <3>2. QED BY <1>6, <2>1, <2>5, <3>1
  <2>6. QED BY <1>4, <1>5, <2>1, <2>4, <2>5 DEF StreamShape, StreamFine
<1>10. QED BY <1>2, <1>7, <1>8, <1>9 DEF Phases, Going

LEMMA AppShapeStep ==
    ASSUME IInv, AppShape, [Next]_vars PROVE AppShape'
<1>0. /\ AppInv /\ AppInv' /\ astray \in BOOLEAN /\ asks \in Seq(Runs) /\ asks' \in Seq(Runs)
      /\ bodies \subseteq Runs \X Convos
      /\ \A c \in Convos : FileShape(c)
      /\ \A d \in bodies : BodyShape(d)
  BY AppStep DEF IInv, AppInv, AppTyped, AppShape
<1>1. ASSUME NEW c \in Convos, OnlyTurn(c), StoreKeeps,
             \/ bodies' \subseteq bodies /\ asks' = asks
             \/ \E x \in Convos : \E q : Claim(x, q)
      PROVE  AppShape'
  <2>1. \A x \in Convos : Rests(x) \/ Turns(x)
    BY <1>1, TurnOf
  <2>2. \A x \in Convos : FileShape(x)'
    BY <1>0, <1>1, <2>1, FileStep
  <2>3. ASSUME NEW d \in bodies, d \in bodies', Len(asks') >= Len(asks) PROVE BodyShape(d)'
    BY <1>0, <2>1, <2>3, BodyStep
  <2>4. CASE bodies' \subseteq bodies /\ asks' = asks
    <3>1. Len(asks') >= Len(asks)
      BY <1>0, <2>4
    <3>2. QED BY <2>2, <2>3, <2>4, <3>1 DEF AppShape
  <2>5. ASSUME NEW x \in Convos, NEW q, Claim(x, q) PROVE AppShape'
    <3>0. PICK r \in Nat : r = Len(asks) + 1
      BY <1>0
    <3> DEFINE h == [run |-> r, phase |-> "claimed", parts |-> 0, stopping |-> FALSE]
    <3>1. /\ hub' = [hub EXCEPT ![x] = h] /\ hub \in [Convos -> Hubs]
          /\ bodies' = bodies \cup {<<r, x>>} /\ asks' = Append(asks, q)
      BY <1>0, <2>5, <3>0 DEF Claim, AppInv, AppTyped
    <3>2. Len(asks') = r /\ r \in 1 .. Len(asks') /\ Len(asks') >= Len(asks)
      BY <1>0, <3>0, <3>1
    <3>3. hub'[x].phase = "claimed"
      BY <3>1
    <3>4. BodyShape(<<r, x>>)'
      <4>1. <<r, x>>[1] = r /\ <<r, x>>[2] = x
        OBVIOUS
      <4>2. QED BY <3>2, <3>3, <4>1 DEF BodyShape
    <3>5. ASSUME NEW d \in bodies' PROVE BodyShape(d)'
      <4>1. CASE d \in bodies
        BY <2>3, <3>2, <3>5, <4>1
      <4>2. CASE d = <<r, x>>
        BY <3>4, <4>2
      <4>3. QED BY <3>1, <3>5, <4>1, <4>2
    <3>6. QED BY <2>2, <3>5 DEF AppShape
  <2>6. QED BY <1>1, <2>4, <2>5
<1>2. CASE ByTheApp
  <2>1. PICK c \in Convos : OnlyTurn(c)
    BY <1>2, AppActs
  <2>2. StoreKeeps
    BY <1>2, AppActs
  <2>3. \/ bodies' \subseteq bodies /\ asks' = asks
        \/ \E x \in Convos : \E q : Claim(x, q)
    <3>1. CASE \E b \in bodies : BodyStarts(b[1], b[2]) \/ NeverStarts(b[1], b[2])
      BY <3>1 DEF BodyStarts, NeverStarts
    <3>2. CASE \E x \in Convos : OtherSends(x)
      BY <3>2 DEF OtherSends
    <3>3. CASE PostArrives \/ PostFails
      <4>1. post.conv \in Convos
        BY <3>3 DEF PostArrives, PostFails, IInv, PostInv
      <4>2. QED BY <3>3, <4>1 DEF PostArrives, PostFails, app
    <3>4. ASSUME NEW x \in Convos,
                 \/ Driver(x) \/ ExpireUnstarted(x) \/ Checkpoint(x) \/ DropRound(x)
                 \/ Cancelled(x) \/ Cut(x) \/ OtherStops(x) \/ OtherDeletes(x)
                 \/ SendCreates(x) \/ Delete(x)
          PROVE  bodies' = bodies /\ asks' = asks
      BY <3>4 DEF Driver, Speak, ToolsDone, Finish, End, CutEnds, ExpireUnstarted, Checkpoint,
                  DropRound, Cancelled, Cut, OtherStops, OtherDeletes, SendCreates, Delete
    <3>5. QED BY <1>2, <3>1, <3>2, <3>3, <3>4 DEF ByTheApp
  <2>4. QED BY <1>1, <2>1, <2>2, <2>3
<1>3. CASE Stop
  <2>1. /\ active \in Convos /\ Stopped(active) /\ UNCHANGED <<stored, saved, bodies, asks>>
    BY <1>3 DEF Stop, IInv, WatchInv
  <2>2. PICK c \in Convos : OnlyTurn(c)
    BY <1>0, <2>1, StopTurn
  <2>3. StoreKeeps
    BY <2>1 DEF StoreKeeps
  <2>4. QED BY <1>1, <2>1, <2>2, <2>3
<1>4. CASE RestartApp
  <2>1. bodies' = {} /\ \A c \in Convos : hub'[c].phase = "idle"
    <3>1. hub' = [c \in Convos |-> Freed(hub[c])] /\ bodies' = {}
      BY <1>4 DEF RestartApp
    <3>2. \A c \in Convos : Freed(hub[c]).phase = "idle"
      BY <1>0, FieldsOf DEF Phases, InPhase
    <3>3. QED BY <3>1, <3>2
  <2>2. QED BY <2>1 DEF AppShape, FileShape, Busy
<1>5. ASSUME UNCHANGED <<saved, hub, bodies, asks>>, \A c \in stored : c \in stored' \/ ~Busy(c)
      PROVE  AppShape'
  <2>1. ASSUME NEW c \in Convos PROVE FileShape(c)'
    <3>1. FileShape(c)
      BY <1>0
    <3>2. (Busy(c)' <=> Busy(c)) /\ Tails(c)' = Tails(c) /\ \A t : Tells(c, t)' = Tells(c, t)
      BY <1>5 DEF Busy, Tails, Tells, Asking
    <3>3. QED BY <1>5, <3>1, <3>2 DEF FileShape
  <2>2. ASSUME NEW d \in bodies PROVE BodyShape(d)'
    <3>1. BodyShape(d)
      BY <1>0
    <3>2. QED BY <1>5, <3>1 DEF BodyShape
  <2>3. QED BY <1>5, <2>1, <2>2 DEF AppShape
<1>6. ASSUME NEW c \in Convos, NewConvo(c) PROVE AppShape'
  BY <1>5, <1>6 DEF NewConvo, Makes
<1>7. ASSUME NEW c \in Convos, Delete(c) PROVE AppShape'
  BY <1>5, <1>7 DEF Delete
<1>8. CASE \/ \E c \in Convos : DropHub(c) \/ Open(c)
           \/ BreakWatch \/ Leave \/ Apply \/ WatchEnters \/ Subscribe \/ Deliver
           \/ CreatedForSend \/ SendEnds \/ Send \/ UNCHANGED vars
  <2>1. UNCHANGED <<stored, saved, hub, bodies, asks>>
    BY <1>8 DEF DropHub, Open, BreakWatch, Leave, Apply, WatchEnters, Subscribe, Deliver,
                CreatedForSend, SendEnds, Send, vars, app
  <2>2. QED BY <1>5, <2>1
<1>9. QED
  BY <1>2, <1>3, <1>4, <1>6, <1>7, <1>8 DEF Next, App, Body, Page, ByTheApp

(* A stream that moves with its conversation, or is asked for anew. *)
LEMMA StreamActivates ==
    ASSUME AppInv, AppInv', WatchInv, StreamShape, NEW c \in Convos, Activate(c), UNCHANGED hub,
           active = c => (astray => astray')
    PROVE  StreamShape'
<1>1. active' = c
  BY DEF Activate
<1>2. CASE active = c
  <2>1. UNCHANGED watch /\ StreamFine(c) /\ (watch.at # "open" => watch.frames = <<>>)
    BY <1>2, ConvosAssumption DEF Activate, StreamShape
  <2>2. Keeps(c) /\ (Going(c)' <=> Going(c))
    BY DEF Keeps, Going
  <2>3. StreamFine(c)'
    BY <1>2, <2>1, <2>2, StreamStays
  <2>4. QED BY <1>1, <2>1, <2>3 DEF StreamShape
<1>3. CASE active # c
  <2>1. watch' = [at |-> "asked", frames |-> <<>>]
    BY <1>3 DEF Activate
  <2>2. watch'.at = "asked" /\ watch'.frames = <<>>
    BY <2>1
  <2>3. QED BY <1>1, <2>2, StreamEmpty
<1>4. QED BY <1>2, <1>3

LEMMA StreamStep ==
    ASSUME IInv, AppShape, StreamShape, [Next]_vars PROVE StreamShape'
<1>0. AppInv /\ AppInv' /\ WatchInv /\ PostInv /\ astray \in BOOLEAN
  BY AppStep DEF IInv
<1>00. /\ watch.at # "open" => watch.frames = <<>>
       /\ active # NoConvo => active \in Convos /\ StreamFine(active)
       /\ active = NoConvo => watch.at = "none" /\ watch.frames = <<>>
  BY <1>0, WatchFields DEF StreamShape
<1> USE <1>0
<1>1. ASSUME NEW c \in Convos, OnlyTurn(c), active' = active PROVE StreamShape'
  <2>1. CASE active = NoConvo
    <3>1. c # active
      BY <2>1, ConvosAssumption
    <3>2. watch' = watch
      <4>1. CASE Rests(c) /\ Silent
        BY <4>1 DEF Silent
      <4>2. CASE Turns(c)
        <5>1. \A f : ~Hears(c)
          BY <3>1 DEF Hears
        <5>2. QED BY <4>2, <5>1 DEF Turns, IsClaimed, Speaks, GoesOn, IsOver, IsFreed, Publish,
                                    Silent
      <4>3. QED BY <1>1, <4>1, <4>2 DEF OnlyTurn
    <3>3. QED BY <1>00, <1>1, <2>1, <3>2, StreamClosed
  <2>2. CASE active # NoConvo
    <3>1. active \in Convos
      BY <1>00, <2>2
    <3>2. Turns(active) \/ (Rests(active) /\ Silent)
      BY <1>1, <3>1 DEF OnlyTurn
    <3>3. QED BY <1>1, <3>1, <3>2, StreamTurns
  <2>3. QED BY <2>1, <2>2
<1>2. CASE ByTheApp
  BY <1>1, <1>2, AppActs DEF StaysPut
<1>3. CASE Stop
  <2>1. active \in Convos /\ Stopped(active) /\ saved' = saved /\ active' = active
    BY <1>00, <1>3 DEF Stop, page
  <2>2. QED BY <1>1, <2>1, StopTurn
<1>4. ASSUME UNCHANGED <<hub, watch, active>>, astray => astray' PROVE StreamShape'
  <2>1. CASE active = NoConvo
    BY <1>00, <1>4, <2>1, StreamClosed
  <2>2. CASE active # NoConvo
    <3>1. PICK c \in Convos : c = active
      BY <1>00, <2>2
    <3>2. Keeps(c) /\ (Going(c)' <=> Going(c))
      BY <1>4 DEF Keeps, Going
    <3>3. StreamFine(c)'
      BY <1>00, <1>4, <2>2, <3>1, <3>2, StreamStays
    <3>4. QED BY <1>00, <1>4, <3>1, <3>3 DEF StreamShape
  <2>3. QED BY <2>1, <2>2
<1>5. CASE Apply \/ Send \/ SendEnds \/ UNCHANGED vars
  <2>1. UNCHANGED <<hub, watch, active>>
    BY <1>5 DEF Apply, Send, SendEnds, vars, page, app
  <2>2. astray => astray'
    BY <1>5, Zenon DEF Apply, Send, SendEnds, vars
  <2>3. QED BY <1>4, <2>1, <2>2
<1>6. ASSUME NEW c \in Convos, Open(c) PROVE StreamShape'
  <2>1. Activate(c) /\ hub' = hub
    BY <1>6 DEF Open, app
  <2>2. active = c => (astray => astray')
    BY <1>6, Zenon DEF Open
  <2>3. QED BY <2>1, <2>2, StreamActivates
<1>7. ASSUME NEW c \in Convos, NewConvo(c) PROVE StreamShape'
  <2>1. Activate(c) /\ hub' = hub /\ c \notin stored /\ saved[c] = <<>> /\ active' = c
    BY <1>7 DEF NewConvo, Makes, Activate
  <2>2. CASE active = c
    <3>1. watch' = watch
      BY <2>1, <2>2 DEF Activate
    <3>2. watch.frames = <<>>
      <4>1. /\ watch.frames \in Seq(Frames) /\ Lag \in Nat
            /\ \A i \in 1 .. Lag : watch.frames[i].run \in 1 .. Len(asks)
            /\ OwnOnly(watch.frames, c)
        BY <2>2, Wire, WatchFields, ConvosAssumption
      <4> DEFINE s == watch.frames
      <4> HIDE DEF s
      <4>2. s \in Seq(Frames) /\ OwnOnly(s, c)
        BY <4>1 DEF s
      <4>3. ASSUME s # <<>> PROVE FALSE
        <5>1. s[1] \in Frames /\ s[1] \in Range(s)
          <6>1. 1 \in 1 .. Len(s)
            BY <4>2, <4>3
          <6>2. QED BY <4>2, <6>1, Elements
        <5>2. User(s[1].run) \in Range(saved[c])
          BY <4>2, <5>1 DEF OwnOnly, Of, Frames, Runs
        <5>3. Range(saved[c]) = {}
          BY <2>1 DEF Range
        <5>4. QED BY <5>2, <5>3
      <4>4. QED BY <4>3 DEF s
    <3>3. ~Going(c)'
      <4>1. ~Busy(c)
        BY <2>1 DEF AppShape, FileShape
      <4>2. QED BY <2>1, <4>1 DEF Busy, Going
    <3>4. QED BY <2>1, <3>1, <3>2, <3>3, StreamEmpty
  <2>3. QED BY <2>1, <2>2, StreamActivates
<1>8. ASSUME NEW c \in Convos, Delete(c), active = c PROVE StreamShape'
  <2>1. /\ hub' = hub /\ stored' = stored \ {c}
        /\ \/ \E d \in stored' : Activate(d)
           \/ active' = NoConvo /\ watch' = NoWatch
    BY <1>8 DEF Delete
  <2>2. CASE active' = NoConvo /\ watch' = NoWatch
    BY <2>2, StreamClosed DEF NoWatch
  <2>3. ASSUME NEW d \in stored', Activate(d) PROVE StreamShape'
    <3>1. d \in Convos /\ active # d
      BY <1>8, <2>1, <2>3 DEF AppInv, AppTyped
    <3>2. QED BY <2>1, <2>3, <3>1, StreamActivates
  <2>4. QED BY <2>1, <2>2, <2>3
<1>9. CASE CreatedForSend
  <2>1. Activate(post.conv) /\ hub' = hub /\ post.conv \in Convos
    BY <1>9 DEF CreatedForSend, app, PostInv
  <2>2. active = post.conv => astray'
    BY <1>9, <2>1, ConvosAssumption DEF CreatedForSend
  <2>3. QED BY <2>1, <2>2, StreamActivates
<1>10. CASE Leave
  BY <1>10, StreamClosed DEF Leave, NoWatch
<1>11. ASSUME active # NoConvo, active' = active, watch'.at # "open", watch'.frames = <<>>
       PROVE  StreamShape'
  BY <1>00, <1>11, StreamEmpty
<1>12. CASE BreakWatch
  <2>1. active # NoConvo
    BY <1>00, <1>12 DEF BreakWatch
  <2>2. QED BY <1>11, <1>12, <2>1 DEF BreakWatch
<1>13. CASE RestartApp
  <2>1. CASE watch.at = "none"
    <3>1. watch' = watch /\ watch.frames = <<>> /\ active' = active
      BY <1>00, <1>13, <2>1 DEF RestartApp
    <3>2. CASE active = NoConvo
      BY <3>1, <3>2, StreamClosed
    <3>3. CASE active # NoConvo
      BY <1>11, <2>1, <3>1, <3>3
    <3>4. QED BY <3>2, <3>3
  <2>2. CASE watch.at # "none"
    <3>1. /\ active # NoConvo /\ active' = active
          /\ watch' = [at |-> "asked", frames |-> <<>>]
      BY <1>00, <1>13, <2>2 DEF RestartApp
    <3>2. QED BY <1>11, <3>1
  <2>3. QED BY <2>1, <2>2
<1>14. CASE (\E c \in Convos : DropHub(c)) \/ WatchEnters
  <2>1. /\ active # NoConvo /\ active' = active /\ watch.frames = <<>>
        /\ \E a \in {"entered", "outlived"} : watch' = [watch EXCEPT !.at = a]
    BY <1>00, <1>14 DEF DropHub, WatchEnters, page
  <2>2. PICK a \in {"entered", "outlived"} : watch' = [at |-> a, frames |-> watch.frames]
    BY <2>1, WatchFields DEF Ats
  <2>3. QED BY <1>11, <2>1, <2>2
<1>15. CASE Subscribe
  <2>1. active # NoConvo /\ active \in Convos /\ active' = active /\ hub' = hub
    BY <1>00, <1>15 DEF Subscribe, page, app
  <2>2. CASE watch.at = "entered"
    <3>1. watch' = [at |-> "open", frames |-> Buffer(active)]
      BY <1>15, <2>2 DEF Subscribe
    <3>2. QED BY <2>1, <3>1, StreamOpens
  <2>3. CASE watch.at = "outlived"
    <3>1. watch' = [at |-> "deaf", frames |-> <<>>]
      BY <1>00, <1>15, <2>3, WatchFields DEF Subscribe, Ats
    <3>2. QED BY <1>11, <2>1, <3>1
  <2>4. QED BY <1>15, <2>2, <2>3 DEF Subscribe
<1>16. CASE Deliver
  <2> DEFINE f == watch.frames[1]
  <2>1. /\ active # NoConvo /\ active \in Convos /\ active' = active /\ hub' = hub
        /\ watch.frames # <<>> /\ watch' = [watch EXCEPT !.frames = Tail(@)]
    BY <1>00, <1>16 DEF Deliver, app
  <2>2. Head(watch.frames) = f /\ f \in Frames
    BY <2>1, Taken
  <2>3. ~astray' => ~astray \/ f = DoneOf(hub[active].run)
    <3>1. CASE ~IsDone(f)
      <4>1. astray => astray'
        BY <1>16, <2>2, <3>1, Zenon DEF Deliver
      <4>2. QED BY <4>1
    <3>2. CASE IsDone(f)
      <4>1. f = DoneOf(f.run)
        BY <2>2, <3>2 DEF Frames, IsDone, DoneOf
      <4> HIDE DEF f
      <4>2. ~astray' => ~astray \/ f.run = hub[active].run
        BY <1>16, <2>2, <3>2, Zenon DEF Deliver
      <4>3. QED BY <4>1, <4>2
    <3>3. QED BY <3>1, <3>2
  <2>4. QED BY <2>1, <2>3, StreamDelivers
<1>17. QED
  BY <1>2, <1>3, <1>5, <1>6, <1>7, <1>8, <1>9, <1>10, <1>12, <1>13, <1>14, <1>15, <1>16
     DEF Next, App, Body, Page, ByTheApp

(* What an answer brings. *)
LEMMA AnswerShapeStep ==
    ASSUME IInv, AnswerShape, [Next]_vars PROVE AnswerShape'
<1>0. AppInv
  BY DEF IInv
<1>1. ASSUME NEW to, NEW c \in Convos, answer' = Get(to, c) PROVE AnswerShape'
  <2>1. saved[c] \in Seq(Entries) /\ SavedOf(saved[c])
    BY <1>0 DEF AppInv, AppTyped, SavedKnows
  <2>2. DOMAIN saved[c] = 1 .. Len(saved[c]) /\ Len(saved[c]) \in Nat
    BY <2>1, Elements
  <2>3. \A i \in 1 .. Len(saved[c]) : saved[c][i].run # 0
    <3>1. asks \in Seq(Runs)
      BY <1>0 DEF AppInv, AppTyped
    <3>2. Len(asks) \in Nat
      BY <3>1
    <3>3. QED BY <2>1, <2>2, <3>2 DEF SavedOf
  <2>4. answer'.msgs = IF c \in stored THEN saved[c] ELSE <<>>
    BY <1>1 DEF Get
  <2>5. QED BY <2>3, <2>4 DEF AnswerShape
<1>2. CASE answer' = Nothing
  BY <1>2 DEF Nothing, AnswerShape
<1>3. CASE UNCHANGED answer
  BY <1>3 DEF AnswerShape
<1>4. active \in Convos \cup {NoConvo} /\ stored \subseteq Convos
  BY <1>0 DEF IInv, WatchInv, AppInv, AppTyped
<1>5. CASE Deliver
  <2>1. active # NoConvo
    BY <1>5, WatchFields DEF Deliver, IInv
  <2>2. UNCHANGED answer \/ answer' = Get("refresh", active)
    BY <1>5 DEF Deliver, Refreshes
  <2>3. QED BY <1>1, <1>3, <1>4, <2>1, <2>2
<1>10. CASE Stop
  <2>1. answer'.msgs = <<>>
    BY <1>10 DEF Stop, Nothing
  <2>2. QED BY <2>1 DEF AnswerShape
<1>6. ASSUME NEW c \in Convos, Open(c) \/ NewConvo(c) \/ Delete(c) PROVE AnswerShape'
  <2>1. CASE Delete(c)
    <3>1. UNCHANGED answer \/ \E d \in stored \ {c} : answer' = Get("open", d)
      BY <2>1 DEF Delete
    <3>2. QED BY <1>1, <1>3, <1>4, <3>1
  <2>2. QED BY <1>1, <1>6, <2>1 DEF Open, NewConvo
<1>7. CASE Apply \/ Leave
  <2>1. CASE answer' = Get("refresh", active) /\ active # NoConvo
    BY <1>1, <1>4, <2>1
  <2>2. answer.to # "none" => answer.conv # NoConvo
    BY ConvosAssumption DEF IInv, AnswerInv
  <2>3. QED BY <1>2, <1>7, <2>1, <2>2 DEF Apply, Leave
<1>8. CASE \/ ByTheApp \/ \E c \in Convos : DropHub(c)
           \/ RestartApp \/ BreakWatch \/ WatchEnters \/ Subscribe \/ CreatedForSend
           \/ SendEnds \/ Send \/ UNCHANGED vars
  <2>1. UNCHANGED answer
    BY <1>8 DEF ByTheApp, BodyStarts, NeverStarts, Driver, Speak, ToolsDone, Finish, End, CutEnds,
                ExpireUnstarted, Checkpoint, DropRound, Cancelled, Cut, OtherSends, OtherStops, OtherDeletes,
                DropHub, SendCreates, RestartApp, BreakWatch, WatchEnters, Subscribe,
                CreatedForSend, PostArrives, SendEnds, Send, PostFails, Delete, vars, requests
  <2>2. QED BY <1>3, <2>1
<1>9. QED
  BY <1>5, <1>6, <1>7, <1>8, <1>10 DEF Next, App, Body, Page, ByTheApp

-----------------------------------------------------------------------------
(* The screen.  What it showed it goes on showing, as long as it awaits the  *)
(* same and has heard of the run as much as before.                         *)
AwaitsOn(c) == (Awaits(c)' <=> Awaits(c)) /\ (Awaits(c) => answer' = answer)

LEMMA ShowsKept ==
    ASSUME NEW c \in Convos, Shows(c), UNCHANGED screen, AwaitsOn(c), Going(c)' <=> Going(c),
           hub[c].parts \in Nat, hub'[c].parts \in Nat,
           Going(c) => /\ hub'[c].run = hub[c].run /\ Base(c)' = Base(c)
                       /\ hub'[c].parts >= hub[c].parts /\ (Heard(c)' <=> Heard(c))
                       /\ Heard(c) => hub'[c].parts - Lag' = hub[c].parts - Lag,
           Settled(c)' => Settled(c) /\ saved'[c] = saved[c]
    PROVE  Shows(c)'
<1>1. (Awaits(c)' <=> Awaits(c)) /\ (Awaits(c) => answer' = answer)
  BY DEF AwaitsOn
<1>2. ASSUME NEW m, Begins(c, m)
      PROVE  (Going(c) /\ ~Heard(c))' => m = Base(c)' \/ \E t \in Tails(c)' : m = Tells(c, t)'
  <2> SUFFICES ASSUME Going(c), ~Heard(c)
               PROVE  m = Base(c)' \/ \E t \in Tails(c)' : m = Tells(c, t)'
    OBVIOUS
  <2>1. \A t : Tells(c, t)' = Tells(c, t)
    BY DEF Tells, Asking, Base
  <2>2. \A t \in Tails(c) : t \in Tails(c)'
    BY TailGrows
  <2>3. QED BY <1>2, <2>1, <2>2 DEF Begins
<1>3. ASSUME NEW m, Begins(c, m), m' = m PROVE Begins(c, m)'
  BY <1>2, <1>3 DEF Begins
<1>4. ~Awaits(c) => Begins(c, screen.messages)'
  BY <1>3 DEF Shows
<1>5. Awaits(c) /\ answer.to = "open" /\ screen = Blank => Begins(c, answer.msgs)'
  BY <1>1, <1>3 DEF Shows
<1>6. (Going(c) /\ Heard(c))' => Going(c) /\ Heard(c)
  OBVIOUS
<1>7. QED BY <1>1, <1>4, <1>5, <1>6 DEF Shows

(* The file of a conversation is what an answer about it brings. *)
LEMMA FileBegins ==
    ASSUME NEW c \in Convos, FileShape(c)' PROVE Begins(c, saved[c])'
  BY DEF Begins, FileShape, Busy, Going

(* A run is claimed: all that was said comes before it. *)
LEMMA ShowsClaimed ==
    ASSUME AppInv, WatchInv, NEW c \in Convos, active = c, IsClaimed(c), Shows(c),
           UNCHANGED screen, AwaitsOn(c)
    PROVE  Shows(c)'
<1>1. Settled(c) /\ Going(c)' /\ ~Settled(c)' /\ Base(c)' = saved[c]
  BY BaseClaimed DEF IsClaimed, Settled, Going, Busy
<1>2. ~Heard(c)'
  <2>1. /\ Lag \in Nat /\ hub'[c].parts = 0 /\ Publish(c, User(Len(asks) + 1))
    BY Wire DEF IsClaimed
  <2>2. User(Len(asks) + 1) \in Frames
    <3>1. asks \in Seq(Runs) /\ MaxParts \in Nat
      BY BoundsAssumption DEF AppInv, AppTyped
    <3>2. Len(asks) + 1 \in Runs /\ 0 \in 0 .. MaxParts
      BY <3>1 DEF Runs
    <3>3. QED BY <3>2, FrameOf DEF User
  <2>3. watch'.at = watch.at /\ (watch.at = "open" => Lag' = Lag + 1)
    BY <2>1, <2>2, Heeded
  <2>4. QED BY <2>1, <2>3 DEF Heard
<1>3. /\ (Awaits(c)' <=> Awaits(c)) /\ (Awaits(c) => answer' = answer)
      /\ \A m : Begins(c, m) => m = saved[c]
  BY <1>1 DEF AwaitsOn, Begins
<1>4. \A m : m = Base(c)' => m = saved[c]
  BY <1>1
<1>5. /\ ~Awaits(c) => screen'.messages = Base(c)'
      /\ Awaits(c) /\ answer.to = "open" /\ screen = Blank => answer'.msgs = Base(c)'
  BY <1>1, <1>3 DEF Shows
<1>6. QED BY <1>1, <1>2, <1>3, <1>5 DEF Shows, Begins

(* A "done" on its way, or missed. *)
LEMMA DoneVoids ==
    ASSUME WatchInv, NEW c \in Convos, active = c, NEW f \in Frames, IsDone(f), Lag \in Nat,
           Publish(c, f)
    PROVE  ~Required(c)'
<1>1. CASE watch.at = "open"
  <2>1. Lag' = Lag + 1 /\ watch'.frames[Lag + 1] = f
    BY <1>1, Heeded
  <2>2. Lag + 1 \in 1 .. Lag'
    BY <2>1
  <2>3. ~NoDone'
    BY <2>1, <2>2 DEF NoDone
  <2>4. QED BY <2>3 DEF Required
<1>2. CASE watch.at # "open"
  BY <1>2, Heeded DEF Required
<1>3. QED BY <1>1, <1>2

(* A turn of the run, of which the page may hear. *)
LEMMA ShowsTurn ==
    ASSUME AppInv, AppInv', WatchInv, AppShape, ScreenShape, astray \in BOOLEAN,
           NEW c \in Convos, active = c, Turns(c) \/ (Rests(c) /\ Silent),
           UNCHANGED screen, AwaitsOn(c), Sending(c)' <=> Sending(c), StoreKeeps, Required(c)'
    PROVE  Shows(c)'
<1>0. /\ Lag \in Nat /\ hub[c].parts \in Nat /\ hub'[c].parts \in Nat
      /\ FileShape(c)
      /\ hub[c].phase \in Phases
  <2>1. hub'[c].parts \in 0 .. MaxParts /\ MaxParts \in Nat
    BY BoundsAssumption DEF AppInv, AppTyped, Hubs
  <2>2. hub[c].phase \in Phases
    BY DEF AppInv, AppTyped, Hubs
  <2>3. QED BY <2>1, <2>2, Wire DEF AppShape
<1>1. ASSUME Knows(c), ~astray, NoDone PROVE Shows(c)
  <2>1. Required(c)
    BY <1>1 DEF Required
  <2>2. QED BY <2>1, ConvosAssumption DEF ScreenShape
<1>2. CASE Rests(c) /\ Silent
  <2>1. Lag' = Lag /\ watch' = watch /\ Keeps(c) /\ hub'[c].phase = hub[c].phase
        /\ saved'[c] = saved[c] /\ astray' = astray
    BY <1>2 DEF Silent, Lag, Rests
  <2>2. Knows(c) /\ ~astray /\ NoDone
    BY <2>1 DEF Required, Knows, NoDone, StoreKeeps
  <2>3. Base(c)' = Base(c) /\ (Going(c)' <=> Going(c)) /\ (Settled(c)' <=> Settled(c))
        /\ (Heard(c)' <=> Heard(c))
    BY <2>1 DEF Base, Keeps, Going, Settled, Heard
  <2>4. QED BY <1>0, <1>1, <2>1, <2>2, <2>3, ShowsKept DEF Keeps
<1>3. CASE IsClaimed(c)
  <2>1. Knows(c)
    BY <1>3 DEF IsClaimed, Knows
  <2>2. ~astray /\ NoDone
    <3>1. Publish(c, User(Len(asks) + 1))
      BY <1>3 DEF IsClaimed
    <3>2. User(Len(asks) + 1) \in Frames
      <4>1. asks \in Seq(Runs) /\ MaxParts \in Nat
        BY BoundsAssumption DEF AppInv, AppTyped
      <4>2. Len(asks) + 1 \in Runs /\ 0 \in 0 .. MaxParts
        BY <4>1 DEF Runs
      <4>3. QED BY <4>2, FrameOf DEF User
    <3>3. ~astray
      BY <3>1, StaysAstray DEF Required
    <3>4. CASE watch.at = "open"
      <4>1. Lag' = Lag + 1 /\ \A i \in 1 .. Lag : watch'.frames[i] = watch.frames[i]
        BY <3>1, <3>2, <3>4, Heeded
      <4>2. \A i \in 1 .. Lag : i \in 1 .. Lag'
        BY <1>0, <4>1
      <4>3. QED BY <3>3, <4>1, <4>2 DEF Required, NoDone
    <3>5. CASE watch.at # "open"
      <4>1. watch' = watch /\ Lag' = Lag
        BY <3>1, <3>2, <3>5, Heeded DEF Lag
      <4>2. QED BY <3>3, <4>1 DEF Required, NoDone
    <3>6. QED BY <3>4, <3>5
  <2>3. QED BY <1>1, <1>3, <2>1, <2>2, ShowsClaimed
<1>4. CASE Speaks(c)
  <2> DEFINE f == [run |-> hub[c].run, part |-> hub[c].parts + 1]
  <2>1. /\ Publish(c, f) /\ Busy(c) /\ Going(c) /\ Going(c)' /\ ~Settled(c)'
        /\ hub'[c].run = hub[c].run /\ hub'[c].parts = hub[c].parts + 1
        /\ hub[c].parts < MaxParts /\ saved'[c] = saved[c]
    BY <1>4 DEF Speaks, Going, Busy, Settled
  <2>2. f \in Frames
    <3>1. hub[c].run \in Runs /\ hub[c].parts + 1 \in 0 .. MaxParts
      BY <1>0, <2>1, Told, BoundsAssumption
    <3>2. QED BY <3>1, FrameOf
  <2> HIDE DEF f
  <2>3. Knows(c)
    BY <1>0, <2>1 DEF FileShape, Knows
  <2>4. ~astray
    BY <2>1, StaysAstray DEF Required
  <2>5. Base(c)' = Base(c)
    BY <2>1 DEF Base
  <2>6. CASE watch.at = "open"
    <3>1. watch'.at = watch.at
          /\ Lag' = Lag + 1 /\ \A i \in 1 .. Lag : watch'.frames[i] = watch.frames[i]
      BY <2>1, <2>2, <2>6, Heeded
    <3>2. \A i \in 1 .. Lag : i \in 1 .. Lag'
      BY <1>0, <3>1
    <3>3. NoDone
      BY <3>1, <3>2 DEF Required, NoDone
    <3>4. (Heard(c)' <=> Heard(c)) /\ hub'[c].parts - Lag' = hub[c].parts - Lag
          /\ hub'[c].parts >= hub[c].parts
      BY <1>0, <2>1, <2>6, <3>1 DEF Heard
    <3>5. QED BY <1>0, <1>1, <2>1, <2>3, <2>4, <2>5, <3>3, <3>4, ShowsKept
  <2>7. CASE watch.at # "open"
    <3>1. watch' = watch /\ Lag' = Lag
      BY <2>1, <2>2, <2>7, Heeded DEF Lag
    <3>2. NoDone /\ ~Heard(c) /\ ~Heard(c)' /\ hub'[c].parts >= hub[c].parts
      BY <1>0, <2>1, <2>7, <3>1 DEF Required, NoDone, Heard
    <3>3. QED BY <1>0, <1>1, <2>1, <2>3, <2>4, <2>5, <3>2, ShowsKept
  <2>8. QED BY <2>6, <2>7
<1>5. CASE GoesOn(c)
  <2>1. /\ Going(c) /\ Going(c)' /\ ~Settled(c)' /\ Busy(c) /\ Keeps(c) /\ watch' = watch
        /\ astray' = astray /\ Rewrites(c)
    BY <1>5 DEF GoesOn, Going, Settled, Busy, Silent
  <2>2. Base(c)' = Base(c)
    BY <1>0, <2>1, BaseStays DEF Keeps
  <2>3. Lag' = Lag /\ (Heard(c)' <=> Heard(c)) /\ NoDone /\ ~astray
    BY <2>1 DEF Lag, Heard, Keeps, Required, NoDone
  <2>4. Knows(c)
    BY <1>0, <2>1 DEF FileShape, Knows
  <2>5. QED BY <1>0, <1>1, <2>1, <2>2, <2>3, <2>4, ShowsKept DEF Keeps
<1>6. CASE IsOver(c)
  <2>1. CASE Publish(c, DoneOf(hub[c].run))
    <3> DEFINE f == DoneOf(hub[c].run)
    <3>1. f \in Frames /\ IsDone(f)
      <4>1. Busy(c) /\ 0 \in 0 .. MaxParts
        BY <1>6, BoundsAssumption DEF IsOver, Going, Busy
      <4>2. QED BY <4>1, Told, FrameOf
    <3> HIDE DEF f
    <3>2. Publish(c, f)
      BY <2>1 DEF f
    <3>3. QED BY <1>0, <3>1, <3>2, DoneVoids
  <2>2. CASE astray' = (astray \/ active = c)
    <3>1. astray'
      BY <2>2, Zenon
    <3>2. QED BY <3>1 DEF Required
  <2>3. QED BY <1>6, <2>1, <2>2 DEF IsOver
<1>7. CASE IsFreed(c)
  <2>1. /\ ~Going(c) /\ ~Going(c)' /\ Busy(c) /\ saved'[c] = saved[c] /\ watch' = watch
        /\ hub[c].phase = "closing"
        /\ astray' = (astray \/ Misses(c, DoneOf(hub[c].run)))
    BY <1>7 DEF IsFreed, Going, Busy
  <2>2. ~astray /\ ~Misses(c, DoneOf(hub[c].run))
    BY <2>1, Zenon DEF Required
  <2>3. IsDone(DoneOf(hub[c].run))
    BY DEF IsDone, DoneOf
  <2>4. Settled(c)
    BY <2>1, <2>2, <2>3 DEF Misses, Settled
  <2>5. NoDone /\ Knows(c)
    BY <1>0, <2>1 DEF FileShape, Knows, Required, NoDone, Lag
  <2>6. QED BY <1>0, <1>1, <2>1, <2>2, <2>4, <2>5, ShowsKept
<1>8. QED BY <1>2, <1>3, <1>4, <1>5, <1>6, <1>7 DEF Turns

(* A conversation is opened: what is awaited is its file. *)
LEMMA ShowsBlank ==
    ASSUME NEW c \in Convos, FileShape(c)', screen' = Blank, answer'.to = "open",
           answer'.conv = c, answer'.msgs = saved'[c],
           watch'.at # "open" \/ hub'[c].phase = "idle"
    PROVE  Shows(c)'
<1>1. Awaits(c)' /\ Begins(c, answer.msgs)'
  <2>1. Begins(c, saved[c])'
    BY FileBegins
  <2>2. QED BY <2>1 DEF Awaits, Begins
<1>2. ~(Going(c) /\ Heard(c))'
  BY DEF Going, Heard
<1>3. screen'.live = <<>> /\ screen'.running = FALSE
  BY DEF Blank
<1>4. QED BY <1>1, <1>2, <1>3 DEF Shows

(* The page takes a run to be over: its file is read, or awaited. *)
LEMMA ShowsEnded ==
    ASSUME AppInv, AppInv', AnswerInv, AnswerShape, NEW c \in Convos, FileShape(c)', Knows(c),
           saved' = saved, screen'.live = <<>>, screen'.running = FALSE,
           (Going(c) => ~Heard(c))',
           \/ answer'.to = "refresh" /\ answer'.conv = c
           \/ answer' = answer /\ screen'.messages = Get("refresh", c).msgs
    PROVE  Shows(c)'
<1>1. Get("refresh", c).msgs = saved[c]
  BY DEF Get, Knows
<1>2. CASE answer'.to = "refresh" /\ answer'.conv = c
  BY <1>2 DEF Shows, Awaits
<1>3. CASE answer' = answer /\ screen'.messages = Get("refresh", c).msgs
  <2>1. Begins(c, saved[c])'
    BY FileBegins
  <2>2. screen'.messages = saved'[c]
    BY <1>1, <1>3
  <2>3. Begins(c, screen.messages)'
    BY <2>1, <2>2 DEF Begins
  <2>4. ASSUME Awaits(c), screen'.messages = <<>> PROVE Begins(c, answer.msgs)'
    <3> DEFINE s == answer.msgs
    <3>1. OwnOnly(s, c) /\ s \in Seq(Entries) /\ \A i \in 1 .. Len(s) : s[i].run # 0
      BY <2>4 DEF AnswerInv, Answers, Awaits, AnswerShape
    <3> HIDE DEF s
    <3>2. saved[c] = <<>> /\ Range(saved[c]) = {}
      BY <1>1, <1>3, <2>4 DEF Range
    <3>3. ASSUME s # <<>> PROVE FALSE
      <4>1. 1 \in 1 .. Len(s)
        BY <3>1, <3>3
      <4>2. s[1] \in Range(s) /\ s[1].run # 0
        BY <3>1, <4>1, Elements
      <4>3. User(s[1].run) \in Range(saved[c])
        BY <3>1, <4>2 DEF OwnOnly, Of
      <4>4. QED BY <3>2, <4>3
    <3>4. answer'.msgs = saved'[c]
      BY <1>3, <3>2, <3>3 DEF s
    <3>5. QED BY <2>1, <3>4 DEF Begins
  <2>5. screen' = Blank => screen'.messages = <<>>
    BY DEF Blank
  <2>6. Awaits(c)' <=> Awaits(c)
    BY <1>3 DEF Awaits
  <2>7. QED BY <2>3, <2>4, <2>5, <2>6 DEF Shows
<1>4. QED BY <1>2, <1>3

(* An answer is used. *)
LEMMA ShowsApplied ==
    ASSUME AppInv, WatchInv, AnswerInv, AppShape, AppShape', ScreenShape, NEW c \in Convos, active = c,
           ScreenTyped, Apply, Required(c)'
    PROVE  Shows(c)'
<1>1. /\ UNCHANGED <<stored, saved, hub, watch, post, active>> /\ answer.to # "none"
  BY DEF Apply, app
<1>2. /\ Lag' = Lag /\ (Going(c)' <=> Going(c)) /\ (Heard(c)' <=> Heard(c))
      /\ (Settled(c)' <=> Settled(c)) /\ Base(c)' = Base(c) /\ Tails(c)' = Tails(c)
      /\ \A m : m' = m => (Begins(c, m)' <=> Begins(c, m))
  <2>1. /\ Lag' = Lag /\ (Going(c)' <=> Going(c)) /\ (Settled(c)' <=> Settled(c))
        /\ Base(c)' = Base(c) /\ Tails(c)' = Tails(c)
    BY <1>1 DEF Lag, Going, Settled, Base, Tails
  <2>2. Heard(c)' <=> Heard(c)
    BY <1>1, <2>1 DEF Heard
  <2>3. \A t : Tells(c, t)' = Tells(c, t)
    BY <1>1 DEF Tells, Asking
  <2>4. \A m : m' = m => (Begins(c, m)' <=> Begins(c, m))
    BY <1>1, <2>1, <2>2, <2>3 DEF Begins
  <2>5. QED BY <2>1, <2>2, <2>4
<1>a. active # answer.conv \/ answer.to # "stopped" => ~Awaits(c)'
  BY DEF Apply, Awaits, Nothing
<1>3. ~astray => Required(c)
  BY <1>1, <1>2 DEF Required, Knows, Sending, NoDone
<1>4. ~astray => Shows(c)
  BY <1>3, ConvosAssumption DEF ScreenShape
<1>5. ~astray'
  BY DEF Required
<1>6. CASE /\ active = answer.conv /\ answer.to = "open"
           /\ screen' = [screen EXCEPT !.messages = answer.msgs, !.running = answer.running]
           /\ astray' = (astray \/ screen # Blank \/ (answer.running /\ ~DoneToCome(active)))
  <2>1. ~astray /\ screen = Blank /\ (answer.running => DoneToCome(c))
    BY <1>5, <1>6, Zenon
  <2>2. screen' = [messages |-> answer.msgs, live |-> <<>>, running |-> answer.running]
    <3>1. screen = [messages |-> <<>>, live |-> <<>>, running |-> FALSE]
      BY <2>1 DEF Blank
    <3>2. QED BY <1>6, <3>1
  <2>3. Awaits(c) /\ Begins(c, answer.msgs) /\ ~(Going(c) /\ Heard(c))
    BY <1>4, <1>6, <2>1 DEF Awaits, Shows, Blank
  <2>4. screen'.messages = answer.msgs /\ screen'.live = <<>> /\ screen'.running = answer.running
    BY <2>2
  <2>5. Begins(c, screen.messages)'
    BY <1>1, <1>2, <2>3, <2>4 DEF Begins
  <2>6. ASSUME Settled(c), answer.running PROVE FALSE
    <3>1. DoneToCome(c)
      BY <2>1, <2>6
    <3>2. ~Going(c) /\ ~(hub[c].phase = "closing" /\ watch.at # "open")
      BY <2>6 DEF Settled, Going
    <3>3. PICK f \in Range(watch.frames) : IsDone(f)
      BY <3>1, <3>2 DEF DoneToCome, Going
    <3>4. \E i \in 1 .. Lag : f = watch.frames[i]
      BY <3>3, Wire, Elements DEF Lag
    <3>5. NoDone
      BY <1>1, <1>2 DEF Required, NoDone
    <3>6. QED BY <3>3, <3>4, <3>5 DEF NoDone
  <2>7. answer.running \in BOOLEAN
    BY DEF AnswerInv, Answers
  <2>8. ~Awaits(c)'
    BY <1>a, <1>6
  <2>9. QED BY <1>2, <2>3, <2>4, <2>5, <2>6, <2>7, <2>8 DEF Shows
<1>7. CASE /\ active = answer.conv /\ answer.to = "refresh"
           /\ screen' = [screen EXCEPT !.messages = answer.msgs]
           /\ astray' = (astray \/ screen.running \/ answer.msgs # saved[active])
  <2>1. ~astray /\ ~screen.running /\ answer.msgs = saved[c]
    BY <1>5, <1>7, Zenon
  <2>2. screen'.messages = saved'[c] /\ screen'.live = screen.live
        /\ screen'.running = screen.running
    BY <1>1, <1>7, <2>1 DEF ScreenTyped
  <2>3. Begins(c, screen.messages)'
    <3>1. Begins(c, saved[c])'
      BY FileBegins DEF AppShape
    <3>2. QED BY <2>2, <3>1 DEF Begins
  <2>4. ~Awaits(c)'
    BY <1>a, <1>7
  <2>5. QED BY <1>2, <1>4, <2>1, <2>2, <2>3, <2>4 DEF Shows
<1>8. CASE active # answer.conv /\ UNCHANGED <<screen, astray>>
  <2>1. ~Awaits(c) /\ ~Awaits(c)' /\ Shows(c)
    BY <1>a, <1>4, <1>5, <1>8 DEF Awaits
  <2>2. Begins(c, screen.messages)'
    BY <1>1, <1>2, <1>8, <2>1 DEF Shows, Begins
  <2>3. QED BY <1>1, <1>2, <1>8, <2>1, <2>2 DEF Shows
<1>9. CASE /\ active = answer.conv /\ answer.to = "stopped"
           /\ screen' = Ended(screen.messages) /\ astray' = (astray \/ Going(active))
  <2>1. ~Going(c)
    BY <1>5, <1>9, Zenon
  <2>2. answer'.to = "refresh" /\ answer'.conv = c
    BY <1>9 DEF Apply, Get
  <2>3. screen'.live = <<>> /\ screen'.running = FALSE
    BY <1>9 DEF Ended
  <2>4. QED BY <1>2, <2>1, <2>2, <2>3 DEF Shows, Awaits
<1>10. QED BY <1>6, <1>7, <1>8, <1>9 DEF Apply

(* A frame is delivered: the question of the run, its next part, or a "done". *)
LEMMA ShowsDelivered ==
    ASSUME AppInv, AppInv', WatchInv, AnswerInv, AppShape, AppShape', StreamShape, ScreenShape,
           AnswerShape, ScreenTyped, NEW c \in Convos, active = c, Deliver, Required(c)'
    PROVE  Shows(c)'
<1> DEFINE f == watch.frames[1]
           r == hub[c].run
           k == hub[c].parts
<1>1. /\ UNCHANGED <<stored, saved, hub, post, active>>
      /\ watch.frames # <<>> /\ watch' = [watch EXCEPT !.frames = Tail(@)]
      /\ Head(watch.frames) = f /\ f \in Frames
  <2>1. /\ UNCHANGED <<stored, saved, hub, post, active>>
        /\ watch.frames # <<>> /\ watch' = [watch EXCEPT !.frames = Tail(@)]
    BY DEF Deliver, app
  <2>2. QED BY <2>1, Taken
<1>2. /\ Lag \in Nat /\ Lag >= 1 /\ Lag' = Lag - 1 /\ watch'.at = watch.at
      /\ \A i \in 1 .. Lag - 1 : i + 1 \in 1 .. Lag /\ watch'.frames[i] = watch.frames[i + 1]
  BY <1>1, Taken
<1>3. /\ k \in Nat /\ MaxParts \in Nat /\ k <= MaxParts
      /\ watch.at = "open" /\ StreamFine(c) /\ FileShape(c)
  BY <1>1, Wire, ConvosAssumption DEF StreamShape, AppShape
<1>4. /\ (Going(c)' <=> Going(c)) /\ (Settled(c)' <=> Settled(c)) /\ Base(c)' = Base(c)
      /\ (Heard(c)' <=> Lag' <= k) /\ (Heard(c) <=> Lag <= k)
  BY <1>1, <1>2, <1>3 DEF Going, Settled, Base, Heard
<1>5. ~Sending(c) /\ Knows(c) /\ ~astray'
  BY <1>1 DEF Required, Sending, Knows
<1>6. ASSUME NEW i \in 2 .. Lag PROVE ~IsDone(watch.frames[i])
  <2>1. i - 1 \in 1 .. Lag - 1 /\ (i - 1) + 1 = i
    BY <1>2
  <2>2. ~IsDone(watch'.frames[i - 1])
    BY <1>2, <2>1 DEF Required, NoDone
  <2>3. QED BY <1>2, <2>1, <2>2
<1> HIDE DEF k, r
<1>7. ASSUME NEW n \in 0 .. Lag, Follows(c, n)
      PROVE  /\ n \in {0, 1}
             /\ n = 0 => /\ Going(c) /\ Lag <= k + 1
                         /\ f = [run |-> r, part |-> k + 1 - Lag] /\ ~IsDone(f)
             /\ n = 1 /\ Going(c) => Lag = k + 2
  <2>1. n \in Nat
    BY <1>2
  <2>2. /\ \A i \in n + 1 .. Lag : watch.frames[i] = [run |-> r, part |-> k + i - Lag]
        /\ n = 0 => Lag <= k + 1
        /\ n # 0 => IsDone(watch.frames[n])
        /\ n # 0 /\ Going(c) => Lag = n + k + 1
        /\ ~Going(c) => n = Lag
    BY <1>7 DEF Follows, k, r
  <2>3. n \in {0, 1}
    <3>1. n \notin 2 .. Lag
      BY <1>6, <2>1, <2>2
    <3>2. QED BY <1>2, <2>1, <3>1
  <2>4. CASE n = 0
    <3>1. Going(c) /\ Lag <= k + 1
      BY <1>2, <2>2, <2>4
    <3>2. f = [run |-> r, part |-> k + 1 - Lag]
      <4>1. 1 \in n + 1 .. Lag
        BY <1>2, <2>4
      <4>2. QED BY <2>2, <4>1
    <3>3. k + 1 - Lag \in 0 .. MaxParts /\ r \in Runs
      <4>1. r \in Runs
        BY <3>1, Told DEF Going, Busy, r
      <4>2. QED BY <1>2, <1>3, <3>1, <4>1
    <3>4. ~IsDone(f)
      BY <3>2, <3>3, FrameOf
    <3>5. QED BY <2>4, <3>1, <3>2, <3>4
  <2>5. CASE n = 1
    <3>1. Going(c) => Lag = k + 2
      BY <1>2, <1>3, <2>2, <2>5
    <3>2. QED BY <2>5, <3>1
  <2>6. QED BY <2>3, <2>4, <2>5
<1>8. CASE IsDone(f)
  <2>1. Refreshes(Shown(f)) /\ astray' = (astray /\ f.run # hub[active].run)
    BY <1>1, <1>5, <1>8 DEF Deliver
  <2>2. (Going(c) => ~Heard(c))'
    <3>1. CASE ~astray
      <4>1. PICK n \in 0 .. Lag : Follows(c, n)
        BY <1>3, <3>1 DEF StreamFine
      <4>2. Going(c) => Lag = k + 2
        BY <1>7, <1>8, <4>1
      <4>3. QED BY <1>2, <1>3, <1>4, <4>2
    <3>2. CASE astray
      <4>1. f.run = r
        BY <1>5, <2>1, <3>2, Zenon DEF r
      <4>2. f = DoneOf(r)
        BY <1>1, <1>8, <4>1 DEF Frames, IsDone, DoneOf
      <4>3. 1 \in 1 .. Lag
        BY <1>2
      <4>4. ~Going(c)
        BY <1>3, <4>2, <4>3 DEF StreamFine, r
      <4>5. QED BY <1>4, <4>4
    <3>3. QED BY <3>1, <3>2
  <2>3. Shown(f) = [screen EXCEPT !.live = <<>>, !.running = FALSE]
    BY <1>3, <1>8, BoundsAssumption DEF Shown, IsDone, Done
  <2> DEFINE g == Get("refresh", c)
             m == screen.messages
  <2>4. Shown(f) = [messages |-> m, live |-> <<>>, running |-> FALSE]
    BY <2>3 DEF ScreenTyped
  <2>5. \/ answer' = g /\ screen' = Shown(f)
        \/ answer' = answer /\ screen' = [Shown(f) EXCEPT !.messages = g.msgs]
    BY <2>1 DEF Refreshes
  <2>6. g.to = "refresh" /\ g.conv = c
    BY Gotten
  <2> HIDE DEF g, m
  <2>7. /\ screen'.live = <<>> /\ screen'.running = FALSE
        /\ \/ answer'.to = "refresh" /\ answer'.conv = c
           \/ answer' = answer /\ screen'.messages = g.msgs
    BY <2>4, <2>5, <2>6
  <2>8. QED BY <1>1, <1>5, <2>2, <2>7, ShowsEnded DEF g, AppShape
<1>9. CASE ~IsDone(f)
  <2>1. screen' = Shown(f) /\ astray' = (astray \/ CutsTooMuch(f)) /\ answer' = answer
    BY <1>1, <1>5, <1>9 DEF Deliver
  <2>2. ~astray /\ ~CutsTooMuch(f)
    BY <1>5, <2>1, Zenon
  <2>3. NoDone
    <3>1. ASSUME NEW i \in 1 .. Lag PROVE ~IsDone(watch.frames[i])
      <4>1. i = 1 \/ i \in 2 .. Lag
        BY <1>2
      <4>2. QED BY <1>6, <1>9, <4>1
    <3>2. QED BY <3>1 DEF NoDone
  <2>4. Shows(c)
    BY <1>5, <2>2, <2>3, ConvosAssumption DEF Required, ScreenShape
  <2>5. PICK n \in 0 .. Lag : Follows(c, n)
    BY <1>3, <2>2 DEF StreamFine
  <2>6. n # 1
    <3>1. n # 0 => IsDone(watch.frames[n])
      BY <2>5 DEF Follows
    <3>2. QED BY <1>9, <3>1
  <2>7. Going(c) /\ Lag <= k + 1 /\ f = [run |-> r, part |-> k + 1 - Lag]
    BY <1>7, <2>5, <2>6
  <2>8. ~Settled(c)'
    BY <1>4, <2>7 DEF Going, Settled
  <2>9. /\ r \in Runs /\ r \in Nat /\ Base(c) \in Seq(Entries) /\ Without(Base(c), r)
    BY <2>7, Told DEF Going, Busy, r
  <2>10. Awaits(c)' <=> Awaits(c)
    BY <2>1 DEF Awaits
  <2>11. CASE Lag = k + 1
    <3>1. f = User(r) /\ f.part = 0
      BY <1>3, <2>7, <2>11 DEF User
    <3> DEFINE m == screen.messages
               a == Asked(m, f)
    <3>2. screen' = [messages |-> a, live |-> <<>>, running |-> TRUE]
      <4>1. f.part \notin 1 .. MaxParts /\ ~IsDone(f)
        BY <1>9, <3>1
      <4> HIDE DEF f
      <4>2. QED BY <2>1, <3>1, <4>1 DEF Shown
    <3>3. ASSUME ~Awaits(c) PROVE a = Base(c) \o <<User(r)>>
      <4>1. m = Base(c) \/ \E t \in Tails(c) : m = Tells(c, t)
        <5>1. Going(c) /\ ~Heard(c)
          BY <1>3, <1>4, <2>7, <2>11
        <5>2. Begins(c, m)
          BY <2>4, <3>3 DEF Shows
        <5> HIDE DEF m
        <5>3. QED BY <5>1, <5>2 DEF Begins
      <4>2. CASE m = Base(c)
        <5> HIDE DEF m, f
        <5>1. (\E e \in Range(m) : SameQuestion(e, User(r))) => User(r) \in Range(m)
          BY <2>2, <3>1 DEF CutsTooMuch, m
        <5>2. m \in Seq(Entries) /\ Without(m, r)
          BY <2>9, <4>2
        <5>3. Asked(m, User(r)) = m \o <<User(r)>>
          BY <2>9, <5>1, <5>2, AskedNew
        <5>4. QED BY <3>1, <4>2, <5>3
      <4>3. ASSUME NEW t \in Tails(c), m = Tells(c, t) PROVE a = Base(c) \o <<User(r)>>
        <5> HIDE DEF m, f
        <5>1. t \in Seq(Entries) /\ r # 0 /\ \A i \in 1 .. Len(t) : t[i].part \in 1 .. k
          BY <2>9 DEF Runs, Tails, k
        <5>2. \A i \in 1 .. Len(t) : t[i].part # 0
          BY <1>3, <5>1
        <5> DEFINE b == Base(c)
        <5>3. Asked((b \o <<User(r)>>) \o t, User(r)) = b \o <<User(r)>>
          BY <2>9, <5>1, <5>2, AskedTale
        <5>4. m = (b \o <<User(r)>>) \o t
          BY <4>3, TellsOf DEF r
        <5>5. QED BY <3>1, <5>3, <5>4
      <4>4. QED BY <4>1, <4>2, <4>3
    <3> HIDE DEF a
    <3>4. screen'.messages = a /\ screen'.live = <<>> /\ screen'.running = TRUE
      BY <3>2
    <3>5. hub'[c].parts - Lag' = 0 /\ Parts(r, 0) = <<>> /\ hub'[c].run = r
      BY <1>1, <1>2, <1>3, <2>11 DEF Parts, k, r
    <3>6. (Going(c) /\ Heard(c))'
      BY <1>2, <1>3, <1>4, <2>7, <2>11
    <3>7. screen' # Blank
      BY <3>4 DEF Blank
    <3>8. /\ ~Awaits(c)' => /\ screen'.messages = Base(c)' \o <<User(hub'[c].run)>>
                            /\ screen'.live = Parts(hub'[c].run, hub'[c].parts - Lag')
          /\ ~Awaits(c)' => Begins(c, screen.messages)'
      <4>1. Begins(c, screen.messages)'
        BY <2>8, <3>6 DEF Begins
      <4>2. QED BY <1>4, <2>10, <3>3, <3>4, <3>5, <4>1
    <3>9. QED BY <2>8, <3>4, <3>6, <3>7, <3>8 DEF Shows
  <2>12. CASE Lag <= k
    <3> DEFINE n0 == k - Lag
               m == screen.messages
               l == screen.live
    <3>1. n0 \in Nat /\ n0 < MaxParts /\ k + 1 - Lag = n0 + 1 /\ n0 + 1 \in 1 .. MaxParts
      BY <1>2, <1>3, <2>12
    <3>2. f = [run |-> r, part |-> n0 + 1]
      BY <2>7, <3>1
    <3> HIDE DEF n0
    <3>3. f.part \in 1 .. MaxParts /\ f.part # 0
      BY <3>1, <3>2
    <3> HIDE DEF f
    <3>4. screen' = [messages |-> m, live |-> Append(l, f), running |-> TRUE]
      <4>1. screen' = [screen EXCEPT !.live = Append(@, f), !.running = TRUE]
        BY <1>9, <2>1, <3>3 DEF Shown
      <4>2. QED BY <4>1 DEF ScreenTyped
    <3>5. ~Awaits(c) => m = Base(c) \o <<User(r)>> /\ l = Parts(r, n0)
      BY <1>4, <2>4, <2>7, <2>12 DEF Shows, k, r, n0
    <3>6. Append(Parts(r, n0), f) = Parts(r, n0 + 1)
      BY <2>9, <3>1, <3>2, OneMorePart
    <3>7. hub'[c].parts - Lag' = n0 + 1 /\ hub'[c].run = r
      BY <1>1, <1>2, <1>3 DEF k, r, n0
    <3> HIDE DEF m, l
    <3>8. screen'.messages = m /\ screen'.live = Append(l, f) /\ screen'.running = TRUE
      BY <3>4
    <3>9. (Going(c) /\ Heard(c))'
      BY <1>2, <1>3, <1>4, <2>7, <2>12
    <3>10. screen' # Blank
      BY <3>8 DEF Blank
    <3>11. Begins(c, screen.messages)'
      BY <2>8, <3>9 DEF Begins
    <3>12. ~Awaits(c)' => /\ screen'.messages = Base(c)' \o <<User(hub'[c].run)>>
                          /\ screen'.live = Parts(hub'[c].run, hub'[c].parts - Lag')
      BY <1>4, <2>10, <3>5, <3>6, <3>7, <3>8
    <3>13. QED BY <2>8, <3>8, <3>9, <3>10, <3>11, <3>12 DEF Shows
  <2>13. QED BY <1>2, <1>3, <2>7, <2>11, <2>12
<1>10. QED BY <1>8, <1>9

(* The stream is lost: what was live will be replayed. *)
LEMMA ShowsBroken ==
    ASSUME AppInv, WatchInv, AppShape, ScreenShape, ScreenTyped, NEW c \in Convos, active = c,
           BreakWatch, Required(c)'
    PROVE  Shows(c)'
<1> DEFINE m == screen.messages
<1>1. /\ UNCHANGED <<stored, saved, hub, post, answer, active>> /\ watch'.at = "asked"
      /\ screen' = [screen EXCEPT !.live = <<>>] /\ watch.at \in {"open", "deaf"}
      /\ astray' = (astray \/ \E f \in Range(watch.frames) : IsDone(f))
  BY DEF BreakWatch, app, requests
<1>2. ~astray /\ ~\E f \in Range(watch.frames) : IsDone(f)
  <2>1. ~astray'
    BY DEF Required
  <2>2. QED BY <1>1, <2>1, Zenon
<1>3. NoDone
  <2>1. \A i \in 1 .. Lag : watch.frames[i] \in Range(watch.frames)
    BY Wire, Elements DEF Lag
  <2>2. QED BY <1>2, <2>1 DEF NoDone
<1>4. Shows(c)
  BY <1>1, <1>2, <1>3, ConvosAssumption DEF Required, Knows, Sending, ScreenShape
<1>5. /\ (Going(c)' <=> Going(c)) /\ Base(c)' = Base(c)
      /\ ~Heard(c)' /\ (Settled(c)' => Settled(c)) /\ (Awaits(c)' <=> Awaits(c))
  BY <1>1 DEF Going, Base, Heard, Settled, Awaits
<1>a. Tails(c)' = Tails(c) /\ \A t : Tells(c, t)' = Tells(c, t)
  BY <1>1 DEF Tails, Tells, Asking
<1>6. screen' = [messages |-> m, live |-> <<>>, running |-> screen.running]
  BY <1>1 DEF ScreenTyped
<1>7. screen'.messages = m /\ screen'.live = <<>> /\ screen'.running = screen.running
  BY <1>6
<1>9. ASSUME ~Awaits(c) PROVE Begins(c, screen.messages)'
  <2>1. CASE Going(c) /\ Heard(c)
    <3>1. m = Base(c) \o <<User(hub[c].run)>>
      BY <1>4, <1>9, <2>1 DEF Shows
    <3>2. Base(c) \in Seq(Entries) /\ hub[c].run \in Nat
      BY <2>1, Told DEF Going, Busy
    <3>3. m = Tells(c, <<>>) /\ <<>> \in Tails(c)
      BY <3>1, <3>2, NoParts, NoTail, TellsNothing
    <3>4. ~Settled(c)
      BY <2>1 DEF Going, Settled
    <3>5. QED BY <1>1, <1>5, <1>7, <1>a, <3>3, <3>4 DEF Begins
  <2>2. CASE ~(Going(c) /\ Heard(c))
    <3>1. Begins(c, m)
      BY <1>4, <1>9 DEF Shows
    <3>2. QED BY <1>1, <1>5, <1>7, <1>a, <2>2, <3>1 DEF Begins
  <2>3. QED BY <2>1, <2>2
<1>10. ASSUME Awaits(c), answer.to = "open", screen' = Blank PROVE Begins(c, answer.msgs)'
  <2>1. m = <<>> /\ ~screen.running
    BY <1>7, <1>10 DEF Blank
  <2>2. screen.live = <<>> /\ ~(Going(c) /\ Heard(c))
    BY <1>4, <2>1 DEF Shows
  <2>3. screen = Blank
    BY <2>1, <2>2 DEF ScreenTyped, Blank
  <2>4. Begins(c, answer.msgs)
    BY <1>4, <1>10, <2>3 DEF Shows
  <2>5. QED BY <1>1, <1>5, <1>a, <2>2, <2>4 DEF Begins
<1>11. Settled(c)' => ~screen'.running
  BY <1>4, <1>5, <1>7 DEF Shows
<1>12. QED BY <1>1, <1>5, <1>7, <1>9, <1>10, <1>11 DEF Shows

(* Every step keeps what the page has to show. *)
LEMMA ShownStep ==
    ASSUME IInv, PageInv, [Next]_vars PROVE ScreenShape'
<1>0. /\ AppInv /\ AppInv' /\ WatchInv /\ PostInv /\ AnswerInv /\ ScreenTyped
      /\ astray \in BOOLEAN
      /\ AppShape /\ AppShape' /\ StreamShape /\ ScreenShape /\ AnswerShape
  BY AppStep, AppShapeStep DEF IInv, PageInv
<1> USE <1>0
<1>00. /\ active # NoConvo => active \in Convos
       /\ active = NoConvo => watch.at = "none" /\ watch.frames = <<>>
       /\ stored \subseteq Convos /\ \A c \in Convos : FileShape(c)'
  BY WatchFields DEF AppInv, AppTyped, AppShape
<1>1. ASSUME NEW c \in Convos, active' = c, Required(c)' => Shows(c)' PROVE ScreenShape'
  BY <1>1 DEF ScreenShape
<1>2. CASE active' = NoConvo
  BY <1>2 DEF ScreenShape
<1>3. ASSUME NEW c \in Convos, OnlyTurn(c), StoreKeeps, active' = active,
             \A d \in Convos : AwaitsOn(d), screen' = screen \/ Sending(active), Sending(active)' <=> Sending(active)
      PROVE  ScreenShape'
  <2>1. CASE active \in Convos
    <3>1. ASSUME Required(active)' PROVE Shows(active)'
      <4>1. screen' = screen
        BY <1>3, <3>1 DEF Required
      <4>2. Turns(active) \/ (Rests(active) /\ Silent)
        BY <1>3, <2>1 DEF OnlyTurn
      <4>3. PICK d \in Convos : d = active
        BY <2>1
      <4>4. Required(d)' /\ (Sending(d)' <=> Sending(d))
        BY <1>3, <3>1, <4>3 DEF Required
      <4>5. Shows(d)'
        BY <1>3, <4>1, <4>2, <4>3, <4>4, ShowsTurn
      <4>6. QED BY <1>3, <4>3, <4>5
    <3>2. QED BY <3>1 DEF ScreenShape
  <2>2. QED BY <1>00, <1>2, <1>3, <2>1
<1>4. CASE ByTheApp
  <2>1. PICK c \in Convos : OnlyTurn(c)
    BY <1>4, AppActs
  <2>2. StaysPut /\ StoreKeeps
    BY <1>4, AppActs
  <2>3. CASE active = NoConvo
    BY <1>2, <2>2, <2>3 DEF StaysPut
  <2>4. CASE active # NoConvo
    <3>1. PICK d \in Convos : d = active
      BY <1>00, <2>4
    <3>2. active' = active /\ answer' = answer /\ (screen' = screen \/ Sending(active))
          /\ (Sending(d)' <=> Sending(d))
      BY <2>2 DEF StaysPut
    <3>3. Sending(active)' <=> Sending(active)
      BY <3>1, <3>2
    <3>4. \A x \in Convos : AwaitsOn(x)
      BY <3>2 DEF AwaitsOn, Awaits
    <3>5. QED BY <1>3, <2>1, <2>2, <3>2, <3>3, <3>4
  <2>5. QED BY <2>3, <2>4
(* What the page sees of the conversation and of itself stays. *)
<1>5. ASSUME UNCHANGED <<stored, saved, hub, screen, answer, active>>,
             Sending(active)' <=> Sending(active), astray => astray', NoDone' => NoDone,
             \/ watch' = watch
             \/ watch.at # "open" /\ watch'.at # "open"
      PROVE  ScreenShape'
  <2>1. CASE active # NoConvo
    <3>1. PICK c \in Convos : c = active
      BY <1>00, <2>1
    <3>2. ASSUME Required(c)' PROVE Shows(c)'
      <4>1. Required(c)
        BY <1>5, <3>1, <3>2 DEF Required, Knows
      <4>2. Shows(c)
        BY <2>1, <3>1, <4>1 DEF ScreenShape
      <4>3. /\ (Going(c)' <=> Going(c)) /\ Base(c)' = Base(c) /\ (Heard(c)' <=> Heard(c))
            /\ Heard(c) => Lag' = Lag
            /\ (Settled(c)' => Settled(c))
        BY <1>5 DEF Going, Base, Heard, Settled, Lag
      <4>4. hub[c].parts \in Nat
        BY <3>1, Wire
      <4>5. AwaitsOn(c)
        BY <1>5 DEF AwaitsOn, Awaits
      <4>6. QED BY <1>5, <4>2, <4>3, <4>4, <4>5, ShowsKept
    <3>3. QED BY <1>1, <1>5, <3>1, <3>2
  <2>2. QED BY <1>2, <1>5, <2>1
<1>6. CASE UNCHANGED vars
  <2>1. UNCHANGED <<stored, saved, hub, screen, answer, active, watch, post, astray>>
    BY <1>6 DEF vars, app, requests, page
  <2>2. (Sending(active)' <=> Sending(active)) /\ (NoDone' => NoDone)
    BY <2>1 DEF Sending, NoDone, Lag
  <2>3. QED BY <1>5, <2>1, <2>2
<1>7. CASE (\E c \in Convos : DropHub(c)) \/ WatchEnters
  <2>1. /\ UNCHANGED <<stored, saved, hub, screen, answer, active, post, astray>>
        /\ watch.at \in {"asked", "entered"}
        /\ \E a \in {"entered", "outlived"} : watch' = [watch EXCEPT !.at = a]
    BY <1>7 DEF DropHub, WatchEnters, app, requests, page
  <2>2. PICK a \in {"entered", "outlived"} : watch' = [at |-> a, frames |-> watch.frames]
    BY <2>1, WatchFields DEF Ats
  <2>3. (Sending(active)' <=> Sending(active)) /\ (NoDone' => NoDone)
    BY <2>1, <2>2 DEF Sending, NoDone, Lag
  <2>4. watch.at # "open" /\ watch'.at # "open"
    BY <2>1, <2>2
  <2>5. QED BY <1>5, <2>1, <2>3, <2>4
<1>8. CASE Subscribe
  <2>1. /\ UNCHANGED <<stored, saved, hub, screen, answer, active, post, astray>>
        /\ active \in Convos /\ active # NoConvo /\ watch.at \in {"entered", "outlived"}
    BY <1>00, <1>8 DEF Subscribe, app, requests, page
  <2>2. CASE watch.at = "outlived"
    <3>1. watch' = [at |-> "deaf", frames |-> watch.frames]
      BY <1>8, <2>2, WatchFields DEF Subscribe, Ats
    <3>2. (Sending(active)' <=> Sending(active)) /\ (NoDone' => NoDone)
      BY <2>1, <3>1 DEF Sending, NoDone, Lag
    <3>3. watch.at # "open" /\ watch'.at # "open"
      BY <2>2, <3>1
    <3>4. QED BY <1>5, <2>1, <3>2, <3>3
  <2>3. CASE watch.at = "entered"
    <3>1. PICK c \in Convos : c = active
      BY <2>1
    <3>2. watch' = [at |-> "open", frames |-> Buffer(c)]
      BY <1>8, <2>3, <3>1 DEF Subscribe
    <3> DEFINE s == Buffer(c)
               k == hub[c].parts
    <3>3. /\ s \in Seq(Frames) /\ Len(s) \in Nat
          /\ Going(c) => Len(s) = k + 1
          /\ hub[c].phase = "closing" => Len(s) = k + 2 /\ s[k + 2] = DoneOf(hub[c].run)
      BY ReplayIs
    <3>4. k \in Nat /\ hub[c].phase \in Phases
      BY <3>1, Wire DEF AppInv, AppTyped, Hubs
    <3> HIDE DEF s
    <3>5. watch'.at = "open" /\ watch'.frames = s /\ Lag' = Len(s)
      BY <3>2 DEF Lag, s
    <3>6. ASSUME Required(c)' PROVE Shows(c)'
      <4>1. hub[c].phase # "closing"
        <5>1. SUFFICES ASSUME hub[c].phase = "closing" PROVE FALSE
          OBVIOUS
        <5>2. k + 2 \in 1 .. Lag' /\ IsDone(s[k + 2])
          BY <3>3, <3>4, <3>5, <5>1 DEF IsDone, DoneOf
        <5>3. ~NoDone'
          BY <3>5, <5>2 DEF NoDone
        <5>4. QED BY <3>6, <5>3 DEF Required
      <4>2. NoDone
        BY <2>3 DEF StreamShape, NoDone, Lag
      <4>3. Shows(c)
        BY <2>1, <3>1, <3>6, <4>2 DEF Required, Knows, Sending, ScreenShape
      <4>4. /\ (Going(c)' <=> Going(c)) /\ Base(c)' = Base(c) /\ (Settled(c)' => Settled(c))
            /\ Going(c) => ~Heard(c)' /\ ~Heard(c)
        BY <2>1, <2>3, <3>3, <3>4, <3>5, <4>1 DEF Going, Base, Settled, Heard
      <4>5. AwaitsOn(c)
        BY <2>1 DEF AwaitsOn, Awaits
      <4>6. QED BY <2>1, <3>4, <4>3, <4>4, <4>5, ShowsKept
    <3>7. QED BY <1>1, <2>1, <3>1, <3>6
  <2>4. QED BY <2>1, <2>2, <2>3
<1>9. ASSUME NEW c \in Convos, active = c, active' = c, Apply \/ Deliver \/ BreakWatch
      PROVE  ScreenShape'
  <2>1. Required(c)' => Shows(c)'
    BY <1>9, ShowsApplied, ShowsDelivered, ShowsBroken
  <2>2. QED BY <1>1, <1>9, <2>1
<1>10. CASE Apply \/ Deliver \/ BreakWatch
  <2>1. active' = active
    BY <1>10 DEF Apply, Deliver, BreakWatch
  <2>2. QED BY <1>00, <1>2, <1>9, <1>10, <2>1
<1>11. CASE RestartApp \/ Leave
  BY <1>2, <1>11 DEF RestartApp, Leave, ScreenShape, Required
<1>12. CASE Send \/ CreatedForSend
  <2>1. PICK c \in Convos : active' = c /\ Sends(c)
    BY <1>00, <1>12 DEF Send, CreatedForSend, Activate, PostInv
  <2>2. post'.conv = c /\ post'.at = "asked"
    BY <2>1 DEF Sends, NoPost
  <2>3. Sending(c)'
    BY <2>2 DEF Sending
  <2>4. QED BY <1>1, <2>1, <2>3 DEF Required
<1>13. CASE SendEnds
  <2>1. /\ UNCHANGED <<stored, saved, hub, watch, answer, active>> /\ post' = NoPost
    BY <1>13 DEF SendEnds, app
  <2>2. CASE active # post.conv
    <3>1. UNCHANGED <<screen, astray>>
      BY <1>13, <2>2 DEF SendEnds
    <3>2. ~Sending(active) /\ ~Sending(active)'
      BY <2>1, <2>2 DEF Sending, NoPost
    <3>3. NoDone' => NoDone
      BY <2>1 DEF NoDone, Lag
    <3>4. QED BY <1>5, <2>1, <3>1, <3>2, <3>3
  <2>3. CASE active = post.conv
    <3>1. PICK c \in Convos : c = active
      BY <1>13, <2>3 DEF SendEnds, PostInv
    <3>2. ASSUME Required(c)' PROVE Shows(c)'
      <4>1. /\ screen' = Ended(Get("refresh", c).msgs)
            /\ astray' = (astray \/ Going(c))
        BY <1>13, <2>3, <3>1 DEF SendEnds, Going
      <4>2. ~Going(c)'
        <5>1. ~Going(c)
          BY <3>2, <4>1, Zenon DEF Required
        <5>2. QED BY <2>1, <5>1 DEF Going
      <4>3. Knows(c)
        BY <2>1, <3>2 DEF Required, Knows
      <4>4. /\ screen'.live = <<>> /\ screen'.running = FALSE
            /\ screen'.messages = Get("refresh", c).msgs
        BY <4>1 DEF Ended
      <4>5. QED BY <1>00, <2>1, <4>2, <4>3, <4>4, ShowsEnded
    <3>3. QED BY <1>1, <2>1, <3>1, <3>2
  <2>4. QED BY <2>2, <2>3
<1>14. CASE Stop
  <2>1. PICK c \in Convos : c = active
    BY <1>00, <1>14 DEF Stop
  <2>2. /\ Stopped(c) /\ UNCHANGED <<stored, saved, post, active, screen>> /\ active # NoConvo
    BY <1>14, <2>1 DEF Stop, page
  <2>3. (Sending(active)' <=> Sending(active)) /\ StoreKeeps
    BY <2>2 DEF Sending, StoreKeeps
  <2>4. answer.to = "none" /\ answer'.to \in {"none", "stopped"}
    BY <1>14 DEF Stop, Nothing
  <2>5. \A x \in Convos : AwaitsOn(x)
    BY <2>4 DEF AwaitsOn, Awaits
  <2>6. OnlyTurn(c)
    BY <2>2, StopTurn
  <2>7. QED BY <1>3, <2>2, <2>3, <2>5, <2>6
(* A conversation is opened. *)
<1>15. ASSUME NEW c \in Convos, UNCHANGED <<saved, hub>>, Activate(c), screen' = Blank,
              answer' = Get("open", c), c \in stored \/ saved[c] = <<>>,
              active = c => astray' \/ hub[c].phase = "idle"
       PROVE  ScreenShape'
  <2>1. /\ answer'.msgs = saved'[c] /\ answer'.conv = c /\ answer'.to = "open"
    BY <1>15 DEF Get
  <2>2. active' = c /\ (active # c => watch'.at # "open")
    BY <1>15 DEF Activate
  <2>3. ASSUME Required(c)' PROVE Shows(c)'
    <3>1. watch'.at # "open" \/ hub'[c].phase = "idle"
      BY <1>15, <2>2, <2>3 DEF Required
    <3>2. QED BY <1>00, <1>15, <2>1, <3>1, ShowsBlank
  <2>4. QED BY <1>1, <2>2, <2>3
<1>16. ASSUME NEW c \in Convos, Open(c) PROVE ScreenShape'
  <2>1. /\ c \in stored /\ Activate(c) /\ screen' = Blank /\ answer' = Get("open", c)
        /\ UNCHANGED <<saved, hub>>
        /\ astray' = (active = c /\ (astray \/ Busy(c) \/ screen.live # <<>> \/ watch.frames # <<>>))
    BY <1>16 DEF Open, app
  <2>2. active = c => astray' \/ ~Busy(c)
    BY <2>1, Zenon
  <2>3. QED BY <1>15, <2>1, <2>2 DEF Busy
<1>17. ASSUME NEW c \in Convos, NewConvo(c) PROVE ScreenShape'
  <2>1. /\ c \notin stored /\ saved[c] = <<>> /\ Activate(c) /\ screen' = Blank
        /\ answer' = Get("open", c) /\ UNCHANGED <<saved, hub>>
    BY <1>17 DEF NewConvo, Makes
  <2>2. hub[c].phase = "idle"
    BY <2>1 DEF AppShape, FileShape, Busy
  <2>3. QED BY <1>15, <2>1, <2>2
<1>18. ASSUME NEW c \in Convos, Delete(c), active = c PROVE ScreenShape'
  <2>1. CASE active' = NoConvo
    BY <1>2, <2>1
  <2>2. CASE active' # NoConvo
    <3>1. PICK d \in stored \ {c} : Activate(d) /\ answer' = Get("open", d)
      BY <1>18, <2>2 DEF Delete
    <3>2. screen' = Blank /\ UNCHANGED <<saved, hub>>
      BY <1>18, <2>2 DEF Delete
    <3>3. QED BY <1>00, <1>15, <1>18, <3>1, <3>2
  <2>3. QED BY <2>1, <2>2
<1>19. QED
  BY <1>4, <1>6, <1>7, <1>8, <1>10, <1>11, <1>12, <1>13, <1>14, <1>16, <1>17, <1>18
     DEF Next, App, Body, Page, ByTheApp

LEMMA PageInit == Init => PageInv
<1> SUFFICES ASSUME Init PROVE PageInv
  OBVIOUS
<1>1. /\ hub = [c \in Convos |-> Idle] /\ bodies = {} /\ active = NoConvo /\ watch = NoWatch
      /\ answer = Nothing
  BY DEF Init
<1>2. \A c \in Convos : ~Busy(c)
  BY <1>1 DEF Busy, Idle
<1>3. AppShape
  BY <1>1, <1>2 DEF AppShape, FileShape
<1>4. StreamShape /\ ScreenShape
  BY <1>1 DEF StreamShape, ScreenShape, NoWatch
<1>5. AnswerShape
  BY <1>1 DEF AnswerShape, Nothing
<1>6. QED BY <1>3, <1>4, <1>5 DEF PageInv

LEMMA PageStep == IInv /\ PageInv /\ [Next]_vars => PageInv'
  BY AppShapeStep, StreamStep, ShownStep, AnswerShapeStep DEF PageInv

(* Nothing is on its way: the page shows all there is. *)
LEMMA QuietAgrees == ASSUME IInv, PageInv PROVE PageAgrees
<1>0. AppInv /\ WatchInv /\ ScreenTyped /\ AppShape /\ ScreenShape /\ FilesInOrder
  BY DEF IInv, PageInv
<1> SUFFICES ASSUME watch.at = "open", Quiet, ~astray
             PROVE  /\ screen.running <=> Going(active)
                    /\ screen.messages \o screen.live = Said(active)
  BY <1>0 DEF PageAgrees, SeesTheRun, FilesInOrder
<1>1. PICK c \in Convos : c = active /\ c \in stored
  BY <1>0 DEF Quiet, AppInv, AppTyped
<1>2. Lag = 0 /\ answer = Nothing /\ post.at = "none" /\ c # NoConvo
  BY <1>1, ConvosAssumption DEF Quiet, Lag
<1>3. Required(c)
  BY <1>1, <1>2 DEF Required, Knows, Sending, NoDone
<1>4. Shows(c) /\ ~Awaits(c)
  BY <1>0, <1>1, <1>2, <1>3 DEF ScreenShape, Awaits, Nothing
<1>5. CASE Going(c)
  <2>2. hub[c].parts \in Nat
    BY <1>0, <1>1, Wire
  <2>3. Heard(c) /\ hub[c].parts - Lag = hub[c].parts
    BY <1>2, <2>2 DEF Heard
  <2>4. /\ screen.running
        /\ screen.messages = Base(c) \o <<User(hub[c].run)>>
        /\ screen.live = Parts(hub[c].run, hub[c].parts)
    BY <1>4, <1>5, <2>3 DEF Shows
  <2>5. QED BY <1>1, <1>5, <2>4 DEF Said, Asking, Base
<1>6. CASE ~Going(c)
  <2>1. Settled(c)
    <3>1. hub[c].phase \in Phases
      BY <1>0 DEF AppInv, AppTyped, Hubs
    <3>2. QED BY <1>6, <3>1 DEF Phases, Going, Settled
  <2>2. screen.live = <<>> /\ ~screen.running /\ screen.messages = saved[c]
    BY <1>4, <2>1 DEF Shows, Begins
  <2>3. saved[c] = Said(c)
    BY <1>6 DEF Said
  <2>4. saved[c] \in Seq(Entries)
    BY <1>0 DEF AppInv, AppTyped
  <2>5. saved[c] \o <<>> = saved[c]
    BY <2>4
  <2>6. QED BY <1>1, <1>6, <2>2, <2>3, <2>5
<1>7. QED BY <1>5, <1>6

(* Once everything has arrived, a page whose stream found its hub says      *)
(* "running" exactly while a run is under way, and then shows all that it   *)
(* has said, each part once, whether the file, the replay, the stream or an *)
(* answer brought it; and once it is over exactly what the file kept, which *)
(* is in order, with no part twice.                                        *)
THEOREM PageAgreesCorrect == Spec => []PageAgrees
<1>1. Init => IInv /\ PageInv
  BY InvInit, PageInit
<1>2. (IInv /\ PageInv) /\ [Next]_vars => (IInv /\ PageInv)'
  BY InvStep, PageStep
<1>3. IInv /\ PageInv => PageAgrees
  BY QuietAgrees
<1>4. QED BY <1>1, <1>2, <1>3, PTL DEF Spec

=============================================================================
