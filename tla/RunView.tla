-------------------------------- MODULE RunView --------------------------------
(***************************************************************************)
(* The Run tab (app/frontend/src/tabs/RunTab.jsx) and the hub that fans an  *)
(* agent run out to whoever watches its conversation (_RunHub in            *)
(* app/main.py).  The page that sends a message reads the run from its own  *)
(* POST; every page also watches the open conversation through a stream     *)
(* that replays the current run and then follows it, and asks for the saved *)
(* conversation when it opens it and when a run is over.                    *)
(*                                                                         *)
(* A run is a number; what it says is its user message (part 0), then parts *)
(* 1, 2, ...: reasoning, tokens, tool calls and results alike.  The GET of  *)
(* an opened conversation and the one after a "done" are answered when they *)
(* are sent and may be old when they are used; the watch stream lags; the   *)
(* page reads its own POST as it is written, and uses the answer of the GET *)
(* that ends a send at once; a Stop arrives at once, and its answer may be  *)
(* old when it is used.                                                     *)
(***************************************************************************)
EXTENDS Integers, Sequences, FiniteSets, Functions

CONSTANTS
    Convos,       \* conversations
    NoConvo,      \* activeId is null
    Sizes,        \* bound: sets of conversations, each with the number of runs and
                  \* faults in one behaviour with them (faults: broken streams,
                  \* vanished senders, restarts, deletions by another page)
    MaxParts,     \* bound: parts a run says after the user message
    MaxLag        \* bound: frames on their way when a run starts or speaks

ASSUME ConvosAssumption == NoConvo \notin Convos
ASSUME BoundsAssumption ==
    {MaxParts, MaxLag} \subseteq Nat /\ Sizes \subseteq [convos : SUBSET Convos, runs : Nat]

VARIABLES
    \* the app
    stored,     \* the conversations that have a file
    saved,      \* what that file shows
    hub,        \* _RUN_HUBS: the latest claim on each conversation
    convo,      \* what its driver would save of its run: the parts its messages have
                \* (told), and those of the tool batch under way (tools)
    bodies,     \* claimed runs whose response body has not started
    drivers,    \* runs whose generator is running, with their conversation
    asks,       \* what each run's user message says: the run that said it first
    \* between the app and the page
    watch,      \* the stream that follows the open conversation
    post,       \* the page's own POST of a message (one at a time: a bound)
    answer,     \* of a GET of the open conversation, or of a Stop (one at a time: a bound)
    \* the page
    active,     \* activeId
    screen,     \* messages, live, runActive
    \* history, read by no action but to keep it
    astray,     \* since the last done frame, the page met what it cannot notice
    faults,
    size        \* of this behaviour

app == <<stored, saved, hub, convo, bodies, drivers, asks>>
requests == <<post, answer>>
page == <<active, screen>>
bounds == <<faults, size>>
vars == <<app, watch, requests, page, astray, bounds>>

Runs == Nat \ {0}
Entries == [run : Nat, part : 0..MaxParts]    \* run 0: not yet known by number
Done == MaxParts + 1
Frames == [run : Runs, part : 0..Done]
Phases == {"idle", "claimed", "driven", "closing", "cut"}

Idle == [run |-> 0, phase |-> "idle", parts |-> 0, stopping |-> FALSE]
Fresh == [told |-> <<>>, tools |-> <<>>]
Nothing == [to |-> "none", conv |-> NoConvo, msgs |-> <<>>, running |-> FALSE]
NoPost == [at |-> "none", conv |-> NoConvo, run |-> 0]
NoWatch == [at |-> "none", frames |-> <<>>]
Blank == [messages |-> <<>>, live |-> <<>>, running |-> FALSE]

Answers == [to : {"none", "open", "refresh", "stopped"}, conv : Convos \cup {NoConvo}, msgs : Seq(Entries), running : BOOLEAN]

TypeOK ==
    /\ stored \subseteq Convos
    /\ saved \in [Convos -> Seq(Entries)]
    /\ hub \in [Convos -> [run : Nat, phase : Phases, parts : 0..MaxParts,
                           stopping : BOOLEAN]]
    /\ convo \in [Convos -> [told : Seq(Entries), tools : Seq(Entries)]]
    /\ \A d \in bodies \cup drivers : d \in Runs \X Convos
    /\ asks \in Seq(Runs)
    /\ watch.at \in {"none", "asked", "entered", "open", "outlived", "deaf"}
    /\ watch.frames \in Seq(Frames)
    /\ post \in [at : {"none", "creating", "asked", "streaming", "closed"},
                conv : Convos \cup {NoConvo}, run : Nat]
    /\ answer \in Answers
    /\ active \in Convos \cup {NoConvo}
    /\ screen \in [messages : Seq(Entries), live : Seq(Entries), running : BOOLEAN]
    /\ astray \in BOOLEAN /\ faults \in Nat /\ size \in Sizes

Init ==
    /\ size \in Sizes /\ stored \in {{}, size.convos}
    /\ saved = [c \in Convos |-> <<>>]
    /\ hub = [c \in Convos |-> Idle] /\ convo = [c \in Convos |-> Fresh]
    /\ bodies = {} /\ drivers = {} /\ asks = <<>>
    /\ watch = NoWatch /\ post = NoPost /\ answer = Nothing
    /\ active = NoConvo /\ screen = Blank
    /\ astray = FALSE /\ faults = 0

Spent == Len(asks) + faults = size.runs
Fault == ~Spent /\ faults' = faults + 1 /\ UNCHANGED size

(***************************************************************************)
(* The hub.                                                                *)
(***************************************************************************)
Busy(c) == hub[c].phase # "idle"

(* end: the claim is given up.                                              *)
Freed(h) == [h EXCEPT !.phase = "idle", !.stopping = FALSE]

User(r) == [run |-> r, part |-> 0]
Parts(r, n) == [i \in 1..n |-> [run |-> r, part |-> i]]
DoneOf(r) == [run |-> r, part |-> Done]
IsDone(f) == f.part = Done

(* The buffer: the frames of the current run, for whoever joins it late.    *)
Buffer(c) == LET h == hub[c]
             IN CASE h.phase = "idle" -> <<>>
                  [] h.phase = "closing" ->
                        <<User(h.run)>> \o Parts(h.run, h.parts) \o <<DoneOf(h.run)>>
                  [] h.phase \in {"claimed", "driven", "cut"} ->
                        <<User(h.run)>> \o Parts(h.run, h.parts)

(* What was said before run r: the conversation as send_message loaded it.  *)
Before(entries, r) ==
    LET own == {i \in DOMAIN entries : entries[i].run = r} \cup {Len(entries) + 1}
    IN SubSeq(entries, 1, (CHOOSE i \in own : \A j \in own : i <= j) - 1)

(* What a conversation has to say: all that its run has said so far, saved  *)
(* or not; once the run is over, what its file kept.                        *)
Going(c) == hub[c].phase \in {"claimed", "driven", "cut"}
Asking(c) == Before(saved[c], hub[c].run) \o <<User(hub[c].run)>>
Said(c) == IF Going(c) THEN Asking(c) \o Parts(hub[c].run, hub[c].parts) ELSE saved[c]

(* _save_convo, as the driver of the conversation calls it.                 *)
Written(c) == Asking(c) \o convo[c].told

Hears(c) == active = c /\ watch.at = "open"

(* A "done" that the stream does not bring is missed.                       *)
Misses(c, f) == active = c /\ watch.at # "open" /\ IsDone(f)

Publish(c, f) ==
    /\ watch' = IF Hears(c) THEN [watch EXCEPT !.frames = Append(@, f)] ELSE watch
    /\ astray' = (astray \/ Misses(c, f))

(* The sender reads what its run yields; the stream ends after "done".      *)
Reads(r) == post.at = "streaming" /\ post.run = r
Yield(r, f) ==
    /\ post' = IF Reads(r) /\ IsDone(f) THEN [post EXCEPT !.at = "closed"] ELSE post
    /\ screen' = IF Reads(r) /\ active = post.conv /\ ~IsDone(f)
                 THEN [screen EXCEPT !.live = Append(@, f)] ELSE screen

Silent == UNCHANGED <<watch, astray>>

(* send_message: the question is saved, the claim made and published with   *)
(* no await in between.                                                     *)
Claim(c, q) ==
    LET r == Len(asks) + 1
    IN /\ Len(watch.frames) < MaxLag /\ ~Spent /\ ~Busy(c)
       /\ asks' = Append(asks, q)
       /\ saved' = [saved EXCEPT ![c] = Append(@, User(r))]
       /\ hub' = [hub EXCEPT ![c] = [run |-> r, phase |-> "claimed", parts |-> 0,
                                     stopping |-> FALSE]]
       /\ bodies' = bodies \cup {<<r, c>>}
       /\ Publish(c, User(r))

OtherSends(c) ==
    /\ c \in stored
    /\ \E q \in {Len(asks) + 1} \cup Range(asks) : Claim(c, q)
    /\ UNCHANGED <<stored, convo, drivers, requests, page, bounds>>

StartsAnyClaim(r, c) == Busy(c) /\ ~hub[c].stopping  \* mutant of Starts

(* start: a claim that Stop or the timer retired is not revived.            *)
Starts(r, c) == hub[c].run = r /\ Busy(c) /\ ~hub[c].stopping

BodyStarts(r, c) ==
    /\ bodies' = bodies \ {<<r, c>>}
    /\ \/ /\ Starts(r, c)
          /\ hub' = [hub EXCEPT ![c].phase = "driven"]
          /\ drivers' = drivers \cup {<<r, c>>}
          /\ UNCHANGED <<post, screen>>
       \/ /\ ~Starts(r, c)
          /\ Yield(r, DoneOf(r))
          /\ UNCHANGED <<hub, drivers>>
    /\ Silent /\ UNCHANGED <<stored, saved, convo, asks, answer, active, bounds>>

(* The client went away before the body was iterated.                       *)
NeverStarts(r, c) ==
    /\ Fault
    /\ bodies' = bodies \ {<<r, c>>}
    /\ Yield(r, DoneOf(r))
    /\ Silent /\ UNCHANGED <<stored, saved, hub, convo, drivers, asks, answer, active>>

ExpireSilently(c) ==                             \* mutant of ExpireUnstarted
    /\ hub[c].phase = "claimed"
    /\ hub' = [hub EXCEPT ![c] = Freed(@)]
    /\ Silent
    /\ UNCHANGED <<stored, saved, convo, bodies, drivers, asks, requests, page, bounds>>

(* _expire_unstarted, RUN_START_GRACE_SECONDS after the claim.              *)
ExpireUnstarted(c) ==
    /\ hub[c].phase = "claimed"
    /\ hub' = [hub EXCEPT ![c] = Freed(@)]
    /\ Publish(c, DoneOf(hub[c].run))
    /\ UNCHANGED <<stored, saved, convo, bodies, drivers, asks, requests, page, bounds>>

(* A part is said: of the reply, which its message has at once, or of the   *)
(* tool batch under way.                                                    *)
Speak(c) ==
    LET r == hub[c].run
        part == [run |-> r, part |-> hub[c].parts + 1]
    IN /\ hub[c].phase = "driven" /\ ~hub[c].stopping
       /\ hub[c].parts < MaxParts /\ Len(watch.frames) < MaxLag
       /\ hub' = [hub EXCEPT ![c].parts = @ + 1]
       /\ \/ convo[c].tools = <<>> /\ convo' = [convo EXCEPT ![c].told = Append(@, part)]
          \/ convo' = [convo EXCEPT ![c].tools = Append(@, part)]
       /\ Publish(c, part) /\ Yield(r, part)
       /\ UNCHANGED <<stored, saved, bodies, drivers, asks, answer, active, bounds>>

(* The reply is saved while it streams, at most once a second.              *)
Checkpoint(c) ==
    /\ hub[c].phase = "driven" /\ saved[c] # Written(c)
    /\ saved' = [saved EXCEPT ![c] = Written(c)]
    /\ Silent
    /\ UNCHANGED <<stored, hub, convo, bodies, drivers, asks, requests, page, bounds>>

(* A tool batch is over: only now does the message that announced it get    *)
(* its tools.                                                               *)
ToolsDone(c) ==
    /\ hub[c].phase = "driven" /\ convo[c].tools # <<>>
    /\ convo' = [convo EXCEPT ![c] = [told |-> @.told \o @.tools, tools |-> <<>>]]
    /\ saved' = [saved EXCEPT ![c] = Asking(c) \o convo'[c].told]
    /\ Silent /\ UNCHANGED <<stored, hub, bodies, drivers, asks, requests, page, bounds>>

(* What a round said is dropped: its model call is retried, or it was going *)
(* round in a loop.  Rounds are not told apart: any end may be one.         *)
DropRound(c) ==
    /\ hub[c].phase = "driven" /\ convo[c].tools = <<>>
    /\ \E n \in 0 .. Len(convo[c].told) - 1 :
          convo' = [convo EXCEPT ![c].told = SubSeq(@, 1, n)]
    /\ Silent
    /\ UNCHANGED <<stored, saved, hub, bodies, drivers, asks, requests, page, bounds>>

(* The run is over or was stopped: what its messages have is saved before   *)
(* it says "done"; or it failed, and nothing is.  What a tool batch under   *)
(* way has said is lost.  The hub is released after "done" is sent.         *)
Finish(c) ==
    LET r == hub[c].run
    IN /\ hub[c].phase = "driven"
       /\ saved' \in {saved, [saved EXCEPT ![c] = Written(c)]}
       /\ hub' = [hub EXCEPT ![c].phase = "closing"]
       /\ convo' = [convo EXCEPT ![c] = Fresh]
       /\ Publish(c, DoneOf(r)) /\ Yield(r, DoneOf(r))
       /\ UNCHANGED <<stored, bodies, drivers, asks, answer, active, bounds>>

Released(c) ==
    /\ hub' = [hub EXCEPT ![c] = Freed(@)]
    /\ drivers' = drivers \ {<<hub[c].run, c>>}

End(c) ==
    /\ hub[c].phase = "closing" /\ Released(c)
    /\ astray' = (astray \/ Misses(c, DoneOf(hub[c].run)))     \* not replayed any more
    /\ UNCHANGED <<stored, saved, convo, bodies, asks, watch, requests, page, bounds>>

(* The sender disconnected.  The generator is cancelled where it awaits,    *)
(* saves and publishes "done"; or it is cut at a yield, and only its        *)
(* finally clause runs, when it is collected.                               *)
Cancelled(c) ==
    /\ hub[c].phase = "driven" /\ Fault
    /\ saved' = [saved EXCEPT ![c] = Written(c)]
    /\ convo' = [convo EXCEPT ![c] = Fresh]
    /\ Released(c)
    /\ Publish(c, DoneOf(hub[c].run)) /\ Yield(hub[c].run, DoneOf(hub[c].run))
    /\ UNCHANGED <<stored, bodies, asks, answer, active>>

Cut(c) ==
    /\ hub[c].phase = "driven" /\ Fault
    /\ hub' = [hub EXCEPT ![c].phase = "cut"]
    /\ convo' = [convo EXCEPT ![c] = Fresh]
    /\ Yield(hub[c].run, DoneOf(hub[c].run))
    /\ Silent /\ UNCHANGED <<stored, saved, bodies, drivers, asks, answer, active>>

(* is_running repairs the claim of a dead driver, if anyone asks in time.   *)
CutEnds(c) ==
    /\ hub[c].phase = "cut" /\ Released(c)
    /\ \/ Publish(c, DoneOf(hub[c].run))
       \/ astray' = (astray \/ active = c) /\ UNCHANGED watch
    /\ UNCHANGED <<stored, saved, convo, bodies, asks, requests, page, bounds>>

Stopped(c) ==
    IF hub[c].phase = "claimed"
    THEN hub' = [hub EXCEPT ![c] = Freed(@)] /\ Publish(c, DoneOf(hub[c].run))
    ELSE hub' = [hub EXCEPT ![c].stopping = Busy(c)] /\ Silent

OtherStops(c) ==
    /\ Busy(c) /\ ~hub[c].stopping /\ Stopped(c)
    /\ UNCHANGED <<stored, saved, convo, bodies, drivers, asks, requests, page, bounds>>

(* _gc_hub, called when a run ends, after a Stop and when a watcher leaves: *)
(* an idle hub without subscribers is dropped, and the next run gets a new  *)
(* one; the handler of a stream may have the old one in hand by then.       *)
DropHub(c) ==
    /\ ~Busy(c) /\ active = c /\ watch.at = "entered"
    /\ watch' = [watch EXCEPT !.at = "outlived"]
    /\ UNCHANGED <<app, requests, page, astray, bounds>>

OtherDeletes(c) ==
    /\ c \in stored /\ ~Busy(c) /\ Fault
    /\ stored' = stored \ {c}
    /\ UNCHANGED <<saved, hub, convo, bodies, drivers, asks, watch, requests, page, astray>>

(* The app is restarted: every run is lost where it was last saved, and     *)
(* every connection with it.                                                *)
RestartApp ==
    /\ Fault
    /\ hub' = [c \in Convos |-> Freed(hub[c])]
    /\ convo' = [c \in Convos |-> Fresh] /\ bodies' = {} /\ drivers' = {}
    /\ post' = IF post.at \in {"asked", "streaming"} THEN [post EXCEPT !.at = "closed"] ELSE post
    /\ watch' = IF watch.at = "none" THEN watch ELSE [at |-> "asked", frames |-> <<>>]
    /\ screen' = IF watch.at = "none" THEN screen ELSE [screen EXCEPT !.live = <<>>]
    /\ astray' = (active # NoConvo)
    /\ UNCHANGED <<stored, saved, asks, answer, active>>

(***************************************************************************)
(* The page: opening and following a conversation.                          *)
(***************************************************************************)
Get(to, c) == [to |-> to, conv |-> c, msgs |-> IF c \in stored THEN saved[c] ELSE <<>>,
               running |-> c \in stored /\ Busy(c)]

(* The effect that follows the conversation runs when activeId changes, not *)
(* when the open conversation is clicked again: nothing is replayed then.   *)
Activate(c) ==
    /\ active' = c
    /\ watch' = IF active = c THEN watch ELSE [at |-> "asked", frames |-> <<>>]

Open(c) ==
    /\ c \in stored
    /\ Activate(c)
    /\ screen' = Blank
    /\ answer.to \notin {"refresh", "stopped"}
    /\ answer' = Get("open", c)   \* the token drops an older one
    /\ astray' = (active = c /\ (astray \/ Busy(c) \/ screen.live # <<>> \/ watch.frames # <<>>))
    /\ UNCHANGED <<app, post, bounds>>

(* A "done" frame is on its way, or will be: of a run that goes on, or of   *)
(* one that is closing, to a stream that is not there yet.                  *)
DoneToCome(c) ==
    \/ \E f \in Range(watch.frames) : IsDone(f)
    \/ Going(c)
    \/ hub[c].phase = "closing" /\ watch.at # "open"

(* What is shown when the page itself takes a run to be over.               *)
Ended(messages) == [messages |-> messages, live |-> <<>>, running |-> FALSE]

(* The answer replaces what is shown, whatever the stream has shown         *)
(* meanwhile; that of another conversation than the open one is dropped.    *)
(* Told by a Stop that no run is under way, the page waits for no "done".   *)
Apply ==
    /\ answer.to # "none"
    /\ answer' = IF active = answer.conv /\ answer.to = "stopped" THEN Get("refresh", active)
                 ELSE Nothing
    /\ \/ /\ active = answer.conv /\ answer.to = "open"
          /\ screen' = [screen EXCEPT !.messages = answer.msgs, !.running = answer.running]
          /\ astray' = (astray \/ screen # Blank \/ (answer.running /\ ~DoneToCome(active)))
       \/ /\ active = answer.conv /\ answer.to = "refresh"
          /\ screen' = [screen EXCEPT !.messages = answer.msgs]
          /\ astray' = (astray \/ screen.running \/ answer.msgs # saved[active])
       \/ /\ active = answer.conv /\ answer.to = "stopped"
          /\ screen' = Ended(screen.messages)
          /\ astray' = (astray \/ Going(active))
       \/ /\ active # answer.conv
          /\ UNCHANGED <<screen, astray>>
    /\ UNCHANGED <<app, watch, post, active, bounds>>

WatchEnters ==
    /\ watch.at = "asked" /\ active \in stored
    /\ watch' = [watch EXCEPT !.at = "entered"]
    /\ UNCHANGED <<app, requests, page, astray, bounds>>

Subscribe ==
    /\ watch.at \in {"entered", "outlived"}
    /\ watch' = IF watch.at = "entered" THEN [at |-> "open", frames |-> Buffer(active)]
                ELSE [watch EXCEPT !.at = "deaf"]
    /\ UNCHANGED <<app, requests, page, astray, bounds>>

(* The stream is lost; a second later it is asked for again, and what was   *)
(* live is shown from the start of the replay.                              *)
BreakWatch ==
    /\ watch.at \in {"open", "deaf"} /\ Fault
    /\ watch' = [at |-> "asked", frames |-> <<>>]
    /\ screen' = [screen EXCEPT !.live = <<>>]
    /\ astray' = (astray \/ \E f \in Range(watch.frames) : IsDone(f))
    /\ UNCHANGED <<app, requests, active>>

Sending(c) == post.conv = c /\ post.at \notin {"none", "creating"}

SameQuestion(e, f) == e.part = 0 /\ e.run # 0 /\ asks[e.run] = asks[f.run]

AskedAgain(messages, f) == Append(messages, f)   \* mutant of Asked

(* A user frame cuts what is shown after the last message that asks the     *)
(* same, or else is appended.                                               *)
Asked(messages, f) ==
    LET same == {i \in DOMAIN messages : SameQuestion(messages[i], f)}
    IN IF same = {} THEN Append(messages, f)
       ELSE SubSeq(messages, 1, CHOOSE i \in same : \A j \in same : j <= i)

Shown(f) ==
    CASE f.part = 0 -> [messages |-> Asked(screen.messages, f), live |-> <<>>,
                        running |-> TRUE]
      [] f.part \in 1..MaxParts -> [screen EXCEPT !.live = Append(@, f), !.running = TRUE]
      [] IsDone(f) -> [screen EXCEPT !.live = <<>>, !.running = FALSE]

(* The cut took away more than this run's own: the same had been asked      *)
(* before, and what this run asked was not on screen yet.                   *)
CutsTooMuch(f) ==
    /\ f.part = 0
    /\ \E e \in Range(screen.messages) : SameQuestion(e, f)
    /\ f \notin Range(screen.messages)

(* A GET whose answer is used later, or at once when another one is awaited. *)
Refreshes(shown) ==
    IF answer = Nothing
    THEN answer' = Get("refresh", active) /\ screen' = shown
    ELSE /\ screen' = [shown EXCEPT !.messages = Get("refresh", active).msgs]
         /\ UNCHANGED answer

(* One frame of the stream; while the page sends to the conversation, the   *)
(* stream is ignored, whoever's run it tells of.                            *)
Deliver ==
    /\ watch.frames # <<>>
    /\ watch' = [watch EXCEPT !.frames = Tail(@)]
    /\ LET f == Head(watch.frames)
       IN \/ /\ Sending(active)
             /\ astray' = (astray \/ f.run # post.run)
             /\ UNCHANGED <<screen, answer>>
          \/ /\ ~Sending(active) /\ ~IsDone(f)
             /\ screen' = Shown(f)
             /\ astray' = (astray \/ CutsTooMuch(f))
             /\ UNCHANGED answer
          \/ /\ ~Sending(active) /\ IsDone(f)
             /\ Refreshes(Shown(f))
             /\ astray' = (astray /\ f.run # hub[active].run)
    /\ UNCHANGED <<app, post, active, bounds>>

(***************************************************************************)
(* The page: sending, stopping, making and deleting conversations.          *)
(***************************************************************************)
RunBusy == screen.running \/ Sending(active)

(* The question is shown, and the composer blocked, before it is sent.      *)
Sends(c) ==
    /\ post' = [NoPost EXCEPT !.at = "asked", !.conv = c]
    /\ screen' = [messages |-> Append(screen.messages, [run |-> 0, part |-> 0]),
                  live |-> <<>>, running |-> TRUE]

Send ==
    /\ active # NoConvo /\ ~RunBusy /\ post.at = "none"
    /\ Sends(active)
    /\ UNCHANGED <<app, watch, answer, active, astray, bounds>>

Makes(c) == c \in size.convos \ stored /\ saved[c] = <<>> /\ stored' = stored \cup {c}

(* Without a conversation, one is made first.                               *)
SendCreates(c) ==
    /\ active = NoConvo /\ ~RunBusy /\ post.at = "none"
    /\ Makes(c)
    /\ post' = [NoPost EXCEPT !.at = "creating", !.conv = c]
    /\ UNCHANGED <<saved, hub, convo, bodies, drivers, asks, watch, answer, page,
                   astray, bounds>>

CreatedForSend ==
    /\ post.at = "creating"
    /\ Activate(post.conv) /\ Sends(post.conv)
    /\ astray' = (active # NoConvo)
    /\ UNCHANGED <<app, answer, bounds>>

PostArrives ==
    /\ post.at = "asked"
    /\ \/ /\ post.conv \in stored /\ Claim(post.conv, Len(asks) + 1)
          /\ post' = [post EXCEPT !.at = "streaming", !.run = Len(asks')]
       \/ /\ post.conv \notin stored \/ Busy(post.conv) \/ Spent
          \* 404, 409, or at the bound any other refusal
          /\ post' = [post EXCEPT !.at = "closed"]
          /\ UNCHANGED <<saved, hub, bodies, asks, watch, astray>>
    /\ UNCHANGED <<stored, convo, drivers, answer, page, bounds>>

PostFails ==
    /\ post.at = "asked" /\ Fault
    /\ post' = [post EXCEPT !.at = "closed"]
    /\ UNCHANGED <<app, watch, answer, page, astray>>

(* The POST is over, one way or the other: the conversation is read again,  *)
(* and what is live gives way to it.                                        *)
SendEnds ==
    /\ post.at = "closed" /\ post' = NoPost
    /\ IF active = post.conv
       THEN /\ screen' = Ended(Get("refresh", active).msgs)
            /\ astray' = (astray \/ Going(active))
       ELSE UNCHANGED <<screen, astray>>
    /\ UNCHANGED <<app, watch, answer, active, bounds>>

(* Stop: the run is asked to wind down; or a claim without a body is        *)
(* released, and the page told so.                                          *)
Stop ==
    /\ active # NoConvo /\ RunBusy /\ answer = Nothing
    /\ Stopped(active)
    /\ answer' = IF hub'[active].phase # "idle" THEN Nothing
                 ELSE [Nothing EXCEPT !.to = "stopped", !.conv = active]
    /\ UNCHANGED <<stored, saved, convo, bodies, drivers, asks, post, page, bounds>>

(* "+ New": the conversation is made and opened.                            *)
NewConvo(c) ==
    /\ Makes(c)
    /\ Activate(c) /\ answer.to \notin {"refresh", "stopped"} /\ answer' = Get("open", c)
    /\ screen' = Blank /\ astray' = FALSE
    /\ UNCHANGED <<saved, hub, convo, bodies, drivers, asks, post, bounds>>

(* Delete: refused while a run is shown or, by the app, while one runs.     *)
Delete(c) ==
    /\ c \in stored /\ ~Busy(c) /\ ~(active = c /\ screen.running)
    /\ stored' = stored \ {c}
    /\ \/ /\ active # c
          /\ UNCHANGED <<active, watch, answer, screen, astray>>
       \/ /\ active = c
          /\ \E d \in stored' : Activate(d) /\ answer' = Get("open", d)
          /\ screen' = Blank /\ astray' = FALSE
       \/ /\ active = c /\ stored' = {}
          /\ active' = NoConvo /\ watch' = NoWatch
          /\ screen' = [screen EXCEPT !.messages = <<>>]
          /\ astray' = FALSE /\ UNCHANGED answer
    /\ UNCHANGED <<saved, hub, convo, bodies, drivers, asks, post, bounds>>

(* Another tab: the stream is closed, but a run this page sent goes on.     *)
Leave ==
    /\ active # NoConvo
    /\ active' = NoConvo /\ screen' = Blank
    /\ watch' = NoWatch /\ astray' = FALSE
    /\ post' = NoPost /\ answer' = Nothing
    /\ UNCHANGED <<app, bounds>>

Body == \E b \in bodies : BodyStarts(b[1], b[2])

Driver(c) == Speak(c) \/ ToolsDone(c) \/ Finish(c) \/ End(c) \/ CutEnds(c)

App == Body \/ \E c \in Convos : Driver(c) \/ ExpireUnstarted(c)

Page == \/ Apply \/ WatchEnters \/ Subscribe \/ Deliver
        \/ CreatedForSend \/ PostArrives \/ SendEnds

Next ==
    \/ App \/ \E b \in bodies : NeverStarts(b[1], b[2])
    \/ \E c \in Convos :
         \/ Checkpoint(c) \/ DropRound(c) \/ Cancelled(c) \/ Cut(c)
         \/ OtherSends(c) \/ OtherStops(c) \/ OtherDeletes(c) \/ DropHub(c)
         \/ Open(c) \/ SendCreates(c) \/ NewConvo(c) \/ Delete(c)
    \/ RestartApp \/ BreakWatch \/ Leave
    \/ Page \/ Send \/ PostFails \/ Stop

Spec == Init /\ [][Next]_vars

(* The app's event loop runs, timers fire, what is sent arrives; a run ends *)
(* by itself, for the model and its tools answer or time out.               *)
Fairness == WF_vars(App) /\ WF_vars(Page)

FairSpec == Spec /\ Fairness

(***************************************************************************)
(* Properties.                                                             *)
(***************************************************************************)
(* At most one run works on a conversation at a time, whoever sent it: two   *)
(* would write the same file from two histories.                            *)
OneDriver == \A d, e \in drivers : d[2] = e[2] => d = e

(* Nothing of another conversation is ever on screen, unless a conversation  *)
(* that was made for a message came when another one had been opened.       *)
NothingForeign ==
    active # NoConvo /\ ~astray => \A e \in Range(screen.messages \o screen.live) :
        e.run # 0 => User(e.run) \in Range(saved[active])

(* ... and what the page and the app hold is well formed (TypeOK).           *)
RunInv == TypeOK /\ OneDriver /\ NothingForeign

(* A claim does not outlive its run: the conversation takes a message again *)
(* even when the claimed response never started, was cut or was stopped.    *)
ClaimIsReleased == \A c \in Convos : Busy(c) ~> ~Busy(c)

(* Nothing the page sent or awaits is on its way, and its stream is open.   *)
Quiet ==
    /\ active \in stored /\ watch.at \in {"open", "deaf"} /\ watch.frames = <<>>
    /\ post.at = "none" /\ answer = Nothing

(* Once everything has arrived, the page says "running" exactly while a run  *)
(* is under way.                                                            *)
SeesTheRun ==
    Quiet /\ ~astray => (screen.running <=> Going(active))

(* What a file keeps of a run is in the order in which it was said, each    *)
(* part once, though checkpoints, tool batches, retries and failures write  *)
(* some of it, or less than the last time.                                  *)
InOrder(entries) ==
    \A i, j \in DOMAIN entries :
        i < j /\ entries[i].run = entries[j].run => entries[i].part < entries[j].part

(* A page whose stream found its hub, once everything has arrived, sees the  *)
(* run and shows all that it has said, whether that came from the file, the *)
(* replay or the live stream; and once the run is over exactly what the     *)
(* file kept, although more of it had been on screen.  Either way each part  *)
(* once, in order.  The exceptions are those the actions mark.              *)
PageAgrees ==
    /\ \A c \in Convos : InOrder(saved[c])
    /\ watch.at = "open" => SeesTheRun
    /\ watch.at = "open" /\ Quiet /\ ~astray => screen.messages \o screen.live = Said(active)

(* A page that says "running" stops saying so.                              *)
RunIsSeenToEnd == screen.running ~> (~screen.running \/ astray)

(* A run ends for the app and for the page.                                  *)
RunsEnd == ClaimIsReleased /\ RunIsSeenToEnd

=============================================================================
