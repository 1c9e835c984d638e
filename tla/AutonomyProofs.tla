--------------------------- MODULE AutonomyProofs ---------------------------
(***************************************************************************)
(* What the system does unattended is right for every set of triggers,      *)
(* proposals and errors, and every bound:                                   *)
(*   - a trigger's change is held unless it is verified: what the drainer   *)
(*     decides it decides on settings the rest of the run still finds;      *)
(*   - the daily cap holds: the loops of a tick thread a store of the       *)
(*     kernel, and each turn of theirs keeps it counted and under the cap;  *)
(*   - a one-shot still to fire has a proposal scheduled by it, as long as  *)
(*     the plugin's requests do not overlap and none is cut.                *)
(* The loops are recursive functions over numbers: UpTo and Chain below     *)
(* give the induction that says what they compute.                          *)
(***************************************************************************)
EXTENDS Autonomy, FiniteSetTheorems, SequenceTheorems, WellFoundedInduction, TLAPS

\* A run is what the drainer has in hand: a stage, a mark, a task and its checks.
RunShape == DOMAIN run = {"at", "steady", "task", "checks"}

\* With settings that did not change: past the commit, the gate being on, the
\* checks are derived as it says, and past the decision the gate is on.
DecidedRightly ==
    run.steady =>
        /\ run.at \in {"committed", "boot", "verify"} /\ cfg.verifier => run.checks # "none"
        /\ run.at # "none" => ~ (run.checks = "failed" /\ cfg.strict)
        /\ run.at = "boot" /\ run.task.by # 0 => cfg.verifier
        /\ run.at = "verify" => cfg.verifier

SafeInv == RunShape /\ DecidedRightly /\ HeldUnlessVerified

\* The first state holds no run and nothing that went live.
LEMMA InitSafe == Init => SafeInv
  BY DEF Init, SafeInv, RunShape, DecidedRightly, HeldUnlessVerified, NoRun

\* Steps that touch neither the settings, nor the run, nor what went live.
LEMMA Elsewhere ==
    ASSUME SafeInv, UNCHANGED <<cfg, run, shipped>>
    PROVE  SafeInv'
  BY DEF SafeInv, RunShape, DecidedRightly, HeldUnlessVerified

\* A run that ends, with nothing gone live.
LEMMA Ended ==
    ASSUME SafeInv, run' = NoRun, UNCHANGED shipped
    PROVE  SafeInv'
  BY DEF SafeInv, RunShape, DecidedRightly, HeldUnlessVerified, NoRun

\* A run that goes on, field by field.
LEMMA GoesTo ==
    ASSUME SafeInv, NEW at, run' = [run EXCEPT !.at = at]
    PROVE  RunShape' /\ run'.at = at /\ run'.steady = run.steady /\ run'.task = run.task
           /\ run'.checks = run.checks
  BY DEF SafeInv, RunShape

LEMMA GoesWith ==
    ASSUME SafeInv, NEW how, run' = Derived(how)
    PROVE  RunShape' /\ run'.at = "committed" /\ run'.steady = run.steady /\ run'.checks = how
  BY DEF SafeInv, RunShape, Derived

\* The commit: checks are to be derived exactly when the gate is on.
LEMMA CommitSafe ==
    ASSUME SafeInv, RunCommits
    PROVE  SafeInv'
<1> DEFINE at == IF cfg.verifier THEN "derive" ELSE "committed"
<1>1. /\ run.at = "work" /\ UNCHANGED <<cfg, shipped>>
      /\ run' = [run EXCEPT !.at = at]
  BY DEF RunCommits
<1>2. /\ RunShape' /\ run'.at = at /\ run'.steady = run.steady /\ run'.task = run.task
      /\ run'.checks = run.checks
  BY <1>1, GoesTo
<1>3. DecidedRightly'
  BY <1>1, <1>2 DEF SafeInv, DecidedRightly
<1> QED
  BY <1>1, <1>2, <1>3 DEF SafeInv, HeldUnlessVerified

\* The derivation: one that failed goes on only where it may.
LEMMA DerivationSafe ==
    ASSUME SafeInv, RunDerives
    PROVE  SafeInv'
<1>1. /\ UNCHANGED <<cfg, shipped>> /\ run.at = "derive"
      /\ \E how \in Outcomes : (how = "failed" => ~ cfg.strict) /\ run' = Derived(how)
  BY DEF RunDerives
<1>2. PICK how \in Outcomes : (how = "failed" => ~ cfg.strict) /\ run' = Derived(how)
  BY <1>1
<1>3. /\ RunShape' /\ run'.at = "committed" /\ run'.checks = how
  BY <1>2, GoesWith
<1>4. how # "none"
  BY <1>2 DEF Outcomes
<1>5. DecidedRightly'
  BY <1>1, <1>2, <1>3, <1>4 DEF DecidedRightly
<1> QED
  BY <1>1, <1>3, <1>5 DEF SafeInv, HeldUnlessVerified

\* The decision: a trigger's change goes on only under full-auto with the gate.
LEMMA DecisionSafe ==
    ASSUME SafeInv, RunDecides
    PROVE  SafeInv'
<1>1. PICK hold \in ShouldHold(run.task) :
        IF hold THEN pending' = pending \cup {run.task} /\ Finish
        ELSE run' = [run EXCEPT !.at = "boot"] /\ UNCHANGED <<queue, pending>>
  BY DEF RunDecides
<1>2. UNCHANGED <<cfg, shipped>> /\ run.at = "committed"
  BY DEF RunDecides
<1>3. CASE hold
  BY <1>1, <1>2, <1>3, Ended DEF Finish
<1>4. CASE ~ hold
  <2>1. run' = [run EXCEPT !.at = "boot"]
    BY <1>1, <1>4
  <2>2. /\ RunShape' /\ run'.at = "boot" /\ run'.steady = run.steady /\ run'.task = run.task
        /\ run'.checks = run.checks
    BY <2>1, GoesTo
  <2>3. run.task.by # 0 => cfg.verifier
    BY <1>1, <1>4 DEF ShouldHold, Unattended
  <2>4. DecidedRightly'
    BY <1>2, <2>2, <2>3 DEF SafeInv, DecidedRightly
  <2> QED
    BY <1>2, <2>2, <2>4 DEF SafeInv, HeldUnlessVerified
<1> QED
  BY <1>3, <1>4

\* What goes live is a person's, or was decided on settings that changed since,
\* or is as the property says.
LEMMA ShipsSafe ==
    ASSUME SafeInv, NEW gated \in BOOLEAN, Ships(gated),
           Unattended(run.task) /\ run.steady =>
               gated /\ run.checks # "none" /\ ~ (run.checks = "failed" /\ cfg.strict)
    PROVE  SafeInv'
<1>1. run' = NoRun
  BY DEF Ships, Finish
<1>2. DecidedRightly' /\ RunShape'
  BY <1>1 DEF DecidedRightly, RunShape, NoRun
<1>3. HeldUnlessVerified'
  <2> SUFFICES ASSUME NEW s \in shipped', s.steady
               PROVE  s.gated /\ s.checks # "none" /\ ~ (s.checks = "failed" /\ s.strict)
    BY DEF HeldUnlessVerified
  <2>1. CASE s \in shipped
    BY <2>1 DEF SafeInv, HeldUnlessVerified
  <2>2. CASE s \notin shipped
    <3>1. /\ Unattended(run.task)
          /\ s = [gated |-> gated, checks |-> run.checks, strict |-> cfg.strict,
                  steady |-> run.steady]
      BY <2>2 DEF Ships
    <3> QED
      BY <3>1
  <2> QED
    BY <2>1, <2>2
<1> QED
  BY <1>2, <1>3 DEF SafeInv

\* A healthy candidate is live at once only when the gate is off.
LEMMA BootSafe ==
    ASSUME SafeInv, RunBoots
    PROVE  SafeInv'
<1>1. CASE cfg.verifier
  <2>1. /\ UNCHANGED <<cfg, shipped>> /\ run.at = "boot"
        /\ run' = [run EXCEPT !.at = "verify"]
    BY <1>1 DEF RunBoots
  <2>2. /\ RunShape' /\ run'.at = "verify" /\ run'.steady = run.steady
        /\ run'.checks = run.checks
    BY <2>1, GoesTo
  <2>3. DecidedRightly'
    BY <1>1, <2>1, <2>2 DEF SafeInv, DecidedRightly
  <2> QED
    BY <2>1, <2>2, <2>3 DEF SafeInv, HeldUnlessVerified
<1>2. CASE ~ cfg.verifier
  <2>1. run.at = "boot" /\ Ships(FALSE)
    BY <1>2 DEF RunBoots
  <2>2. ~ (run.steady /\ Unattended(run.task))
    BY <1>2, <2>1 DEF SafeInv, DecidedRightly, Unattended
  <2> QED
    BY <2>1, <2>2, ShipsSafe
<1> QED
  BY <1>1, <1>2

\* A candidate past the gate goes live with the checks derived for it.
LEMMA VerifiedSafe ==
    ASSUME SafeInv, RunVerified
    PROVE  SafeInv'
<1>1. run.at = "verify" /\ Ships(TRUE)
  BY DEF RunVerified
<1>2. run.steady => run.checks # "none" /\ ~ (run.checks = "failed" /\ cfg.strict)
  BY <1>1 DEF SafeInv, DecidedRightly
<1> QED
  BY <1>1, <1>2, ShipsSafe

\* A setting that changes during a run marks it.
LEMMA SwitchSafe ==
    ASSUME SafeInv, Switch
    PROVE  SafeInv'
<1>1. run' = [run EXCEPT !.steady = run.at = "none"]
  BY DEF Switch
<1>2. UNCHANGED shipped
  BY DEF Switch
<1>3. RunShape' /\ run'.at = run.at /\ run'.steady = (run.at = "none")
  BY <1>1 DEF SafeInv, RunShape
<1>4. DecidedRightly'
  BY <1>3 DEF DecidedRightly
<1> QED
  BY <1>2, <1>3, <1>4 DEF SafeInv, HeldUnlessVerified

\* The invariant is kept by every step of the system.
LEMMA StepSafe ==
    ASSUME SafeInv, [Next]_vars
    PROVE  SafeInv'
<1>1. CASE Tick
  <2>1. CASE TickStarts \/ TickFires
    BY <2>1, Elsewhere DEF TickStarts, TickFires
  <2>2. CASE AppAnswers
    BY <2>2, Elsewhere DEF AppAnswers
  <2>3. CASE PollFails
    BY <2>3, Elsewhere DEF PollFails
  <2> QED
    BY <1>1, <2>1, <2>2, <2>3 DEF Tick
<1>2. CASE WebhookFires
  BY <1>2, Elsewhere DEF WebhookFires
<1>3. CASE Run
  <2>1. CASE RunStarts
    <3>1. run' = [at |-> "work", steady |-> TRUE, task |-> Head(queue), checks |-> "none"]
      BY <2>1 DEF RunStarts, NoRun
    <3>2. UNCHANGED shipped
      BY <2>1 DEF RunStarts
    <3> QED
      BY <3>1, <3>2 DEF SafeInv, RunShape, DecidedRightly, HeldUnlessVerified
  <2>2. CASE RunFails
    BY <2>2, Ended DEF RunFails, Finish
  <2>3. CASE RunCommits \/ RunDerives
    BY <2>3, CommitSafe, DerivationSafe
  <2>4. CASE RunDecides
    BY <2>4, DecisionSafe
  <2>5. CASE RunBoots \/ RunVerified
    BY <2>5, BootSafe, VerifiedSafe
  <2> QED
    BY <1>3, <2>1, <2>2, <2>3, <2>4, <2>5 DEF Run
<1>4. CASE Operator
  <2>1. CASE Switch
    BY <2>1, SwitchSafe
  <2>2. CASE CreateTrigger \/ ChangeTrigger \/ Decide
    BY <2>2, Elsewhere DEF CreateTrigger, ChangeTrigger, Decide
  <2> QED
    BY <1>4, <2>1, <2>2 DEF Operator
<1>5. CASE Ask \/ Dismiss \/ NextDay
  BY <1>5, Elsewhere DEF Ask, Dismiss, NextDay, kernel
<1>6. CASE Restart
  <2>1. CASE AppRestarts
    BY <2>1, Elsewhere DEF AppRestarts, kernel
  <2>2. CASE KernelRestarts
    BY <2>2, Ended DEF KernelRestarts
  <2> QED
    BY <1>6, <2>1, <2>2 DEF Restart
<1>7. ASSUME NEW c \in 1..MaxCalls, Handle(c)
      PROVE  SafeInv'
  <2>1. UNCHANGED <<cfg, run, shipped>>
    BY <1>7 DEF Handle, KernelCreates, KernelLists, KernelDeletes, KernelEnqueues, Resume, kernel
  <2> QED
    BY <2>1, Elsewhere
<1>8. CASE UNCHANGED vars
  BY <1>8, Elsewhere DEF vars, kernel
<1> QED
  BY <1>1, <1>2, <1>3, <1>4, <1>5, <1>6, <1>7, <1>8 DEF Next

\* A trigger's change goes live unattended only past the verification gate, and
\* with checks of its own unless none could be derived and the settings let that
\* pass, as long as nobody changes them while it runs.
THEOREM UnattendedIsVerified == Spec => []HeldUnlessVerified
<1>1. SafeInv /\ [Next]_vars => SafeInv'
  BY StepSafe
<1>2. SafeInv => HeldUnlessVerified
  BY DEF SafeInv
<1> QED
  BY InitSafe, <1>1, <1>2, PTL DEF Spec
-----------------------------------------------------------------------------
(* Induction over the numbers up to n, and what recursion over them computes: *)
(* a step given as a function g has exactly the chain of its results.         *)

\* A nonempty set of numbers has a least element.
LEMMA LeastNat ==
    ASSUME NEW T \in SUBSET Nat, T # {} PROVE \E m \in T : \A k \in T : m <= k
<1> DEFINE R == OpToRel(<, Nat)
<1>1. IsWellFoundedOn(R, Nat)
  BY NatLessThanWellFounded
<1>2. \A x, y \in Nat : x < y => <<x, y>> \in R
  BY DEF OpToRel
<1> HIDE DEF R
<1>3. PICK x \in T : \A y \in T : ~ (<<y, x>> \in R)
  BY <1>1, WFMin
<1>4. \A y \in T : ~ (y < x)
  BY <1>2, <1>3
<1>5. \A y \in T : x <= y
  BY <1>4
<1> QED BY <1>5

\* What holds of 0 and passes from each number to the next holds up to n.
LEMMA UpTo ==
    ASSUME NEW n \in Nat, NEW T, 0 \in T, \A i \in 1 .. n : i - 1 \in T => i \in T
    PROVE  \A i \in 0 .. n : i \in T
<1> SUFFICES ASSUME \E i \in 0 .. n : i \notin T PROVE FALSE
  OBVIOUS
<1> DEFINE bad == {i \in 0 .. n : i \notin T}
<1>1. bad \in SUBSET Nat /\ bad # {}
  OBVIOUS
<1>2. PICK m \in bad : \A k \in bad : m <= k
  BY <1>1, LeastNat
<1>3. m \in 1 .. n /\ m - 1 \in 0 .. n /\ m - 1 \notin bad
  BY <1>2
<1> QED BY <1>2, <1>3

\* f is the chain of the results of step g, from k on.
IsChain(f, k, g, n) == f[0] = k /\ \A i \in 1 .. n : f[i] = g[<<f[i - 1], i>>]

\* The chain of a step's results exists.
LEMMA Chain ==
    ASSUME NEW n \in Nat, NEW S, NEW k \in S, NEW g \in [S \X (1 .. n) -> S]
    PROVE  \E f \in [0 .. n -> S] : IsChain(f, k, g, n)
<1> DEFINE T == {m \in 0 .. n : \E f \in [0 .. m -> S] : IsChain(f, k, g, m)}
<1>1. 0 \in T
  <2> DEFINE f == [i \in 0 .. 0 |-> k]
  <2>1. f \in [0 .. 0 -> S] /\ IsChain(f, k, g, 0)
    BY DEF IsChain
  <2>2. 0 \in 0 .. n
    OBVIOUS
  <2> HIDE DEF f
  <2> QED BY <2>1, <2>2, Zenon
<1>2. ASSUME NEW m \in 1 .. n, m - 1 \in T PROVE m \in T
  <2>1. PICK f \in [0 .. m - 1 -> S] : IsChain(f, k, g, m - 1)
    BY <1>2
  <2> DEFINE h == [i \in 0 .. m |-> IF i = m THEN g[<<f[m - 1], m>>] ELSE f[i]]
  <2>2. f[m - 1] \in S /\ g[<<f[m - 1], m>>] \in S
    OBVIOUS
  <2>3. h \in [0 .. m -> S]
    BY <2>2
  <2>4. h[0] = k
    BY <2>1 DEF IsChain
  <2>5. ASSUME NEW i \in 1 .. m PROVE h[i] = g[<<h[i - 1], i>>]
    <3>1. h[i - 1] = f[i - 1]
      OBVIOUS
    <3>2. CASE i = m
      <4>1. h[m] = g[<<f[m - 1], m>>]
        OBVIOUS
      <4> QED BY <3>1, <3>2, <4>1
    <3>3. CASE i # m
      <4>1. i \in 1 .. m - 1 /\ h[i] = f[i]
        BY <3>3
      <4> QED BY <2>1, <3>1, <4>1 DEF IsChain
    <3> QED BY <3>2, <3>3
  <2> HIDE DEF h
  <2>6. IsChain(h, k, g, m)
    BY <2>4, <2>5 DEF IsChain
  <2> QED BY <2>3, <2>6
<1> HIDE DEF T
<1>3. \A m \in 0 .. n : m \in T
  BY <1>1, <1>2, UpTo
<1>4. n \in T
  BY <1>3
<1> QED BY <1>4 DEF T

-----------------------------------------------------------------------------
(* The sum over the identities. *)

Counts == [1 .. MaxTriggers -> Nat]

\* Total adds up, one identity at a time.
LEMMA TotalChain ==
    ASSUME NEW f \in Counts
    PROVE  \E u \in [0 .. MaxTriggers -> Nat] :
             /\ u[0] = 0 /\ \A i \in 1 .. MaxTriggers : u[i] = u[i - 1] + f[i]
             /\ Total(f) = u[MaxTriggers]
<1>1. MaxTriggers \in Nat
  BY AutonomyAssumption
<1> DEFINE g == [x \in Nat \X (1 .. MaxTriggers) |-> x[1] + f[x[2]]]
<1>2. g \in [Nat \X (1 .. MaxTriggers) -> Nat]
  BY DEF Counts
<1>3. \A a \in Nat, i \in 1 .. MaxTriggers : g[<<a, i>>] = a + f[i]
  OBVIOUS
<1> HIDE DEF g
<1>4. PICK u \in [0 .. MaxTriggers -> Nat] : IsChain(u, 0, g, MaxTriggers)
  <2>1. 0 \in Nat
    OBVIOUS
  <2> QED BY <1>1, <1>2, <2>1, Chain, Zenon
<1>5. ASSUME NEW i \in 1 .. MaxTriggers PROVE u[i] = u[i - 1] + f[i]
  <2>1. i - 1 \in 0 .. MaxTriggers
    BY <1>1
  <2>2. u[i - 1] \in Nat
    BY <2>1
  <2>3. u[i] = g[<<u[i - 1], i>>]
    BY <1>4 DEF IsChain
  <2> QED BY <1>3, <2>2, <2>3
<1>5a. u[0] = 0
  BY <1>4 DEF IsChain
<1>6. u = [i \in 0 .. MaxTriggers |-> IF i = 0 THEN 0 ELSE u[i - 1] + f[i]]
  <2>1. ASSUME NEW i \in 0 .. MaxTriggers
        PROVE  u[i] = IF i = 0 THEN 0 ELSE u[i - 1] + f[i]
    BY <1>1, <1>5a, <1>5
  <2> QED BY <2>1
<1> DEFINE upTo[i \in 0 .. MaxTriggers] == IF i = 0 THEN 0 ELSE upTo[i - 1] + f[i]
<1>7. upTo = [i \in 0 .. MaxTriggers |-> IF i = 0 THEN 0 ELSE upTo[i - 1] + f[i]]
  <2>1. \E h : h = [i \in 0 .. MaxTriggers |-> IF i = 0 THEN 0 ELSE h[i - 1] + f[i]]
    BY <1>6
  <2> QED BY <2>1, Zenon
<1>8. Total(f) = upTo[MaxTriggers]
  BY DEF Total
<1> HIDE DEF upTo
<1>9. upTo[0] = 0 /\ \A i \in 1 .. MaxTriggers : upTo[i] = upTo[i - 1] + f[i]
  BY <1>1, <1>7
<1> DEFINE Same == {i \in 0 .. MaxTriggers : upTo[i] = u[i]}
<1>10. 0 \in Same /\ \A i \in 1 .. MaxTriggers : i - 1 \in Same => i \in Same
  BY <1>1, <1>5a, <1>5, <1>9
<1> HIDE DEF Same
<1>11. MaxTriggers \in Same
  <2>1. \A i \in 0 .. MaxTriggers : i \in Same
    BY <1>1, <1>10, UpTo
  <2> QED BY <1>1, <2>1
<1>12. Total(f) = u[MaxTriggers]
  BY <1>8, <1>11 DEF Same
<1> QED BY <1>5a, <1>5, <1>12

\* A sum is a number, and grows with what is summed.
LEMMA TotalGrows ==
    ASSUME NEW f \in Counts, NEW h \in Counts, \A t \in 1 .. MaxTriggers : f[t] <= h[t]
    PROVE  Total(f) \in Nat /\ Total(f) <= Total(h)
<1>1. MaxTriggers \in Nat
  BY AutonomyAssumption
<1>2. PICK u \in [0 .. MaxTriggers -> Nat] :
        /\ u[0] = 0 /\ \A i \in 1 .. MaxTriggers : u[i] = u[i - 1] + f[i]
        /\ Total(f) = u[MaxTriggers]
  BY TotalChain
<1>3. PICK w \in [0 .. MaxTriggers -> Nat] :
        /\ w[0] = 0 /\ \A i \in 1 .. MaxTriggers : w[i] = w[i - 1] + h[i]
        /\ Total(h) = w[MaxTriggers]
  BY TotalChain
<1> DEFINE T == {i \in 0 .. MaxTriggers : u[i] <= w[i]}
<1>4. 0 \in T
  BY <1>1, <1>2, <1>3
<1>5. ASSUME NEW i \in 1 .. MaxTriggers, i - 1 \in T PROVE i \in T
  <2>1. f[i] \in Nat /\ h[i] \in Nat /\ u[i - 1] \in Nat /\ w[i - 1] \in Nat
    BY <1>1 DEF Counts
  <2>2. u[i] = u[i - 1] + f[i] /\ w[i] = w[i - 1] + h[i] /\ f[i] <= h[i] /\ u[i - 1] <= w[i - 1]
    BY <1>2, <1>3, <1>5
  <2> QED BY <2>1, <2>2
<1> HIDE DEF T
<1>6. MaxTriggers \in T
  <2>1. \A i \in 0 .. MaxTriggers : i \in T
    BY <1>1, <1>4, <1>5, UpTo
  <2> QED BY <1>1, <2>1
<1> QED BY <1>1, <1>2, <1>3, <1>6 DEF T

\* One more at one identity is one more in all.
LEMMA TotalBump ==
    ASSUME NEW f \in Counts, NEW h \in Counts, NEW t \in 1 .. MaxTriggers,
           h[t] = f[t] + 1, \A x \in 1 .. MaxTriggers : x # t => h[x] = f[x]
    PROVE  Total(h) = Total(f) + 1
<1>1. MaxTriggers \in Nat
  BY AutonomyAssumption
<1>2. PICK u \in [0 .. MaxTriggers -> Nat] :
        /\ u[0] = 0 /\ \A i \in 1 .. MaxTriggers : u[i] = u[i - 1] + f[i]
        /\ Total(f) = u[MaxTriggers]
  BY TotalChain
<1>3. PICK w \in [0 .. MaxTriggers -> Nat] :
        /\ w[0] = 0 /\ \A i \in 1 .. MaxTriggers : w[i] = w[i - 1] + h[i]
        /\ Total(h) = w[MaxTriggers]
  BY TotalChain
<1> DEFINE T == {i \in 0 .. MaxTriggers : w[i] = IF i < t THEN u[i] ELSE u[i] + 1}
<1>4. 0 \in T
  BY <1>1, <1>2, <1>3
<1>5. ASSUME NEW i \in 1 .. MaxTriggers, i - 1 \in T PROVE i \in T
  <2>1. f[i] \in Nat /\ h[i] \in Nat /\ u[i - 1] \in Nat /\ w[i - 1] \in Nat
    BY <1>1 DEF Counts
  <2>2. u[i] = u[i - 1] + f[i] /\ w[i] = w[i - 1] + h[i]
    BY <1>2, <1>3
  <2>3. w[i - 1] = IF i - 1 < t THEN u[i - 1] ELSE u[i - 1] + 1
    BY <1>5
  <2>4. CASE i < t
    BY <2>1, <2>2, <2>3, <2>4
  <2>5. CASE i = t
    BY <2>1, <2>2, <2>3, <2>5
  <2>6. CASE i > t
    BY <2>1, <2>2, <2>3, <2>6
  <2> QED BY <2>4, <2>5, <2>6
<1> HIDE DEF T
<1>6. MaxTriggers \in T
  <2>1. \A i \in 0 .. MaxTriggers : i \in T
    BY <1>1, <1>4, <1>5, UpTo
  <2> QED BY <1>1, <2>1
<1>7. ~ (MaxTriggers < t)
  BY <1>1
<1> QED BY <1>2, <1>3, <1>6, <1>7 DEF T

\* What is the same at every identity is the same.
LEMMA SameCounts ==
    ASSUME NEW f \in Counts, NEW h \in Counts, \A t \in 1 .. MaxTriggers : f[t] = h[t]
    PROVE  f = h
<1>1. f = [t \in 1 .. MaxTriggers |-> f[t]] /\ h = [t \in 1 .. MaxTriggers |-> h[t]]
  BY DEF Counts
<1> QED BY <1>1

\* Nothing adds up to nothing.
LEMMA TotalZero ==
    ASSUME NEW f \in Counts, \A t \in 1 .. MaxTriggers : f[t] = 0
    PROVE  Total(f) = 0
<1>1. MaxTriggers \in Nat
  BY AutonomyAssumption
<1>2. PICK u \in [0 .. MaxTriggers -> Nat] :
        /\ u[0] = 0 /\ \A i \in 1 .. MaxTriggers : u[i] = u[i - 1] + f[i]
        /\ Total(f) = u[MaxTriggers]
  BY TotalChain
<1> DEFINE T == {i \in 0 .. MaxTriggers : u[i] = 0}
<1>3. 0 \in T
  BY <1>1, <1>2
<1>4. ASSUME NEW i \in 1 .. MaxTriggers, i - 1 \in T PROVE i \in T
  <2>1. u[i] = u[i - 1] + f[i] /\ f[i] = 0 /\ u[i - 1] = 0
    BY <1>2, <1>4
  <2> QED BY <2>1
<1> HIDE DEF T
<1>5. MaxTriggers \in T
  <2>1. \A i \in 0 .. MaxTriggers : i \in T
    BY <1>1, <1>3, <1>4, UpTo
  <2> QED BY <1>1, <2>1
<1> QED BY <1>2, <1>5 DEF T

-----------------------------------------------------------------------------
(* The inductive invariant, in three layers: types, the cap, the one-shots. *)

Tasks == [by : 0..created, item : Items \cup {0}]

\* What a run knows of its checks, what is known of a change that went live.
Verdicts == Outcomes \cup {"none"}

Shipments == [gated : BOOLEAN, checks : Verdicts, strict : BOOLEAN, steady : BOOLEAN]

Entry ==
    [kind : Kinds, on : BOOLEAN, once : BOOLEAN, of : Proposals \cup {0},
     day : 0..day, count : Nat, fired : [Items -> 0..day]]

\* A store of triggers, as it may be by now.
IsSnapshot(ts) == DOMAIN ts \subseteq 1..created /\ ts \in [DOMAIN ts -> Entry]

\* The kinds that fire on what the app answers.
Polled == {"error_spike", "advisor"}

CallShape(k) ==
    /\ DOMAIN k = {"fn", "p", "at", "saw", "id"}
    /\ k.id \in 0..created
    /\ k # NoCall => k.p \in Proposals

ClockInv ==
    /\ cfg \in [Settings -> BOOLEAN]
    /\ day \in Nat \ {0} /\ created \in 0..MaxTriggers

\* One-shots are about proposals.
StoreInv ==
    /\ IsSnapshot(triggers) /\ filed \in [0..MaxTriggers -> Nat] /\ late \in [0..MaxTriggers -> Nat]
    /\ \A t \in DOMAIN triggers : triggers[t].once => triggers[t].of \in Proposals

\* A pass under way waits for a poll, and began today or on an earlier day.
TickInv ==
    /\ DOMAIN tick = {"at", "snap", "saw", "answered", "now"}
    /\ tick.at = "none" => tick = Idle
    /\ tick.at # "none" => tick.at \in Polled /\ tick.now \in 1..day
    /\ IsSnapshot(tick.snap) /\ tick.saw \subseteq Items

\* The task under way is the head of the queue.
DrainInv ==
    /\ queue \in Seq(Tasks) /\ pending \subseteq Tasks
    /\ run \in [at : Stages, steady : BOOLEAN, task : Tasks, checks : Verdicts]
    /\ IF run.at = "none" THEN run = NoRun ELSE queue # <<>> /\ run.task = Head(queue)
    /\ shipped \subseteq Shipments

PluginInv ==
    /\ store \in [Proposals -> [status : {"open", "scheduled", "run", "dismissed"},
                                trigger : 0..created]]
    /\ DOMAIN calls = 1..MaxCalls /\ calls = [c \in 1..MaxCalls |-> calls[c]]
    /\ \A c \in 1..MaxCalls : CallShape(calls[c])

TypeInv == ClockInv /\ StoreInv /\ TickInv /\ DrainInv /\ PluginInv

\* What a store counts for today is what was filed today, and an identity not
\* given out yet has filed nothing.
Counted(k) ==
    \A t \in DOMAIN k.triggers :
        k.filed[t] = IF k.triggers[t].day = day THEN k.triggers[t].count ELSE 0

\* The pass under way began on an earlier day.
Overdue == tick.at # "none" /\ tick.now # day

\* Only a pass of the clock files late, for the triggers it polls; while it is
\* under way their records still bear its date, and count what it filed.
LateCounted(ts, n) ==
    \A t \in DOMAIN ts :
        /\ ts[t].kind \notin Polled => n[t] = 0
        /\ Overdue => /\ n[t] <= (IF ts[t].day = tick.now THEN ts[t].count ELSE 0)
                      /\ ts[t].kind \in Polled => ts[t].day # day

\* What the triggers of ts filed, of n, as the function that is summed.
LateOf(ts, n) == [t \in 1..MaxTriggers |-> IF t \in DOMAIN ts THEN n[t] ELSE 0]

Ungiven(k) == \A t \in created + 1 .. MaxTriggers : k.filed[t] = 0 /\ k.late[t] = 0

\* A trigger keeps its kind, so those of the snapshot are those there are.
SameKinds(snap, ts) == \A t \in DOMAIN snap \cap DOMAIN ts : snap[t].kind = ts[t].kind

\* What the store of the kernel is counted and capped by.
Capped(k) ==
    /\ Counted(k) /\ FiresToday(k.triggers, day) <= MaxPerDay
    /\ LateCounted(k.triggers, k.late) /\ Total(LateOf(k.triggers, k.late)) <= MaxPerDay
    /\ Ungiven(k)

CapInv == Capped(Stored(day)) /\ SameKinds(tick.snap, triggers)

\* A one-shot that is still to fire.
Armed(ts, t) == t \in DOMAIN ts /\ ts[t].once /\ ts[t].day = 0

\* How far a request got, and what the store of proposals says meanwhile.
CallInv(k) ==
    LET p == store[k.p] IN
    /\ k.at \in {"create", "created"} => p.status = "open"
    /\ k.at \in {"submit", "refused"} => p.status = "run"
    /\ k.at \in {"delete", "deleted", "kept"} => p.status = "scheduled" /\ p.trigger = k.id
    /\ k.at = "deleted" => k.id \notin DOMAIN triggers
    /\ k.at = "synced" => \A t \in 1..created : Armed(triggers, t) => Armed(k.saw, t)

ArmedInv ==
    ~ apart =>
        /\ \A c, d \in Working : c = d
        /\ \A c \in Working : CallInv(calls[c])
        /\ \A t \in 1..created : Armed(triggers, t) =>
             \/ store[triggers[t].of] = [status |-> "scheduled", trigger |-> t]
             \/ \E c \in Working : calls[c].at = "created" /\ calls[c].id = t
                                   /\ calls[c].p = triggers[t].of

IInv == TypeInv /\ CapInv /\ ArmedInv
-----------------------------------------------------------------------------
(* One fire: what it makes of a store that is well typed, counted and capped. *)

\* The highest item exists.
LEMMA LastItemNat == LastItem \in Nat /\ \A i \in Items : i \in 1 .. LastItem
<1> DEFINE S == Items \cup {0}
<1>1. S \subseteq Nat /\ 0 \in S /\ Items \subseteq Nat \ {0}
  BY ItemsAssumption
<1>2. PICK n \in Nat : ExistsSurjection(1 .. n, S)
  <2>1. IsFiniteSet(S)
    BY ItemsAssumption, FS_AddElement
  <2> HIDE DEF S
  <2> QED BY <2>1, FS_NatSurjection
<1>3. PICK f \in [1 .. n -> S] : \A x \in S : \E i \in 1 .. n : f[i] = x
  BY <1>2 DEF ExistsSurjection, Surjection
<1> HIDE DEF S
<1>4. \A i \in 1 .. n : f[i] \in Nat
  BY <1>1, <1>3
<1> DEFINE g == [x \in Nat \X (1 .. n) |-> IF f[x[2]] > x[1] THEN f[x[2]] ELSE x[1]]
<1>5. g \in [Nat \X (1 .. n) -> Nat]
  BY <1>4
<1>6. \A a \in Nat, i \in 1 .. n : g[<<a, i>>] = IF f[i] > a THEN f[i] ELSE a
  OBVIOUS
<1> HIDE DEF g
<1>7. PICK m \in [0 .. n -> Nat] : IsChain(m, 0, g, n)
  <2>1. 0 \in Nat
    OBVIOUS
  <2> QED BY <1>2, <1>5, <2>1, Chain, Zenon
<1>8. ASSUME NEW i \in 1 .. n
      PROVE  m[i - 1] \in Nat /\ m[i] \in Nat /\ m[i - 1] <= m[i] /\ f[i] <= m[i]
  <2>1. i - 1 \in 0 .. n /\ i \in 0 .. n
    OBVIOUS
  <2>2. m[i - 1] \in Nat /\ m[i] \in Nat
    BY <2>1
  <2>3. m[i] = g[<<m[i - 1], i>>]
    BY <1>7 DEF IsChain
  <2>4. m[i] = IF f[i] > m[i - 1] THEN f[i] ELSE m[i - 1]
    BY <1>6, <2>2, <2>3
  <2> QED BY <1>4, <2>2, <2>4
<1> DEFINE T == {i \in 0 .. n : \A j \in 1 .. i : f[j] <= m[i]}
<1>9. 0 \in T
  OBVIOUS
<1>10. ASSUME NEW i \in 1 .. n, i - 1 \in T PROVE i \in T
  <2>1. ASSUME NEW j \in 1 .. i PROVE f[j] <= m[i]
    <3>1. CASE j = i
      BY <1>8, <3>1
    <3>2. CASE j # i
      <4>1. j \in 1 .. i - 1 /\ j \in 1 .. n
        BY <3>2
      <4>2. f[j] <= m[i - 1] /\ f[j] \in Nat
        BY <1>4, <1>10, <4>1
      <4> QED BY <1>8, <4>2
    <3> QED BY <3>1, <3>2
  <2> QED BY <2>1
<1> HIDE DEF T
<1>11. n \in T
  <2>1. \A i \in 0 .. n : i \in T
    BY <1>9, <1>10, UpTo
  <2> QED BY <2>1
<1> DEFINE B == {b \in Nat : \A x \in S : x <= b}
<1>12. m[n] \in B
  <2>1. m[n] \in Nat /\ \A j \in 1 .. n : f[j] <= m[n]
    BY <1>11 DEF T
  <2> QED BY <1>3, <2>1
<1>13. PICK b \in B : \A c \in B : b <= c
  <2>1. B \in SUBSET Nat /\ B # {}
    BY <1>12
  <2> HIDE DEF B
  <2> QED BY <2>1, LeastNat
<1>14. b \in S
  <2> SUFFICES ASSUME b \notin S PROVE FALSE
    OBVIOUS
  <2>1. b # 0 /\ b - 1 \in Nat
    BY <1>1
  <2>2. \A x \in S : x <= b - 1
    BY <1>1, <2>1
  <2>3. b - 1 \in B
    BY <2>1, <2>2
  <2> QED BY <1>13, <2>1, <2>3
<1>15. \E x \in S : \A y \in S : x >= y
  BY <1>1, <1>14
<1>16. Max(S) \in S /\ \A y \in S : Max(S) >= y
  BY <1>15 DEF Max
<1>17. LastItem = Max(S)
  BY DEF LastItem, S
<1>18. \A i \in Items : i \in S
  BY DEF S
<1>19. LastItem \in Nat
  BY <1>1, <1>16, <1>17
<1>20. ASSUME NEW i \in Items PROVE i \in 1 .. LastItem
  <2>1. i \in Nat \ {0} /\ LastItem >= i
    BY <1>1, <1>16, <1>17, <1>18
  <2> QED BY <1>19, <2>1
<1> QED BY <1>19, <1>20

\* The record of a fire, at a date that has come.
LEMMA RecordedEntry ==
    ASSUME TypeInv, NEW r \in Entry, NEW fp \in Items \cup {0}, NEW d \in 1 .. day
    PROVE  /\ Recorded(r, fp, d) \in Entry
           /\ Recorded(r, fp, d).of = r.of
           /\ Recorded(r, fp, d).kind = r.kind
           /\ Recorded(r, fp, d).once = r.once
           /\ Recorded(r, fp, d).day = d
           /\ Recorded(r, fp, d).count = IF r.day = d THEN r.count + 1 ELSE 1
<1> DEFINE n == Recorded(r, fp, d)
<1>1. day \in Nat \ {0} /\ d \in 0 .. day
  BY DEF TypeInv, ClockInv
<1>2. /\ r.kind \in Kinds /\ r.on \in BOOLEAN /\ r.once \in BOOLEAN
      /\ r.of \in Proposals \cup {0} /\ r.day \in 0 .. day /\ r.count \in Nat
      /\ r.fired \in [Items -> 0 .. day]
  BY DEF Entry
<1> DEFINE c == IF r.day = d THEN r.count + 1 ELSE 1
           on == r.on /\ ~ r.once
           fired == IF fp = 0 THEN r.fired ELSE [r.fired EXCEPT ![fp] = d]
<1>3. n = [kind |-> r.kind, on |-> on, once |-> r.once, of |-> r.of, day |-> d,
           count |-> c, fired |-> fired]
  <2>1. r = [kind |-> r.kind, on |-> r.on, once |-> r.once, of |-> r.of, day |-> r.day,
             count |-> r.count, fired |-> r.fired]
    BY DEF Entry
  <2>2. n = [r EXCEPT !.day = d, !.count = c, !.on = on, !.fired = fired]
    BY <2>1 DEF Recorded
  <2> HIDE DEF n, c, on, fired
  <2> QED BY <2>1, <2>2
<1>4. c \in Nat
  BY <1>2
<1>5. fired \in [Items -> 0 .. day]
  BY <1>1, <1>2
<1>6. on \in BOOLEAN
  OBVIOUS
<1> HIDE DEF n, on, fired
<1>7. n \in Entry
  <2> HIDE DEF c
  <2> QED BY <1>1, <1>2, <1>3, <1>4, <1>5, <1>6 DEF Entry
<1>8. n.of = r.of /\ n.kind = r.kind /\ n.day = d /\ n.count = c
  BY <1>3
<1>9. n.once = r.once
  BY <1>3, Zenon
<1> QED BY <1>7, <1>8, <1>9 DEF n

-----------------------------------------------------------------------------
(* The stores the loops of a tick go through.                               *)

Stores(d) ==
    [triggers : [DOMAIN triggers -> Entry], queue : Seq(Tasks), filed : [0 .. MaxTriggers -> Nat],
     late : [0 .. MaxTriggers -> Nat], now : {d}]

\* A record is still about what it was about, and fires only go on.
Kindred(r, o) ==
    r.of = o.of /\ r.kind = o.kind /\ r.once = o.once /\ (r.day = 0 => o.day = 0)

\* What each turn keeps: the cap, what was filed against what is counted, the
\* head of the queue, and which one-shots there are.
Kept(k) ==
    /\ Capped(k)
    /\ queue # <<>> => k.queue # <<>> /\ Head(k.queue) = Head(queue)
    /\ \A t \in DOMAIN triggers : Kindred(k.triggers[t], triggers[t])

GoodStores(d) == {k \in Stores(d) : Kept(k)}

\* The fires of a day, as the function that is summed.
FiresOf(ts, d) ==
    [t \in 1 .. MaxTriggers |-> IF t \in DOMAIN ts /\ ts[t].day = d THEN ts[t].count ELSE 0]

LEMMA FiresCounts ==
    ASSUME TypeInv, NEW ts, IsSnapshot(ts), NEW d
    PROVE  /\ FiresOf(ts, d) \in Counts /\ FiresToday(ts, d) = Total(FiresOf(ts, d))
           /\ FiresToday(ts, d) \in Nat
<1>1. ASSUME NEW t \in 1 .. MaxTriggers
      PROVE  (IF t \in DOMAIN ts /\ ts[t].day = d THEN ts[t].count ELSE 0) \in Nat
  BY DEF IsSnapshot, Entry
<1>2. FiresOf(ts, d) \in Counts
  BY <1>1 DEF FiresOf, Counts
<1>3. FiresToday(ts, d) = Total(FiresOf(ts, d))
  BY DEF FiresToday, FiresOf
<1>4. Total(FiresOf(ts, d)) \in Nat
  <2>1. \A t \in 1 .. MaxTriggers : FiresOf(ts, d)[t] <= FiresOf(ts, d)[t]
    BY <1>2 DEF Counts
  <2> QED BY <1>2, <2>1, TotalGrows
<1> QED BY <1>2, <1>3, <1>4

LEMMA LateCounts ==
    ASSUME NEW ts, NEW n \in [0 .. MaxTriggers -> Nat]
    PROVE  LateOf(ts, n) \in Counts /\ Total(LateOf(ts, n)) \in Nat
<1>0. 1 .. MaxTriggers \subseteq 0 .. MaxTriggers
  BY AutonomyAssumption
<1>1. LateOf(ts, n) \in Counts
  BY <1>0 DEF LateOf, Counts
<1>2. \A t \in 1 .. MaxTriggers : LateOf(ts, n)[t] <= LateOf(ts, n)[t]
  BY <1>1 DEF Counts
<1> QED BY <1>1, <1>2, TotalGrows

\* The store of the kernel is one of them, whatever date it goes by.
LEMMA StoredGood ==
    ASSUME TypeInv, CapInv, NEW d
    PROVE  Stored(d) \in GoodStores(d)
<1>1. Stored(d) \in Stores(d)
  BY DEF Stored, Stores, TypeInv, ClockInv, StoreInv, DrainInv, IsSnapshot
<1>2. /\ Stored(d).triggers = triggers /\ Stored(d).queue = queue
      /\ Stored(d).filed = filed /\ Stored(d).late = late
      /\ Stored(day).triggers = triggers
      /\ Stored(day).filed = filed /\ Stored(day).late = late
  BY DEF Stored
<1>3. Capped(Stored(d))
  BY <1>2 DEF CapInv, Capped, Counted, Ungiven
<1>4. Kept(Stored(d))
  BY <1>2, <1>3, Zenon DEF Kept, Kindred
<1> QED BY <1>1, <1>4 DEF GoodStores

\* n is what a fire makes of k, field by field.
IsFired(n, k, t, fp, item) ==
    /\ n = [triggers |-> n.triggers, queue |-> n.queue, filed |-> n.filed, late |-> n.late,
            now |-> k.now]
    /\ n.queue = Append(k.queue, [by |-> t, item |-> item])
    /\ n.filed = IF k.now = day THEN OneMore(k.filed, t) ELSE k.filed
    /\ n.late = IF k.now = day THEN k.late ELSE OneMore(k.late, t)
    /\ n.triggers = IF t \in DOMAIN k.triggers
                    THEN [k.triggers EXCEPT ![t] = Recorded(k.triggers[t], fp, k.now)]
                    ELSE k.triggers

LEMMA FireFields ==
    ASSUME NEW d, NEW k \in GoodStores(d), NEW t, NEW fp, NEW item
    PROVE  Fire(k, t, fp, item) = k \/ IsFired(Fire(k, t, fp, item), k, t, fp, item)
<1> DEFINE q == Append(k.queue, [by |-> t, item |-> item])
           f == IF k.now = day THEN OneMore(k.filed, t) ELSE k.filed
           l == IF k.now = day THEN k.late ELSE OneMore(k.late, t)
           ts == IF t \in DOMAIN k.triggers
                 THEN [k.triggers EXCEPT ![t] = Recorded(k.triggers[t], fp, k.now)] ELSE k.triggers
           e == Enqueued(k, t, item)
<1>1. k = [triggers |-> k.triggers, queue |-> k.queue, filed |-> k.filed, late |-> k.late,
           now |-> k.now]
  BY DEF GoodStores, Stores
<1>2. e = [triggers |-> k.triggers, queue |-> q, filed |-> f, late |-> l, now |-> k.now]
  <2>1. e = [k EXCEPT !.queue = q, !.filed = f, !.late = l]
    BY <1>1 DEF Enqueued
  <2> HIDE DEF e, q, f, l
  <2> QED BY <1>1, <2>1
<1>3. CASE fp # 0 /\ InFlight(k, fp)
  BY <1>3 DEF Fire
<1>4. CASE ~ (fp # 0 /\ InFlight(k, fp))
  <2>1. Fire(k, t, fp, item) = [e EXCEPT !.triggers = ts]
    BY <1>4 DEF Fire
  <2> HIDE DEF e, q, f, l, ts
  <2>2. Fire(k, t, fp, item) =
          [triggers |-> ts, queue |-> q, filed |-> f, late |-> l, now |-> k.now]
    BY <1>2, <2>1
  <2>3. /\ Fire(k, t, fp, item).triggers = ts /\ Fire(k, t, fp, item).queue = q
        /\ Fire(k, t, fp, item).filed = f /\ Fire(k, t, fp, item).late = l
    BY <2>2
  <2> QED BY <2>2, <2>3 DEF q, f, l, ts, IsFired
<1> QED BY <1>3, <1>4

\* Who fires by which date: today's date, unless by the pass that is overdue
\* for a trigger it polls.
Timely(d, t) ==
    \/ d = day /\ (Overdue /\ t \in DOMAIN triggers => triggers[t].kind \notin Polled)
    \/ d = tick.now /\ Overdue /\ (t \in DOMAIN triggers => triggers[t].kind \in Polled)

\* What a fire below the cap makes of the counts.
LEMMA FireCapped ==
    ASSUME TypeInv, NEW d \in 1 .. day, NEW k \in GoodStores(d), NEW t \in 1 .. created,
           NEW fp \in Items \cup {0}, NEW item, ~ RateLimited(k), Timely(d, t),
           NEW n, IsFired(n, k, t, fp, item)
    PROVE  /\ n.triggers \in [DOMAIN triggers -> Entry]
           /\ n.filed \in [0 .. MaxTriggers -> Nat] /\ n.late \in [0 .. MaxTriggers -> Nat]
           /\ \A x \in DOMAIN triggers : Kindred(n.triggers[x], triggers[x])
           /\ Capped(n)
<1>1. /\ n.filed = IF d = day THEN OneMore(k.filed, t) ELSE k.filed
      /\ n.late = IF d = day THEN k.late ELSE OneMore(k.late, t)
      /\ n.triggers = IF t \in DOMAIN k.triggers
                      THEN [k.triggers EXCEPT ![t] = Recorded(k.triggers[t], fp, d)]
                      ELSE k.triggers
      /\ k.now = d
  <2>1. k.now = d
    BY DEF GoodStores, Stores
  <2> QED BY <2>1, Zenon DEF IsFired
<1>2. /\ k.triggers \in [DOMAIN triggers -> Entry]
      /\ k.filed \in [0 .. MaxTriggers -> Nat] /\ k.late \in [0 .. MaxTriggers -> Nat]
      /\ Capped(k) /\ \A x \in DOMAIN triggers : Kindred(k.triggers[x], triggers[x])
  BY DEF GoodStores, Stores, Kept
<1>3. /\ created \in 0 .. MaxTriggers /\ MaxTriggers \in Nat /\ t \in 1 .. MaxTriggers
      /\ MaxPerDay \in Nat /\ day \in Nat \ {0} /\ DOMAIN triggers \subseteq 1 .. created
  BY AutonomyAssumption DEF TypeInv, ClockInv, StoreInv, IsSnapshot
<1> DEFINE r == Recorded(k.triggers[t], fp, d)
<1>4. ASSUME t \in DOMAIN triggers
      PROVE  /\ r \in Entry /\ r.of = k.triggers[t].of /\ r.kind = k.triggers[t].kind
             /\ r.once = k.triggers[t].once /\ r.day = d
             /\ r.count = IF k.triggers[t].day = d THEN k.triggers[t].count + 1 ELSE 1
  <2> DEFINE e == k.triggers[t]
  <2>1. e \in Entry
    BY <1>2, <1>4
  <2> HIDE DEF e
  <2>2. /\ Recorded(e, fp, d) \in Entry /\ Recorded(e, fp, d).of = e.of
        /\ Recorded(e, fp, d).kind = e.kind /\ Recorded(e, fp, d).once = e.once
        /\ Recorded(e, fp, d).day = d
        /\ Recorded(e, fp, d).count = IF e.day = d THEN e.count + 1 ELSE 1
    BY <2>1, RecordedEntry, Zenon
  <2> QED BY <2>2, Zenon DEF e
<1> HIDE DEF r
<1>5. /\ n.triggers \in [DOMAIN triggers -> Entry] /\ DOMAIN n.triggers = DOMAIN triggers
      /\ DOMAIN k.triggers = DOMAIN triggers
      /\ t \in DOMAIN triggers => n.triggers[t] = r
      /\ \A x \in DOMAIN triggers : x # t => n.triggers[x] = k.triggers[x]
  BY <1>1, <1>2, <1>4 DEF r
<1>6. /\ n.filed \in [0 .. MaxTriggers -> Nat] /\ n.late \in [0 .. MaxTriggers -> Nat]
      /\ \A x \in 0 .. MaxTriggers : x # t => n.filed[x] = k.filed[x] /\ n.late[x] = k.late[x]
      /\ d = day => n.filed[t] = k.filed[t] + 1 /\ n.late[t] = k.late[t]
      /\ d # day => n.filed[t] = k.filed[t] /\ n.late[t] = k.late[t] + 1
  <2>1. ASSUME NEW c \in [0 .. MaxTriggers -> Nat]
        PROVE  /\ OneMore(c, t) \in [0 .. MaxTriggers -> Nat] /\ OneMore(c, t)[t] = c[t] + 1
               /\ \A x \in 0 .. MaxTriggers : x # t => OneMore(c, t)[x] = c[x]
    BY <1>3 DEF OneMore
  <2>2. CASE d = day
    <3>1. n.filed = OneMore(k.filed, t) /\ n.late = k.late
      BY <1>1, <2>2
    <3> QED BY <1>2, <2>1, <2>2, <3>1
  <2>3. CASE d # day
    <3>1. n.late = OneMore(k.late, t) /\ n.filed = k.filed
      BY <1>1, <2>3
    <3> QED BY <1>2, <2>1, <2>3, <3>1
  <2> QED BY <2>2, <2>3
<1>7. ASSUME NEW x \in DOMAIN triggers PROVE Kindred(n.triggers[x], triggers[x])
  <2>1. Kindred(k.triggers[x], triggers[x])
    BY <1>2
  <2>2. CASE x = t
    <3>1. n.triggers[x] = r /\ r.of = triggers[x].of /\ r.kind = triggers[x].kind /\ r.day # 0
      BY <1>4, <1>5, <2>1, <2>2 DEF Kindred
    <3>2. r.once = triggers[x].once
      BY <1>4, <2>1, <2>2, Zenon DEF Kindred
    <3> QED BY <3>1, <3>2, Zenon DEF Kindred
  <2>3. CASE x # t
    BY <1>5, <2>1, <2>3, Zenon
  <2> QED BY <2>2, <2>3
<1>8. Ungiven(n)
  <2> SUFFICES ASSUME NEW x \in created + 1 .. MaxTriggers PROVE n.filed[x] = 0 /\ n.late[x] = 0
    BY DEF Ungiven
  <2>1. x \in 0 .. MaxTriggers /\ x # t
    BY <1>3
  <2> QED BY <1>2, <1>6, <2>1 DEF Capped, Ungiven
<1>9. /\ d # day => Overdue /\ d = tick.now
      /\ d # day /\ t \in DOMAIN triggers =>
           k.triggers[t].kind \in Polled /\ k.triggers[t].day # day
      /\ d = day /\ Overdue /\ t \in DOMAIN triggers => k.triggers[t].kind \notin Polled
  <2>1. t \in DOMAIN triggers => k.triggers[t].kind = triggers[t].kind
    BY <1>2 DEF Kindred
  <2>2. Overdue => tick.now # day
    BY DEF Overdue
  <2> QED BY <1>2, <1>5, <2>1, <2>2 DEF Timely, Capped, LateCounted
<1>10. Counted(n)
  <2> SUFFICES ASSUME NEW x \in DOMAIN triggers
               PROVE  n.filed[x] = IF n.triggers[x].day = day THEN n.triggers[x].count ELSE 0
    BY <1>5 DEF Counted
  <2>1. x \in 0 .. MaxTriggers
    BY <1>3
  <2>2. k.filed[x] = IF k.triggers[x].day = day THEN k.triggers[x].count ELSE 0
    BY <1>2, <1>5 DEF Capped, Counted
  <2>3. CASE x = t
    <3>1. n.triggers[x] = r
      BY <1>5, <2>3
    <3> QED BY <1>4, <1>6, <1>9, <2>1, <2>2, <2>3, <3>1
  <2>4. CASE x # t
    BY <1>5, <1>6, <2>1, <2>2, <2>4
  <2> QED BY <2>3, <2>4
<1>11. IsSnapshot(n.triggers) /\ IsSnapshot(k.triggers)
  BY <1>2, <1>3, <1>5 DEF IsSnapshot
<1>12. FiresToday(k.triggers, d) + 1 <= MaxPerDay
  <2>1. FiresToday(k.triggers, d) \in Nat
    BY <1>11, FiresCounts
  <2> QED BY <1>1, <1>3, <2>1 DEF RateLimited
<1>13. FiresToday(n.triggers, day) <= MaxPerDay
  <2>1. /\ FiresOf(n.triggers, day) \in Counts
        /\ FiresToday(n.triggers, day) = Total(FiresOf(n.triggers, day))
        /\ FiresOf(k.triggers, day) \in Counts
        /\ FiresToday(k.triggers, day) = Total(FiresOf(k.triggers, day))
    BY <1>11, FiresCounts
  <2>2. \A x \in 1 .. MaxTriggers : x # t => FiresOf(n.triggers, day)[x] = FiresOf(k.triggers, day)[x]
    BY <1>5 DEF FiresOf
  <2>3. CASE t \in DOMAIN triggers /\ d = day
    <3>1. FiresOf(n.triggers, day)[t] = FiresOf(k.triggers, day)[t] + 1
      BY <1>3, <1>4, <1>5, <2>3 DEF FiresOf
    <3>2. Total(FiresOf(n.triggers, day)) = Total(FiresOf(k.triggers, day)) + 1
      BY <1>3, <2>1, <2>2, <3>1, TotalBump
    <3> QED BY <1>12, <2>1, <2>3, <3>2
  <2>4. CASE ~ (t \in DOMAIN triggers /\ d = day)
    <3>1. FiresOf(n.triggers, day)[t] = FiresOf(k.triggers, day)[t]
      BY <1>3, <1>4, <1>5, <1>9, <2>4 DEF FiresOf
    <3>2. \A x \in 1 .. MaxTriggers : FiresOf(n.triggers, day)[x] = FiresOf(k.triggers, day)[x]
      BY <2>2, <3>1
    <3>3. FiresOf(n.triggers, day) = FiresOf(k.triggers, day)
      BY <2>1, <3>2, SameCounts
    <3> QED BY <1>2, <2>1, <3>3 DEF Capped
  <2> QED BY <2>3, <2>4
<1>14. LateCounted(n.triggers, n.late)
  <2> SUFFICES ASSUME NEW x \in DOMAIN triggers
               PROVE  /\ n.triggers[x].kind \notin Polled => n.late[x] = 0
                      /\ Overdue =>
                           /\ n.late[x] <= (IF n.triggers[x].day = tick.now
                                            THEN n.triggers[x].count ELSE 0)
                           /\ n.triggers[x].kind \in Polled => n.triggers[x].day # day
    BY <1>5 DEF LateCounted
  <2>0. x \in 0 .. MaxTriggers
    BY <1>3
  <2>1. x \in 0 .. MaxTriggers /\ n.late[x] \in Nat /\ k.late[x] \in Nat
    BY <1>2, <1>6, <2>0, Zenon
  <2>2. /\ k.triggers[x].kind \notin Polled => k.late[x] = 0
        /\ Overdue => /\ k.late[x] <= (IF k.triggers[x].day = tick.now
                                        THEN k.triggers[x].count ELSE 0)
                      /\ k.triggers[x].kind \in Polled => k.triggers[x].day # day
    BY <1>2, <1>5 DEF Capped, LateCounted
  <2>3. CASE x # t
    <3>1. n.triggers[x] = k.triggers[x] /\ n.late[x] = k.late[x]
      BY <1>5, <1>6, <2>1, <2>3
    <3> QED BY <2>2, <3>1
  <2>4. CASE x = t
    <3>1. /\ n.triggers[x] = r /\ r.day = d /\ r.kind = k.triggers[x].kind /\ r.count \in Nat
          /\ r.count = IF k.triggers[x].day = d THEN k.triggers[x].count + 1 ELSE 1
          /\ k.triggers[x].count \in Nat
      BY <1>2, <1>4, <1>5, <2>4 DEF Entry
    <3>2. CASE d = day
      <4>1. n.late[x] = k.late[x]
        BY <1>6, <2>4, <3>2
      <4>2. Overdue => n.triggers[x].kind \notin Polled /\ n.late[x] = 0
        BY <1>9, <2>2, <2>4, <3>1, <3>2, <4>1
      <4> QED BY <2>2, <3>1, <4>1, <4>2
    <3>3. CASE d # day
      <4>1. n.late[x] = k.late[x] + 1 /\ Overdue /\ d = tick.now /\ k.triggers[x].kind \in Polled
        BY <1>6, <1>9, <2>4, <3>3
      <4>2. n.late[x] <= r.count
        BY <2>1, <2>2, <3>1, <4>1
      <4> QED BY <3>1, <3>3, <4>1, <4>2
    <3> QED BY <3>2, <3>3
  <2> QED BY <2>3, <2>4
<1>15. Total(LateOf(n.triggers, n.late)) <= MaxPerDay
  <2>1. /\ LateOf(n.triggers, n.late) \in Counts
        /\ LateOf(k.triggers, k.late) \in Counts /\ Total(LateOf(k.triggers, k.late)) \in Nat
    BY <1>2, <1>6, LateCounts, Zenon
  <2>2. \A x \in 1 .. MaxTriggers :
          x # t => LateOf(n.triggers, n.late)[x] = LateOf(k.triggers, k.late)[x]
    BY <1>3, <1>5, <1>6 DEF LateOf
  <2>3. CASE t \in DOMAIN triggers /\ d # day
    <3>1. LateOf(n.triggers, n.late)[t] = LateOf(k.triggers, k.late)[t] + 1
      BY <1>3, <1>5, <1>6, <2>3 DEF LateOf
    <3>2. Total(LateOf(n.triggers, n.late)) = Total(LateOf(k.triggers, k.late)) + 1
      BY <1>3, <2>1, <2>2, <3>1, TotalBump
    <3>3. /\ FiresOf(k.triggers, d) \in Counts
          /\ FiresToday(k.triggers, d) = Total(FiresOf(k.triggers, d))
          /\ FiresToday(k.triggers, d) \in Nat
      BY <1>11, FiresCounts
    <3>4. \A x \in 1 .. MaxTriggers : LateOf(k.triggers, k.late)[x] <= FiresOf(k.triggers, d)[x]
      <4> SUFFICES ASSUME NEW x \in 1 .. MaxTriggers
                   PROVE  LateOf(k.triggers, k.late)[x] <= FiresOf(k.triggers, d)[x]
        OBVIOUS
      <4>1. CASE x \in DOMAIN triggers
        <5>1. k.late[x] <= (IF k.triggers[x].day = d THEN k.triggers[x].count ELSE 0)
          BY <1>2, <1>5, <1>9, <2>3, <4>1 DEF Capped, LateCounted
        <5> QED BY <1>5, <4>1, <5>1 DEF LateOf, FiresOf
      <4>2. CASE x \notin DOMAIN triggers
        BY <1>5, <4>2 DEF LateOf, FiresOf
      <4> QED BY <4>1, <4>2
    <3>5. Total(LateOf(k.triggers, k.late)) <= Total(FiresOf(k.triggers, d))
      BY <2>1, <3>3, <3>4, TotalGrows
    <3> QED BY <1>3, <1>12, <2>1, <3>2, <3>3, <3>5
  <2>4. CASE ~ (t \in DOMAIN triggers /\ d # day)
    <3>1. LateOf(n.triggers, n.late)[t] = LateOf(k.triggers, k.late)[t]
      BY <1>3, <1>5, <1>6, <2>4 DEF LateOf
    <3>2. \A x \in 1 .. MaxTriggers :
            LateOf(n.triggers, n.late)[x] = LateOf(k.triggers, k.late)[x]
      BY <2>2, <3>1
    <3>3. LateOf(n.triggers, n.late) = LateOf(k.triggers, k.late)
      BY <2>1, <3>2, SameCounts
    <3> QED BY <1>2, <3>3 DEF Capped
  <2> QED BY <2>3, <2>4
<1> QED BY <1>5, <1>6, <1>7, <1>8, <1>10, <1>13, <1>14, <1>15 DEF Capped

LEMMA StoreMade ==
    ASSUME NEW d, NEW ts \in [DOMAIN triggers -> Entry], NEW q \in Seq(Tasks),
           NEW f \in [0 .. MaxTriggers -> Nat], NEW l \in [0 .. MaxTriggers -> Nat]
    PROVE  [triggers |-> ts, queue |-> q, filed |-> f, late |-> l, now |-> d] \in Stores(d)
BY DEF Stores

\* One fire below the cap keeps what every turn keeps.
LEMMA FireGood ==
    ASSUME TypeInv, NEW d \in 1 .. day, NEW k \in GoodStores(d), NEW t \in 1 .. created,
           NEW fp \in Items \cup {0}, NEW item \in Items \cup {0}, ~ RateLimited(k), Timely(d, t)
    PROVE  Fire(k, t, fp, item) \in GoodStores(d)
<1> DEFINE n == Fire(k, t, fp, item)
<1> SUFFICES ASSUME n # k PROVE n \in GoodStores(d)
  OBVIOUS
<1>1. IsFired(n, k, t, fp, item)
  BY FireFields, Zenon
<1> HIDE DEF n
<1>2. /\ n.triggers \in [DOMAIN triggers -> Entry]
      /\ n.filed \in [0 .. MaxTriggers -> Nat] /\ n.late \in [0 .. MaxTriggers -> Nat]
      /\ \A x \in DOMAIN triggers : Kindred(n.triggers[x], triggers[x])
      /\ Capped(n)
  BY <1>1, FireCapped, Zenon
<1>3. /\ n = [triggers |-> n.triggers, queue |-> n.queue, filed |-> n.filed, late |-> n.late,
              now |-> k.now]
      /\ n.queue = Append(k.queue, [by |-> t, item |-> item])
  BY <1>1, Zenon DEF IsFired
<1>4. k.queue \in Seq(Tasks) /\ k.now = d
      /\ (queue # <<>> => k.queue # <<>> /\ Head(k.queue) = Head(queue))
  BY DEF GoodStores, Stores, Kept
<1> DEFINE task == [by |-> t, item |-> item]
<1>5. task \in Tasks /\ n.queue = Append(k.queue, task)
  BY <1>3, AutonomyAssumption DEF Tasks, TypeInv, ClockInv
<1> HIDE DEF task
<1>6. /\ n.queue \in Seq(Tasks)
      /\ queue # <<>> => n.queue # <<>> /\ Head(n.queue) = Head(queue)
  BY <1>4, <1>5
<1>7. n \in Stores(d)
  <2>1. n = [triggers |-> n.triggers, queue |-> n.queue, filed |-> n.filed, late |-> n.late,
             now |-> d]
    BY <1>3, <1>4, Zenon
  <2>2. [triggers |-> n.triggers, queue |-> n.queue, filed |-> n.filed, late |-> n.late,
         now |-> d] \in Stores(d)
    BY <1>2, <1>6, StoreMade, Zenon
  <2> QED BY <2>1, <2>2, Zenon
<1> QED BY <1>2, <1>6, <1>7 DEF GoodStores, Kept

-----------------------------------------------------------------------------
(* The loops: each turn leaves a good store, and so does the last.          *)

\* What a poll fires on are items.
LEMMA HitsItems ==
    ASSUME NEW r, NEW kind, NEW saw \in SUBSET Items, NEW d
    PROVE  Hits(r, kind, saw, d) \subseteq Items
<1>1. SpikeHits(r, saw, d) \subseteq Items
  BY DEF SpikeHits
<1>2. AdvisorHits(r, saw) \subseteq Items
  <2> DEFINE fresh == {p \in saw : r.fired[p] = 0}
  <2>1. CASE fresh = {}
    BY <2>1 DEF AdvisorHits
  <2>2. CASE fresh # {}
    <3>1. fresh \in SUBSET Nat /\ fresh \subseteq Items
      BY ItemsAssumption
    <3> HIDE DEF fresh
    <3>2. \E m \in fresh : \A x \in fresh : m <= x
      BY <2>2, <3>1, LeastNat
    <3>3. Min(fresh) \in fresh
      BY <3>2 DEF Min
    <3>4. AdvisorHits(r, saw) = {Min(fresh)}
      BY <2>2 DEF AdvisorHits, fresh
    <3> QED BY <3>1, <3>3, <3>4
  <2> QED BY <2>1, <2>2
<1> QED BY <1>1, <1>2 DEF Hits

\* The items of one trigger.
LEMMA HitsGood ==
    ASSUME TypeInv, NEW d \in 1 .. day, NEW k \in GoodStores(d), NEW t \in 1 .. created,
           Timely(d, t), NEW hits \in SUBSET Items
    PROVE  FireHits(k, t, hits) \in GoodStores(d)
<1> DEFINE n == LastItem
           g == [x \in GoodStores(d) \X (1 .. n) |-> FireHit(x[1], t, hits, x[2])]
<1>1. n \in Nat
  BY LastItemNat
<1>2. ASSUME NEW a \in GoodStores(d), NEW i \in 1 .. n PROVE FireHit(a, t, hits, i) \in GoodStores(d)
  <2>1. CASE i \in hits /\ ~ RateLimited(a)
    BY <2>1, FireGood DEF FireHit
  <2>2. CASE ~ (i \in hits /\ ~ RateLimited(a))
    BY <2>2 DEF FireHit
  <2> QED BY <2>1, <2>2
<1>3. g \in [GoodStores(d) \X (1 .. n) -> GoodStores(d)]
  BY <1>2
<1>4. \A a \in GoodStores(d), i \in 1 .. n : g[<<a, i>>] = FireHit(a, t, hits, i)
  OBVIOUS
<1> HIDE DEF g, n
<1>5. PICK f \in [0 .. n -> GoodStores(d)] : IsChain(f, k, g, n)
  BY <1>1, <1>3, Chain, Zenon
<1>6. ASSUME NEW i \in 0 .. n
      PROVE  f[i] = IF i = 0 THEN k ELSE FireHit(f[i - 1], t, hits, i)
  <2>1. CASE i = 0
    BY <1>5, <2>1 DEF IsChain
  <2>2. CASE i # 0
    <3>1. i \in 1 .. n /\ i - 1 \in 0 .. n
      BY <1>1, <2>2
    <3>2. f[i] = g[<<f[i - 1], i>>] /\ f[i - 1] \in GoodStores(d)
      BY <1>5, <3>1 DEF IsChain
    <3>3. g[<<f[i - 1], i>>] = FireHit(f[i - 1], t, hits, i)
      BY <1>4, <3>1, <3>2
    <3> QED BY <2>2, <3>2, <3>3
  <2> QED BY <2>1, <2>2
<1>7. f = [i \in 0 .. n |-> IF i = 0 THEN k ELSE FireHit(f[i - 1], t, hits, i)]
  BY <1>6
<1> DEFINE after[i \in 0 .. n] == IF i = 0 THEN k ELSE FireHit(after[i - 1], t, hits, i)
<1>8. after = [i \in 0 .. n |-> IF i = 0 THEN k ELSE FireHit(after[i - 1], t, hits, i)]
  <2>1. \E h : h = [i \in 0 .. n |-> IF i = 0 THEN k ELSE FireHit(h[i - 1], t, hits, i)]
    BY <1>7
  <2> QED BY <2>1, Zenon
<1>9. FireHits(k, t, hits) = after[n]
  BY DEF FireHits, n
<1> HIDE DEF after
<1>10. after[0] = k /\ \A i \in 1 .. n : after[i] = FireHit(after[i - 1], t, hits, i)
  BY <1>1, <1>8
<1> DEFINE T == {i \in 0 .. n : after[i] \in GoodStores(d)}
<1>11. 0 \in T
  BY <1>1, <1>10
<1>12. ASSUME NEW i \in 1 .. n, i - 1 \in T PROVE i \in T
  BY <1>1, <1>2, <1>10, <1>12
<1> HIDE DEF T
<1>13. n \in T
  <2>1. \A i \in 0 .. n : i \in T
    BY <1>1, <1>11, <1>12, UpTo
  <2> QED BY <1>1, <2>1
<1> QED BY <1>9, <1>13 DEF T

\* The schedules of a snapshot.
LEMMA SchedulesGood ==
    ASSUME TypeInv, NEW d, d = day, ~ Overdue, NEW k \in GoodStores(d), NEW snap, IsSnapshot(snap)
    PROVE  FireSchedules(k, snap) \in GoodStores(d)
<1> DEFINE n == MaxTriggers
           g == [x \in GoodStores(d) \X (1 .. n) |-> FireSchedule(x[1], snap, x[2])]
<1>1. n \in Nat
  BY AutonomyAssumption
<1>2. ASSUME NEW a \in GoodStores(d), NEW i \in 1 .. n PROVE FireSchedule(a, snap, i) \in GoodStores(d)
  <2>1. CASE i \in OfKind(snap, "schedule") /\ ~ RateLimited(a)
    <3>1. i \in DOMAIN snap
      BY <2>1 DEF OfKind
    <3>2. i \in 1 .. created /\ snap[i].of \in Items \cup {0} /\ 0 \in Items \cup {0}
      BY <3>1 DEF IsSnapshot, Entry, Items
    <3>3. Timely(d, i) /\ d \in 1 .. day
      BY DEF Timely, TypeInv, ClockInv
    <3>4. Fire(a, i, 0, snap[i].of) \in GoodStores(d)
      BY <2>1, <3>2, <3>3, FireGood
    <3> QED BY <3>4 DEF FireSchedule
  <2>2. CASE ~ (i \in OfKind(snap, "schedule") /\ ~ RateLimited(a))
    BY <2>2 DEF FireSchedule
  <2> QED BY <2>1, <2>2
<1>3. g \in [GoodStores(d) \X (1 .. n) -> GoodStores(d)]
  BY <1>2
<1>4. \A a \in GoodStores(d), i \in 1 .. n : g[<<a, i>>] = FireSchedule(a, snap, i)
  OBVIOUS
<1> HIDE DEF g, n
<1>5. PICK f \in [0 .. n -> GoodStores(d)] : IsChain(f, k, g, n)
  BY <1>1, <1>3, Chain, Zenon
<1>6. ASSUME NEW i \in 0 .. n
      PROVE  f[i] = IF i = 0 THEN k ELSE FireSchedule(f[i - 1], snap, i)
  <2>1. CASE i = 0
    BY <1>5, <2>1 DEF IsChain
  <2>2. CASE i # 0
    <3>1. i \in 1 .. n /\ i - 1 \in 0 .. n
      BY <1>1, <2>2
    <3>2. f[i] = g[<<f[i - 1], i>>] /\ f[i - 1] \in GoodStores(d)
      BY <1>5, <3>1 DEF IsChain
    <3>3. g[<<f[i - 1], i>>] = FireSchedule(f[i - 1], snap, i)
      BY <1>4, <3>1, <3>2
    <3> QED BY <2>2, <3>2, <3>3
  <2> QED BY <2>1, <2>2
<1>7. f = [i \in 0 .. n |-> IF i = 0 THEN k ELSE FireSchedule(f[i - 1], snap, i)]
  BY <1>6
<1> DEFINE after[i \in 0 .. n] == IF i = 0 THEN k ELSE FireSchedule(after[i - 1], snap, i)
<1>8. after = [i \in 0 .. n |-> IF i = 0 THEN k ELSE FireSchedule(after[i - 1], snap, i)]
  <2>1. \E h : h = [i \in 0 .. n |-> IF i = 0 THEN k ELSE FireSchedule(h[i - 1], snap, i)]
    BY <1>7
  <2> QED BY <2>1, Zenon
<1>9. FireSchedules(k, snap) = after[n]
  BY DEF FireSchedules, n
<1> HIDE DEF after
<1>10. after[0] = k /\ \A i \in 1 .. n : after[i] = FireSchedule(after[i - 1], snap, i)
  BY <1>1, <1>8
<1> DEFINE T == {i \in 0 .. n : after[i] \in GoodStores(d)}
<1>11. 0 \in T
  BY <1>1, <1>10
<1>12. ASSUME NEW i \in 1 .. n, i - 1 \in T PROVE i \in T
  BY <1>1, <1>2, <1>10, <1>12
<1> HIDE DEF T
<1>13. n \in T
  <2>1. \A i \in 0 .. n : i \in T
    BY <1>1, <1>11, <1>12, UpTo
  <2> QED BY <1>1, <2>1
<1> QED BY <1>9, <1>13 DEF T

\* The polled triggers of a snapshot.
LEMMA PolledGood ==
    ASSUME TypeInv, NEW d, d = tick.now, tick.at # "none",
           NEW k \in GoodStores(d), NEW snap, IsSnapshot(snap), SameKinds(snap, triggers),
           NEW kind \in Polled, NEW saw \in SUBSET Items
    PROVE  FirePolled(k, snap, kind, saw) \in GoodStores(d)
<1> DEFINE n == MaxTriggers
           g == [x \in GoodStores(d) \X (1 .. n) |-> FirePoll(x[1], snap, kind, saw, x[2])]
<1>1. n \in Nat
  BY AutonomyAssumption
<1>2. ASSUME NEW a \in GoodStores(d), NEW i \in 1 .. n
      PROVE  FirePoll(a, snap, kind, saw, i) \in GoodStores(d)
  <2> DEFINE live == IF i \in DOMAIN a.triggers THEN a.triggers[i] ELSE snap[i]
  <2>1. CASE i \in OfKind(snap, kind)
    <3>1. i \in 1 .. created
      BY <2>1 DEF OfKind, IsSnapshot
    <3>2. Hits(live, kind, saw, a.now) \in SUBSET Items
      BY HitsItems
    <3>3. FirePoll(a, snap, kind, saw, i) = FireHits(a, i, Hits(live, kind, saw, a.now))
      BY <2>1 DEF FirePoll
    <3> HIDE DEF live
    <3>4. i \in DOMAIN triggers => triggers[i].kind = kind
      BY <2>1 DEF OfKind, SameKinds
    <3>5. d \in 1 .. day
      BY DEF TypeInv, TickInv
    <3>6. Timely(d, i)
      <4>1. kind \in Polled
        OBVIOUS
      <4> QED BY <3>4, <4>1 DEF Timely, Overdue
    <3> QED BY <3>1, <3>2, <3>3, <3>5, <3>6, HitsGood
  <2>2. CASE i \notin OfKind(snap, kind)
    BY <2>2 DEF FirePoll
  <2> QED BY <2>1, <2>2
<1>3. g \in [GoodStores(d) \X (1 .. n) -> GoodStores(d)]
  BY <1>2
<1>4. \A a \in GoodStores(d), i \in 1 .. n : g[<<a, i>>] = FirePoll(a, snap, kind, saw, i)
  OBVIOUS
<1> HIDE DEF g, n
<1>5. PICK f \in [0 .. n -> GoodStores(d)] : IsChain(f, k, g, n)
  BY <1>1, <1>3, Chain, Zenon
<1>6. ASSUME NEW i \in 0 .. n
      PROVE  f[i] = IF i = 0 THEN k ELSE FirePoll(f[i - 1], snap, kind, saw, i)
  <2>1. CASE i = 0
    BY <1>5, <2>1 DEF IsChain
  <2>2. CASE i # 0
    <3>1. i \in 1 .. n /\ i - 1 \in 0 .. n
      BY <1>1, <2>2
    <3>2. f[i] = g[<<f[i - 1], i>>] /\ f[i - 1] \in GoodStores(d)
      BY <1>5, <3>1 DEF IsChain
    <3>3. g[<<f[i - 1], i>>] = FirePoll(f[i - 1], snap, kind, saw, i)
      BY <1>4, <3>1, <3>2
    <3> QED BY <2>2, <3>2, <3>3
  <2> QED BY <2>1, <2>2
<1>7. f = [i \in 0 .. n |-> IF i = 0 THEN k ELSE FirePoll(f[i - 1], snap, kind, saw, i)]
  BY <1>6
<1> DEFINE after[i \in 0 .. n] == IF i = 0 THEN k ELSE FirePoll(after[i - 1], snap, kind, saw, i)
<1>8. after = [i \in 0 .. n |-> IF i = 0 THEN k ELSE FirePoll(after[i - 1], snap, kind, saw, i)]
  <2>1. \E h : h = [i \in 0 .. n |-> IF i = 0 THEN k ELSE FirePoll(h[i - 1], snap, kind, saw, i)]
    BY <1>7
  <2> QED BY <2>1, Zenon
<1>9. FirePolled(k, snap, kind, saw) = after[n]
  BY DEF FirePolled, n
<1> HIDE DEF after
<1>10. after[0] = k /\ \A i \in 1 .. n : after[i] = FirePoll(after[i - 1], snap, kind, saw, i)
  BY <1>1, <1>8
<1> DEFINE T == {i \in 0 .. n : after[i] \in GoodStores(d)}
<1>11. 0 \in T
  BY <1>1, <1>10
<1>12. ASSUME NEW i \in 1 .. n, i - 1 \in T PROVE i \in T
  BY <1>1, <1>2, <1>10, <1>12
<1> HIDE DEF T
<1>13. n \in T
  <2>1. \A i \in 0 .. n : i \in T
    BY <1>1, <1>11, <1>12, UpTo
  <2> QED BY <1>1, <2>1
<1> QED BY <1>9, <1>13 DEF T

-----------------------------------------------------------------------------
(* What a step leaves alone stays as it was, identities and days only grow. *)

\* What was well typed still is.
LEMMA Growth ==
    ASSUME ClockInv, ClockInv', created <= created', day <= day'
    PROVE  /\ Tasks \subseteq Tasks' /\ Entry \subseteq Entry'
           /\ 0 .. created \subseteq 0 .. created' /\ 1 .. created \subseteq 1 .. created'
           /\ Seq(Tasks) \subseteq Seq(Tasks')
<1>1. 0 .. created \subseteq 0 .. created' /\ 1 .. created \subseteq 1 .. created'
  BY DEF ClockInv
<1>2. 0 .. day \subseteq 0 .. day'
  BY DEF ClockInv
<1>3. Tasks \subseteq Tasks'
  BY <1>1 DEF Tasks
<1>4. Entry \subseteq Entry'
  <2>1. [Items -> 0 .. day] \subseteq [Items -> 0 .. day']
    BY <1>2
  <2> QED BY <1>2, <2>1, Zenon DEF Entry
<1>5. Seq(Tasks) \subseteq Seq(Tasks')
  BY <1>3
<1> QED BY <1>1, <1>3, <1>4, <1>5

LEMMA StoreSame ==
    ASSUME ClockInv, ClockInv', created <= created', day <= day', StoreInv,
           UNCHANGED triggers, filed' \in [0..MaxTriggers -> Nat],
           late' \in [0..MaxTriggers -> Nat]
    PROVE  StoreInv'
<1>1. Entry \subseteq Entry' /\ 1 .. created \subseteq 1 .. created'
  BY Growth
<1>2. IsSnapshot(triggers)'
  BY <1>1 DEF StoreInv, IsSnapshot
<1>3. \A t \in DOMAIN triggers' : triggers'[t].once => triggers'[t].of \in Proposals
  BY Zenon DEF StoreInv
<1> QED BY <1>2, <1>3, Zenon DEF StoreInv

LEMMA TickSame ==
    ASSUME ClockInv, ClockInv', created <= created', day <= day', TickInv, UNCHANGED tick
    PROVE  TickInv'
<1>1. Entry \subseteq Entry' /\ 1 .. created \subseteq 1 .. created'
  BY Growth
<1>2. IsSnapshot(tick.snap)'
  BY <1>1 DEF TickInv, IsSnapshot
<1>3. 1 .. day \subseteq 1 .. day'
  BY DEF ClockInv
<1> QED BY <1>2, <1>3 DEF TickInv

LEMMA DrainSame ==
    ASSUME ClockInv, ClockInv', created <= created', day <= day', DrainInv,
           UNCHANGED <<queue, pending, run, shipped>>
    PROVE  DrainInv'
<1>1. Tasks \subseteq Tasks' /\ Seq(Tasks) \subseteq Seq(Tasks')
  BY Growth
<1>2. run.at \in Stages /\ run.steady \in BOOLEAN /\ run.task \in Tasks' /\ run.checks \in Verdicts
  BY <1>1 DEF DrainInv
<1>3. run' \in [at : Stages, steady : BOOLEAN, task : Tasks', checks : Verdicts]
  <2>1. run = [at |-> run.at, steady |-> run.steady, task |-> run.task, checks |-> run.checks]
    BY DEF DrainInv
  <2> QED BY <1>2, <2>1
<1>4. queue' \in Seq(Tasks') /\ pending' \subseteq Tasks'
  BY <1>1 DEF DrainInv
<1>5. IF run'.at = "none" THEN run' = NoRun ELSE queue' # <<>> /\ run'.task = Head(queue')
  BY DEF DrainInv
<1>6. shipped' \subseteq Shipments
  BY Zenon DEF DrainInv
<1> QED BY <1>3, <1>4, <1>5, <1>6, Zenon DEF DrainInv

LEMMA PluginSame ==
    ASSUME ClockInv, ClockInv', created <= created', day <= day', PluginInv,
           UNCHANGED <<store, calls>>
    PROVE  PluginInv'
<1>1. 0 .. created \subseteq 0 .. created'
  BY Growth
<1> QED BY <1>1 DEF PluginInv, CallShape

\* The pass of the clock goes on with the date it has, over triggers of the
\* kinds there are; or it ends, or a new one begins.
TickGoes ==
    /\ Overdue' => Overdue /\ tick'.now = tick.now
    /\ SameKinds(tick'.snap, triggers)

LEMMA TickStays ==
    ASSUME CapInv, UNCHANGED <<tick, day>> PROVE TickGoes
BY DEF CapInv, TickGoes, Overdue

LEMMA CapTick ==
    ASSUME CapInv, UNCHANGED <<triggers, filed, late, day, created>>, TickGoes
    PROVE  CapInv'
<1>1. /\ Counted(Stored(day)) /\ FiresToday(triggers, day) <= MaxPerDay
      /\ LateCounted(triggers, late) /\ Total(LateOf(triggers, late)) <= MaxPerDay
      /\ Ungiven(Stored(day))
  BY DEF CapInv, Capped, Stored
<1>2. Counted(Stored(day))' /\ Ungiven(Stored(day))'
  BY <1>1 DEF Counted, Ungiven, Stored
<1>3. FiresToday(triggers, day)' <= MaxPerDay
  BY <1>1 DEF FiresToday
<1>4. LateCounted(triggers, late)'
  BY <1>1 DEF LateCounted, TickGoes
<1>5. Total(LateOf(triggers, late))' <= MaxPerDay
  BY <1>1 DEF LateOf
<1>6. /\ Stored(day)'.triggers = triggers' /\ Stored(day)'.late = late'
  BY DEF Stored
<1>7. Capped(Stored(day))'
  BY <1>2, <1>3, <1>4, <1>5, <1>6 DEF Capped
<1>8. SameKinds(tick.snap, triggers)'
  BY DEF TickGoes, SameKinds
<1> QED BY <1>7, <1>8 DEF CapInv

LEMMA CapSame ==
    ASSUME CapInv, UNCHANGED <<triggers, filed, late, day, created, tick>>
    PROVE  CapInv'
BY TickStays, CapTick

\* No one-shot becomes armed again, and no new identity is one.
Dwindles ==
    /\ \A t \in 1 .. created' : Armed(triggers', t) =>
         /\ t \in 1 .. created /\ Armed(triggers, t)
         /\ triggers'[t].of = triggers[t].of
    /\ \A t \in DOMAIN triggers' : t \in DOMAIN triggers \/ t > created

LEMMA ArmedSame ==
    ASSUME ClockInv, PluginInv, ArmedInv, Dwindles, UNCHANGED <<store, calls, apart>>
    PROVE  ArmedInv'
<1> SUFFICES ASSUME ~ apart PROVE /\ (\A c, d \in Working : c = d)'
                                  /\ \A c \in Working' : CallInv(calls[c])'
                                  /\ \A t \in 1 .. created' : Armed(triggers', t) =>
                                       \/ store'[triggers'[t].of] = [status |-> "scheduled", trigger |-> t]
                                       \/ \E c \in Working' : calls'[c].at = "created" /\ calls'[c].id = t
                                                              /\ calls'[c].p = triggers'[t].of
  BY DEF ArmedInv
<1>1. Working' = Working /\ calls' = calls /\ store' = store
  BY DEF Working
<1>2. /\ \A c, d \in Working : c = d
      /\ \A c \in Working : CallInv(calls[c])
      /\ \A t \in 1 .. created : Armed(triggers, t) =>
             \/ store[triggers[t].of] = [status |-> "scheduled", trigger |-> t]
             \/ \E c \in Working : calls[c].at = "created" /\ calls[c].id = t
                                   /\ calls[c].p = triggers[t].of
  BY DEF ArmedInv
<1>3. ASSUME NEW c \in Working PROVE CallInv(calls[c])'
  <2>1. CallInv(calls[c]) /\ calls[c].id \in 0 .. created /\ created \in Nat
    BY <1>2, AutonomyAssumption DEF PluginInv, CallShape, Working, ClockInv
  <2>2. calls[c].id \notin DOMAIN triggers => calls[c].id \notin DOMAIN triggers'
    BY <2>1 DEF Dwindles
  <2>3. ASSUME calls[c].at = "synced", NEW t \in 1 .. created', Armed(triggers', t)
        PROVE  Armed(calls[c].saw, t)
    <3>1. t \in 1 .. created /\ Armed(triggers, t)
      BY <2>3 DEF Dwindles
    <3> QED BY <2>1, <2>3, <3>1 DEF CallInv
  <2> QED BY <1>1, <2>1, <2>2, <2>3 DEF CallInv
<1>4. ASSUME NEW t \in 1 .. created', Armed(triggers', t)
      PROVE  \/ store[triggers'[t].of] = [status |-> "scheduled", trigger |-> t]
             \/ \E c \in Working : calls[c].at = "created" /\ calls[c].id = t
                                   /\ calls[c].p = triggers'[t].of
  <2>1. t \in 1 .. created /\ Armed(triggers, t) /\ triggers'[t].of = triggers[t].of
    BY <1>4 DEF Dwindles
  <2> QED BY <1>2, <2>1
<1> QED BY <1>1, <1>2, <1>3, <1>4

LEMMA InitIInv == Init => IInv
<1> SUFFICES ASSUME Init PROVE IInv
  OBVIOUS
<1>1. ClockInv
  BY AutonomyAssumption DEF Init, ClockInv, Settings
<1>2. DOMAIN triggers = {} /\ IsSnapshot(triggers)
  BY DEF Init, IsSnapshot
<1>3. StoreInv
  BY <1>2 DEF Init, StoreInv
<1>4. TickInv
  BY DEF Init, TickInv, Idle, IsSnapshot
<1>5. DrainInv
  <2>1. [by |-> 0, item |-> 0] \in Tasks
    BY <1>1 DEF Tasks, ClockInv
  <2> QED BY <2>1 DEF Init, DrainInv, NoRun, Stages, Verdicts
<1>6. PluginInv
  BY <1>1 DEF Init, PluginInv, CallShape, NoCall, Open, ClockInv
<1>7. CapInv
  <2>0. /\ Stored(day).triggers = triggers /\ Stored(day).filed = filed /\ Stored(day).late = late
    BY DEF Stored
  <2>1. Counted(Stored(day)) /\ LateCounted(triggers, late) /\ SameKinds(tick.snap, triggers)
    BY <1>2, <2>0 DEF Counted, LateCounted, SameKinds
  <2>2. Ungiven(Stored(day))
    <3>1. filed = [t \in 0 .. MaxTriggers |-> 0] /\ late = filed /\ created = 0
      BY DEF Init
    <3> QED BY <2>0, <3>1, AutonomyAssumption DEF Ungiven
  <2>3. FiresToday(triggers, day) = 0 /\ Total(LateOf(triggers, late)) = 0
    <3>1. FiresOf(triggers, day) \in Counts /\ \A t \in 1 .. MaxTriggers : FiresOf(triggers, day)[t] = 0
      BY <1>2 DEF Counts, FiresOf
    <3>2. LateOf(triggers, late) \in Counts /\ \A t \in 1 .. MaxTriggers : LateOf(triggers, late)[t] = 0
      BY <1>2 DEF Counts, LateOf
    <3>3. FiresToday(triggers, day) = Total(FiresOf(triggers, day))
      BY DEF FiresToday, FiresOf
    <3> QED BY <3>1, <3>2, <3>3, TotalZero
  <2> QED BY <2>0, <2>1, <2>2, <2>3, AutonomyAssumption DEF CapInv, Capped
<1>8. ArmedInv
  BY <1>2 DEF Init, ArmedInv, Armed, Working
<1> QED BY <1>1, <1>3, <1>4, <1>5, <1>6, <1>7, <1>8 DEF IInv, TypeInv

-----------------------------------------------------------------------------
(* The clock.                                                               *)

\* What the loops made of the store goes to disk.
LEMMA StoreFiled ==
    ASSUME IInv, NEW d, NEW k \in GoodStores(d), Files(k), TickGoes,
           UNCHANGED <<cfg, created, day>>
    PROVE  /\ ClockInv' /\ StoreInv' /\ CapInv' /\ Dwindles
           /\ queue' \in Seq(Tasks)
           /\ queue # <<>> => queue' # <<>> /\ Head(queue') = Head(queue)
<1>1. /\ triggers' = k.triggers /\ queue' = k.queue /\ filed' = k.filed /\ late' = k.late
      /\ k.triggers \in [DOMAIN triggers -> Entry] /\ k.queue \in Seq(Tasks)
      /\ k.filed \in [0 .. MaxTriggers -> Nat] /\ k.late \in [0 .. MaxTriggers -> Nat] /\ Kept(k)
  BY DEF Files, GoodStores, Stores
<1>2. ClockInv'
  BY DEF ClockInv, IInv, TypeInv
<1>3. Entry' = Entry /\ DOMAIN triggers \subseteq 1 .. created
  BY DEF Entry, IInv, TypeInv, StoreInv, IsSnapshot
<1>4. IsSnapshot(triggers)'
  BY <1>1, <1>3 DEF IsSnapshot
<1>5. \A t \in DOMAIN triggers : /\ k.triggers[t].of = triggers[t].of
                                 /\ k.triggers[t].once = triggers[t].once
                                 /\ k.triggers[t].day = 0 => triggers[t].day = 0
                                 /\ k.triggers[t].kind = triggers[t].kind
  BY <1>1, Zenon DEF Kept, Kindred
<1>6. ASSUME NEW t \in DOMAIN triggers', triggers'[t].once PROVE triggers'[t].of \in Proposals
  <2>1. t \in DOMAIN triggers
    BY <1>1
  <2>2. triggers[t].once
    BY <1>1, <1>5, <1>6, <2>1, Zenon
  <2>3. triggers[t].of \in Proposals
    BY <2>1, <2>2 DEF IInv, TypeInv, StoreInv
  <2> QED BY <1>1, <1>5, <2>1, <2>3
<1>7. StoreInv'
  <2>1. filed' \in [0 .. MaxTriggers -> Nat] /\ late' \in [0 .. MaxTriggers -> Nat]
    BY <1>1
  <2> QED BY <1>4, <1>6, <2>1, Zenon DEF StoreInv
<1>8. CapInv'
  <2>1. /\ Counted(k) /\ FiresToday(k.triggers, day) <= MaxPerDay
        /\ LateCounted(k.triggers, k.late) /\ Total(LateOf(k.triggers, k.late)) <= MaxPerDay
        /\ Ungiven(k)
    BY <1>1 DEF Kept, Capped
  <2>2. /\ Stored(day)'.triggers = triggers' /\ Stored(day)'.late = late'
        /\ Stored(day)'.filed = filed'
    BY DEF Stored
  <2>3. Counted(Stored(day))' /\ Ungiven(Stored(day))'
    BY <1>1, <2>1, <2>2 DEF Counted, Ungiven
  <2>4. FiresToday(triggers, day)' <= MaxPerDay
    BY <1>1, <2>1 DEF FiresToday
  <2>5. LateCounted(triggers, late)'
    BY <1>1, <2>1 DEF LateCounted, TickGoes
  <2>6. Total(LateOf(triggers, late))' <= MaxPerDay
    BY <1>1, <2>1 DEF LateOf
  <2>7. Capped(Stored(day))'
    BY <2>2, <2>3, <2>4, <2>5, <2>6 DEF Capped
  <2>8. SameKinds(tick.snap, triggers)'
    <3> SUFFICES ASSUME NEW t \in DOMAIN tick'.snap \cap DOMAIN triggers'
                 PROVE  tick'.snap[t].kind = triggers'[t].kind
      BY DEF SameKinds
    <3>1. t \in DOMAIN triggers
      BY <1>1
    <3> QED BY <1>1, <1>5, <3>1 DEF TickGoes, SameKinds
  <2> QED BY <2>7, <2>8 DEF CapInv
<1>9. Dwindles
  <2>1. DOMAIN triggers' = DOMAIN triggers
    BY <1>1
  <2>2. ASSUME NEW t \in 1 .. created', Armed(triggers', t)
        PROVE  t \in 1 .. created /\ Armed(triggers, t) /\ triggers'[t].of = triggers[t].of
    <3>1. t \in DOMAIN triggers /\ triggers'[t].day = 0 /\ triggers'[t].once
      BY <2>1, <2>2 DEF Armed
    <3>2. triggers[t].once
      BY <1>1, <1>5, <3>1, Zenon
    <3>3. triggers[t].day = 0 /\ triggers'[t].of = triggers[t].of /\ t \in 1 .. created
      BY <1>1, <1>3, <1>5, <3>1
    <3> QED BY <3>1, <3>2, <3>3 DEF Armed
  <2> QED BY <2>1, <2>2 DEF Dwindles
<1>10. /\ queue' \in Seq(Tasks)
       /\ queue # <<>> => queue' # <<>> /\ Head(queue') = Head(queue)
  BY <1>1 DEF Kept
<1> QED BY <1>2, <1>7, <1>8, <1>9, <1>10

LEMMA FilesStep ==
    ASSUME IInv, NEW d, NEW k \in GoodStores(d), Files(k), TickGoes,
           UNCHANGED <<cfg, created, day, pending, run, shipped, store, calls, apart>>
    PROVE  ClockInv' /\ StoreInv' /\ DrainInv' /\ PluginInv' /\ CapInv' /\ ArmedInv'
<1>1. /\ ClockInv' /\ StoreInv' /\ CapInv' /\ Dwindles
      /\ queue' \in Seq(Tasks)
      /\ queue # <<>> => queue' # <<>> /\ Head(queue') = Head(queue)
  BY StoreFiled
<1>2. created \in Nat /\ day \in Nat /\ created <= created' /\ day <= day' /\ Tasks' = Tasks
  BY AutonomyAssumption DEF IInv, TypeInv, ClockInv, Tasks
<1>3. DrainInv'
  <2>1. DrainInv
    BY DEF IInv, TypeInv
  <2>2. IF run'.at = "none" THEN run' = NoRun ELSE queue' # <<>> /\ run'.task = Head(queue')
    BY <1>1, <2>1 DEF DrainInv
  <2>3. pending' \subseteq Tasks' /\ queue' \in Seq(Tasks')
    BY <1>1, <1>2, <2>1 DEF DrainInv
  <2>4. run' \in [at : Stages, steady : BOOLEAN, task : Tasks', checks : Verdicts]
    BY <1>2, <2>1, Zenon DEF DrainInv
  <2>5. shipped' \subseteq Shipments
    BY <2>1, Zenon DEF DrainInv
  <2> QED BY <2>2, <2>3, <2>4, <2>5, Zenon DEF DrainInv
<1>4. PluginInv'
  BY <1>1, <1>2, PluginSame DEF IInv, TypeInv
<1>5. ArmedInv'
  BY <1>1, ArmedSame DEF IInv, TypeInv
<1> QED BY <1>1, <1>3, <1>4, <1>5

\* The next poll waits over the same snapshot.
LEMMA WaitingTyped ==
    ASSUME ClockInv, NEW snap, IsSnapshot(snap), NEW kinds \in SUBSET {"error_spike", "advisor"},
           NEW now \in 1 .. day, tick' = Waiting(snap, kinds, now), UNCHANGED <<day, created>>
    PROVE  /\ TickInv'
           /\ tick'.at # "none" => tick'.now = now
           /\ tick'.snap = snap \/ DOMAIN tick'.snap = {}
<1> DEFINE due == {kind \in kinds : OfKind(snap, kind) # {}}
<1>1. Entry' = Entry /\ created' = created
  BY DEF Entry
<1>2. CASE due = {}
  <2>1. tick' = Idle
    BY <1>2 DEF Waiting
  <2>2. DOMAIN tick'.snap = {} /\ tick'.saw = {} /\ tick'.at = "none"
        /\ DOMAIN tick' = {"at", "snap", "saw", "answered", "now"}
    BY <2>1 DEF Idle
  <2>3. tick'.snap = <<>>
    BY <2>1 DEF Idle
  <2>4. IsSnapshot(tick.snap)'
    BY <2>2, <2>3 DEF IsSnapshot
  <2> QED BY <2>1, <2>2, <2>4 DEF TickInv
<1>3. CASE due # {}
  <2> DEFINE at == IF "error_spike" \in due THEN "error_spike" ELSE "advisor"
  <2>1. tick' = [Idle EXCEPT !.at = at, !.snap = snap, !.now = now]
    BY <1>3 DEF Waiting
  <2>2. at \in {"error_spike", "advisor"}
    OBVIOUS
  <2> HIDE DEF at
  <2>3. tick' = [at |-> at, snap |-> snap, saw |-> {}, answered |-> FALSE, now |-> now]
    BY <2>1 DEF Idle
  <2>4. tick'.snap = snap /\ tick'.saw = {} /\ tick'.at = at /\ tick'.now = now
        /\ DOMAIN tick' = {"at", "snap", "saw", "answered", "now"}
    BY <2>3
  <2>5. IsSnapshot(tick.snap)'
    BY <1>1, <2>4 DEF IsSnapshot
  <2> QED BY <2>2, <2>4, <2>5 DEF TickInv, Polled
<1> QED BY <1>2, <1>3

\* The pass under way goes on to its next poll, or ends.
LEMMA PassGoesOn ==
    ASSUME IInv, tick.at # "none", tick' = AfterPoll, UNCHANGED <<day, created>>
    PROVE  TickInv' /\ TickGoes
<1> DEFINE kinds == IF tick.at = "error_spike" THEN {"advisor"} ELSE {}
<1>1. ClockInv /\ IsSnapshot(tick.snap) /\ tick.now \in 1 .. day /\ CapInv
  BY DEF IInv, TypeInv, TickInv
<1>2. tick' = Waiting(tick.snap, kinds, tick.now) /\ kinds \in SUBSET {"error_spike", "advisor"}
  BY DEF AfterPoll
<1> HIDE DEF kinds
<1>3. /\ TickInv'
      /\ tick'.at # "none" => tick'.now = tick.now
      /\ tick'.snap = tick.snap \/ DOMAIN tick'.snap = {}
  BY <1>1, <1>2, WaitingTyped
<1>4. SameKinds(tick'.snap, triggers)
  BY <1>1, <1>3 DEF CapInv, SameKinds
<1>5. Overdue' => Overdue /\ tick'.now = tick.now
  BY <1>3 DEF Overdue
<1> QED BY <1>3, <1>4, <1>5 DEF TickGoes

LEMMA ClockStep ==
    ASSUME IInv, Tick \/ WebhookFires PROVE IInv'
<1>1. /\ TypeInv /\ CapInv /\ ArmedInv /\ ClockInv /\ StoreInv /\ TickInv /\ DrainInv /\ PluginInv
      /\ IsSnapshot(triggers) /\ IsSnapshot(tick.snap) /\ tick.saw \in SUBSET Items
      /\ created \in Nat /\ day \in Nat /\ day \in 1 .. day
  BY AutonomyAssumption DEF IInv, TypeInv, StoreInv, TickInv, ClockInv
<1>2. \A d : Stored(d) \in GoodStores(d)
  BY <1>1, StoredGood
<1>3. CASE TickStarts
  <2>0. tick.at = "none" /\ ~ Overdue
    BY <1>3 DEF TickStarts, Idle, Overdue
  <2>1. FireSchedules(Stored(day), triggers) \in GoodStores(day)
    BY <1>1, <1>2, <2>0, SchedulesGood
  <2>2. /\ Files(FireSchedules(Stored(day), triggers))
        /\ tick' = Waiting(triggers, {"error_spike", "advisor"}, day)
        /\ UNCHANGED <<cfg, created, day, pending, run, shipped, store, calls, apart>>
    BY <1>3 DEF TickStarts, plugin
  <2>3. /\ TickInv'
        /\ tick'.at # "none" => tick'.now = day
        /\ tick'.snap = triggers \/ DOMAIN tick'.snap = {}
    BY <1>1, <2>2, WaitingTyped
  <2>4. TickGoes
    BY <2>2, <2>3 DEF TickGoes, Overdue, SameKinds
  <2>5. ClockInv' /\ StoreInv' /\ DrainInv' /\ PluginInv' /\ CapInv' /\ ArmedInv'
    BY <2>1, <2>2, <2>4, FilesStep
  <2> QED BY <2>3, <2>5 DEF IInv, TypeInv
<1>4. CASE TickFires
  <2>0. tick.at # "none" /\ tick.at \in Polled /\ SameKinds(tick.snap, triggers)
    BY <1>1, <1>4 DEF TickFires, TickInv, Idle, CapInv
  <2>1. FirePolled(Stored(tick.now), tick.snap, tick.at, tick.saw) \in GoodStores(tick.now)
    BY <1>1, <1>2, <2>0, PolledGood
  <2>2. /\ Files(FirePolled(Stored(tick.now), tick.snap, tick.at, tick.saw))
        /\ tick' = AfterPoll
        /\ UNCHANGED <<cfg, created, day, pending, run, shipped, store, calls, apart>>
    BY <1>4 DEF TickFires, plugin
  <2>3. TickInv' /\ TickGoes
    BY <2>0, <2>2, PassGoesOn
  <2>4. ClockInv' /\ StoreInv' /\ DrainInv' /\ PluginInv' /\ CapInv' /\ ArmedInv'
    BY <2>1, <2>2, <2>3, FilesStep
  <2> QED BY <2>3, <2>4 DEF IInv, TypeInv
<1>5. CASE WebhookFires
  <2>1. PICK t \in DOMAIN triggers :
          triggers[t].kind = "webhook" /\ Files(Fire(Stored(day), t, 0, 0))
    BY <1>5 DEF WebhookFires
  <2>2. t \in 1 .. created /\ ~ RateLimited(Stored(day)) /\ 0 \in Items \cup {0}
    BY <1>1, <1>5 DEF WebhookFires, IsSnapshot
  <2>3. Timely(day, t)
    BY <2>1 DEF Timely, Polled
  <2>4. Fire(Stored(day), t, 0, 0) \in GoodStores(day)
    BY <1>1, <1>2, <2>2, <2>3, FireGood
  <2>5. UNCHANGED <<cfg, created, day, pending, run, shipped, store, calls, apart, tick>>
    BY <1>5 DEF WebhookFires, plugin
  <2>6. TickGoes
    BY <1>1, <2>5, TickStays
  <2>7. ClockInv' /\ StoreInv' /\ DrainInv' /\ PluginInv' /\ CapInv' /\ ArmedInv'
    BY <2>1, <2>4, <2>5, <2>6, FilesStep
  <2>8. TickInv'
    BY <1>1, <2>5, <2>7, TickSame
  <2> QED BY <2>7, <2>8 DEF IInv, TypeInv
<1>6. ASSUME UNCHANGED <<cfg, triggers, queue, pending, run, created, filed, late, shipped,
                         store, calls, apart, day>>,
             TickInv', TickGoes
      PROVE  IInv'
  <2>1. ClockInv' /\ created <= created' /\ day <= day'
    BY <1>1, <1>6 DEF ClockInv
  <2>2. filed' \in [0 .. MaxTriggers -> Nat] /\ late' \in [0 .. MaxTriggers -> Nat]
    BY <1>1, <1>6 DEF StoreInv
  <2>3. StoreInv' /\ DrainInv' /\ PluginInv' /\ CapInv'
    BY <1>1, <1>6, <2>1, <2>2, StoreSame, DrainSame, PluginSame, CapTick
  <2>4. Dwindles
    BY <1>1, <1>6 DEF Dwindles
  <2>5. ArmedInv'
    BY <1>1, <1>6, <2>4, ArmedSame
  <2> QED BY <1>6, <2>1, <2>3, <2>5 DEF IInv, TypeInv
<1>7. CASE AppAnswers
  <2>1. UNCHANGED <<cfg, triggers, queue, pending, run, created, filed, late, shipped,
                    store, calls, apart, day>>
    BY <1>7 DEF AppAnswers, plugin
  <2>2. PICK groups \in SUBSET Errors :
          tick' = [tick EXCEPT !.answered = TRUE,
                     !.saw = IF tick.at = "error_spike" THEN groups
                             ELSE {p \in Proposals : store[p].status = "open"}]
    BY <1>7, Zenon DEF AppAnswers
  <2> DEFINE saw == IF tick.at = "error_spike" THEN groups
                    ELSE {p \in Proposals : store[p].status = "open"}
  <2>3. saw \subseteq Items
    BY DEF Items
  <2>4. tick' = [tick EXCEPT !.answered = TRUE, !.saw = saw]
    BY <2>2
  <2> HIDE DEF saw
  <2>5. /\ tick'.at = tick.at /\ tick'.snap = tick.snap /\ tick'.saw = saw /\ tick'.now = tick.now
        /\ DOMAIN tick' = DOMAIN tick
    BY <1>1, <2>4 DEF TickInv
  <2>6. IsSnapshot(tick.snap)'
    BY <1>1, <2>1, <2>5 DEF IsSnapshot, Entry
  <2>7. tick.at # "none"
    BY <1>1, <1>7 DEF AppAnswers, TickInv
  <2>8. TickInv'
    BY <1>1, <2>1, <2>3, <2>5, <2>6, <2>7 DEF TickInv
  <2>9. TickGoes
    BY <1>1, <2>1, <2>5 DEF TickGoes, Overdue, CapInv
  <2> QED BY <1>6, <2>1, <2>8, <2>9
<1>8. CASE PollFails
  <2>1. UNCHANGED <<cfg, triggers, queue, pending, run, created, filed, late, shipped,
                    store, calls, apart, day>>
    BY <1>8 DEF PollFails, plugin
  <2>2. tick' = AfterPoll /\ tick.at # "none"
    BY <1>1, <1>8 DEF PollFails, TickInv
  <2>3. TickInv' /\ TickGoes
    BY <2>1, <2>2, PassGoesOn
  <2> QED BY <1>6, <2>1, <2>3
<1> QED BY <1>3, <1>4, <1>5, <1>7, <1>8 DEF Tick

-----------------------------------------------------------------------------
(* The drainer, the operator, midnight and restarts.                        *)

\* What holds before a step, part by part.
LEMMA Parts ==
    ASSUME IInv
    PROVE  /\ TypeInv /\ CapInv /\ ArmedInv
           /\ ClockInv /\ StoreInv /\ TickInv /\ DrainInv /\ PluginInv
           /\ created \in Nat /\ day \in Nat /\ MaxTriggers \in Nat
BY AutonomyAssumption DEF IInv, TypeInv, ClockInv

\* A step of the drainer's or of the operator's that leaves the store alone.
LEMMA StoreKept ==
    ASSUME IInv, UNCHANGED <<triggers, tick, created, filed, late, store, calls, apart, day>>,
           cfg' \in [Settings -> BOOLEAN], DrainInv'
    PROVE  IInv'
<1>1. ClockInv' /\ created <= created' /\ day <= day'
  BY Parts DEF ClockInv
<1>2. filed' \in [0 .. MaxTriggers -> Nat] /\ late' \in [0 .. MaxTriggers -> Nat]
  BY Parts DEF StoreInv
<1>3. StoreInv' /\ TickInv' /\ PluginInv' /\ CapInv'
  BY <1>1, <1>2, Parts, StoreSame, TickSame, PluginSame, CapSame
<1>4. Dwindles
  BY Parts DEF Dwindles
<1>5. ArmedInv'
  BY <1>4, Parts, ArmedSame
<1> QED BY <1>1, <1>3, <1>5 DEF IInv, TypeInv

\* The task is off the queue.
LEMMA FinishTyped ==
    ASSUME DrainInv, run.at # "none", Finish, UNCHANGED created,
           pending' \subseteq Tasks,
           shipped' \subseteq Shipments,
           created \in Nat
    PROVE  DrainInv'
<1>1. queue \in Seq(Tasks) /\ queue # <<>>
  BY DEF DrainInv
<1>2. Tasks' = Tasks /\ NoRun.task \in Tasks
  BY DEF Tasks, NoRun
<1>3. queue' \in Seq(Tasks) /\ run' = NoRun
  BY <1>1 DEF Finish
<1>4. run' \in [at : Stages, steady : BOOLEAN, task : Tasks, checks : Verdicts]
  BY <1>2, <1>3 DEF NoRun, Stages, Verdicts
<1>5. run'.at = "none"
  BY <1>3 DEF NoRun
<1>6. run' \in [at : Stages, steady : BOOLEAN, task : Tasks', checks : Verdicts] /\ pending' \subseteq Tasks'
      /\ queue' \in Seq(Tasks')
  BY <1>2, <1>3, <1>4
<1> QED BY <1>3, <1>5, <1>6, Zenon DEF DrainInv

\* The run goes on to another stage, with what it knows of its checks by then.
LEMMA StageTyped ==
    ASSUME DrainInv, run.at # "none", NEW at \in Stages \ {"none"}, NEW how \in Verdicts,
           DOMAIN run' = DOMAIN run, run'.at = at, run'.steady = run.steady, run'.task = run.task,
           run'.checks = how, run' = [f \in DOMAIN run' |-> run'[f]],
           UNCHANGED <<queue, pending, shipped, created>>
    PROVE  DrainInv'
<1>1. /\ DOMAIN run = {"at", "steady", "task", "checks"}
      /\ run.steady \in BOOLEAN /\ run.task \in Tasks
  BY DEF DrainInv
<1>2. run' = [at |-> at, steady |-> run.steady, task |-> run.task, checks |-> how]
  BY <1>1
<1>3. run' \in [at : Stages, steady : BOOLEAN, task : Tasks, checks : Verdicts]
  BY <1>1, <1>2
<1>4. run'.at # "none" /\ run'.task = run.task
  OBVIOUS
<1>5. Tasks' = Tasks
  BY DEF Tasks
<1>6. queue' # <<>> /\ run'.task = Head(queue')
  BY <1>4 DEF DrainInv
<1>7. /\ run' \in [at : Stages, steady : BOOLEAN, task : Tasks', checks : Verdicts]
      /\ pending' \subseteq Tasks' /\ queue' \in Seq(Tasks')
  BY <1>3, <1>5, Zenon DEF DrainInv
<1>8. shipped' \subseteq Shipments
  BY Zenon DEF DrainInv
<1> QED BY <1>4, <1>6, <1>7, <1>8, Zenon DEF DrainInv

LEMMA StageAt ==
    ASSUME DrainInv, run.at # "none", NEW at \in Stages \ {"none"}, run' = [run EXCEPT !.at = at],
           UNCHANGED <<queue, pending, shipped, created>>
    PROVE  DrainInv'
<1>1. DOMAIN run = {"at", "steady", "task", "checks"} /\ run.checks \in Verdicts
  BY DEF DrainInv
<1>2. /\ DOMAIN run' = DOMAIN run /\ run'.at = at /\ run'.steady = run.steady
      /\ run'.task = run.task /\ run'.checks = run.checks /\ run' = [f \in DOMAIN run' |-> run'[f]]
  BY <1>1
<1> QED BY <1>1, <1>2, StageTyped

LEMMA ShipsTyped ==
    ASSUME DrainInv, ClockInv, run.at # "none", NEW gated \in BOOLEAN, Ships(gated),
           UNCHANGED <<pending, created>>, created \in Nat
    PROVE  DrainInv'
<1> DEFINE s == [gated |-> gated, checks |-> run.checks, strict |-> cfg.strict,
                 steady |-> run.steady]
<1>1. run.steady \in BOOLEAN /\ run.checks \in Verdicts
  BY DEF DrainInv
<1>2. cfg.strict \in BOOLEAN
  BY DEF ClockInv, Settings
<1>3. s \in Shipments
  BY <1>1, <1>2, Zenon DEF Shipments
<1>4. shipped' \in {shipped, shipped \cup {s}} /\ Finish
  BY DEF Ships
<1> HIDE DEF s
<1>5. shipped' \subseteq Shipments
  <2>1. shipped \subseteq Shipments
    BY Zenon DEF DrainInv
  <2> QED BY <1>3, <1>4, <2>1
<1>6. pending' \subseteq Tasks
  BY DEF DrainInv
<1> QED BY <1>4, <1>5, <1>6, FinishTyped

LEMMA RunStep ==
    ASSUME IInv, Run PROVE IInv'
<1>1. /\ UNCHANGED <<cfg, triggers, tick, created, filed, late, store, calls, apart, day>>
      /\ UNCHANGED cfg
  BY DEF Run, RunStarts, RunFails, RunCommits, RunDerives, RunDecides, RunBoots, RunVerified, plugin
<1>2. cfg' \in [Settings -> BOOLEAN] /\ ClockInv
  BY <1>1, Parts, Zenon DEF ClockInv
<1>3. DrainInv /\ created \in Nat /\ pending \subseteq Tasks /\ queue \in Seq(Tasks)
      /\ UNCHANGED created /\ Tasks' = Tasks
  BY <1>1, Parts DEF DrainInv, Tasks
<1>4. shipped \subseteq Shipments
  BY <1>3, Zenon DEF DrainInv
<1>0. {"derive", "committed", "boot", "verify"} \subseteq Stages \ {"none"}
  BY DEF Stages
<1>5. CASE RunStarts
  <2>1. /\ queue # <<>>
        /\ run' = [at |-> "work", steady |-> TRUE, task |-> Head(queue), checks |-> "none"]
        /\ UNCHANGED <<queue, pending, shipped>>
    BY <1>5 DEF RunStarts, NoRun
  <2>2. Head(queue) \in Tasks
    BY <1>3, <2>1
  <2>3. run' \in [at : Stages, steady : BOOLEAN, task : Tasks, checks : Verdicts]
    BY <2>1, <2>2 DEF Stages, Verdicts
  <2>4. run'.at = "work" /\ run'.task = Head(queue)
    BY <2>1
  <2>5. /\ run' \in [at : Stages, steady : BOOLEAN, task : Tasks', checks : Verdicts]
        /\ pending' \subseteq Tasks'
        /\ queue' \in Seq(Tasks') /\ queue' # <<>> /\ run'.task = Head(queue') /\ run'.at # "none"
    BY <1>3, <2>1, <2>3, <2>4
  <2>6. shipped' \subseteq Shipments
    BY <1>4, <2>1, Zenon
  <2>7. DrainInv'
    BY <2>5, <2>6, Zenon DEF DrainInv
  <2> QED BY <1>1, <1>2, <2>7, StoreKept
<1>6. CASE RunFails
  <2>1. run.at # "none" /\ Finish /\ UNCHANGED <<pending, shipped>>
    BY <1>6 DEF RunFails
  <2>2. pending' \subseteq Tasks /\ shipped' \subseteq Shipments
    BY <1>3, <1>4, <2>1, Zenon
  <2>3. DrainInv'
    BY <1>3, <2>1, <2>2, FinishTyped
  <2> QED BY <1>1, <1>2, <2>3, StoreKept
<1>7. CASE RunDecides
  <2>1. PICK hold \in ShouldHold(run.task) :
          IF hold THEN pending' = pending \cup {run.task} /\ Finish
          ELSE run' = [run EXCEPT !.at = "boot"] /\ UNCHANGED <<queue, pending>>
    BY <1>7 DEF RunDecides
  <2>2. run.at # "none" /\ UNCHANGED shipped /\ run.task \in Tasks
    BY <1>3, <1>7 DEF RunDecides, DrainInv
  <2>3. CASE hold
    <3>1. pending' \subseteq Tasks
      BY <1>3, <2>1, <2>2, <2>3
    <3>2. shipped' \subseteq Shipments
      BY <1>4, <2>2, Zenon
    <3> QED BY <1>1, <1>2, <1>3, <2>1, <2>2, <2>3, <3>1, <3>2, FinishTyped, StoreKept
  <2>4. CASE ~ hold
    <3>1. run' = [run EXCEPT !.at = "boot"] /\ UNCHANGED <<queue, pending>>
      BY <2>1, <2>4
    <3>2. DrainInv'
      BY <1>0, <1>3, <2>2, <3>1, StageAt
    <3> QED BY <1>1, <1>2, <3>2, StoreKept
  <2> QED BY <2>3, <2>4
<1>8. CASE RunBoots
  <2>1. run.at # "none" /\ UNCHANGED pending
    BY <1>8 DEF RunBoots
  <2>2. CASE cfg.verifier
    <3>1. run' = [run EXCEPT !.at = "verify"] /\ UNCHANGED <<queue, shipped>>
      BY <1>8, <2>2 DEF RunBoots
    <3>2. DrainInv'
      BY <1>0, <1>3, <2>1, <3>1, StageAt
    <3> QED BY <1>1, <1>2, <3>2, StoreKept
  <2>3. CASE ~ cfg.verifier
    <3>1. Ships(FALSE)
      BY <1>8, <2>3 DEF RunBoots
    <3>2. DrainInv'
      BY <1>2, <1>3, <2>1, <3>1, ShipsTyped
    <3> QED BY <1>1, <1>2, <3>2, StoreKept
  <2> QED BY <2>2, <2>3
<1>9. CASE RunVerified
  <2>1. run.at # "none" /\ UNCHANGED pending /\ Ships(TRUE)
    BY <1>9 DEF RunVerified
  <2>2. DrainInv'
    BY <1>2, <1>3, <2>1, ShipsTyped
  <2> QED BY <1>1, <1>2, <2>2, StoreKept
<1>10. CASE RunCommits
  <2> DEFINE at == IF cfg.verifier THEN "derive" ELSE "committed"
  <2>1. /\ run.at # "none" /\ UNCHANGED <<queue, pending, shipped>>
        /\ run' = [run EXCEPT !.at = at]
    BY <1>10 DEF RunCommits
  <2>2. at \in Stages \ {"none"}
    BY <1>0
  <2> HIDE DEF at
  <2>3. DrainInv'
    BY <1>3, <2>1, <2>2, StageAt
  <2> QED BY <1>1, <1>2, <2>3, StoreKept
<1>11. CASE RunDerives
  <2>1. /\ run.at # "none" /\ UNCHANGED <<queue, pending, shipped>>
        /\ \E how \in Outcomes : (how = "failed" => ~ cfg.strict) /\ run' = Derived(how)
    BY <1>11 DEF RunDerives
  <2>2. PICK how \in Outcomes : run' = Derived(how)
    BY <2>1
  <2>3. how \in Verdicts /\ DOMAIN run = {"at", "steady", "task", "checks"}
    BY <1>3 DEF Verdicts, DrainInv
  <2>4. /\ DOMAIN run' = DOMAIN run /\ run'.at = "committed" /\ run'.steady = run.steady
        /\ run'.task = run.task /\ run'.checks = how /\ run' = [f \in DOMAIN run' |-> run'[f]]
    BY <2>2, <2>3 DEF Derived
  <2>5. DrainInv'
    BY <1>0, <1>3, <2>1, <2>3, <2>4, StageTyped
  <2> QED BY <1>1, <1>2, <2>5, StoreKept
<1> QED BY <1>5, <1>6, <1>7, <1>8, <1>9, <1>10, <1>11 DEF Run

\* The operator may change, switch or delete a trigger: no one-shot is made.
LEMMA TriggerEdited ==
    ASSUME ClockInv, StoreInv, NEW t \in DOMAIN triggers,
           triggers' \in {Toggled(triggers, t, ~ triggers[t].on), Edited(triggers, t, TRUE, FALSE),
                          Deleted(triggers, t)}
    PROVE  /\ DOMAIN triggers' \subseteq DOMAIN triggers
           /\ triggers' \in [DOMAIN triggers' -> Entry]
           /\ \A x \in DOMAIN triggers' :
                /\ triggers'[x].of = triggers[x].of /\ triggers'[x].day = triggers[x].day
                /\ triggers'[x].count = triggers[x].count /\ triggers'[x].kind = triggers[x].kind
                /\ triggers'[x].once => triggers[x].once
<1> DEFINE r == triggers[t]
<1>1. /\ triggers \in [DOMAIN triggers -> Entry] /\ r \in Entry
  BY DEF StoreInv, IsSnapshot
<1>2. /\ r = [kind |-> r.kind, on |-> r.on, once |-> r.once, of |-> r.of, day |-> r.day,
              count |-> r.count, fired |-> r.fired]
      /\ r.kind \in Kinds /\ r.of \in Proposals \cup {0} /\ r.day \in 0 .. day /\ r.count \in Nat
      /\ r.fired \in [Items -> 0 .. day]
  BY <1>1 DEF Entry
<1>3. r.on \in BOOLEAN /\ r.once \in BOOLEAN
  BY <1>1 DEF Entry
<1> HIDE DEF r
<1>4. ASSUME NEW on \in BOOLEAN, NEW once \in BOOLEAN, once => r.once,
             NEW e, e = [kind |-> r.kind, on |-> on, once |-> once, of |-> r.of, day |-> r.day,
                         count |-> r.count, fired |-> r.fired],
             triggers' = [triggers EXCEPT ![t] = e]
      PROVE  /\ DOMAIN triggers' \subseteq DOMAIN triggers
             /\ triggers' \in [DOMAIN triggers' -> Entry]
             /\ \A x \in DOMAIN triggers' :
                  /\ triggers'[x].of = triggers[x].of /\ triggers'[x].day = triggers[x].day
                  /\ triggers'[x].count = triggers[x].count /\ triggers'[x].kind = triggers[x].kind
                  /\ triggers'[x].once => triggers[x].once
  <2>1. e \in Entry
    BY <1>2, <1>4, Zenon DEF Entry
  <2>2. e.of = r.of /\ e.day = r.day /\ e.count = r.count /\ e.kind = r.kind
    BY <1>4
  <2>3. e.once => r.once
    BY <1>4, Zenon
  <2>4. DOMAIN triggers' = DOMAIN triggers /\ triggers' \in [DOMAIN triggers -> Entry]
    BY <1>1, <1>4, <2>1
  <2>5. ASSUME NEW x \in DOMAIN triggers
        PROVE  /\ triggers'[x].of = triggers[x].of /\ triggers'[x].day = triggers[x].day
               /\ triggers'[x].count = triggers[x].count /\ triggers'[x].kind = triggers[x].kind
               /\ triggers'[x].once => triggers[x].once
    <3>1. CASE x = t
      <4>1. triggers'[x] = e /\ triggers[x] = r
        BY <1>1, <1>4, <3>1 DEF r
      <4> QED BY <2>2, <2>3, <4>1, Zenon
    <3>2. CASE x # t
      <4>1. triggers'[x] = triggers[x]
        BY <1>1, <1>4, <3>2
      <4> QED BY <4>1, Zenon
    <3> QED BY <3>1, <3>2
  <2> QED BY <2>4, <2>5
<1>5. CASE triggers' = Toggled(triggers, t, ~ triggers[t].on)
  <2> DEFINE on == ~ r.on
             e == [r EXCEPT !.on = on]
  <2>1. triggers' = [triggers EXCEPT ![t] = e]
    BY <1>5 DEF Toggled, r
  <2>2. on \in BOOLEAN
    OBVIOUS
  <2> HIDE DEF on
  <2>3. e = [kind |-> r.kind, on |-> on, once |-> r.once, of |-> r.of, day |-> r.day,
             count |-> r.count, fired |-> r.fired]
    BY <1>2
  <2> HIDE DEF e
  <2> QED BY <1>3, <1>4, <2>1, <2>2, <2>3, Zenon
<1>6. CASE triggers' = Edited(triggers, t, TRUE, FALSE)
  <2>1. ASSUME NEW a \in BOOLEAN, NEW b \in BOOLEAN
        PROVE  [r EXCEPT !.on = a, !.once = b]
                 = [kind |-> r.kind, on |-> a, once |-> b, of |-> r.of, day |-> r.day,
                    count |-> r.count, fired |-> r.fired]
    <3> DEFINE d == [r EXCEPT !.on = a]
               f == [d EXCEPT !.once = b]
    <3>1. [r EXCEPT !.on = a, !.once = b] = f
      BY Zenon
    <3>2. d = [kind |-> r.kind, on |-> a, once |-> r.once, of |-> r.of, day |-> r.day,
               count |-> r.count, fired |-> r.fired]
      BY <1>2
    <3> HIDE DEF d
    <3>3. f = [kind |-> r.kind, on |-> a, once |-> b, of |-> r.of, day |-> r.day,
               count |-> r.count, fired |-> r.fired]
      BY <3>2
    <3> QED BY <3>1, <3>3, Zenon
  <2>2. TRUE \in BOOLEAN /\ FALSE \in BOOLEAN /\ (FALSE => r.once)
    OBVIOUS
  <2> DEFINE e == [r EXCEPT !.on = TRUE, !.once = FALSE]
  <2>3. triggers' = [triggers EXCEPT ![t] = e]
    BY <1>6 DEF Edited, r
  <2>4. e = [kind |-> r.kind, on |-> TRUE, once |-> FALSE, of |-> r.of, day |-> r.day,
             count |-> r.count, fired |-> r.fired]
    BY <2>1, <2>2, Zenon
  <2> HIDE DEF e
  <2> QED BY <1>4, <2>2, <2>3, <2>4, Zenon
<1>7. CASE triggers' = Deleted(triggers, t)
  <2>1. triggers' = [x \in DOMAIN triggers \ {t} |-> triggers[x]]
    BY <1>7 DEF Deleted
  <2>2. DOMAIN triggers' = DOMAIN triggers \ {t} /\ \A x \in DOMAIN triggers' : triggers'[x] = triggers[x]
    BY <2>1
  <2>3. triggers' \in [DOMAIN triggers' -> Entry]
    BY <1>1, <2>1, <2>2
  <2>4. \A x \in DOMAIN triggers' : triggers'[x].once => triggers[x].once
    BY <2>2, Zenon
  <2>5. \A x \in DOMAIN triggers' :
          /\ triggers'[x].of = triggers[x].of /\ triggers'[x].day = triggers[x].day
          /\ triggers'[x].count = triggers[x].count /\ triggers'[x].kind = triggers[x].kind
    BY <2>2, Zenon
  <2> QED BY <2>2, <2>3, <2>4, <2>5, Zenon
<1> QED BY <1>5, <1>6, <1>7

\* Fewer triggers count for less, and nothing of what was filed is forgotten.
LEMMA FewerCount ==
    ASSUME TypeInv, CapInv, UNCHANGED <<created, day, filed, late, tick>>,
           DOMAIN triggers' \subseteq DOMAIN triggers,
           triggers' \in [DOMAIN triggers' -> Entry],
           \A x \in DOMAIN triggers' :
             /\ triggers'[x].day = triggers[x].day /\ triggers'[x].count = triggers[x].count
             /\ triggers'[x].kind = triggers[x].kind
    PROVE  CapInv'
<1>0. /\ Counted(Stored(day)) /\ FiresToday(triggers, day) <= MaxPerDay
      /\ LateCounted(triggers, late) /\ Total(LateOf(triggers, late)) <= MaxPerDay
      /\ Ungiven(Stored(day)) /\ SameKinds(tick.snap, triggers)
  BY DEF CapInv, Capped, Stored
<1>1. IsSnapshot(triggers) /\ IsSnapshot(triggers') /\ MaxPerDay \in Nat
      /\ late \in [0 .. MaxTriggers -> Nat]
  BY AutonomyAssumption DEF TypeInv, StoreInv, IsSnapshot
<1>2. /\ FiresOf(triggers, day) \in Counts /\ FiresOf(triggers', day) \in Counts
      /\ FiresToday(triggers, day) = Total(FiresOf(triggers, day))
      /\ FiresToday(triggers', day) = Total(FiresOf(triggers', day))
      /\ FiresToday(triggers, day) \in Nat /\ FiresToday(triggers', day) \in Nat
  BY <1>1, FiresCounts
<1>3. /\ LateOf(triggers, late) \in Counts /\ LateOf(triggers', late) \in Counts
      /\ Total(LateOf(triggers, late)) \in Nat /\ Total(LateOf(triggers', late)) \in Nat
  BY <1>1, LateCounts
<1>4. \A t \in 1 .. MaxTriggers : FiresOf(triggers', day)[t] <= FiresOf(triggers, day)[t]
  <2> SUFFICES ASSUME NEW t \in 1 .. MaxTriggers
               PROVE  FiresOf(triggers', day)[t] <= FiresOf(triggers, day)[t]
    OBVIOUS
  <2>1. FiresOf(triggers, day)[t] \in Nat
    BY <1>2 DEF Counts
  <2>2. CASE t \in DOMAIN triggers'
    <3>1. FiresOf(triggers', day)[t] = FiresOf(triggers, day)[t]
      BY <2>2 DEF FiresOf
    <3> QED BY <2>1, <3>1
  <2>3. CASE t \notin DOMAIN triggers'
    <3>1. FiresOf(triggers', day)[t] = 0
      BY <2>3 DEF FiresOf
    <3> QED BY <2>1, <3>1
  <2> QED BY <2>2, <2>3
<1>5. \A t \in 1 .. MaxTriggers : LateOf(triggers', late)[t] <= LateOf(triggers, late)[t]
  <2> SUFFICES ASSUME NEW t \in 1 .. MaxTriggers
               PROVE  LateOf(triggers', late)[t] <= LateOf(triggers, late)[t]
    OBVIOUS
  <2>1. LateOf(triggers, late)[t] \in Nat
    BY <1>3 DEF Counts
  <2>2. CASE t \in DOMAIN triggers'
    <3>1. LateOf(triggers', late)[t] = LateOf(triggers, late)[t]
      BY <2>2 DEF LateOf
    <3> QED BY <2>1, <3>1
  <2>3. CASE t \notin DOMAIN triggers'
    <3>1. LateOf(triggers', late)[t] = 0
      BY <2>3 DEF LateOf
    <3> QED BY <2>1, <3>1
  <2> QED BY <2>2, <2>3
<1>6. FiresToday(triggers', day) <= MaxPerDay
  <2>1. Total(FiresOf(triggers', day)) <= Total(FiresOf(triggers, day))
    BY <1>2, <1>4, TotalGrows
  <2> QED BY <1>0, <1>1, <1>2, <2>1
<1>7. Total(LateOf(triggers', late)) <= MaxPerDay
  <2>1. Total(LateOf(triggers', late)) <= Total(LateOf(triggers, late))
    BY <1>3, <1>5, TotalGrows
  <2> QED BY <1>0, <1>1, <1>3, <2>1
<1>8. LateCounted(triggers, late)'
  BY <1>0 DEF LateCounted, Overdue
<1>9. /\ Stored(day)'.triggers = triggers' /\ Stored(day)'.late = late'
      /\ Stored(day)'.filed = filed'
      /\ Stored(day).triggers = triggers /\ Stored(day).filed = filed /\ Stored(day).late = late
  BY DEF Stored
<1>10. Counted(Stored(day))' /\ Ungiven(Stored(day))'
  BY <1>0, <1>9 DEF Counted, Ungiven
<1>11. FiresToday(triggers, day)' <= MaxPerDay
  BY <1>6 DEF FiresToday
<1>12. Total(LateOf(triggers, late))' <= MaxPerDay
  BY <1>7 DEF LateOf
<1>13. SameKinds(tick.snap, triggers)'
  BY <1>0 DEF SameKinds
<1> QED BY <1>8, <1>9, <1>10, <1>11, <1>12, <1>13 DEF CapInv, Capped

\* What the operator or the plugin does to a trigger, everything else kept.
LEMMA TriggersStep ==
    ASSUME IInv, UNCHANGED <<cfg, created, day, filed, late, tick>>,
           DOMAIN triggers' \subseteq DOMAIN triggers,
           triggers' \in [DOMAIN triggers' -> Entry],
           \A x \in DOMAIN triggers' :
                /\ triggers'[x].of = triggers[x].of /\ triggers'[x].day = triggers[x].day
                /\ triggers'[x].count = triggers[x].count /\ triggers'[x].kind = triggers[x].kind
                /\ triggers'[x].once => triggers[x].once
    PROVE  ClockInv' /\ StoreInv' /\ CapInv' /\ Dwindles
<1>1. ClockInv'
  BY Parts DEF ClockInv
<1>2. IsSnapshot(triggers)'
  BY Parts DEF StoreInv, IsSnapshot, Entry
<1>3. ASSUME NEW t \in DOMAIN triggers', triggers'[t].once PROVE triggers'[t].of \in Proposals
  <2>1. t \in DOMAIN triggers /\ triggers'[t].of = triggers[t].of
    OBVIOUS
  <2>2. triggers[t].once
    BY <1>3, Zenon
  <2> QED BY <2>1, <2>2, Parts DEF StoreInv
<1>4. StoreInv'
  <2>1. filed' \in [0 .. MaxTriggers -> Nat] /\ late' \in [0 .. MaxTriggers -> Nat]
    BY Parts DEF StoreInv
  <2> QED BY <1>2, <1>3, <2>1, Zenon DEF StoreInv
<1>5. CapInv'
  BY Parts, FewerCount
<1>6. Dwindles
  <2>1. ASSUME NEW t \in 1 .. created', Armed(triggers', t)
        PROVE  t \in 1 .. created /\ Armed(triggers, t) /\ triggers'[t].of = triggers[t].of
    <3>1. t \in DOMAIN triggers' /\ triggers'[t].once /\ triggers'[t].day = 0
      BY <2>1 DEF Armed
    <3>2. triggers[t].once
      BY <3>1, Zenon
    <3>3. t \in DOMAIN triggers /\ triggers[t].day = 0 /\ triggers'[t].of = triggers[t].of
      BY <3>1
    <3> QED BY <3>2, <3>3 DEF Armed
  <2> QED BY <2>1 DEF Dwindles
<1> QED BY <1>1, <1>4, <1>5, <1>6

-----------------------------------------------------------------------------
(* The operator, midnight, restarts and stuttering.                         *)

\* The kernel is where it was.
LEMMA KernelSame ==
    ASSUME IInv, UNCHANGED <<kernel, day>>
    PROVE  /\ ClockInv' /\ StoreInv' /\ TickInv' /\ DrainInv' /\ CapInv' /\ Dwindles
           /\ created <= created' /\ day <= day'
<1>1. UNCHANGED <<cfg, triggers, queue, pending, tick, run, created, filed, late, shipped, day>>
  BY DEF kernel
<1>2. ClockInv'
  BY <1>1, Parts, Zenon DEF ClockInv
<1>3. created <= created' /\ day <= day'
  BY <1>1, Parts
<1>4. filed' \in [0 .. MaxTriggers -> Nat] /\ late' \in [0 .. MaxTriggers -> Nat]
  BY <1>1, Parts DEF StoreInv
<1>5. StoreInv' /\ TickInv' /\ DrainInv' /\ CapInv'
  BY <1>1, <1>2, <1>3, <1>4, Parts, StoreSame, TickSame, DrainSame, CapSame
<1>6. Dwindles
  BY <1>1, Parts DEF Dwindles
<1> QED BY <1>2, <1>3, <1>5, <1>6

LEMMA Stutters ==
    ASSUME IInv, UNCHANGED vars PROVE IInv'
<1>1. UNCHANGED <<kernel, day>> /\ UNCHANGED <<store, calls, apart>>
  BY DEF vars, plugin
<1>2. /\ ClockInv' /\ StoreInv' /\ TickInv' /\ DrainInv' /\ CapInv' /\ Dwindles
      /\ created <= created' /\ day <= day'
  BY <1>1, KernelSame
<1>3. PluginInv' /\ ArmedInv'
  BY <1>1, <1>2, Parts, PluginSame, ArmedSame
<1> QED BY <1>2, <1>3 DEF IInv, TypeInv

LEMMA SwitchStep ==
    ASSUME IInv, Switch PROVE IInv'
<1>1. /\ UNCHANGED <<triggers, tick, created, filed, late, store, calls, apart, day>>
      /\ UNCHANGED <<queue, pending, shipped>>
      /\ run' = [run EXCEPT !.steady = run.at = "none"]
  BY DEF Switch, plugin
<1>2. cfg' \in [Settings -> BOOLEAN]
  <2>1. PICK key \in Settings : cfg' = [cfg EXCEPT ![key] = ~ cfg[key]]
    BY DEF Switch
  <2> DEFINE b == ~ cfg[key]
  <2>2. b \in BOOLEAN /\ cfg' = [cfg EXCEPT ![key] = b]
    BY <2>1
  <2> HIDE DEF b
  <2> QED BY <2>2, Parts DEF ClockInv
<1>3. DrainInv'
  <2> DEFINE b == (run.at = "none")
  <2>1. b \in BOOLEAN /\ run' = [run EXCEPT !.steady = b]
    BY <1>1
  <2>2. /\ run = [at |-> run.at, steady |-> run.steady, task |-> run.task, checks |-> run.checks]
        /\ run.at \in Stages /\ run.task \in Tasks /\ run.checks \in Verdicts
    BY Parts DEF DrainInv
  <2>3. b => run.at = "none"
    OBVIOUS
  <2>4. run.at = "none" => b = TRUE
    OBVIOUS
  <2> HIDE DEF b
  <2>5. run' = [at |-> run.at, steady |-> b, task |-> run.task, checks |-> run.checks]
    BY <2>1, <2>2
  <2>6. run' \in [at : Stages, steady : BOOLEAN, task : Tasks, checks : Verdicts]
    BY <2>1, <2>2, <2>5, Zenon
  <2>7. run'.at = run.at /\ run'.task = run.task
    BY <2>5
  <2>8. CASE run.at = "none"
    <3>1. run.at = "none" /\ run.task = [by |-> 0, item |-> 0] /\ run.checks = "none"
      BY <2>8, Parts DEF DrainInv, NoRun
    <3>2. run' = NoRun
      BY <2>4, <2>5, <3>1, Zenon DEF NoRun
    <3> QED BY <1>1, <2>6, <2>7, <2>8, <3>2, Parts, Zenon DEF DrainInv, Tasks
  <2>9. CASE run.at # "none"
    <3>1. queue' # <<>> /\ run'.task = Head(queue') /\ run'.at # "none"
      BY <1>1, <2>7, <2>9, Parts DEF DrainInv
    <3> QED BY <1>1, <2>6, <3>1, Parts, Zenon DEF DrainInv, Tasks
  <2> QED BY <2>8, <2>9
<1> QED BY <1>1, <1>2, <1>3, StoreKept

\* A trigger is created, by the operator or for the plugin.
LEMMA TriggerMade ==
    ASSUME IInv, NEW kind \in Kinds, NEW once \in BOOLEAN, NEW of \in Proposals \cup {0},
           once => of \in Proposals,
           created < MaxTriggers, created' = created + 1,
           triggers' = Created(triggers, created + 1, New(kind, once, of)),
           UNCHANGED <<cfg, filed, late, day, tick>>
    PROVE  /\ ClockInv' /\ StoreInv' /\ CapInv' /\ created <= created' /\ day <= day'
           /\ DOMAIN triggers' = DOMAIN triggers \cup {created + 1}
           /\ created + 1 \notin DOMAIN triggers
           /\ \A t \in DOMAIN triggers : triggers'[t] = triggers[t]
           /\ triggers'[created + 1] = New(kind, once, of)
<1> DEFINE n == New(kind, once, of)
<1>1. /\ triggers' = [t \in DOMAIN triggers \cup {created + 1} |->
                        IF t = created + 1 THEN n ELSE triggers[t]]
      /\ DOMAIN triggers \subseteq 1 .. created /\ triggers \in [DOMAIN triggers -> Entry]
      /\ filed \in [0 .. MaxTriggers -> Nat] /\ late \in [0 .. MaxTriggers -> Nat]
      /\ created \in 0 .. MaxTriggers
      /\ day \in Nat \ {0}
  BY Parts DEF Created, StoreInv, IsSnapshot, ClockInv
<1>2. /\ n = [kind |-> kind, on |-> TRUE, once |-> once, of |-> of, day |-> 0, count |-> 0,
              fired |-> [i \in Items |-> 0]]
      /\ n.day = 0 /\ n.of = of
  BY DEF New
<1>3. n \in Entry
  <2>1. [i \in Items |-> 0] \in [Items -> 0 .. day] /\ 0 \in 0 .. day /\ 0 \in Nat
    BY <1>1
  <2>2. TRUE \in BOOLEAN
    OBVIOUS
  <2> QED BY <2>1, <2>2, Zenon DEF Entry, New
<1>4. n.once = once
  BY Zenon DEF New
<1> HIDE DEF n
<1>5. /\ DOMAIN triggers' = DOMAIN triggers \cup {created + 1}
      /\ created + 1 \notin DOMAIN triggers
      /\ triggers'[created + 1] = n
  BY <1>1
<1>6. \A t \in DOMAIN triggers : triggers'[t] = triggers[t]
  <2> SUFFICES ASSUME NEW t \in DOMAIN triggers PROVE triggers'[t] = triggers[t]
    OBVIOUS
  <2>1. t # created + 1
    BY <1>5
  <2> QED BY <1>1, <2>1, Zenon
<1>7. ClockInv' /\ created <= created' /\ day <= day'
  BY <1>1, Parts DEF ClockInv
<1>8. StoreInv'
  <2>1. Entry' = Entry
    BY DEF Entry
  <2>2. IsSnapshot(triggers)'
    BY <1>1, <1>3, <2>1 DEF IsSnapshot
  <2>3. ASSUME NEW t \in DOMAIN triggers', triggers'[t].once PROVE triggers'[t].of \in Proposals
    <3>1. CASE t = created + 1
      <4>1. n.once
        BY <1>5, <2>3, <3>1, Zenon
      <4> QED BY <1>2, <1>4, <1>5, <3>1, <4>1, Zenon
    <3>2. CASE t # created + 1
      <4>1. t \in DOMAIN triggers /\ triggers'[t] = triggers[t]
        BY <1>5, <1>6, <3>2
      <4>2. triggers[t].once
        BY <2>3, <4>1, Zenon
      <4> QED BY <4>1, <4>2, Parts DEF StoreInv
    <3> QED BY <3>1, <3>2
  <2>4. filed' \in [0 .. MaxTriggers -> Nat] /\ late' \in [0 .. MaxTriggers -> Nat]
    BY <1>1
  <2> QED BY <2>2, <2>3, <2>4, Zenon DEF StoreInv
<1>9. CapInv'
  <2>0. /\ Counted(Stored(day)) /\ FiresToday(triggers, day) <= MaxPerDay
        /\ LateCounted(triggers, late) /\ Total(LateOf(triggers, late)) <= MaxPerDay
        /\ Ungiven(Stored(day)) /\ SameKinds(tick.snap, triggers)
    BY Parts DEF CapInv, Capped, Stored
  <2>1. filed[created + 1] = 0 /\ late[created + 1] = 0 /\ created + 1 \in 1 .. MaxTriggers
    BY <1>1, <2>0, Parts DEF Ungiven, Stored
  <2>2. \A t \in DOMAIN triggers :
          filed[t] = IF triggers[t].day = day THEN triggers[t].count ELSE 0
    BY <2>0 DEF Counted, Stored
  <2>3. ASSUME NEW t \in DOMAIN triggers'
        PROVE  filed'[t] = IF triggers'[t].day = day' THEN triggers'[t].count ELSE 0
    <3>1. CASE t = created + 1
      BY <1>1, <1>2, <1>5, <2>1, <3>1
    <3>2. CASE t # created + 1
      BY <1>5, <1>6, <2>2, <3>2
    <3> QED BY <3>1, <3>2
  <2>4. Counted(Stored(day))'
    BY <2>3 DEF Counted, Stored
  <2>5. FiresToday(triggers', day') = FiresToday(triggers, day)
    <3>1. FiresOf(triggers', day') \in Counts /\ FiresOf(triggers, day) \in Counts
      <4>1. IsSnapshot(triggers) /\ TypeInv
        BY Parts DEF StoreInv
      <4>2. FiresOf(triggers, day) \in Counts
        BY <4>1, FiresCounts
      <4>3. \A t \in 1 .. MaxTriggers :
              (IF t \in DOMAIN triggers' /\ triggers'[t].day = day' THEN triggers'[t].count ELSE 0)
                \in Nat
        BY <1>8 DEF StoreInv, IsSnapshot, Entry
      <4> QED BY <4>2, <4>3 DEF FiresOf, Counts
    <3>2. ASSUME NEW t \in 1 .. MaxTriggers
          PROVE  FiresOf(triggers', day')[t] = FiresOf(triggers, day)[t]
      <4>1. CASE t = created + 1
        BY <1>1, <1>2, <1>5, <4>1 DEF FiresOf
      <4>2. CASE t # created + 1
        BY <1>5, <1>6, <4>2 DEF FiresOf
      <4> QED BY <4>1, <4>2
    <3>3. FiresOf(triggers', day') = FiresOf(triggers, day)
      BY <3>1, <3>2, SameCounts
    <3>4. /\ FiresToday(triggers', day') = Total(FiresOf(triggers', day'))
          /\ FiresToday(triggers, day) = Total(FiresOf(triggers, day))
      BY DEF FiresToday, FiresOf
    <3> QED BY <3>3, <3>4
  <2>6. LateOf(triggers', late') = LateOf(triggers, late)
    <3>1. LateOf(triggers', late') \in Counts /\ LateOf(triggers, late) \in Counts
      BY <1>1, LateCounts
    <3>2. ASSUME NEW t \in 1 .. MaxTriggers
          PROVE  LateOf(triggers', late')[t] = LateOf(triggers, late)[t]
      <4>1. CASE t = created + 1
        BY <1>5, <2>1, <4>1 DEF LateOf
      <4>2. CASE t # created + 1
        BY <1>5, <4>2 DEF LateOf
      <4> QED BY <4>1, <4>2
    <3> QED BY <3>1, <3>2, SameCounts
  <2>7. LateCounted(triggers, late)'
    <3>1. ASSUME NEW t \in DOMAIN triggers'
          PROVE  /\ triggers'[t].kind \notin Polled => late'[t] = 0
                 /\ Overdue' => /\ late'[t] <= (IF triggers'[t].day = tick'.now
                                                THEN triggers'[t].count ELSE 0)
                                /\ triggers'[t].kind \in Polled => triggers'[t].day # day'
      <4>1. CASE t = created + 1
        <5>1. triggers'[t].day = 0 /\ triggers'[t].count = 0 /\ late'[t] = 0 /\ day' # 0
          BY <1>1, <1>2, <1>5, <2>1, <4>1
        <5> QED BY <5>1
      <4>2. CASE t # created + 1
        <5>1. triggers'[t] = triggers[t] /\ t \in DOMAIN triggers /\ late'[t] = late[t]
          BY <1>5, <1>6, <4>2
        <5>2. Overdue' <=> Overdue
          BY DEF Overdue
        <5> QED BY <2>0, <5>1, <5>2 DEF LateCounted
      <4> QED BY <4>1, <4>2
    <3> QED BY <3>1 DEF LateCounted
  <2>8. Ungiven(Stored(day))'
    BY <1>1, <2>0 DEF Ungiven, Stored
  <2>9. SameKinds(tick.snap, triggers)'
    <3>1. created + 1 \notin DOMAIN tick.snap
      BY <1>1, Parts DEF TickInv, IsSnapshot
    <3> QED BY <1>5, <1>6, <2>0, <3>1 DEF SameKinds
  <2>10. /\ FiresToday(triggers, day)' <= MaxPerDay /\ Total(LateOf(triggers, late))' <= MaxPerDay
         /\ Stored(day)'.triggers = triggers' /\ Stored(day)'.late = late'
    <3>1. FiresToday(triggers, day)' = FiresToday(triggers', day')
          /\ LateOf(triggers, late)' = LateOf(triggers', late')
      BY DEF FiresToday, LateOf
    <3> QED BY <2>0, <2>5, <2>6, <3>1 DEF Stored
  <2> QED BY <2>4, <2>7, <2>8, <2>9, <2>10 DEF CapInv, Capped
<1> QED BY <1>5, <1>6, <1>7, <1>8, <1>9 DEF n

\* The queue, the held changes and the plugin do not care how many there are.
LEMMA OperatorStep ==
    ASSUME IInv, Operator PROVE IInv'
<1>1. CASE Switch
  BY <1>1, SwitchStep
<1>2. CASE CreateTrigger
  <2>1. PICK kind \in Kinds : triggers' = Created(triggers, created + 1, New(kind, FALSE, 0))
    BY <1>2 DEF CreateTrigger
  <2>2. /\ created < MaxTriggers /\ created' = created + 1
        /\ UNCHANGED <<cfg, filed, late, day, tick>> /\ UNCHANGED <<queue, pending, run, shipped>>
        /\ UNCHANGED <<store, calls, apart>> /\ UNCHANGED tick
    BY <1>2 DEF CreateTrigger, plugin
  <2>3. FALSE \in BOOLEAN /\ 0 \in Proposals \cup {0} /\ (FALSE => 0 \in Proposals)
    OBVIOUS
  <2>4. /\ ClockInv' /\ StoreInv' /\ CapInv' /\ created <= created' /\ day <= day'
        /\ DOMAIN triggers' = DOMAIN triggers \cup {created + 1}
        /\ created + 1 \notin DOMAIN triggers
        /\ \A t \in DOMAIN triggers : triggers'[t] = triggers[t]
        /\ triggers'[created + 1] = New(kind, FALSE, 0)
    BY <2>1, <2>2, <2>3, TriggerMade, Zenon
  <2>5. TickInv' /\ DrainInv' /\ PluginInv'
    BY <2>2, <2>4, Parts, TickSame, DrainSame, PluginSame
  <2>6. Dwindles
    <3>1. ASSUME NEW t \in 1 .. created', Armed(triggers', t)
          PROVE  t \in 1 .. created /\ Armed(triggers, t) /\ triggers'[t].of = triggers[t].of
      <4>1. t \in DOMAIN triggers' /\ triggers'[t].once /\ triggers'[t].day = 0
        BY <3>1 DEF Armed
      <4>2. New(kind, FALSE, 0).once = FALSE
        BY Zenon DEF New
      <4>3. t # created + 1
        BY <2>4, <4>1, <4>2, Zenon
      <4>4. t \in DOMAIN triggers /\ triggers'[t] = triggers[t]
        BY <2>4, <4>1, <4>3
      <4>5. triggers[t].once
        BY <4>1, <4>4, Zenon
      <4>6. t \in 1 .. created /\ triggers[t].day = 0
        BY <4>1, <4>4, Parts DEF StoreInv, IsSnapshot
      <4> QED BY <4>4, <4>5, <4>6 DEF Armed
    <3>2. \A t \in DOMAIN triggers' : t \in DOMAIN triggers \/ t > created
      BY <2>4, Parts
    <3> QED BY <3>1, <3>2 DEF Dwindles
  <2>7. ArmedInv'
    BY <2>2, <2>6, Parts, ArmedSame
  <2> QED BY <2>4, <2>5, <2>7 DEF IInv, TypeInv
<1>3. CASE ChangeTrigger
  <2>1. PICK t \in DOMAIN triggers :
          triggers' \in {Toggled(triggers, t, ~ triggers[t].on), Edited(triggers, t, TRUE, FALSE),
                         Deleted(triggers, t)}
    BY <1>3 DEF ChangeTrigger
  <2>2. /\ UNCHANGED <<cfg, created, day, filed, late, tick>>
        /\ UNCHANGED <<queue, pending, run, shipped>>
        /\ UNCHANGED <<store, calls, apart>> /\ UNCHANGED tick
    BY <1>3 DEF ChangeTrigger, plugin
  <2>3. /\ DOMAIN triggers' \subseteq DOMAIN triggers
        /\ triggers' \in [DOMAIN triggers' -> Entry]
        /\ \A x \in DOMAIN triggers' :
                /\ triggers'[x].of = triggers[x].of /\ triggers'[x].day = triggers[x].day
                /\ triggers'[x].count = triggers[x].count /\ triggers'[x].kind = triggers[x].kind
                /\ triggers'[x].once => triggers[x].once
    BY <2>1, Parts, TriggerEdited, Zenon
  <2>4. ClockInv' /\ StoreInv' /\ CapInv' /\ Dwindles
    BY <2>2, <2>3, TriggersStep, Zenon
  <2>5. created <= created' /\ day <= day'
    BY <2>2, Parts
  <2>6. TickInv' /\ DrainInv' /\ PluginInv' /\ ArmedInv'
    BY <2>2, <2>4, <2>5, Parts, TickSame, DrainSame, PluginSame, ArmedSame
  <2> QED BY <2>4, <2>6 DEF IInv, TypeInv
<1>4. CASE Decide
  <2>1. PICK x \in pending : pending' = pending \ {x}
    BY <1>4 DEF Decide
  <2>2. /\ UNCHANGED <<triggers, tick, created, filed, late, store, calls, apart, day>>
        /\ UNCHANGED <<cfg, queue, run, shipped>>
    BY <1>4 DEF Decide, plugin
  <2>3. pending' \subseteq Tasks' /\ Tasks' = Tasks
    BY <2>1, <2>2, Parts DEF DrainInv, Tasks
  <2>4. DrainInv'
    BY <2>2, <2>3, Parts, Zenon DEF DrainInv
  <2>5. cfg' \in [Settings -> BOOLEAN]
    BY <2>2, Parts, Zenon DEF ClockInv
  <2> QED BY <2>2, <2>4, <2>5, StoreKept
<1> QED BY <1>1, <1>2, <1>3, <1>4 DEF Operator

\* Midnight: no trigger has fired yet on the new day.
LEMMA NextDayStep ==
    ASSUME IInv, NextDay PROVE IInv'
<1>1. /\ day' = day + 1 /\ filed' = [t \in 0 .. MaxTriggers |-> 0] /\ late' = filed'
      /\ UNCHANGED <<cfg, triggers, queue, pending, tick, run, created, shipped>>
      /\ UNCHANGED <<store, calls, apart>>
  BY DEF NextDay, plugin
<1>2. ClockInv' /\ created <= created' /\ day <= day'
  BY <1>1, Parts DEF ClockInv
<1>3. /\ filed' \in [0 .. MaxTriggers -> Nat] /\ \A t \in 0 .. MaxTriggers : filed'[t] = 0
      /\ late' \in [0 .. MaxTriggers -> Nat] /\ \A t \in 0 .. MaxTriggers : late'[t] = 0
  BY <1>1
<1>4. StoreInv' /\ TickInv' /\ DrainInv' /\ PluginInv'
  BY <1>1, <1>2, <1>3, Parts, StoreSame, TickSame, DrainSame, PluginSame
<1>5. ASSUME NEW t \in DOMAIN triggers PROVE triggers[t].day # day' /\ t \in 0 .. MaxTriggers
  <2>1. triggers[t] \in Entry /\ t \in 1 .. created /\ created \in 0 .. MaxTriggers
    BY Parts DEF StoreInv, IsSnapshot, ClockInv
  <2>2. triggers[t].day \in 0 .. day
    BY <2>1 DEF Entry
  <2> QED BY <1>1, <2>1, <2>2, Parts
<1>6. CapInv'
  <2>1. Counted(Stored(day))'
    BY <1>1, <1>3, <1>5 DEF Counted, Stored
  <2>2. FiresToday(triggers, day)' = 0
    <3>1. FiresOf(triggers', day') \in Counts
          /\ \A t \in 1 .. MaxTriggers : FiresOf(triggers', day')[t] = 0
      BY <1>1, <1>5 DEF FiresOf, Counts
    <3>2. FiresToday(triggers, day)' = Total(FiresOf(triggers', day'))
      BY DEF FiresToday, FiresOf
    <3> QED BY <3>1, <3>2, TotalZero
  <2>3. Total(LateOf(triggers, late))' = 0
    <3>1. LateOf(triggers', late') \in Counts
      BY <1>3, LateCounts
    <3>2. \A t \in 1 .. MaxTriggers : LateOf(triggers', late')[t] = 0
      BY <1>3 DEF LateOf
    <3>3. LateOf(triggers, late)' = LateOf(triggers', late')
      BY DEF LateOf
    <3> QED BY <3>1, <3>2, <3>3, TotalZero
  <2>4. LateCounted(triggers, late)'
    <3>1. ASSUME NEW t \in DOMAIN triggers'
          PROVE  /\ late'[t] = 0 /\ triggers'[t].day # day'
                 /\ 0 <= (IF triggers'[t].day = tick'.now THEN triggers'[t].count ELSE 0)
      <4>1. t \in DOMAIN triggers /\ triggers'[t] = triggers[t] /\ triggers[t].count \in Nat
        BY <1>1, Parts DEF StoreInv, IsSnapshot, Entry
      <4> QED BY <1>1, <1>3, <1>5, <4>1
    <3> QED BY <3>1 DEF LateCounted
  <2>5. Ungiven(Stored(day))'
    BY <1>1, <1>3, Parts DEF Ungiven, Stored
  <2>6. SameKinds(tick.snap, triggers)'
    BY <1>1, Parts DEF CapInv, SameKinds
  <2>7. Stored(day)'.triggers = triggers' /\ Stored(day)'.late = late'
    BY DEF Stored
  <2> QED BY <2>1, <2>2, <2>3, <2>4, <2>5, <2>6, <2>7, AutonomyAssumption DEF CapInv, Capped
<1>7. Dwindles
  BY <1>1, Parts DEF Dwindles
<1>8. ArmedInv'
  BY <1>1, <1>7, Parts, ArmedSame
<1> QED BY <1>2, <1>4, <1>6, <1>8 DEF IInv, TypeInv

\* Whatever was under way is cut: the requests end without an answer.
LEMMA CallsCut ==
    ASSUME IInv, ClockInv', calls' = [c \in 1..MaxCalls |-> NoCall], UNCHANGED <<store, created>>
    PROVE  PluginInv' /\ Working' = {}
<1>1. \A c \in 1 .. MaxCalls : calls'[c] = NoCall
  OBVIOUS
<1>2. /\ DOMAIN NoCall = {"fn", "p", "at", "saw", "id"}
      /\ NoCall.id \in 0 .. created
  BY Parts DEF NoCall
<1>3. \A c \in 1 .. MaxCalls : CallShape(calls[c])'
  BY <1>1, <1>2 DEF CallShape
<1>4. DOMAIN calls' = 1 .. MaxCalls /\ calls' = [c \in 1 .. MaxCalls |-> calls'[c]]
  BY <1>1
<1> QED BY <1>1, <1>3, <1>4, Parts DEF PluginInv, Working

LEMMA RestartStep ==
    ASSUME IInv, Restart PROVE IInv'
<1>1. CASE AppRestarts
  <2>1. /\ calls' = [c \in 1..MaxCalls |-> NoCall] /\ apart' = TRUE
        /\ UNCHANGED <<kernel, day>> /\ UNCHANGED <<store, created>>
    BY <1>1 DEF AppRestarts, kernel
  <2>2. ClockInv' /\ StoreInv' /\ TickInv' /\ DrainInv' /\ CapInv'
    BY <2>1, KernelSame
  <2>3. PluginInv'
    BY <2>1, <2>2, CallsCut
  <2>4. ArmedInv'
    BY <2>1 DEF ArmedInv
  <2> QED BY <2>2, <2>3, <2>4 DEF IInv, TypeInv
<1>2. CASE KernelRestarts
  <2>1. /\ tick' = Idle /\ run' = NoRun
        /\ queue' = IF run # NoRun THEN Tail(queue) ELSE queue
        /\ calls' = [c \in 1..MaxCalls |-> NoCall]
        /\ apart' = (apart \/ Working # {})
        /\ UNCHANGED <<cfg, triggers, pending, created, filed, late, shipped>>
        /\ UNCHANGED <<store, day>>
    BY <1>2 DEF KernelRestarts
  <2>2. ClockInv' /\ created <= created' /\ day <= day'
    BY <2>1, Parts DEF ClockInv
  <2>3. StoreInv' /\ CapInv'
    <3>1. filed' \in [0 .. MaxTriggers -> Nat] /\ late' \in [0 .. MaxTriggers -> Nat]
      BY <2>1, Parts DEF StoreInv
    <3>2. TickGoes
      BY <2>1 DEF TickGoes, Overdue, Idle, SameKinds
    <3> QED BY <2>1, <2>2, <3>1, <3>2, Parts, StoreSame, CapTick
  <2>4. TickInv'
    BY <2>1 DEF TickInv, Idle, IsSnapshot
  <2>5. DrainInv'
    <3>1. queue' \in Seq(Tasks)
      <4>1. queue \in Seq(Tasks)
        BY Parts DEF DrainInv
      <4>2. run # NoRun => queue # <<>>
        BY Parts DEF DrainInv
      <4> QED BY <2>1, <4>1, <4>2
    <3>2. Tasks' = Tasks /\ NoRun.task \in Tasks /\ NoRun.at = "none"
      BY <2>1, Parts DEF Tasks, NoRun
    <3>3. run' \in [at : Stages, steady : BOOLEAN, task : Tasks', checks : Verdicts]
      BY <2>1, <3>2 DEF NoRun, Stages, Verdicts
    <3>4. pending' \subseteq Tasks' /\ queue' \in Seq(Tasks') /\ run' = NoRun /\ run'.at = "none"
      BY <2>1, <3>1, <3>2, Parts DEF DrainInv
    <3>5. shipped' \subseteq Shipments
      BY <2>1, Parts, Zenon DEF DrainInv
    <3> QED BY <3>3, <3>4, <3>5, Zenon DEF DrainInv
  <2>6. PluginInv' /\ Working' = {}
    BY <2>1, <2>2, CallsCut
  <2>7. ArmedInv'
    <3>1. SUFFICES ASSUME ~ apart'
                   PROVE  \A t \in 1 .. created : Armed(triggers, t) =>
                            store[triggers[t].of] = [status |-> "scheduled", trigger |-> t]
      BY <2>1, <2>6 DEF ArmedInv
    <3>2. ~ apart /\ Working = {}
      BY <2>1, <3>1
    <3> QED BY <3>2, Parts DEF ArmedInv
  <2> QED BY <2>2, <2>3, <2>4, <2>5, <2>6, <2>7 DEF IInv, TypeInv
<1> QED BY <1>1, <1>2 DEF Restart

-----------------------------------------------------------------------------
(* The plugin.                                                              *)

\* A request of the plugin's goes on as k.
LEMMA CallTyped ==
    ASSUME PluginInv, ClockInv, ClockInv', created <= created', day <= day',
           NEW c \in 1..MaxCalls, NEW k,
           DOMAIN k = {"fn", "p", "at", "saw", "id"}, k.id \in 0 .. created',
           k # NoCall => k.p \in Proposals,
           calls' = [calls EXCEPT ![c] = k],
           store' \in [Proposals -> [status : {"open", "scheduled", "run", "dismissed"},
                                     trigger : 0 .. created']]
    PROVE  PluginInv'
<1>1. calls = [d \in 1..MaxCalls |-> calls[d]] /\ DOMAIN calls = 1..MaxCalls
  BY DEF PluginInv
<1>2. DOMAIN calls' = 1..MaxCalls /\ calls' = [d \in 1..MaxCalls |-> calls'[d]]
  BY <1>1
<1>3. calls'[c] = k /\ \A d \in 1..MaxCalls : d # c => calls'[d] = calls[d]
  BY <1>1
<1>4. 0 .. created \subseteq 0 .. created'
  BY Growth
<1>5. ASSUME NEW d \in 1..MaxCalls PROVE CallShape(calls[d])'
  <2>1. CASE d = c
    BY <1>3, <2>1 DEF CallShape
  <2>2. CASE d # c
    <3>1. calls'[d] = calls[d] /\ CallShape(calls[d])
      BY <1>3, <2>2 DEF PluginInv
    <3> QED BY <1>4, <3>1 DEF CallShape
  <2> QED BY <2>1, <2>2
<1> QED BY <1>2, <1>5 DEF PluginInv

\* The only request under way goes on as k, or ends.
LEMMA CallMoves ==
    ASSUME PluginInv, ArmedInv, NEW c \in Working, NEW k,
           calls' = [calls EXCEPT ![c] = k], UNCHANGED apart,
           ~ apart =>
             /\ k # NoCall => CallInv(calls[c])'
             /\ \A t \in 1 .. created' : Armed(triggers', t) =>
                  \/ store'[triggers'[t].of] = [status |-> "scheduled", trigger |-> t]
                  \/ k.at = "created" /\ k.id = t /\ k.p = triggers'[t].of
    PROVE  ArmedInv'
<1> SUFFICES ASSUME ~ apart
             PROVE  /\ (\A d, e \in Working : d = e)'
                    /\ \A d \in Working' : CallInv(calls[d])'
                    /\ \A t \in 1 .. created' : Armed(triggers', t) =>
                         \/ store'[triggers'[t].of] = [status |-> "scheduled", trigger |-> t]
                         \/ \E d \in Working' : calls'[d].at = "created" /\ calls'[d].id = t
                                                /\ calls'[d].p = triggers'[t].of
  BY DEF ArmedInv
<1>1. /\ DOMAIN calls = 1..MaxCalls /\ c \in 1..MaxCalls
      /\ calls'[c] = k /\ \A d \in 1..MaxCalls : d # c => calls'[d] = calls[d]
  BY DEF PluginInv, Working
<1>2. \A d \in Working : d = c
  BY DEF ArmedInv
<1>3. Working' \subseteq {c} /\ (c \in Working' <=> k # NoCall)
  BY <1>1, <1>2 DEF Working
<1>4. \A d \in Working' : CallInv(calls[d])'
  <2> SUFFICES ASSUME NEW d \in Working' PROVE CallInv(calls[d])'
    OBVIOUS
  <2>1. d = c /\ k # NoCall
    BY <1>3
  <2> QED BY <2>1
<1>5. ASSUME NEW t \in 1 .. created', Armed(triggers', t)
      PROVE  \/ store'[triggers'[t].of] = [status |-> "scheduled", trigger |-> t]
             \/ \E d \in Working' : calls'[d].at = "created" /\ calls'[d].id = t
                                    /\ calls'[d].p = triggers'[t].of
  <2>1. CASE k.at = "created" /\ k.id = t /\ k.p = triggers'[t].of
    <3>1. k # NoCall
      BY <2>1 DEF NoCall
    <3> QED BY <1>1, <1>3, <2>1, <3>1
  <2>2. CASE ~ (k.at = "created" /\ k.id = t /\ k.p = triggers'[t].of)
    BY <1>5, <2>2
  <2> QED BY <2>1, <2>2
<1> QED BY <1>3, <1>4, <1>5

\* The request c, while it is the only one.
LEMMA OnlyCall ==
    ASSUME ArmedInv, ~ apart, NEW c \in Working
    PROVE  /\ CallInv(calls[c])
           /\ \A t \in 1 .. created : Armed(triggers, t) =>
                \/ store[triggers[t].of] = [status |-> "scheduled", trigger |-> t]
                \/ calls[c].at = "created" /\ calls[c].id = t /\ calls[c].p = triggers[t].of
BY DEF ArmedInv

\* What is known of the request a handler goes on with.
LEMMA HandledCall ==
    ASSUME IInv, NEW c \in 1..MaxCalls, calls[c].at # "none"
    PROVE  /\ c \in Working /\ DOMAIN calls[c] = {"fn", "p", "at", "saw", "id"}
           /\ calls[c].p \in Proposals /\ calls[c].id \in 0 .. created
           /\ store[calls[c].p].status \in {"open", "scheduled", "run", "dismissed"}
           /\ store[calls[c].p].trigger \in 0 .. created
           /\ NoCall = [fn |-> "none", p |-> 0, at |-> "none", saw |-> <<>>, id |-> 0]
           /\ DOMAIN NoCall = {"fn", "p", "at", "saw", "id"} /\ NoCall.id = 0 /\ NoCall.at = "none"
<1>1. calls[c] # NoCall
  BY DEF NoCall
<1>2. c \in Working /\ CallShape(calls[c])
  BY <1>1, Parts DEF Working, PluginInv
<1> QED BY <1>1, <1>2, Parts DEF CallShape, PluginInv, NoCall

\* The plugin starts to work on a request, in a free slot.
LEMMA StartsFields ==
    ASSUME PluginInv, NEW fn, NEW p, NEW at, Starts(fn, p, at)
    PROVE  \E c \in 1..MaxCalls :
             /\ c \notin Working
             /\ calls' = [calls EXCEPT ![c] = [fn |-> fn, p |-> p, at |-> at, saw |-> <<>>, id |-> 0]]
<1> DEFINE free == 1..MaxCalls \ Working
           c == Min(free)
<1>1. free \in SUBSET Nat /\ free # {}
  BY DEF Starts, Working
<1>2. c \in free
  <2>1. \E m \in free : \A k \in free : m <= k
    BY <1>1, LeastNat
  <2> QED BY <2>1 DEF Min
<1>3. calls' = [calls EXCEPT ![c] = [NoCall EXCEPT !.fn = fn, !.p = p, !.at = at]]
  BY DEF Starts
<1> HIDE DEF c
<1>4. [NoCall EXCEPT !.fn = fn, !.p = p, !.at = at]
        = [fn |-> fn, p |-> p, at |-> at, saw |-> <<>>, id |-> 0]
  <2> DEFINE x == [NoCall EXCEPT !.fn = fn]
             y == [x EXCEPT !.p = p]
             z == [y EXCEPT !.at = at]
  <2>1. [NoCall EXCEPT !.fn = fn, !.p = p, !.at = at] = z
    BY Zenon
  <2>2. x = [fn |-> fn, p |-> 0, at |-> "none", saw |-> <<>>, id |-> 0]
    BY DEF NoCall
  <2> HIDE DEF x
  <2>3. y = [fn |-> fn, p |-> p, at |-> "none", saw |-> <<>>, id |-> 0]
    BY <2>2
  <2> HIDE DEF y
  <2>4. z = [fn |-> fn, p |-> p, at |-> at, saw |-> <<>>, id |-> 0]
    BY <2>3
  <2> HIDE DEF z
  <2> QED BY <2>1, <2>4
<1> QED BY <1>2, <1>3, <1>4

\* What the kernel does not see of the plugin's leaves it where it was.
LEMMA AskStep ==
    ASSUME IInv, Ask PROVE IInv'
<1>1. UNCHANGED <<kernel, day>> /\ UNCHANGED created
  BY DEF Ask, kernel
<1>2. ClockInv' /\ StoreInv' /\ TickInv' /\ DrainInv' /\ CapInv' /\ Dwindles
      /\ created <= created' /\ day <= day'
  BY <1>1, KernelSame
<1>3. triggers' = triggers
  BY <1>1 DEF kernel
<1>4. PICK p \in Proposals, fn \in {"schedule", "unschedule", "run", "list"},
           at \in {"create", "sync", "submit"} :
        /\ Starts(fn, p, at)
        /\ at = "create" => store[p].status = "open" /\ store' = store
        /\ at = "submit" => store[p].status = "open" /\ store' = [store EXCEPT ![p].status = "run"]
        /\ at = "sync" => store' = store
  BY Zenon DEF Ask
<1> DEFINE k == [fn |-> fn, p |-> p, at |-> at, saw |-> <<>>, id |-> 0]
<1>5. PICK c \in 1..MaxCalls : c \notin Working /\ calls' = [calls EXCEPT ![c] = k]
  BY <1>4, Parts, StartsFields
<1>6. apart' = (apart \/ Working # {})
  BY <1>4 DEF Starts
<1>7. /\ k.fn = fn /\ k.p = p /\ k.at = at /\ k.id = 0
      /\ DOMAIN k = {"fn", "p", "at", "saw", "id"}
  OBVIOUS
<1> HIDE DEF k
<1>8. k # NoCall
  BY <1>4, <1>7 DEF NoCall
<1>9. store' \in [Proposals -> [status : {"open", "scheduled", "run", "dismissed"},
                                trigger : 0 .. created']]
  BY <1>1, <1>4, Parts DEF PluginInv
<1>10. PluginInv'
  <2>1. k.id \in 0 .. created' /\ (k # NoCall => k.p \in Proposals)
    BY <1>1, <1>7, Parts
  <2>2. PluginInv /\ ClockInv
    BY Parts
  <2> QED BY <1>2, <1>5, <1>7, <1>9, <2>1, <2>2, CallTyped, Zenon
<1>11. ArmedInv'
  <2> SUFFICES ASSUME ~ apart'
               PROVE  /\ (\A d, e \in Working : d = e)'
                      /\ \A d \in Working' : CallInv(calls[d])'
                      /\ \A t \in 1 .. created' : Armed(triggers', t) =>
                           store'[triggers'[t].of] = [status |-> "scheduled", trigger |-> t]
    BY DEF ArmedInv
  <2>1. ~ apart /\ Working = {}
    BY <1>6
  <2>2. /\ DOMAIN calls = 1..MaxCalls
        /\ calls'[c] = k /\ \A d \in 1..MaxCalls : d # c => calls'[d] = NoCall
    BY <1>5, <2>1, Parts DEF PluginInv, Working
  <2>3. Working' = {c}
    BY <1>8, <2>2 DEF Working
  <2>4. CallInv(calls[c])'
    <3>1. store[p] \in [status : {"open", "scheduled", "run", "dismissed"}, trigger : 0 .. created]
      BY Parts DEF PluginInv
    <3>2. at = "create" => store'[p].status = "open"
      BY <1>4
    <3>3. at = "submit" => store'[p].status = "run"
      BY <1>4, <3>1, Parts DEF PluginInv
    <3> QED BY <1>4, <1>7, <2>2, <3>2, <3>3 DEF CallInv
  <2>5. ASSUME NEW t \in 1 .. created', Armed(triggers', t)
        PROVE  store'[triggers'[t].of] = [status |-> "scheduled", trigger |-> t]
    <3>1. store[triggers[t].of] = [status |-> "scheduled", trigger |-> t]
      BY <1>1, <1>3, <2>1, <2>5, Parts DEF ArmedInv
    <3>2. CASE at = "submit"
      <4>1. triggers[t].of # p
        BY <1>4, <3>1, <3>2
      <4>2. store'[triggers[t].of] = store[triggers[t].of]
        <5>1. DOMAIN store = Proposals /\ triggers[t].of \in Proposals
          BY <1>3, <2>5, Parts DEF PluginInv, StoreInv, Armed
        <5> QED BY <1>4, <3>2, <4>1, <5>1
      <4> QED BY <1>3, <3>1, <4>2
    <3>3. CASE at # "submit"
      BY <1>3, <1>4, <3>1, <3>3
    <3> QED BY <3>2, <3>3
  <2> QED BY <2>3, <2>4, <2>5
<1> QED BY <1>2, <1>10, <1>11 DEF IInv, TypeInv

\* A one-shot's proposal is not the one that changes, if that was open.
LEMMA OthersScheduled ==
    ASSUME IInv, NEW p \in Proposals, NEW r, store' = [store EXCEPT ![p] = r],
           NEW t, Armed(triggers, t),
           store[triggers[t].of] = [status |-> "scheduled", trigger |-> t],
           store[p].status # "scheduled" \/ store[p].trigger # t
    PROVE  store'[triggers[t].of] = [status |-> "scheduled", trigger |-> t]
<1>1. DOMAIN store = Proposals /\ triggers[t].of \in Proposals
  BY Parts DEF PluginInv, StoreInv, Armed
<1>2. triggers[t].of # p
  OBVIOUS
<1> QED BY <1>1, <1>2

LEMMA DismissStep ==
    ASSUME IInv, Dismiss PROVE IInv'
<1>1. UNCHANGED <<kernel, day>> /\ UNCHANGED <<created, calls, triggers>>
      /\ apart' = (apart \/ Working # {})
  BY DEF Dismiss, kernel
<1>2. ClockInv' /\ StoreInv' /\ TickInv' /\ DrainInv' /\ CapInv'
  BY <1>1, KernelSame
<1>3. PICK p \in Proposals : store[p].status = "open"
                             /\ store' = [store EXCEPT ![p].status = "dismissed"]
  BY DEF Dismiss
<1>4. store \in [Proposals -> [status : {"open", "scheduled", "run", "dismissed"},
                               trigger : 0 .. created]]
  BY Parts DEF PluginInv
<1>5. store' \in [Proposals -> [status : {"open", "scheduled", "run", "dismissed"},
                                trigger : 0 .. created']]
  BY <1>1, <1>3, <1>4
<1>6. PluginInv'
  BY <1>1, <1>5, Parts DEF PluginInv, CallShape
<1>7. ArmedInv'
  <2> SUFFICES ASSUME ~ apart'
               PROVE  \A t \in 1 .. created : Armed(triggers, t) =>
                        store'[triggers[t].of] = [status |-> "scheduled", trigger |-> t]
    BY <1>1, Parts DEF ArmedInv, Working
  <2>1. ~ apart /\ Working = {}
    BY <1>1
  <2> SUFFICES ASSUME NEW t \in 1 .. created, Armed(triggers, t)
               PROVE  store'[triggers[t].of] = [status |-> "scheduled", trigger |-> t]
    BY <2>1
  <2>2. store[triggers[t].of] = [status |-> "scheduled", trigger |-> t]
    BY <2>1, Parts DEF ArmedInv
  <2>3. store' = [store EXCEPT ![p] = [store[p] EXCEPT !.status = "dismissed"]]
    BY <1>3
  <2>4. store[p].status # "scheduled"
    BY <1>3
  <2> QED BY <2>2, <2>3, <2>4, OthersScheduled
<1> QED BY <1>2, <1>6, <1>7 DEF IInv, TypeInv

-----------------------------------------------------------------------------
(* The requests the kernel takes, and the handlers that go on.              *)

\* A request that ends, with the proposals and the triggers as they were.
LEMMA EndsSafely ==
    ASSUME IInv, ClockInv', NEW c \in 1..MaxCalls, Ends(c), calls[c].at \notin {"none", "created"},
           UNCHANGED <<created, day, triggers, store, apart>>
    PROVE  PluginInv' /\ ArmedInv'
<1>1. /\ c \in Working /\ calls' = [calls EXCEPT ![c] = NoCall] /\ created <= created' /\ day <= day'
      /\ DOMAIN NoCall = {"fn", "p", "at", "saw", "id"} /\ NoCall.id \in 0 .. created'
      /\ NoCall # NoCall => NoCall.p \in Proposals
  BY Parts, HandledCall DEF Ends
<1>2. store' \in [Proposals -> [status : {"open", "scheduled", "run", "dismissed"},
                                trigger : 0 .. created']]
  BY Parts DEF PluginInv
<1>3. PluginInv /\ ClockInv /\ ArmedInv
  BY Parts
<1>4. PluginInv'
  BY <1>1, <1>2, <1>3, CallTyped, Zenon
<1>5. ASSUME ~ apart, NEW t \in 1 .. created', Armed(triggers', t)
      PROVE  store'[triggers'[t].of] = [status |-> "scheduled", trigger |-> t]
  BY <1>1, <1>3, <1>5, OnlyCall
<1>6. ArmedInv'
  BY <1>1, <1>3, <1>5, CallMoves
<1> QED BY <1>4, <1>6

LEMMA CreatesStep ==
    ASSUME IInv, NEW c \in 1..MaxCalls, KernelCreates(c) PROVE IInv'
<1> DEFINE q == calls[c]
<1>1. /\ q.at = "create" /\ UNCHANGED <<cfg, filed, late, day, tick>> /\ UNCHANGED <<store, apart>>
      /\ UNCHANGED <<queue, pending, run, shipped>> /\ UNCHANGED tick
  BY DEF KernelCreates
<1>2. /\ c \in Working /\ DOMAIN q = {"fn", "p", "at", "saw", "id"}
      /\ q.p \in Proposals /\ q.id \in 0 .. created
  BY <1>1, HandledCall
<1>3. PluginInv /\ ClockInv /\ ArmedInv /\ TickInv /\ DrainInv
  BY Parts
<1>4. ASSUME created < MaxTriggers, created' = created + 1,
             triggers' = Created(triggers, created + 1, New("schedule", TRUE, q.p)),
             calls' = [calls EXCEPT ![c].at = "created", ![c].id = created + 1]
      PROVE  IInv'
  <2>1. "schedule" \in Kinds /\ TRUE \in BOOLEAN /\ q.p \in Proposals \cup {0}
        /\ (TRUE => q.p \in Proposals)
    BY <1>2 DEF Kinds
  <2> HIDE DEF q
  <2>2. /\ ClockInv' /\ StoreInv' /\ CapInv' /\ created <= created' /\ day <= day'
        /\ DOMAIN triggers' = DOMAIN triggers \cup {created + 1}
        /\ created + 1 \notin DOMAIN triggers
        /\ \A t \in DOMAIN triggers : triggers'[t] = triggers[t]
        /\ triggers'[created + 1] = New("schedule", TRUE, q.p)
    BY <1>1, <1>4, <2>1, TriggerMade, Zenon
  <2>3. New("schedule", TRUE, q.p).of = q.p
    BY DEF New
  <2> DEFINE k == [q EXCEPT !.at = "created", !.id = created + 1]
  <2>4. calls' = [calls EXCEPT ![c] = k]
    BY <1>4 DEF q
  <2>5. /\ DOMAIN k = {"fn", "p", "at", "saw", "id"} /\ k.at = "created" /\ k.id = created + 1
        /\ k.p = q.p
    BY <1>2
  <2> HIDE DEF k
  <2>6. k.id \in 0 .. created' /\ (k # NoCall => k.p \in Proposals)
    BY <1>2, <1>4, <2>5, Parts
  <2>7. store' \in [Proposals -> [status : {"open", "scheduled", "run", "dismissed"},
                                  trigger : 0 .. created']]
    <3>1. 0 .. created \subseteq 0 .. created'
      BY <1>4, Parts
    <3> QED BY <1>1, <3>1, Parts DEF PluginInv
  <2>8. PluginInv'
    BY <1>3, <2>2, <2>4, <2>5, <2>6, <2>7, CallTyped, Zenon
  <2>9. ASSUME ~ apart PROVE CallInv(calls[c])'
    <3>1. calls'[c] = k
      BY <1>3, <2>4 DEF PluginInv
    <3>2. store[q.p].status = "open"
      BY <1>1, <1>2, <1>3, <2>9, OnlyCall DEF CallInv, q
    <3> QED BY <1>1, <2>5, <3>1, <3>2 DEF CallInv
  <2>10. ASSUME ~ apart, NEW t \in 1 .. created', Armed(triggers', t)
         PROVE  \/ store'[triggers'[t].of] = [status |-> "scheduled", trigger |-> t]
                \/ k.at = "created" /\ k.id = t /\ k.p = triggers'[t].of
    <3>1. CASE t = created + 1
      BY <2>2, <2>3, <2>5, <3>1
    <3>2. CASE t # created + 1
      <4>1. t \in DOMAIN triggers /\ triggers'[t] = triggers[t] /\ t \in 1 .. created
        <5>1. t \in DOMAIN triggers'
          BY <2>10, Zenon DEF Armed
        <5>2. DOMAIN triggers \subseteq 1 .. created
          BY Parts DEF StoreInv, IsSnapshot
        <5> QED BY <2>2, <3>2, <5>1, <5>2
      <4>2. Armed(triggers, t)
        BY <2>10, <4>1, Zenon DEF Armed
      <4>3. store[triggers[t].of] = [status |-> "scheduled", trigger |-> t]
        BY <1>1, <1>2, <1>3, <2>10, <4>1, <4>2, OnlyCall DEF q
      <4> QED BY <1>1, <4>1, <4>3
    <3> QED BY <3>1, <3>2
  <2>11. ArmedInv'
    BY <1>1, <1>2, <1>3, <2>4, <2>9, <2>10, CallMoves
  <2>12. TickInv' /\ DrainInv'
    BY <1>1, <1>3, <2>2, TickSame, DrainSame
  <2> QED BY <2>2, <2>8, <2>11, <2>12 DEF IInv, TypeInv
<1>5. ASSUME Ends(c), UNCHANGED <<triggers, created>>
      PROVE  IInv'
  <2>1. UNCHANGED <<kernel, day>>
    BY <1>1, <1>5 DEF kernel
  <2>2. ClockInv' /\ StoreInv' /\ TickInv' /\ DrainInv' /\ CapInv'
    BY <2>1, KernelSame
  <2>3. PluginInv' /\ ArmedInv'
    BY <1>1, <1>5, <2>2, EndsSafely
  <2> QED BY <2>2, <2>3 DEF IInv, TypeInv
<1> QED BY <1>4, <1>5 DEF KernelCreates

\* A request goes on, the proposals being as they were.
LEMMA GoesOn ==
    ASSUME IInv, ClockInv', NEW c \in 1..MaxCalls, calls[c].at \notin {"none", "created"},
           NEW k, calls' = [calls EXCEPT ![c] = k],
           DOMAIN k = {"fn", "p", "at", "saw", "id"}, k.p = calls[c].p, k.id = calls[c].id,
           UNCHANGED <<created, day, store, apart>>, Dwindles,
           ~ apart => CallInv(calls[c])'
    PROVE  PluginInv' /\ ArmedInv'
<1>1. /\ c \in Working /\ created <= created' /\ day <= day'
      /\ k.id \in 0 .. created' /\ (k # NoCall => k.p \in Proposals)
  BY Parts, HandledCall
<1>2. store' \in [Proposals -> [status : {"open", "scheduled", "run", "dismissed"},
                                trigger : 0 .. created']]
  BY Parts DEF PluginInv
<1>3. PluginInv /\ ClockInv /\ ArmedInv
  BY Parts
<1>4. PluginInv'
  BY <1>1, <1>2, <1>3, CallTyped, Zenon
<1>5. ASSUME ~ apart, NEW t \in 1 .. created', Armed(triggers', t)
      PROVE  store'[triggers'[t].of] = [status |-> "scheduled", trigger |-> t]
  <2>1. t \in 1 .. created /\ Armed(triggers, t) /\ triggers'[t].of = triggers[t].of
    BY <1>5 DEF Dwindles
  <2> QED BY <1>1, <1>3, <1>5, <2>1, OnlyCall
<1>6. ArmedInv'
  BY <1>1, <1>3, <1>5, CallMoves
<1> QED BY <1>4, <1>6

LEMMA ListsStep ==
    ASSUME IInv, NEW c \in 1..MaxCalls, KernelLists(c) PROVE IInv'
<1> DEFINE q == calls[c]
<1>1. /\ q.at = "sync" /\ UNCHANGED <<kernel, day>> /\ UNCHANGED <<created, day, store, apart>>
      /\ UNCHANGED triggers /\ UNCHANGED <<created, day, triggers, store, apart>>
  BY DEF KernelLists, kernel
<1>2. c \in Working /\ DOMAIN q = {"fn", "p", "at", "saw", "id"}
  BY <1>1, HandledCall
<1>3. ClockInv' /\ StoreInv' /\ TickInv' /\ DrainInv' /\ CapInv' /\ Dwindles
  BY <1>1, KernelSame
<1>4. CASE Ends(c)
  <2>1. PluginInv' /\ ArmedInv'
    BY <1>1, <1>3, <1>4, EndsSafely
  <2> QED BY <1>3, <2>1 DEF IInv, TypeInv
<1>5. CASE calls' = [calls EXCEPT ![c].at = "synced", ![c].saw = triggers]
  <2> DEFINE k == [q EXCEPT !.at = "synced", !.saw = triggers]
  <2>1. calls' = [calls EXCEPT ![c] = k]
    BY <1>5
  <2>2. /\ DOMAIN k = {"fn", "p", "at", "saw", "id"} /\ k.at = "synced" /\ k.saw = triggers
        /\ k.p = q.p /\ k.id = q.id
    BY <1>2
  <2> HIDE DEF k
  <2>3. calls'[c] = k
    BY <2>1, Parts DEF PluginInv
  <2>4. CallInv(calls[c])'
    BY <1>1, <2>2, <2>3 DEF CallInv
  <2>5. PluginInv' /\ ArmedInv'
    BY <1>1, <1>3, <2>1, <2>2, <2>4, GoesOn
  <2> QED BY <1>3, <2>5 DEF IInv, TypeInv
<1>6. CASE calls' = [calls EXCEPT ![c].at = "unsynced"]
  <2> DEFINE k == [q EXCEPT !.at = "unsynced"]
  <2>1. calls' = [calls EXCEPT ![c] = k]
    BY <1>6
  <2>2. /\ DOMAIN k = {"fn", "p", "at", "saw", "id"} /\ k.at = "unsynced"
        /\ k.p = q.p /\ k.id = q.id
    BY <1>2
  <2> HIDE DEF k
  <2>3. calls'[c] = k
    BY <2>1, Parts DEF PluginInv
  <2>4. CallInv(calls[c])'
    BY <2>2, <2>3 DEF CallInv
  <2>5. PluginInv' /\ ArmedInv'
    BY <1>1, <1>3, <2>1, <2>2, <2>4, GoesOn
  <2> QED BY <1>3, <2>5 DEF IInv, TypeInv
<1> QED BY <1>4, <1>5, <1>6 DEF KernelLists

LEMMA DeletesStep ==
    ASSUME IInv, NEW c \in 1..MaxCalls, KernelDeletes(c) PROVE IInv'
<1> DEFINE q == calls[c]
<1>1. /\ q.at = "delete" /\ UNCHANGED <<cfg, created, day, filed, late, tick>> /\ UNCHANGED tick
      /\ UNCHANGED <<created, day, store, apart>> /\ UNCHANGED <<queue, pending, run, shipped>>
  BY DEF KernelDeletes
<1>2. c \in Working /\ DOMAIN q = {"fn", "p", "at", "saw", "id"}
  BY <1>1, HandledCall
<1>3. created <= created' /\ day <= day'
  BY <1>1, Parts
<1>4. PICK at \in {"deleted", "kept"} :
        /\ calls' = [calls EXCEPT ![c].at = at]
        /\ at = "deleted" => q.id \in DOMAIN triggers /\ triggers' = Deleted(triggers, q.id)
        /\ at = "kept" => triggers' = triggers
  BY Zenon DEF KernelDeletes
<1>5. /\ DOMAIN triggers' \subseteq DOMAIN triggers
      /\ \A x \in DOMAIN triggers' : triggers'[x] = triggers[x]
      /\ triggers' = [x \in DOMAIN triggers' |-> triggers'[x]]
      /\ at = "deleted" => q.id \notin DOMAIN triggers'
  <2>1. CASE at = "deleted"
    <3>1. triggers' = [x \in DOMAIN triggers \ {q.id} |-> triggers[x]]
      BY <1>4, <2>1 DEF Deleted
    <3> QED BY <3>1
  <2>2. CASE at = "kept"
    <3>1. triggers' = triggers /\ triggers = [x \in DOMAIN triggers |-> triggers[x]]
      BY <1>4, <2>2, Parts DEF StoreInv, IsSnapshot
    <3> QED BY <2>2, <3>1
  <2> QED BY <2>1, <2>2
<1>6. triggers' \in [DOMAIN triggers' -> Entry]
  <2>1. \A x \in DOMAIN triggers' : triggers'[x] \in Entry
    BY <1>5, Parts DEF StoreInv, IsSnapshot
  <2> QED BY <1>5, <2>1
<1>7. \A x \in DOMAIN triggers' :
        /\ triggers'[x].of = triggers[x].of /\ triggers'[x].day = triggers[x].day
        /\ triggers'[x].count = triggers[x].count /\ triggers'[x].kind = triggers[x].kind
        /\ triggers'[x].once => triggers[x].once
  BY <1>5, Zenon
<1>8. ClockInv' /\ StoreInv' /\ CapInv' /\ Dwindles
  BY <1>1, <1>5, <1>6, <1>7, TriggersStep, Zenon
<1> DEFINE k == [q EXCEPT !.at = at]
<1>9. calls' = [calls EXCEPT ![c] = k]
  BY <1>4
<1>10. /\ DOMAIN k = {"fn", "p", "at", "saw", "id"} /\ k.at = at
       /\ k.p = q.p /\ k.id = q.id
  BY <1>2
<1> HIDE DEF k
<1>11. ASSUME ~ apart PROVE CallInv(calls[c])'
  <2>1. calls'[c] = k
    BY <1>9, Parts DEF PluginInv
  <2>2. store[q.p].status = "scheduled" /\ store[q.p].trigger = q.id
    BY <1>1, <1>2, <1>11, Parts, OnlyCall DEF CallInv
  <2> QED BY <1>1, <1>4, <1>5, <1>10, <2>1, <2>2 DEF CallInv
<1>12. PluginInv' /\ ArmedInv'
  BY <1>1, <1>8, <1>9, <1>10, <1>11, GoesOn
<1>13. TickInv' /\ DrainInv'
  BY <1>1, <1>3, <1>8, Parts, TickSame, DrainSame
<1> QED BY <1>8, <1>12, <1>13 DEF IInv, TypeInv

\* A task of the plugin's is nobody's: it is filed under no trigger.
LEMMA EnqueuesStep ==
    ASSUME IInv, NEW c \in 1..MaxCalls, KernelEnqueues(c) PROVE IInv'
<1> DEFINE q == calls[c]
<1>1. /\ q.at = "submit" /\ UNCHANGED <<cfg, pending, run, shipped>> /\ UNCHANGED tick
      /\ UNCHANGED <<created, day, store, apart>>
  BY DEF KernelEnqueues
<1>2. c \in Working /\ DOMAIN q = {"fn", "p", "at", "saw", "id"} /\ q.p \in Proposals
  BY <1>1, HandledCall
<1>3. created <= created' /\ day <= day' /\ ClockInv'
  <2>1. ClockInv'
    BY <1>1, Parts, Zenon DEF ClockInv
  <2> QED BY <1>1, <2>1, Parts
<1>4. CASE Files(Enqueued(Stored(day), 0, q.p)) /\ Ends(c)
  <2> DEFINE task == [by |-> 0, item |-> q.p]
             more == OneMore(filed, 0)
             e == Enqueued(Stored(day), 0, q.p)
  <2>1. /\ e.triggers = triggers /\ e.queue = Append(queue, task) /\ e.filed = more
        /\ e.late = late
    <3> HIDE DEF more, task
    <3>1. e = [Stored(day) EXCEPT !.queue = Append(queue, task), !.filed = more, !.late = late]
      BY DEF Enqueued, Stored, more, task
    <3> HIDE DEF e
    <3> QED BY <3>1 DEF Stored
  <2> HIDE DEF e
  <2>2. triggers' = triggers /\ queue' = Append(queue, task) /\ filed' = more /\ late' = late
    BY <1>4, <2>1 DEF Files, e
  <2>3. task \in Tasks
    BY <1>2, Parts DEF Tasks, Items
  <2> HIDE DEF task
  <2>4. /\ filed' \in [0 .. MaxTriggers -> Nat] /\ late' \in [0 .. MaxTriggers -> Nat]
        /\ \A t \in 1 .. MaxTriggers : filed'[t] = filed[t]
    BY <2>2, Parts DEF StoreInv, OneMore
  <2> HIDE DEF more
  <2>5. StoreInv' /\ TickInv'
    BY <1>1, <1>3, <2>2, <2>4, Parts, StoreSame, TickSame
  <2>6. DrainInv'
    <3>1. queue \in Seq(Tasks) /\ Tasks' = Tasks
      BY <1>1, Parts DEF DrainInv, Tasks
    <3>2. queue' \in Seq(Tasks')
      BY <2>2, <2>3, <3>1
    <3>3. queue # <<>> => queue' # <<>> /\ Head(queue') = Head(queue)
      BY <2>2, <2>3, <3>1
    <3>4. IF run'.at = "none" THEN run' = NoRun ELSE queue' # <<>> /\ run'.task = Head(queue')
      BY <1>1, <3>3, Parts DEF DrainInv
    <3>5. /\ run' \in [at : Stages, steady : BOOLEAN, task : Tasks', checks : Verdicts] /\ pending' \subseteq Tasks'
          /\ shipped' \subseteq Shipments
      BY <1>1, <3>1, Parts, Zenon DEF DrainInv
    <3> QED BY <3>2, <3>4, <3>5, Zenon DEF DrainInv
  <2>7. CapInv'
    <3>1. DOMAIN triggers \subseteq 1 .. MaxTriggers
      BY Parts DEF StoreInv, IsSnapshot, ClockInv
    <3>2. /\ Counted(Stored(day)) /\ FiresToday(triggers, day) <= MaxPerDay
          /\ LateCounted(triggers, late) /\ Total(LateOf(triggers, late)) <= MaxPerDay
          /\ Ungiven(Stored(day)) /\ SameKinds(tick.snap, triggers)
      BY Parts DEF CapInv, Capped, Stored
    <3>3. Counted(Stored(day))'
      BY <1>1, <2>2, <2>4, <3>1, <3>2 DEF Counted, Stored
    <3>4. FiresToday(triggers, day)' = FiresToday(triggers, day)
          /\ Total(LateOf(triggers, late))' = Total(LateOf(triggers, late))
      BY <1>1, <2>2 DEF FiresToday, LateOf
    <3>5. LateCounted(triggers, late)' /\ SameKinds(tick.snap, triggers)'
      BY <1>1, <2>2, <3>2 DEF LateCounted, Overdue, SameKinds
    <3>6. Ungiven(Stored(day))'
      BY <1>1, <2>2, <2>4, <3>2, Parts DEF Ungiven, Stored
    <3>7. Stored(day)'.triggers = triggers' /\ Stored(day)'.late = late'
      BY DEF Stored
    <3> QED BY <3>2, <3>3, <3>4, <3>5, <3>6, <3>7 DEF CapInv, Capped
  <2>8. PluginInv' /\ ArmedInv'
    BY <1>1, <1>3, <1>4, <2>2, EndsSafely
  <2> QED BY <1>3, <2>5, <2>6, <2>7, <2>8 DEF IInv, TypeInv
<1>5. CASE calls' = [calls EXCEPT ![c].at = "refused"] /\ UNCHANGED <<triggers, queue, filed, late>>
  <2>1. UNCHANGED <<kernel, day>>
    BY <1>1, <1>5 DEF kernel
  <2>2. ClockInv' /\ StoreInv' /\ TickInv' /\ DrainInv' /\ CapInv' /\ Dwindles
    BY <2>1, KernelSame
  <2> DEFINE k == [q EXCEPT !.at = "refused"]
  <2>3. calls' = [calls EXCEPT ![c] = k]
    BY <1>5
  <2>4. /\ DOMAIN k = {"fn", "p", "at", "saw", "id"} /\ k.at = "refused"
        /\ k.p = q.p /\ k.id = q.id
    BY <1>2
  <2> HIDE DEF k
  <2>5. ASSUME ~ apart PROVE CallInv(calls[c])'
    <3>1. calls'[c] = k
      BY <2>3, Parts DEF PluginInv
    <3>2. store[q.p].status = "run"
      BY <1>1, <1>2, <2>5, Parts, OnlyCall DEF CallInv
    <3> QED BY <1>1, <2>4, <3>1, <3>2 DEF CallInv
  <2>6. PluginInv' /\ ArmedInv'
    BY <1>1, <2>2, <2>3, <2>4, <2>5, GoesOn
  <2> QED BY <2>2, <2>6 DEF IInv, TypeInv
<1> QED BY <1>4, <1>5 DEF KernelEnqueues

\* What the triggers say of the proposals keeps their shape.
LEMMA ReconciledTyped ==
    ASSUME PluginInv, created \in Nat, NEW saw
    PROVE  Reconciled(store, saw) \in [Proposals -> [status : {"open", "scheduled", "run", "dismissed"},
                                                     trigger : 0 .. created]]
<1> DEFINE Rows == [status : {"open", "scheduled", "run", "dismissed"}, trigger : 0 .. created]
<1>1. store \in [Proposals -> Rows] /\ Open \in Rows
  BY DEF PluginInv, Open
<1>2. \A r \in Rows : [r EXCEPT !.status = "run"] \in Rows
  OBVIOUS
<1> HIDE DEF Rows
<1>3. ASSUME NEW p \in Proposals PROVE Reconciled(store, saw)[p] \in Rows
  <2> DEFINE run1 == \E t \in DOMAIN saw : saw[t].kind = "advisor" /\ saw[t].fired[p] # 0
  <2>1. Reconciled(store, saw)[p] =
          CASE store[p].status = "open" /\ run1 -> [store[p] EXCEPT !.status = "run"]
            [] store[p].status = "scheduled" /\ store[p].trigger \notin DOMAIN saw -> Open
            [] store[p].status = "scheduled" /\ store[p].trigger \in DOMAIN saw
               /\ saw[store[p].trigger].day # 0 -> [store[p] EXCEPT !.status = "run"]
            [] OTHER -> store[p]
    BY DEF Reconciled
  <2>2. store[p] \in Rows /\ [store[p] EXCEPT !.status = "run"] \in Rows
    BY <1>1, <1>2
  <2> HIDE DEF run1
  <2> DEFINE ran == [store[p] EXCEPT !.status = "run"]
  <2> HIDE DEF ran
  <2>3. Reconciled(store, saw)[p] =
          CASE store[p].status = "open" /\ run1 -> ran
            [] store[p].status = "scheduled" /\ store[p].trigger \notin DOMAIN saw -> Open
            [] store[p].status = "scheduled" /\ store[p].trigger \in DOMAIN saw
               /\ saw[store[p].trigger].day # 0 -> ran
            [] OTHER -> store[p]
    BY <2>1 DEF ran
  <2>4. ran \in Rows
    BY <2>2 DEF ran
  <2>5. Reconciled(store, saw)[p] \in {ran, Open, store[p]}
    BY <2>3
  <2> QED BY <1>1, <2>2, <2>4, <2>5
<1>4. Reconciled(store, saw) \in [Proposals -> Rows]
  <2>1. DOMAIN Reconciled(store, saw) = Proposals
        /\ Reconciled(store, saw) = [p \in Proposals |-> Reconciled(store, saw)[p]]
    BY DEF Reconciled
  <2> QED BY <1>3, <2>1
<1> QED BY <1>4 DEF Rows

\* A proposal that its one-shot still vouches for is left as it is.
LEMMA ReconciledArmed ==
    ASSUME NEW st, NEW saw, NEW p \in Proposals, NEW t,
           st[p] = [status |-> "scheduled", trigger |-> t], Armed(saw, t)
    PROVE  Reconciled(st, saw)[p] = st[p]
<1>1. t \in DOMAIN saw /\ saw[t].day = 0
  BY Zenon DEF Armed
<1>2. st[p].status = "scheduled" /\ st[p].trigger = t
  OBVIOUS
<1> DEFINE any == \E x \in DOMAIN saw : saw[x].kind = "advisor" /\ saw[x].fired[p] # 0
           ran == [st[p] EXCEPT !.status = "run"]
<1>3. Reconciled(st, saw)[p] =
        CASE st[p].status = "open" /\ any -> ran
          [] st[p].status = "scheduled" /\ st[p].trigger \notin DOMAIN saw -> Open
          [] st[p].status = "scheduled" /\ st[p].trigger \in DOMAIN saw
             /\ saw[st[p].trigger].day # 0 -> ran
          [] OTHER -> st[p]
  BY DEF Reconciled
<1> HIDE DEF any, ran
<1> QED BY <1>1, <1>2, <1>3

\* The handler is done with the request, and the kernel is where it was.
LEMMA Answered ==
    ASSUME IInv, ClockInv', NEW c \in 1..MaxCalls, calls[c].at # "none",
           NEW k, calls' = [calls EXCEPT ![c] = k],
           DOMAIN k = {"fn", "p", "at", "saw", "id"}, k.id \in 0 .. created,
           k # NoCall => k.p \in Proposals,
           UNCHANGED <<created, day, triggers, apart>>,
           store' \in [Proposals -> [status : {"open", "scheduled", "run", "dismissed"},
                                     trigger : 0 .. created]],
           ~ apart =>
             /\ k # NoCall => CallInv(calls[c])'
             /\ \A t \in 1 .. created : Armed(triggers, t) =>
                  store'[triggers[t].of] = [status |-> "scheduled", trigger |-> t]
    PROVE  PluginInv' /\ ArmedInv'
<1>1. c \in Working /\ created <= created' /\ day <= day' /\ k.id \in 0 .. created'
  BY Parts, HandledCall
<1>2. store' \in [Proposals -> [status : {"open", "scheduled", "run", "dismissed"},
                                trigger : 0 .. created']]
  OBVIOUS
<1>3. PluginInv /\ ClockInv /\ ArmedInv
  BY Parts
<1>4. PluginInv'
  BY <1>1, <1>2, <1>3, CallTyped, Zenon
<1>5. ASSUME ~ apart, NEW t \in 1 .. created', Armed(triggers', t)
      PROVE  store'[triggers'[t].of] = [status |-> "scheduled", trigger |-> t]
  BY <1>5
<1>6. ArmedInv'
  BY <1>1, <1>3, <1>5, CallMoves
<1> QED BY <1>4, <1>6

\* unschedule asks for the trigger of a proposal that is scheduled.
LEMMA CancelsStep ==
    ASSUME IInv, ClockInv', NEW c \in 1..MaxCalls, calls[c].at \notin {"none", "created"},
           Cancels(c, store'), UNCHANGED <<created, day, triggers, apart>>,
           store' \in [Proposals -> [status : {"open", "scheduled", "run", "dismissed"},
                                     trigger : 0 .. created]],
           ~ apart => \A t \in 1 .. created : Armed(triggers, t) =>
             store'[triggers[t].of] = [status |-> "scheduled", trigger |-> t]
    PROVE  PluginInv' /\ ArmedInv'
<1> DEFINE q == calls[c]
<1>1. /\ c \in Working /\ DOMAIN q = {"fn", "p", "at", "saw", "id"}
      /\ q.p \in Proposals
      /\ DOMAIN NoCall = {"fn", "p", "at", "saw", "id"} /\ NoCall.id \in 0 .. created
  BY Parts, HandledCall
<1>2. CASE q.fn = "unschedule" /\ store'[q.p].status = "scheduled"
  <2> DEFINE id == store'[q.p].trigger
             k == [q EXCEPT !.at = "delete", !.saw = <<>>, !.id = id]
  <2>1. calls' = [calls EXCEPT ![c] = k]
    BY <1>2 DEF Cancels
  <2>2. /\ DOMAIN k = {"fn", "p", "at", "saw", "id"} /\ k.at = "delete" /\ k.p = q.p /\ k.id = id
    BY <1>1
  <2> HIDE DEF k
  <2>3. k.id \in 0 .. created /\ (k # NoCall => k.p \in Proposals)
    BY <1>1, <2>2
  <2>4. calls'[c] = k
    BY <2>1, Parts DEF PluginInv
  <2>5. CallInv(calls[c])'
    BY <1>2, <2>2, <2>4 DEF CallInv
  <2> QED BY <1>1, <2>1, <2>2, <2>3, <2>5, Answered
<1>3. CASE ~ (q.fn = "unschedule" /\ store'[q.p].status = "scheduled")
  <2>1. calls' = [calls EXCEPT ![c] = NoCall]
    BY <1>3 DEF Cancels, Ends
  <2> QED BY <1>1, <2>1, Answered
<1> QED BY <1>2, <1>3

LEMMA ResumeStep ==
    ASSUME IInv, NEW c \in 1..MaxCalls, Resume(c) PROVE IInv'
<1> DEFINE q == calls[c]
           p == q.p
           Rows == [status : {"open", "scheduled", "run", "dismissed"}, trigger : 0 .. created]
<1>1. /\ UNCHANGED <<kernel, day>> /\ UNCHANGED <<created, day, triggers, apart>>
      /\ q.at # "none"
  BY DEF Resume, kernel
<1>2. ClockInv' /\ StoreInv' /\ TickInv' /\ DrainInv' /\ CapInv'
  BY <1>1, KernelSame
<1>3. /\ c \in Working /\ p \in Proposals /\ q.id \in 0 .. created
      /\ DOMAIN NoCall = {"fn", "p", "at", "saw", "id"} /\ NoCall.id \in 0 .. created
  BY <1>1, HandledCall, Parts
<1>4. store \in [Proposals -> Rows] /\ created \in Nat /\ PluginInv /\ ArmedInv
  BY Parts DEF PluginInv
<1>5. ASSUME ~ apart
      PROVE  /\ CallInv(q)
             /\ \A t \in 1 .. created : Armed(triggers, t) =>
                  \/ store[triggers[t].of] = [status |-> "scheduled", trigger |-> t]
                  \/ q.at = "created" /\ q.id = t /\ p = triggers[t].of
  BY <1>3, <1>4, <1>5, OnlyCall
<1>6. \A t \in 1 .. created : Armed(triggers, t) => triggers[t].of \in Proposals
  BY Parts DEF StoreInv, Armed
<1>7. CASE q.at = "created"
  <2> DEFINE r == [status |-> "scheduled", trigger |-> q.id]
  <2>1. /\ store' = IF store[p].status # "open" THEN store ELSE [store EXCEPT ![p] = r]
        /\ calls' = [calls EXCEPT ![c] = NoCall]
    BY <1>7 DEF Resume, Ends
  <2>2. r \in Rows
    BY <1>3
  <2> HIDE DEF r
  <2>3. store' \in [Proposals -> Rows]
    BY <1>4, <2>1, <2>2
  <2>4. ASSUME ~ apart, NEW t \in 1 .. created, Armed(triggers, t)
        PROVE  store'[triggers[t].of] = [status |-> "scheduled", trigger |-> t]
    <3>1. store[p].status = "open"
      BY <1>5, <1>7, <2>4 DEF CallInv
    <3>2. store' = [store EXCEPT ![p] = r]
      BY <2>1, <3>1
    <3>3. CASE q.id = t /\ p = triggers[t].of
      BY <1>3, <1>4, <3>2, <3>3 DEF r
    <3>4. CASE store[triggers[t].of] = [status |-> "scheduled", trigger |-> t]
      BY <1>3, <2>4, <3>1, <3>2, <3>4, OthersScheduled
    <3> QED BY <1>5, <2>4, <3>3, <3>4
  <2>5. PluginInv' /\ ArmedInv'
    BY <1>1, <1>2, <1>3, <2>1, <2>3, <2>4, Answered
  <2> QED BY <1>2, <2>5 DEF IInv, TypeInv
<1>8. CASE q.at = "synced"
  <2>1. store' = Reconciled(store, q.saw) /\ Cancels(c, store')
    BY <1>8 DEF Resume
  <2>2. store' \in [Proposals -> Rows]
    BY <1>4, <2>1, ReconciledTyped
  <2>3. ASSUME ~ apart, NEW t \in 1 .. created, Armed(triggers, t)
        PROVE  store'[triggers[t].of] = [status |-> "scheduled", trigger |-> t]
    <3>1. store[triggers[t].of] = [status |-> "scheduled", trigger |-> t]
      BY <1>5, <1>8, <2>3
    <3>2. Armed(q.saw, t)
      BY <1>5, <1>8, <2>3 DEF CallInv
    <3>3. triggers[t].of \in Proposals
      BY <1>6, <2>3
    <3>4. Reconciled(store, q.saw)[triggers[t].of] = store[triggers[t].of]
      BY <3>1, <3>2, <3>3, ReconciledArmed
    <3> QED BY <2>1, <3>1, <3>4
  <2>4. PluginInv' /\ ArmedInv'
    BY <1>1, <1>2, <1>8, <2>1, <2>2, <2>3, CancelsStep
  <2> QED BY <1>2, <2>4 DEF IInv, TypeInv
<1>9. CASE q.at = "unsynced"
  <2>1. store' = store /\ Cancels(c, store)
    BY <1>9 DEF Resume
  <2>2. Cancels(c, store')
    BY <2>1 DEF Cancels, Ends
  <2>3. store' \in [Proposals -> Rows]
    BY <1>4, <2>1
  <2>4. ASSUME ~ apart, NEW t \in 1 .. created, Armed(triggers, t)
        PROVE  store'[triggers[t].of] = [status |-> "scheduled", trigger |-> t]
    BY <1>5, <1>9, <2>1, <2>4
  <2>5. PluginInv' /\ ArmedInv'
    BY <1>1, <1>2, <1>9, <2>2, <2>3, <2>4, CancelsStep
  <2> QED BY <1>2, <2>5 DEF IInv, TypeInv
<1>10. CASE q.at \in {"deleted", "kept"}
  <2>1. /\ store' = IF q.at = "deleted" /\ store[p].status = "scheduled"
                    THEN [store EXCEPT ![p] = Open] ELSE store
        /\ calls' = [calls EXCEPT ![c] = NoCall]
    BY <1>10 DEF Resume, Ends, Cancelled
  <2>2. store' \in [Proposals -> Rows]
    <3>1. Open \in Rows
      BY <1>4 DEF Open
    <3> HIDE DEF Rows
    <3> QED BY <1>4, <2>1, <3>1
  <2>3. ASSUME ~ apart, NEW t \in 1 .. created, Armed(triggers, t)
        PROVE  store'[triggers[t].of] = [status |-> "scheduled", trigger |-> t]
    <3>1. store[triggers[t].of] = [status |-> "scheduled", trigger |-> t]
      BY <1>5, <1>10, <2>3
    <3>2. CASE q.at = "deleted" /\ store[p].status = "scheduled"
      <4>1. store[p].trigger = q.id /\ q.id \notin DOMAIN triggers
        BY <1>5, <2>3, <3>2 DEF CallInv
      <4>2. store[p].trigger # t
        BY <2>3, <4>1 DEF Armed
      <4>3. store' = [store EXCEPT ![p] = Open]
        BY <2>1, <3>2
      <4> QED BY <1>3, <2>3, <3>1, <4>2, <4>3, OthersScheduled
    <3>3. CASE ~ (q.at = "deleted" /\ store[p].status = "scheduled")
      BY <2>1, <3>1, <3>3
    <3> QED BY <3>2, <3>3
  <2>4. PluginInv' /\ ArmedInv'
    BY <1>1, <1>2, <1>3, <2>1, <2>2, <2>3, Answered
  <2> QED BY <1>2, <2>4 DEF IInv, TypeInv
<1>11. CASE q.at = "refused"
  <2>1. /\ store' = [store EXCEPT ![p] = [store[p] EXCEPT !.status = "open"]]
        /\ calls' = [calls EXCEPT ![c] = NoCall]
    BY <1>11 DEF Resume, Ends
  <2>2. store' \in [Proposals -> Rows]
    BY <1>3, <1>4, <2>1
  <2>3. ASSUME ~ apart, NEW t \in 1 .. created, Armed(triggers, t)
        PROVE  store'[triggers[t].of] = [status |-> "scheduled", trigger |-> t]
    <3>1. store[triggers[t].of] = [status |-> "scheduled", trigger |-> t]
      BY <1>5, <1>11, <2>3
    <3>2. store[p].status # "scheduled"
      BY <1>5, <1>11, <2>3 DEF CallInv
    <3> QED BY <1>3, <2>1, <2>3, <3>1, <3>2, OthersScheduled
  <2>4. PluginInv' /\ ArmedInv'
    BY <1>1, <1>2, <1>3, <2>1, <2>2, <2>3, Answered
  <2> QED BY <1>2, <2>4 DEF IInv, TypeInv
<1> QED BY <1>7, <1>8, <1>9, <1>10, <1>11 DEF Resume

LEMMA StepIInv ==
    ASSUME IInv, [Next]_vars PROVE IInv'
<1>1. CASE UNCHANGED vars
  BY <1>1, Stutters
<1>2. CASE Tick \/ WebhookFires
  BY <1>2, ClockStep
<1>3. CASE Run
  BY <1>3, RunStep
<1>4. CASE Operator
  BY <1>4, OperatorStep
<1>5. CASE Ask
  BY <1>5, AskStep
<1>6. CASE Dismiss
  BY <1>6, DismissStep
<1>7. CASE NextDay
  BY <1>7, NextDayStep
<1>8. CASE Restart
  BY <1>8, RestartStep
<1>9. ASSUME NEW c \in 1..MaxCalls, Handle(c) PROVE IInv'
  BY <1>9, CreatesStep, ListsStep, DeletesStep, EnqueuesStep, ResumeStep DEF Handle
<1> QED BY <1>1, <1>2, <1>3, <1>4, <1>5, <1>6, <1>7, <1>8, <1>9 DEF Next

\* The inductive invariant holds of every state the system reaches.
THEOREM Invariant == Spec => []IInv
<1>1. Init => IInv
  BY InitIInv
<1>2. IInv /\ [Next]_vars => IInv'
  BY StepIInv
<1> QED BY <1>1, <1>2, PTL DEF Spec

\* Every variable keeps its type, the task under way is the head of the queue.
THEOREM TypeCorrect == Spec => []TypeOK
<1>1. IInv => TypeOK
  <2> SUFFICES ASSUME IInv PROVE TypeOK
    OBVIOUS
  <2>1. cfg \in [Settings -> BOOLEAN]
    BY Parts, Zenon DEF ClockInv
  <2>2. DOMAIN triggers \subseteq 1..created /\ {filed, late} \subseteq [0..MaxTriggers -> Nat]
    BY Parts DEF StoreInv, IsSnapshot
  <2>3. \A t \in DOMAIN triggers : triggers[t] \in Entry
    BY Parts DEF StoreInv, IsSnapshot
  <2>4. \A i \in DOMAIN queue : queue[i] \in Tasks
    BY Parts DEF DrainInv
  <2>5. run.at # "none" => queue # <<>> /\ run.task = Head(queue)
    BY Parts DEF DrainInv
  <2>6. run \in [at : Stages, steady : BOOLEAN, task : Tasks, checks : Verdicts] /\ pending \subseteq Tasks
        /\ shipped \subseteq Shipments
    BY Parts, Zenon DEF DrainInv
  <2>7. tick.at \in {"none", "error_spike", "advisor"} /\ tick.now \in 0..day
    <3>1. CASE tick.at = "none"
      BY <3>1, Parts DEF TickInv, Idle
    <3>2. CASE tick.at # "none"
      BY <3>2, Parts DEF TickInv, Polled
    <3> QED BY <3>1, <3>2
  <2>8. store \in [Proposals -> [status : {"open", "scheduled", "run", "dismissed"},
                                 trigger : 0..created]]
    BY Parts DEF PluginInv
  <2> QED BY <2>1, <2>2, <2>3, <2>4, <2>5, <2>6, <2>7, <2>8, Zenon
             DEF TypeOK, Entry, Tasks, Verdicts, Shipments
<1> QED BY <1>1, Invariant, PTL

\* The triggers there are file no more changes on a day than the cap allows,
\* and a pass that midnight came upon no more than that once again: what their
\* records count for today is what they filed, and what they count for the date
\* of the pass is at least what it filed late.
THEOREM CapCorrect == Spec => []CapHolds
<1>1. IInv => CapHolds
  <2> SUFFICES ASSUME IInv PROVE CapHolds
    OBVIOUS
  <2>1. /\ Counted(Stored(day)) /\ FiresToday(triggers, day) <= MaxPerDay
        /\ Total(LateOf(triggers, late)) <= MaxPerDay
    BY Parts DEF CapInv, Capped, Stored
  <2>2. \A t \in DOMAIN triggers :
          filed[t] = IF triggers[t].day = day THEN triggers[t].count ELSE 0
    BY <2>1 DEF Counted, Stored
  <2>3. LateOf(triggers, filed) = FiresOf(triggers, day)
    <3>1. LateOf(triggers, filed) \in Counts
      BY LateCounts, Parts DEF StoreInv
    <3>2. FiresOf(triggers, day) \in Counts
      BY FiresCounts, Parts DEF StoreInv
    <3>3. \A t \in 1 .. MaxTriggers :
            LateOf(triggers, filed)[t] = FiresOf(triggers, day)[t]
      BY <2>2 DEF LateOf, FiresOf
    <3> QED BY <3>1, <3>2, <3>3, SameCounts
  <2>4. /\ ByTriggers(filed) = Total(LateOf(triggers, filed))
        /\ ByTriggers(late) = Total(LateOf(triggers, late))
        /\ FiresToday(triggers, day) = Total(FiresOf(triggers, day))
    BY DEF ByTriggers, LateOf, FiresToday, FiresOf
  <2> QED BY <2>1, <2>3, <2>4 DEF CapHolds
<1> QED BY <1>1, Invariant, PTL

\* While the plugin's requests do not overlap and none is cut, a one-shot that
\* is still to fire has a proposal that is scheduled by it.
THEOREM ArmedCorrect == Spec => []ArmedIsScheduled
<1>1. IInv => ArmedIsScheduled
  <2> SUFFICES ASSUME IInv, ~ apart, Working = {}, NEW t \in DOMAIN triggers,
                      triggers[t].once, triggers[t].day = 0
               PROVE  store[triggers[t].of] = [status |-> "scheduled", trigger |-> t]
    BY Zenon DEF ArmedIsScheduled
  <2>1. Armed(triggers, t)
    BY Zenon DEF Armed
  <2>2. t \in 1 .. created
    BY Parts DEF StoreInv, IsSnapshot
  <2> QED BY <2>1, <2>2, Parts DEF ArmedInv
<1> QED BY <1>1, Invariant, PTL
=============================================================================
