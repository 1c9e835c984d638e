------------------------- MODULE VersionsViewProofs -------------------------
(***************************************************************************)
(* For every history, page size, number of calls and bound: what the tab    *)
(* holds is of its types, and once its calls have come to rest, nobody else *)
(* having changed the history and no two of them having overlapped since it *)
(* last read everything, it shows the kernel's history.                     *)
(*                                                                          *)
(* The tab keeps what it read and reads it again in pieces, so the          *)
(* invariant says of the one call under way which pieces are up to date     *)
(* where it stands (Tracks): an operation on its way leaves all of them so, *)
(* one that was answered only those it does not read again, and a load      *)
(* holds a prefix of the listing that grows page by page.                   *)
(***************************************************************************)
EXTENDS VersionsView, FiniteSetTheorems, SequenceTheorems, WellFoundedInduction, TLAPS

Fields == {"fn", "at", "op", "off", "all", "saw", "ok", "live"}
OfLines == {"respawn", "line_promote", "line_delete"}
OfVersions == {"preview", "approve", "reject", "revert", "reapply", "rollback_to",
               "preview_promote", "stop"}

\* An operation is about a line, a version, or neither.
OpOK(op) ==
    \/ op.kind \in OfVersions /\ op.arg \in 1..MaxVersions
    \/ op.kind \in OfLines /\ op.arg \in Lines
    \/ op.kind \in {"rollback", "label"}

CallOK(call) ==
    /\ DOMAIN call = Fields
    /\ call.fn \in {"none", "graph", "list"}
    /\ call.at \in {"none", "post", "versions", "rest"}
    /\ call.at = "none" => call = Idle
    /\ call.op # <<>> => OpOK(call.op[1])
    /\ call.off \in Nat
    /\ call.all \in Seq(Rows) /\ Len(call.all) < GraphCap
    /\ call.saw # <<>> => IsKernel(call.saw[1])
    /\ call.ok \in BOOLEAN /\ call.live \in BOOLEAN
    /\ call.at = "post" => call.op # <<>> /\ call.off = 0 /\ call.all = <<>>

CallsOK ==
    /\ DOMAIN calls = 1..MaxCalls
    /\ \A c \in 1..MaxCalls : CallOK(calls[c])

ListedOK ==
    /\ rows \in Seq(Rows) /\ total \in 0..MaxVersions /\ pending \subseteq 1..MaxVersions
    /\ shown \in [tip : [Lines -> 0..MaxVersions], previews : SUBSET (1..MaxVersions \cup Lines)]

AppOK ==
    /\ view \in {"graph", "list"} /\ tab \in {"versions", "other"}
    /\ {busy, reconnecting, apart, lost} \subseteq BOOLEAN
    /\ tab = "other" => rows = <<>> /\ ~ busy
    /\ Len(composer) <= 1

\* Whose tab was left has nothing to show.
LiveHere == \A c \in 1..MaxCalls : calls[c].live => tab = "versions"

TypeInv == IsKernel(kernel) /\ ListedOK /\ AppOK /\ CallsOK /\ LiveHere

\* The newest n of a history.
Newest(k, n) == SubSeq(Listing(k), 1, n)

\* The list is a prefix of it, and long enough for the view.
ListUpToDate(k, rs, t, v) ==
    /\ rs = Newest(k, Len(rs)) /\ Len(rs) <= Count(k)
    /\ Len(rs) >= Min({Count(k), IF v = "graph" THEN GraphCap ELSE Page})
    /\ t = Count(k)

RestUpToDate(k, p, s) ==
    p = k.held /\ s = [tip |-> k.tip, previews |-> k.previews]

UpToDate == ListUpToDate(kernel, rows, total, view) /\ RestUpToDate(kernel, pending, shown)

\* What an operation leaves as it was is what it does not read again.
PostTracks(call) ==
    LET again == IF call.saw = <<>> THEN "nothing" ELSE ReadsAgain(call.op[1], call.ok)
    IN  /\ again # "versions" => ListUpToDate(kernel, rows, total, view)
        /\ again = "nothing" => RestUpToDate(kernel, pending, shown)

\* A load has read a prefix of the listing.
LoadTracks(call) ==
    IF call.fn = "graph"
    THEN call.off = Len(call.all) /\ call.off <= Count(kernel)
         /\ call.all = Newest(kernel, call.off)
    ELSE call.off # 0 => call.off = Len(rows) /\ ListUpToDate(kernel, rows, total, view)

Tracks(call) ==
    /\ call.live
    /\ call.saw # <<>> => call.saw[1] = kernel
    /\ call.fn = view
    /\ call.at = "post" => PostTracks(call)
    /\ call.at = "versions" => LoadTracks(call)
    /\ call.at = "rest" => ListUpToDate(kernel, rows, total, view)

ViewInv ==
    ~ apart =>
        /\ \A c, d \in UnderWay : c = d
        /\ tab = "versions" => /\ UnderWay = {} => UpToDate
                               /\ \A c \in UnderWay : Tracks(calls[c])

\* The buttons are disabled by an operation on its way.
Disables(call) == call.at = "post" /\ call.live /\ call.op[1].kind # "label"

BusyInv == busy => lost \/ \E c \in 1..MaxCalls : Disables(calls[c])

IInv == TypeInv /\ ViewInv /\ BusyInv
-----------------------------------------------------------------------------
(* Numbers and slices. *)

LEMMA LeastNat ==
    ASSUME NEW T \in SUBSET Nat, T # {} PROVE Min(T) \in T
<1> DEFINE R == OpToRel(<, Nat)
<1>1. IsWellFoundedOn(R, Nat)
  BY NatLessThanWellFounded
<1>2. \A x, y \in Nat : x < y => <<x, y>> \in R
  BY DEF OpToRel
<1> HIDE DEF R
<1>3. PICK x \in T : \A y \in T : ~ (<<y, x>> \in R)
  BY <1>1, WFMin
<1>4. \A y \in T : ~ (y < x)
  BY <1>2, <1>3
<1>5. \A y \in T : x <= y
  BY <1>4
<1> QED BY <1>5 DEF Min

LEMMA MinOfTwo ==
    ASSUME NEW m \in Nat, NEW n \in Nat
    PROVE  Min({m, n}) = IF m <= n THEN m ELSE n
  BY DEF Min

LEMMA Membership ==
    ASSUME NEW x, NEW S PROVE (x \in S) \in {TRUE, FALSE}
<1>1. CASE x \in S
  <2>1. (x \in S) = TRUE
    BY <1>1, Zenon
  <2> QED BY <2>1, Zenon
<1>2. CASE ~ (x \in S)
  <2>1. (x \in S) = FALSE
    BY <1>2
  <2> QED BY <2>1, Zenon
<1> QED BY <1>1, <1>2

\* A history lists as many rows as it has versions.
LEMMA ListingIs ==
    ASSUME NEW k, IsKernel(k)
    PROVE  /\ Listing(k) \in Seq(Rows) /\ Len(Listing(k)) = Count(k)
           /\ Count(k) \in 0..MaxVersions /\ Count(k) \in Nat
<1>1. k.parent \in Seq(0..MaxVersions) /\ k.held \subseteq 1..MaxVersions
  BY DEF IsKernel
<1>2. Len(k.parent) \in Nat /\ Len(k.parent) <= MaxVersions /\ MaxVersions \in Nat
  BY <1>1, VersionsAssumption DEF IsKernel, Count
<1>3. ASSUME NEW v \in 1..Len(k.parent) PROVE Row(k, v) \in Rows
  <2>1. v \in 1..MaxVersions /\ k.parent[v] \in 0..MaxVersions
    BY <1>1, <1>2
  <2> DEFINE p == k.parent[v]
             onMain == v \in OnLine(k)
             held == v \in k.held
  <2>2. onMain \in {TRUE, FALSE} /\ held \in {TRUE, FALSE}
    BY Membership, Zenon
  <2>3. Row(k, v) = [sha |-> v, parent |-> p, onMain |-> onMain, held |-> held]
    BY DEF Row
  <2>4. p \in 0..MaxVersions
    BY <2>1
  <2> HIDE DEF p, onMain, held
  <2>5. onMain \in BOOLEAN /\ held \in BOOLEAN
    BY <2>2, Zenon
  <2>6. [sha |-> v, parent |-> p, onMain |-> onMain, held |-> held]
          \in [sha : 1..MaxVersions, parent : 0..MaxVersions, onMain : BOOLEAN, held : BOOLEAN]
    BY <2>1, <2>4, <2>5, Zenon
  <2> QED BY <2>3, <2>6, Zenon DEF Rows
<1>4. \A i \in 1..Len(k.parent) : Len(k.parent) + 1 - i \in 1..Len(k.parent)
  BY <1>2
<1>5. \A i \in 1..Len(k.parent) : Row(k, Len(k.parent) + 1 - i) \in Rows
  BY <1>3, <1>4
<1>6. [i \in 1..Len(k.parent) |-> Row(k, Len(k.parent) + 1 - i)] \in Seq(Rows)
  BY <1>2, <1>5
<1>7. DOMAIN Listing(k) = 1..Len(k.parent)
  BY DEF Listing, Count
<1>8. Listing(k) \in Seq(Rows)
  BY <1>6 DEF Listing, Count
<1> QED BY <1>2, <1>7, <1>8 DEF Count

\* A prefix of the listing and the next slice make a longer prefix.
LEMMA SliceExtends ==
    ASSUME NEW k, IsKernel(k), NEW limit \in Nat \ {0}, NEW off \in Nat
    PROVE  /\ Slice(k, limit, off) \in Seq(Rows)
           /\ Len(Slice(k, limit, off)) <= limit
           /\ off >= Count(k) => Slice(k, limit, off) = <<>>
           /\ off <= Count(k) =>
                /\ off + Len(Slice(k, limit, off)) = Min({off + limit, Count(k)})
                /\ Newest(k, off) \o Slice(k, limit, off) = Newest(k, Min({off + limit, Count(k)}))
                /\ Newest(k, Min({off + limit, Count(k)})) \in Seq(Rows)
                /\ Len(Newest(k, Min({off + limit, Count(k)}))) = Min({off + limit, Count(k)})
<1> DEFINE s == Listing(k)
           n == Count(k)
           m == Min({off + limit, n})
           t == Slice(k, limit, off)
<1>1. s \in Seq(Rows) /\ Len(s) = n /\ n \in Nat
  BY ListingIs
<1>2. m = IF off + limit <= n THEN off + limit ELSE n
  <2>1. off + limit \in Nat /\ n \in Nat
    BY <1>1
  <2> HIDE DEF n
  <2> QED BY <2>1, MinOfTwo
<1>3. t = SubSeq(s, off + 1, m)
  BY DEF Slice
<1> HIDE DEF s, n, m, t
<1>4. m \in 0..n /\ m <= off + limit
  BY <1>1, <1>2
<1>5. \A i \in off + 1 .. m : s[i] \in Rows
  BY <1>1, <1>4
<1>6. t \in Seq(Rows) /\ Len(t) = IF off + 1 <= m THEN m - (off + 1) + 1 ELSE 0
  BY <1>3, <1>4, <1>5, SubSeqProperties
<1>7. Len(t) <= limit
  BY <1>4, <1>6
<1>8. off >= n => t = <<>>
  BY <1>1, <1>4, <1>3, SubSeqEmpty
<1>9. ASSUME off <= n
      PROVE  /\ off + Len(t) = m
             /\ SubSeq(s, 1, off) \o t = SubSeq(s, 1, m)
             /\ SubSeq(s, 1, m) \in Seq(Rows) /\ Len(SubSeq(s, 1, m)) = m
  <2>1. off + Len(t) = m
    BY <1>2, <1>6, <1>9, <1>1
  <2>2. off \in 0..Len(s) /\ m \in off..Len(s) /\ 1 \in 1..Len(s) + 1
    BY <1>1, <1>2, <1>9
  <2>3. off \in 1 - 1 .. Len(s)
    BY <2>2
  <2>4. SubSeq(s, 1, off) \o SubSeq(s, off + 1, m) = SubSeq(s, 1, m)
    BY <1>1, <2>2, <2>3, ConcatAdjacentSubSeq
  <2>5. \A i \in 1..m : s[i] \in Rows
    BY <1>1, <1>4
  <2>6. SubSeq(s, 1, m) \in Seq(Rows) /\ Len(SubSeq(s, 1, m)) = m
    BY <1>1, <1>4, <2>5, SubSeqProperties
  <2> QED BY <1>3, <2>1, <2>4, <2>6
<1> QED BY <1>6, <1>7, <1>8, <1>9 DEF s, n, m, t, Newest

\* The rows of a history depend on its versions, main and what is held.
LEMMA SameListing ==
    ASSUME NEW k, NEW j, j.parent = k.parent, j.main = k.main, j.held = k.held
    PROVE  Listing(j) = Listing(k) /\ Count(j) = Count(k)
<1>1. Count(j) = Count(k) /\ OnLine(j) = OnLine(k)
  BY DEF Count, OnLine
<1>2. \A v : Row(j, v) = Row(k, v)
  BY <1>1 DEF Row
<1> QED BY <1>1, <1>2 DEF Listing

-----------------------------------------------------------------------------
(* The kernel: its operations leave a history. *)

\* A field of a history is set.
LEMMA SetTyped ==
    ASSUME NEW k, IsKernel(k)
    PROVE  /\ \A x \in SUBSET (1..MaxVersions) : IsKernel([k EXCEPT !.held = x])
           /\ \A x \in [Lines -> 0..MaxVersions] : IsKernel([k EXCEPT !.tip = x])
           /\ \A x \in SUBSET (1..MaxVersions \cup Lines) : IsKernel([k EXCEPT !.previews = x])
           /\ \A x \in 1..MaxVersions : IsKernel([k EXCEPT !.main = x])
           /\ \A x \in Seq(1..MaxVersions) : IsKernel([k EXCEPT !.undo = x])
           /\ \A x : IsKernel(Without(k, x))
<1>1. ASSUME NEW x \in SUBSET (1..MaxVersions) PROVE IsKernel([k EXCEPT !.held = x])
  <2> DEFINE j == [k EXCEPT !.held = x]
  <2>1. DOMAIN j = DOMAIN k /\ j.parent = k.parent /\ j.main = k.main /\ j.undo = k.undo
        /\ j.held = x /\ j.tip = k.tip /\ j.previews = k.previews
    BY DEF IsKernel
  <2> HIDE DEF j
  <2>2. IsKernel(j)
    BY <2>1 DEF IsKernel, Count
  <2> QED BY <2>2 DEF j
<1>2. ASSUME NEW x \in [Lines -> 0..MaxVersions] PROVE IsKernel([k EXCEPT !.tip = x])
  <2> DEFINE j == [k EXCEPT !.tip = x]
  <2>1. DOMAIN j = DOMAIN k /\ j.parent = k.parent /\ j.main = k.main /\ j.undo = k.undo
        /\ j.held = k.held /\ j.tip = x /\ j.previews = k.previews
    BY DEF IsKernel
  <2> HIDE DEF j
  <2>2. IsKernel(j)
    BY <2>1 DEF IsKernel, Count
  <2> QED BY <2>2 DEF j
<1>3. ASSUME NEW x \in SUBSET (1..MaxVersions \cup Lines) PROVE IsKernel([k EXCEPT !.previews = x])
  <2> DEFINE j == [k EXCEPT !.previews = x]
  <2>1. DOMAIN j = DOMAIN k /\ j.parent = k.parent /\ j.main = k.main /\ j.undo = k.undo
        /\ j.held = k.held /\ j.tip = k.tip /\ j.previews = x
    BY DEF IsKernel
  <2> HIDE DEF j
  <2>2. IsKernel(j)
    BY <2>1 DEF IsKernel, Count
  <2> QED BY <2>2 DEF j
<1>4. ASSUME NEW x \in 1..MaxVersions PROVE IsKernel([k EXCEPT !.main = x])
  <2> DEFINE j == [k EXCEPT !.main = x]
  <2>1. DOMAIN j = DOMAIN k /\ j.parent = k.parent /\ j.main = x /\ j.undo = k.undo
        /\ j.held = k.held /\ j.tip = k.tip /\ j.previews = k.previews
    BY DEF IsKernel
  <2> HIDE DEF j
  <2>2. IsKernel(j)
    BY <2>1 DEF IsKernel, Count
  <2> QED BY <2>2 DEF j
<1>5. ASSUME NEW x \in Seq(1..MaxVersions) PROVE IsKernel([k EXCEPT !.undo = x])
  <2> DEFINE j == [k EXCEPT !.undo = x]
  <2>1. DOMAIN j = DOMAIN k /\ j.parent = k.parent /\ j.main = k.main /\ j.undo = x
        /\ j.held = k.held /\ j.tip = k.tip /\ j.previews = k.previews
    BY DEF IsKernel
  <2> HIDE DEF j
  <2>2. IsKernel(j)
    BY <2>1 DEF IsKernel, Count
  <2> QED BY <2>2 DEF j
<1>6. ASSUME NEW x PROVE IsKernel(Without(k, x))
  <2>1. k.previews \ {x} \in SUBSET (1..MaxVersions \cup Lines)
    BY DEF IsKernel
  <2>2. Without(k, x) = [k EXCEPT !.previews = k.previews \ {x}]
    BY DEF Without
  <2> QED BY <1>3, <2>1, <2>2
<1> QED BY <1>1, <1>2, <1>3, <1>4, <1>5, <1>6

\* A version goes live, by an approval or otherwise.
LEMMA PromotedTyped ==
    ASSUME NEW k, IsKernel(k), NEW v \in 1..MaxVersions
    PROVE  IsKernel(Promoted(k, v)) /\ IsKernel(Rebooted(k, v))
<1> DEFINE u == IF v = k.main \/ (k.undo # <<>> /\ Last(k.undo) = k.main)
                THEN k.undo ELSE Append(k.undo, k.main)
           h == k.held \ {v}
           a == [k EXCEPT !.main = v]
           b == [a EXCEPT !.undo = u]
<1>1. /\ k.undo \in Seq(1..MaxVersions) /\ k.main \in 1..MaxVersions
      /\ k.held \in SUBSET (1..MaxVersions)
  BY DEF IsKernel
<1>2. Append(k.undo, k.main) \in Seq(1..MaxVersions)
  BY <1>1, AppendProperties
<1>3. u \in Seq(1..MaxVersions)
  BY <1>1, <1>2
<1>4. h \in SUBSET (1..MaxVersions)
  BY <1>1
<1>5. Promoted(k, v) = [k EXCEPT !.main = v, !.undo = u, !.held = h]
  BY DEF Promoted
<1> HIDE DEF u, h
<1>6. Promoted(k, v) = [b EXCEPT !.held = h]
  BY <1>5, Zenon
<1>7. IsKernel(a)
  BY SetTyped
<1> HIDE DEF a
<1>8. IsKernel(b)
  BY <1>3, <1>7, SetTyped
<1> HIDE DEF b
<1>9. IsKernel(Promoted(k, v))
  BY <1>4, <1>6, <1>8, SetTyped
<1>10. IsKernel(Rebooted(k, v))
  BY <1>1, <1>9, SetTyped DEF Rebooted
<1> QED BY <1>9, <1>10

\* A new version, made from another.
LEMMA CommittedTyped ==
    ASSUME NEW k, IsKernel(k), Count(k) # MaxVersions, NEW base \in 0..MaxVersions
    PROVE  /\ IsKernel(Committed(k, base))
           /\ Count(Committed(k, base)) = Count(k) + 1
           /\ Count(k) + 1 \in 1..MaxVersions
           /\ Committed(k, base).held = k.held /\ Committed(k, base).tip = k.tip
<1> DEFINE q == Append(k.parent, base)
           n == Len(k.parent)
           j == [k EXCEPT !.parent = q]
<1>1. k.parent \in Seq(0..MaxVersions) /\ n <= MaxVersions
  BY DEF IsKernel, Count
<1>2. n \in Nat /\ MaxVersions \in Nat /\ n # MaxVersions
  BY <1>1, VersionsAssumption DEF Count
<1>3. q \in Seq(0..MaxVersions) /\ Len(q) = n + 1
  BY <1>1, AppendProperties
<1>4. Committed(k, base) = j
  BY DEF Committed
<1> HIDE DEF q
<1>5. /\ DOMAIN j = DOMAIN k /\ j.parent = q /\ j.main = k.main /\ j.undo = k.undo
      /\ j.held = k.held /\ j.tip = k.tip /\ j.previews = k.previews
  BY DEF IsKernel
<1> HIDE DEF j
<1>6. n + 1 \in 1..MaxVersions
  BY <1>1, <1>2
<1>7. IsKernel(j)
  <2>1. Len(q) <= MaxVersions
    BY <1>3, <1>6
  <2> QED BY <1>3, <1>5, <2>1 DEF IsKernel, Count
<1> QED BY <1>3, <1>4, <1>5, <1>6, <1>7 DEF Count

LEMMA MaxIsNat == MaxVersions \in Nat /\ Page \in Nat /\ GraphCap \in Nat /\ GraphLimit \in Nat
  BY VersionsAssumption

LEMMA LastAndFront ==
    ASSUME NEW S, NEW s \in Seq(S), s # <<>> PROVE Last(s) \in S /\ Front(s) \in Seq(S)
<1>1. Len(s) \in Nat /\ Len(s) # 0 /\ \A i \in 1..Len(s) : s[i] \in S
  OBVIOUS
<1>2. Last(s) \in S
  BY <1>1 DEF Last
<1>3. \A i \in 1..Len(s) - 1 : s[i] \in S
  BY <1>1
<1>4. SubSeq(s, 1, Len(s) - 1) \in Seq(S)
  BY <1>1, <1>3, SubSeqProperties
<1> QED BY <1>2, <1>4 DEF Front

LEMMA TipSet ==
    ASSUME NEW f \in [Lines -> 0..MaxVersions], NEW l, NEW v \in 0..MaxVersions
    PROVE  [f EXCEPT ![l] = v] \in [Lines -> 0..MaxVersions]
  OBVIOUS

\* A git operation builds a version on main.
LEMMA BuiltTyped ==
    ASSUME NEW k, IsKernel(k), NEW k2 \in Built(k) PROVE IsKernel(k2)
<1> DEFINE c == Committed(k, k.main)
<1>1. Count(k) # MaxVersions /\ k2 \in {Promoted(c, Count(c)), c}
  BY DEF Built
<1>2. k.main \in 0..MaxVersions
  BY MaxIsNat DEF IsKernel
<1>3. IsKernel(c) /\ Count(c) \in 1..MaxVersions
  BY <1>1, <1>2, CommittedTyped
<1> HIDE DEF c
<1>4. IsKernel(Promoted(c, Count(c)))
  BY <1>3, PromotedTyped
<1> QED BY <1>1, <1>3, <1>4

\* What an operation may do leaves a history.
LEMMA EffectTyped ==
    ASSUME NEW k, IsKernel(k), NEW op, OpOK(op), NEW k2 \in Effects(k, op)
    PROVE  IsKernel(k2)
<1> DEFINE x == op.arg
<1>1. /\ k.main \in 1..MaxVersions /\ k.undo \in Seq(1..MaxVersions)
      /\ k.held \in SUBSET (1..MaxVersions) /\ k.tip \in [Lines -> 0..MaxVersions]
      /\ k.previews \in SUBSET (1..MaxVersions \cup Lines)
  BY DEF IsKernel
<1>2. CASE op.kind = "approve"
  <2>1. k2 = Promoted(k, x) /\ x \in 1..MaxVersions
    BY <1>2, <1>1 DEF Effects
  <2> QED BY <2>1, PromotedTyped
<1>3. CASE op.kind = "reject"
  <2>1. k2 = [k EXCEPT !.held = k.held \ {x}] /\ k.held \ {x} \in SUBSET (1..MaxVersions)
    BY <1>3, <1>1 DEF Effects
  <2> QED BY <2>1, SetTyped
<1>4. CASE op.kind = "rollback_to"
  <2>1. k2 = Rebooted(k, x) /\ x \in 1..MaxVersions
    BY <1>4 DEF Effects, OpOK, OfVersions, OfLines
  <2> QED BY <2>1, PromotedTyped
<1>5. CASE op.kind = "rollback"
  <2> DEFINE l == Last(k.undo)
             f == Front(k.undo)
             a == [k EXCEPT !.main = l]
  <2>1. k.undo # <<>> /\ k2 = [k EXCEPT !.main = l, !.undo = f]
    BY <1>5 DEF Effects
  <2>3. l \in 1..MaxVersions /\ f \in Seq(1..MaxVersions)
    BY <1>1, <2>1, LastAndFront
  <2> HIDE DEF l, f
  <2>5. k2 = [a EXCEPT !.undo = f]
    BY <2>1, Zenon
  <2>6. IsKernel(a)
    BY <2>3, SetTyped
  <2> HIDE DEF a
  <2> QED BY <2>3, <2>5, <2>6, SetTyped
<1>6. CASE op.kind \in {"revert", "reapply"}
  <2>1. k2 \in Built(k)
    BY <1>6 DEF Effects
  <2> QED BY <2>1, BuiltTyped
<1>7. CASE op.kind = "preview"
  <2>1. k2 = [k EXCEPT !.previews = k.previews \cup {x}] /\ x \in 1..MaxVersions
    BY <1>7 DEF Effects, OpOK, OfVersions, OfLines
  <2>2. k.previews \cup {x} \in SUBSET (1..MaxVersions \cup Lines)
    BY <1>1, <2>1
  <2> QED BY <2>1, <2>2, SetTyped
<1>8. CASE op.kind = "respawn"
  <2>1. k2 = [k EXCEPT !.previews = k.previews \cup {x}] /\ x \in Lines
    BY <1>8 DEF Effects, OpOK, OfVersions, OfLines
  <2>2. k.previews \cup {x} \in SUBSET (1..MaxVersions \cup Lines)
    BY <1>1, <2>1
  <2> QED BY <2>1, <2>2, SetTyped
<1>9. CASE op.kind = "stop"
  <2>1. k2 = Without(k, x)
    BY <1>9 DEF Effects
  <2> QED BY <2>1, SetTyped
<1>10. CASE op.kind = "preview_promote"
  <2>1. /\ x \in 1..MaxVersions
        /\ k2 = Without(IF x \in k.held THEN Promoted(k, x) ELSE Rebooted(k, x), x)
    BY <1>10 DEF Effects, OpOK, OfVersions, OfLines
  <2>2. IsKernel(Promoted(k, x)) /\ IsKernel(Rebooted(k, x))
    BY <2>1, PromotedTyped
  <2> QED BY <2>1, <2>2, SetTyped
<1>11. CASE op.kind = "line_promote"
  <2>1. /\ x \in Lines /\ k.tip[x] # 0
        /\ k2 = IF k.tip[x] = k.main THEN k ELSE Without(Rebooted(k, k.tip[x]), x)
    BY <1>11 DEF Effects, OpOK, OfVersions, OfLines
  <2>2. k.tip[x] \in 1..MaxVersions
    BY <1>1, <2>1, MaxIsNat
  <2>3. IsKernel(Rebooted(k, k.tip[x]))
    BY <2>2, PromotedTyped
  <2> QED BY <2>1, <2>3, SetTyped
<1>12. CASE op.kind = "line_delete"
  <2> DEFINE t == [k.tip EXCEPT ![x] = 0]
             j == [k EXCEPT !.tip = t]
  <2>1. x \in Lines /\ k2 = Without([k EXCEPT !.tip[x] = 0], x)
    BY <1>12 DEF Effects, OpOK, OfVersions, OfLines
  <2>2. [k EXCEPT !.tip[x] = 0] = j
    BY DEF IsKernel
  <2>3. t \in [Lines -> 0..MaxVersions]
    <3>1. 0 \in 0..MaxVersions
      BY MaxIsNat
    <3> QED BY <1>1, <3>1, TipSet
  <2> HIDE DEF t
  <2>4. IsKernel(j)
    BY <2>3, SetTyped
  <2> HIDE DEF j
  <2> QED BY <2>1, <2>2, <2>4, SetTyped
<1>13. CASE op.kind = "label"
  <2>1. k2 = k
    BY <1>13 DEF Effects
  <2> QED BY <2>1
<1> QED BY <1>2, <1>3, <1>4, <1>5, <1>6, <1>7, <1>8, <1>9, <1>10, <1>11, <1>12, <1>13
       DEF OpOK, OfVersions, OfLines

\* What is not read again after an operation is as it was.
LEMMA OutcomeIs ==
    ASSUME NEW k, IsKernel(k), NEW op, OpOK(op), NEW o \in Outcomes(k, op)
    PROVE  /\ IsKernel(o.after) /\ o.ok \in BOOLEAN
           /\ ReadsAgain(op, o.ok) = "nothing" => o.after = k
           /\ ReadsAgain(op, o.ok) \in {"nothing", "rest"} =>
                 Listing(o.after) = Listing(k) /\ Count(o.after) = Count(k)
           /\ ReadsAgain(op, o.ok) \in {"nothing", "rest", "versions"}
<1>1. CASE o = [ok |-> FALSE, after |-> k]
  BY <1>1, Zenon DEF ReadsAgain
<1>2. CASE \E a \in Effects(k, op) :
              o = [ok |-> op.kind \notin {"revert", "reapply"} \/ a.main = Count(a), after |-> a]
  <2>1. PICK a \in Effects(k, op) :
           o = [ok |-> op.kind \notin {"revert", "reapply"} \/ a.main = Count(a), after |-> a]
    BY <1>2
  <2> DEFINE b == op.kind \notin {"revert", "reapply"} \/ a.main = Count(a)
  <2>2. o.after = a /\ o.ok = b /\ b \in BOOLEAN
    BY <2>1
  <2>3. IsKernel(a)
    BY EffectTyped
  <2>4. CASE op.kind = "stop"
    <3>1. o.after = [k EXCEPT !.previews = k.previews \ {op.arg}]
      BY <2>2, <2>4 DEF Effects, Without
    <3>2. o.after.parent = k.parent /\ o.after.main = k.main /\ o.after.held = k.held
      BY <3>1 DEF IsKernel
    <3>3. ReadsAgain(op, o.ok) = "rest"
      BY <2>4 DEF ReadsAgain
    <3> QED BY <2>2, <2>3, <3>2, <3>3, SameListing
  <2>5. CASE op.kind \in {"preview", "respawn"}
    <3>1. o.after = [k EXCEPT !.previews = k.previews \cup {op.arg}]
      BY <2>2, <2>5 DEF Effects
    <3>2. o.after.parent = k.parent /\ o.after.main = k.main /\ o.after.held = k.held
      BY <3>1 DEF IsKernel
    <3>3. o.ok
      BY <2>2, <2>5
    <3>4. ReadsAgain(op, o.ok) = "rest"
      BY <2>5, <3>3 DEF ReadsAgain
    <3> QED BY <2>2, <2>3, <3>2, <3>4, SameListing
  <2>6. CASE op.kind \notin {"stop", "preview", "respawn"}
    <3>1. ReadsAgain(op, o.ok) = "versions"
      BY <2>6 DEF ReadsAgain
    <3> QED BY <2>2, <2>3, <3>1
  <2> QED BY <2>4, <2>5, <2>6
<1> QED BY <1>1, <1>2 DEF Outcomes

-----------------------------------------------------------------------------
\* What other clients do leaves a history: their operations ...
LEMMA OtherOpTyped ==
    ASSUME NEW k, IsKernel(k), NEW op \in OtherOps(k), NEW k2 \in Effects(k, op)
    PROVE  IsKernel(k2)
<1>1. Count(k) \in Nat /\ Count(k) <= MaxVersions
  BY ListingIs DEF IsKernel
<1>2. 1..Count(k) \subseteq 1..MaxVersions
  BY <1>1, MaxIsNat
<1>3. \/ op.kind \in {"approve", "reject", "rollback_to"} /\ op.arg \in 1..Count(k)
      \/ op.kind = "rollback"
  BY DEF OtherOps, Op
<1>4. OpOK(op)
  BY <1>2, <1>3 DEF OpOK, OfVersions
<1> QED BY <1>4, EffectTyped

\* ... their changes ...
LEMMA ChangeTyped ==
    ASSUME NEW k, IsKernel(k), NEW k2 \in ChangeEffects(k) PROVE IsKernel(k2)
<1> DEFINE c == Committed(k, k.main)
           v == Count(k) + 1
<1>1. /\ k.main \in 0..MaxVersions /\ k.held \in SUBSET (1..MaxVersions)
      /\ k.tip \in [Lines -> 0..MaxVersions]
  BY MaxIsNat DEF IsKernel
<1>2. Count(k) # MaxVersions
  BY DEF ChangeEffects
<1>3. \/ k2 = Promoted(c, v) \/ k2 = [c EXCEPT !.held = c.held \cup {v}] \/ k2 = c
      \/ \E l \in Lines : k2 = [Committed(k, k.tip[l]) EXCEPT !.tip[l] = v]
  BY <1>2 DEF ChangeEffects
<1>4. IsKernel(c) /\ v \in 1..MaxVersions /\ c.held = k.held
  BY <1>1, <1>2, CommittedTyped
<1>5. ASSUME NEW l \in Lines PROVE IsKernel([Committed(k, k.tip[l]) EXCEPT !.tip[l] = v])
  <2> DEFINE d == Committed(k, k.tip[l])
             t == [d.tip EXCEPT ![l] = v]
  <2>1. k.tip[l] \in 0..MaxVersions
    BY <1>1
  <2>2. IsKernel(d) /\ d.tip = k.tip
    BY <1>2, <2>1, CommittedTyped
  <2>3. v \in 0..MaxVersions
    BY <1>4, MaxIsNat
  <2> HIDE DEF d, v
  <2>4. t \in [Lines -> 0..MaxVersions]
    BY <1>1, <2>2, <2>3, TipSet
  <2>5. [d EXCEPT !.tip[l] = v] = [d EXCEPT !.tip = t]
    BY <2>2 DEF IsKernel
  <2> HIDE DEF t
  <2>6. IsKernel([d EXCEPT !.tip[l] = v])
    BY <2>2, <2>4, <2>5, SetTyped
  <2> QED BY <2>6 DEF d
<1> HIDE DEF c, v
<1>6. c.held \cup {v} \in SUBSET (1..MaxVersions)
  BY <1>1, <1>4
<1>7. IsKernel([c EXCEPT !.held = c.held \cup {v}]) /\ IsKernel(Promoted(c, v))
  BY <1>4, <1>6, PromotedTyped, SetTyped
<1> QED BY <1>3, <1>4, <1>5, <1>7

\* ... and the lines they make.
LEMMA LineTyped ==
    ASSUME NEW k, IsKernel(k), NEW k2 \in LineEffects(k) PROVE IsKernel(k2)
<1>1. PICK l \in Lines : k2 = [k EXCEPT !.tip[l] = k.main, !.previews = k.previews \cup {l}]
  BY DEF LineEffects
<1> DEFINE t == [k.tip EXCEPT ![l] = k.main]
           p == k.previews \cup {l}
           j == [k EXCEPT !.tip = t]
           i == [k EXCEPT !.tip[l] = k.main]
<1>2. /\ k.main \in 0..MaxVersions /\ k.tip \in [Lines -> 0..MaxVersions]
      /\ k.previews \in SUBSET (1..MaxVersions \cup Lines)
  BY MaxIsNat DEF IsKernel
<1>3. t \in [Lines -> 0..MaxVersions]
  BY <1>2, TipSet
<1>4. p \in SUBSET (1..MaxVersions \cup Lines)
  BY <1>2
<1>5. i = j
  BY DEF IsKernel
<1>6. k2 = [i EXCEPT !.previews = p]
  BY <1>1, Zenon
<1> HIDE DEF t, p, i
<1>7. IsKernel(j)
  BY <1>3, SetTyped
<1> HIDE DEF j
<1> QED BY <1>4, <1>5, <1>6, <1>7, SetTyped

LEMMA OtherTyped ==
    ASSUME NEW k, IsKernel(k), NEW k2 \in OtherEffects(k) PROVE IsKernel(k2)
  BY OtherOpTyped, ChangeTyped, LineTyped DEF OtherEffects

-----------------------------------------------------------------------------
(* What the tab offers, and its calls. *)

\* Every operation the tab offers is about a version or a line there is.
LEMMA OfferedOK ==
    ASSUME ListedOK, NEW op \in Offered PROVE OpOK(op)
<1>1. /\ rows \in Seq(Rows) /\ pending \in SUBSET (1..MaxVersions)
      /\ shown.previews \in SUBSET (1..MaxVersions \cup Lines)
  BY DEF ListedOK
<1>2. ASSUME NEW r \in ToSet(rows), op \in OfferedInGraph(r) PROVE OpOK(op)
  <2>1. r.sha \in 1..MaxVersions
    <3>1. r \in Rows
      BY <1>1 DEF ToSet
    <3> QED BY <3>1 DEF Rows
  <2>2. \/ /\ op.kind \in {"preview", "revert", "reapply", "rollback_to", "approve", "reject"}
           /\ op.arg = r.sha
        \/ op.kind = "label"
    BY <1>2 DEF OfferedInGraph, OfferedOn, Op
  <2> QED BY <2>1, <2>2 DEF OpOK, OfVersions
<1>3. CASE \E r \in ToSet(rows) : op \in OfferedInGraph(r) \/ op \in OfferedOn(r)
  <2>1. \A r : OfferedOn(r) \subseteq OfferedInGraph(r)
    BY DEF OfferedInGraph
  <2> QED BY <1>2, <1>3, <2>1
<1>4. CASE op \in OfferedPending
  <2>1. op.kind \in {"preview", "approve", "reject"} /\ op.arg \in pending
    BY <1>4 DEF OfferedPending, Op
  <2> QED BY <1>1, <2>1 DEF OpOK, OfVersions
<1>5. CASE op \in OfferedLines
  <2>1. op.kind \in {"line_promote", "line_delete", "respawn"} /\ op.arg \in Lines
    BY <1>5 DEF OfferedLines, Op
  <2> QED BY <2>1 DEF OpOK, OfLines
<1>6. CASE op \in OfferedPreviews
  <2>1. op.kind \in {"preview_promote", "stop"} /\ op.arg \in shown.previews \ Lines
    BY <1>6 DEF OfferedPreviews, Op
  <2> QED BY <1>1, <2>1 DEF OpOK, OfVersions
<1>7. CASE op \in OfferedRollback
  <2>1. op.kind = "rollback"
    BY <1>7 DEF OfferedRollback, Op
  <2> QED BY <2>1 DEF OpOK
<1> QED BY <1>3, <1>4, <1>5, <1>6, <1>7 DEF Offered

(* Calls. *)

LEMMA IdleOK == CallOK(Idle)
<1>1. DOMAIN Idle = Fields /\ Idle.fn = "none" /\ Idle.at = "none" /\ Idle.op = <<>> /\ Idle.off = 0
      /\ Idle.all = <<>> /\ Idle.saw = <<>> /\ Idle.ok \in BOOLEAN /\ Idle.live \in BOOLEAN
  BY DEF Idle, Fields
<1>2. <<>> \in Seq(Rows) /\ Len(<<>>) = 0 /\ GraphCap > 0 /\ 0 \in Nat
  BY VersionsAssumption
<1>3. Len(<<>>) < GraphCap
  BY <1>2, VersionsAssumption
<1> HIDE DEF Idle
<1> QED BY <1>1, <1>2, <1>3 DEF CallOK

LEMMA IdleIs == Idle.at = "none"
  BY DEF Idle

\* A call is under way when it stands at an await.
LEMMA UnderWayIs ==
    ASSUME CallsOK
    PROVE  UnderWay = {c \in 1..MaxCalls : calls[c].at # "none"}
  BY IdleIs DEF CallsOK, CallOK, UnderWay

LEMMA UnderWayNext ==
    ASSUME CallsOK'
    PROVE  UnderWay' = {c \in 1..MaxCalls : calls'[c].at # "none"}
  BY IdleIs DEF CallsOK, CallOK, UnderWay

\* A call is replaced.
LEMMA CallSet ==
    ASSUME CallsOK, NEW c \in 1..MaxCalls, NEW call, CallOK(call),
           calls' = [calls EXCEPT ![c] = call]
    PROVE  CallsOK' /\ calls'[c] = call /\ \A d \in 1..MaxCalls \ {c} : calls'[d] = calls[d]
<1>1. DOMAIN calls = 1..MaxCalls /\ \A d \in 1..MaxCalls : CallOK(calls[d])
  BY DEF CallsOK
<1>2. DOMAIN calls' = 1..MaxCalls /\ calls'[c] = call
      /\ \A d \in 1..MaxCalls \ {c} : calls'[d] = calls[d]
  BY <1>1
<1>3. \A d \in 1..MaxCalls : CallOK(calls'[d])
  BY <1>1, <1>2
<1> QED BY <1>2, <1>3 DEF CallsOK

\* A call proceeds to its next await.
LEMMA ProceedsTo ==
    ASSUME CallsOK, NEW c \in UnderWay, NEW at \in {"versions", "rest"}, Proceeds(c, at)
    PROVE  /\ CallsOK'
           /\ \A d \in 1..MaxCalls \ {c} : calls'[d] = calls[d]
           /\ calls'[c].at = at /\ calls'[c].saw = <<>> /\ calls'[c].fn = calls[c].fn
           /\ calls'[c].op = calls[c].op /\ calls'[c].off = calls[c].off
           /\ calls'[c].all = calls[c].all /\ calls'[c].ok = calls[c].ok
           /\ calls'[c].live = calls[c].live
<1> DEFINE cs == [calls EXCEPT ![c].at = at]
           a == [calls[c] EXCEPT !.at = at]
           b == [a EXCEPT !.saw = <<>>]
<1>1. c \in 1..MaxCalls /\ DOMAIN calls = 1..MaxCalls /\ \A d \in 1..MaxCalls : CallOK(calls[d])
  BY DEF CallsOK, UnderWay
<1>2. DOMAIN calls[c] = Fields
  BY <1>1 DEF CallOK
<1>3. cs = [calls EXCEPT ![c] = a]
  BY <1>1, <1>2
<1>4. DOMAIN cs = 1..MaxCalls /\ cs[c] = a /\ \A d \in 1..MaxCalls \ {c} : cs[d] = calls[d]
  BY <1>1, <1>3
<1>5. /\ DOMAIN a = Fields /\ a.fn = calls[c].fn /\ a.at = at /\ a.op = calls[c].op
      /\ a.off = calls[c].off /\ a.all = calls[c].all /\ a.saw = calls[c].saw
      /\ a.ok = calls[c].ok /\ a.live = calls[c].live
  BY <1>2 DEF Fields
<1>6. calls' = [cs EXCEPT ![c].saw = <<>>]
  BY Zenon DEF Proceeds
<1> HIDE DEF cs, a
<1>7. calls' = [cs EXCEPT ![c] = b]
  BY <1>1, <1>4, <1>6
<1>8. /\ DOMAIN b = Fields /\ b.fn = calls[c].fn /\ b.at = at /\ b.op = calls[c].op
      /\ b.off = calls[c].off /\ b.all = calls[c].all /\ b.saw = <<>>
      /\ b.ok = calls[c].ok /\ b.live = calls[c].live
  BY <1>5 DEF Fields
<1> HIDE DEF b
<1>9. CallOK(b)
  BY <1>1, <1>8 DEF CallOK
<1>10. DOMAIN calls' = 1..MaxCalls /\ calls'[c] = b
       /\ \A d \in 1..MaxCalls \ {c} : calls'[d] = calls[d]
  BY <1>1, <1>4, <1>7
<1>11. CallsOK'
  BY <1>1, <1>9, <1>10 DEF CallsOK
<1> QED BY <1>8, <1>10, <1>11

\* An answer arrives: saw, and for an operation whether it was done.
LEMMA Answered ==
    ASSUME CallsOK, NEW c \in UnderWay, NEW k, IsKernel(k), NEW ok \in BOOLEAN,
           \/ calls' = [calls EXCEPT ![c].saw = <<k>>] /\ ok = calls[c].ok
           \/ calls' = [calls EXCEPT ![c].saw = <<k>>, ![c].ok = ok]
    PROVE  /\ CallsOK'
           /\ \A d \in 1..MaxCalls \ {c} : calls'[d] = calls[d]
           /\ calls'[c].at = calls[c].at /\ calls'[c].saw = <<k>> /\ calls'[c].fn = calls[c].fn
           /\ calls'[c].op = calls[c].op /\ calls'[c].off = calls[c].off
           /\ calls'[c].all = calls[c].all /\ calls'[c].ok = ok
           /\ calls'[c].live = calls[c].live
<1> DEFINE cs == [calls EXCEPT ![c].saw = <<k>>]
           a == [calls[c] EXCEPT !.saw = <<k>>]
           b == [a EXCEPT !.ok = ok]
<1>1. c \in 1..MaxCalls /\ DOMAIN calls = 1..MaxCalls /\ \A d \in 1..MaxCalls : CallOK(calls[d])
      /\ calls[c].at # "none"
  BY UnderWayIs DEF CallsOK
<1>2. DOMAIN calls[c] = Fields
  BY <1>1 DEF CallOK
<1>3. cs = [calls EXCEPT ![c] = a]
  BY <1>1, <1>2
<1>4. DOMAIN cs = 1..MaxCalls /\ cs[c] = a /\ \A d \in 1..MaxCalls \ {c} : cs[d] = calls[d]
  BY <1>1, <1>3
<1>5. /\ DOMAIN a = Fields /\ a.fn = calls[c].fn /\ a.at = calls[c].at /\ a.op = calls[c].op
      /\ a.off = calls[c].off /\ a.all = calls[c].all /\ a.saw = <<k>>
      /\ a.ok = calls[c].ok /\ a.live = calls[c].live
  BY <1>2 DEF Fields
<1>6. \/ calls' = cs /\ ok = calls[c].ok
      \/ calls' = [cs EXCEPT ![c].ok = ok]
  BY Zenon
<1>7. CallOK(a) /\ CallOK(b)
  <2> HIDE DEF a
  <2>1. /\ DOMAIN b = Fields /\ b.fn = calls[c].fn /\ b.at = calls[c].at /\ b.op = calls[c].op
        /\ b.off = calls[c].off /\ b.all = calls[c].all /\ b.saw = <<k>>
        /\ b.ok = ok /\ b.live = calls[c].live
    BY <1>5 DEF Fields
  <2> HIDE DEF b
  <2>2. <<k>>[1] = k
    OBVIOUS
  <2> QED BY <1>1, <1>5, <2>1, <2>2 DEF CallOK
<1> HIDE DEF cs, a
<1>8. \/ calls' = cs /\ ok = calls[c].ok
      \/ calls' = [cs EXCEPT ![c] = b]
  BY <1>1, <1>4, <1>6
<1>9. /\ DOMAIN b = Fields /\ b.fn = calls[c].fn /\ b.at = calls[c].at /\ b.op = calls[c].op
      /\ b.off = calls[c].off /\ b.all = calls[c].all /\ b.saw = <<k>>
      /\ b.ok = ok /\ b.live = calls[c].live
  BY <1>5 DEF Fields
<1> HIDE DEF b
<1>10. PICK e \in {a, b} : DOMAIN calls' = 1..MaxCalls /\ calls'[c] = e
                           /\ (e = a => ok = calls[c].ok \/ a = b)
                           /\ \A d \in 1..MaxCalls \ {c} : calls'[d] = calls[d]
  <2>1. CASE calls' = cs /\ ok = calls[c].ok
    BY <1>1, <1>4, <2>1
  <2>2. CASE calls' = [cs EXCEPT ![c] = b]
    BY <1>1, <1>4, <2>2
  <2> QED BY <1>8, <2>1, <2>2
<1>11. CallOK(calls'[c])
  BY <1>7, <1>10
<1>12. \A d \in 1..MaxCalls : CallOK(calls'[d])
  BY <1>1, <1>10, <1>11
<1>13. CallsOK'
  BY <1>10, <1>12 DEF CallsOK
<1> QED BY <1>5, <1>9, <1>10, <1>13

\* A call starts in a slot that was idle.
LEMMA LaunchIs ==
    ASSUME CallsOK, NEW call, CallOK(call), Launch(call)
    PROVE  /\ CallsOK'
           /\ \E c \in 1..MaxCalls :
                /\ calls[c] = Idle /\ calls'[c] = call
                /\ \A d \in 1..MaxCalls \ {c} : calls'[d] = calls[d]
           /\ apart' \in BOOLEAN
           /\ ~ apart' => UnderWay = {} /\ (~ apart \/ (call.op = <<>> /\ call.off = 0))
<1> DEFINE T == DOMAIN calls \ UnderWay
           c == Min(T)
<1>1. DOMAIN calls = 1..MaxCalls /\ MaxCalls \in Nat
  BY VersionsAssumption DEF CallsOK
<1>2. T \in SUBSET Nat
  BY <1>1
<1>3. T # {}
  BY DEF Launch, UnderWay
<1>4. c \in T
  <2> HIDE DEF T
  <2> QED BY <1>2, <1>3, LeastNat
<1>5. calls' = [calls EXCEPT ![c] = call]
  BY DEF Launch
<1>6. /\ apart' \in BOOLEAN
      /\ ~ apart' => UnderWay = {} /\ (~ apart \/ (call.op = <<>> /\ call.off = 0))
  <2>1. apart' = (UnderWay # {} \/ (apart /\ ~ (call.op = <<>> /\ call.off = 0)))
    BY DEF Launch
  <2> DEFINE p == UnderWay # {}
             q == call.op = <<>> /\ call.off = 0
  <2>2. apart' = (p \/ (apart /\ ~ q))
    BY <2>1
  <2> HIDE DEF p, q
  <2>3. apart' \in BOOLEAN /\ (~ apart' => ~ p /\ (~ apart \/ q))
    BY <2>2
  <2> QED BY <2>3 DEF p, q
<1> HIDE DEF c
<1>7. c \in 1..MaxCalls /\ calls[c] = Idle
  BY <1>1, <1>4 DEF UnderWay
<1>8. CallsOK' /\ calls'[c] = call /\ \A d \in 1..MaxCalls \ {c} : calls'[d] = calls[d]
  BY <1>5, <1>7, CallSet
<1> QED BY <1>6, <1>7, <1>8

-----------------------------------------------------------------------------
(* What every step has to show. *)

LEMMA Parts ==
    ASSUME IInv
    PROVE  /\ IsKernel(kernel) /\ ListedOK /\ AppOK /\ CallsOK /\ LiveHere /\ ViewInv /\ BusyInv
           /\ DOMAIN calls = 1..MaxCalls /\ \A c \in 1..MaxCalls : CallOK(calls[c])
           /\ rows \in Seq(Rows) /\ busy \in BOOLEAN /\ reconnecting \in BOOLEAN
           /\ apart \in BOOLEAN /\ lost \in BOOLEAN
           /\ tab \in {"versions", "other"} /\ view \in {"graph", "list"}
           /\ Listing(kernel) \in Seq(Rows) /\ Len(Listing(kernel)) = Count(kernel)
           /\ Count(kernel) \in Nat
<1>1. IsKernel(kernel) /\ ListedOK /\ AppOK /\ CallsOK /\ LiveHere /\ ViewInv /\ BusyInv
  BY DEF IInv, TypeInv
<1>2. busy \in BOOLEAN /\ reconnecting \in BOOLEAN /\ apart \in BOOLEAN /\ lost \in BOOLEAN
  BY <1>1, Zenon DEF AppOK
<1> QED BY <1>1, <1>2, ListingIs DEF CallsOK, ListedOK, AppOK

\* What is known of the one call under way while nothing went apart.
LEMMA TheCall ==
    ASSUME IInv, NEW c \in UnderWay, ~ apart, tab = "versions" PROVE Tracks(calls[c])
  BY Parts DEF ViewInv

\* A step of one call.
LEMMA OneCall ==
    ASSUME IInv, CallsOK', NEW c \in UnderWay,
           \A d \in 1..MaxCalls \ {c} : calls'[d] = calls[d],
           ~ apart' => ~ apart,
           ~ apart' /\ tab' = "versions" =>
               IF calls'[c].at = "none" THEN UpToDate' ELSE Tracks(calls[c])'
    PROVE  ViewInv'
<1>1. UnderWay = {d \in 1..MaxCalls : calls[d].at # "none"}
  BY Parts, UnderWayIs
<1>2. UnderWay' = {d \in 1..MaxCalls : calls'[d].at # "none"}
  BY UnderWayNext
<1>3. ASSUME ~ apart' PROVE UnderWay' \subseteq {c}
  <2>1. \A d \in UnderWay : d = c
    BY <1>3, Parts DEF ViewInv
  <2> QED BY <1>1, <1>2, <2>1
<1>4. ASSUME ~ apart', tab' = "versions" PROVE UnderWay' = {} => UpToDate'
  BY <1>1, <1>2, <1>4
<1>5. ASSUME ~ apart', tab' = "versions" PROVE \A d \in UnderWay' : Tracks(calls[d])'
  <2> SUFFICES ASSUME NEW d \in UnderWay' PROVE Tracks(calls[d])'
    OBVIOUS
  <2>1. d = c /\ calls'[c].at # "none"
    BY <1>2, <1>3, <1>5
  <2> QED BY <1>5, <2>1
<1> QED BY <1>3, <1>4, <1>5 DEF ViewInv

\* Another call starts.
LEMMA OneMore ==
    ASSUME IInv, NEW call, CallOK(call), call.at # "none", Launch(call),
           UnderWay = {} /\ (~ apart \/ (call.op = <<>> /\ call.off = 0)) /\ tab' = "versions"
               => \A k : k = call => Tracks(k)'
    PROVE  CallsOK' /\ ViewInv' /\ apart' \in BOOLEAN
           /\ \E c \in 1..MaxCalls : /\ calls[c] = Idle /\ calls'[c] = call
                                     /\ \A d \in 1..MaxCalls \ {c} : calls'[d] = calls[d]
<1>1. PICK c \in 1..MaxCalls : /\ calls[c] = Idle /\ calls'[c] = call
                               /\ \A d \in 1..MaxCalls \ {c} : calls'[d] = calls[d]
  BY Parts, LaunchIs
<1>2. CallsOK' /\ apart' \in BOOLEAN
      /\ (~ apart' => UnderWay = {} /\ (~ apart \/ (call.op = <<>> /\ call.off = 0)))
  BY Parts, LaunchIs
<1>3. UnderWay = {d \in 1..MaxCalls : calls[d].at # "none"}
  BY Parts, UnderWayIs
<1>4. UnderWay' = {d \in 1..MaxCalls : calls'[d].at # "none"}
  BY <1>2, UnderWayNext
<1>5. ASSUME ~ apart' PROVE UnderWay' = {c}
  BY <1>1, <1>2, <1>3, <1>4, <1>5
<1>6. ViewInv'
  BY <1>1, <1>2, <1>5 DEF ViewInv
<1> QED BY <1>1, <1>2, <1>6

-----------------------------------------------------------------------------
(* The list and what it is compared with. *)

LEMMA NewestIs ==
    ASSUME NEW k, IsKernel(k), NEW n \in 0..Count(k)
    PROVE  Newest(k, n) \in Seq(Rows) /\ Len(Newest(k, n)) = n /\ Newest(k, 0) = <<>>
<1> DEFINE s == Listing(k)
<1>1. s \in Seq(Rows) /\ Len(s) = Count(k) /\ Count(k) \in Nat
  BY ListingIs
<1> HIDE DEF s
<1>2. \A i \in 1..n : s[i] \in Rows
  BY <1>1
<1>3. SubSeq(s, 1, n) \in Seq(Rows) /\ Len(SubSeq(s, 1, n)) = n
  BY <1>1, <1>2, SubSeqProperties
<1>4. SubSeq(s, 1, 0) = <<>>
  BY <1>1, SubSeqEmpty
<1> QED BY <1>3, <1>4 DEF s, Newest

\* The list is up to date with whatever history lists the same.
LEMMA SameUpToDate ==
    ASSUME NEW k, NEW j, Listing(j) = Listing(k), Count(j) = Count(k),
           NEW rs, NEW t, NEW v, ListUpToDate(k, rs, t, v)
    PROVE  ListUpToDate(j, rs, t, v)
<1>1. \A n : Newest(j, n) = Newest(k, n)
  BY DEF Newest
<1> QED BY <1>1 DEF ListUpToDate

\* The next slice of the history extends a prefix of it.
Longer(k, limit, off) == Newest(k, off) \o Slice(k, limit, off)
UpTo(k, limit, off) == Min({off + limit, Count(k)})

LEMMA Extended ==
    ASSUME NEW k, IsKernel(k), NEW limit \in Nat \ {0}, NEW off \in Nat, off <= Count(k)
    PROVE  /\ Longer(k, limit, off) = Newest(k, UpTo(k, limit, off))
           /\ Len(Newest(k, UpTo(k, limit, off))) = UpTo(k, limit, off)
           /\ UpTo(k, limit, off) \in off .. Count(k)
           /\ UpTo(k, limit, off) = off + Len(Slice(k, limit, off))
           /\ UpTo(k, limit, off) = Count(k) \/ UpTo(k, limit, off) = off + limit
<1> DEFINE n == Count(k)
           m == UpTo(k, limit, off)
<1>1. off \in Nat /\ n \in Nat /\ off <= n
  BY ListingIs
<1>2. m = IF off + limit <= n THEN off + limit ELSE n
  <2> HIDE DEF n
  <2>1. off + limit \in Nat
    BY <1>1
  <2> QED BY <1>1, <2>1, MinOfTwo DEF UpTo, n
<1>3. off + Len(Slice(k, limit, off)) = m /\ Newest(k, m) \in Seq(Rows)
      /\ Len(Newest(k, m)) = m /\ Longer(k, limit, off) = Newest(k, m)
  BY <1>1, SliceExtends DEF Longer, UpTo
<1> HIDE DEF n, m
<1>4. m \in off..n /\ (m = n \/ m = off + limit)
  BY <1>1, <1>2
<1> QED BY <1>3, <1>4 DEF n, m

\* What is long enough for the graph, or is everything, is so for either view.
LEMMA OtherView ==
    ASSUME IsKernel(kernel), NEW v \in {"graph", "list"}, NEW w \in {"graph", "list"},
           rows \in Seq(Rows), ListUpToDate(kernel, rows, total, v),
           w = "list" \/ w = v \/ ~ (Len(rows) < total)
    PROVE  ListUpToDate(kernel, rows, total, w)
<1> DEFINE n == Count(kernel)
<1>1. n \in Nat /\ Len(rows) \in Nat
  BY ListingIs
<1>2. GraphCap \in Nat /\ Page \in Nat /\ Page <= GraphCap
  BY VersionsAssumption
<1>3. rows = Newest(kernel, Len(rows)) /\ Len(rows) <= n /\ total = n
      /\ Len(rows) >= Min({n, IF v = "graph" THEN GraphCap ELSE Page})
  BY DEF ListUpToDate
<1> HIDE DEF n
<1>4. /\ Min({n, GraphCap}) = IF n <= GraphCap THEN n ELSE GraphCap
      /\ Min({n, Page}) = IF n <= Page THEN n ELSE Page
  BY <1>1, <1>2, MinOfTwo
<1>5. Len(rows) >= Min({n, IF w = "graph" THEN GraphCap ELSE Page})
  <2>1. CASE w = v
    BY <1>3, <2>1
  <2>2. CASE w = "list" /\ v = "graph"
    <3>1. Len(rows) >= Min({n, GraphCap})
      BY <1>3, <2>2
    <3>2. Len(rows) >= Min({n, Page})
      BY <1>1, <1>2, <1>4, <3>1
    <3> QED BY <2>2, <3>2
  <2>3. CASE w = "graph" /\ ~ (Len(rows) < total)
    <3>1. Len(rows) >= Min({n, GraphCap})
      BY <1>1, <1>2, <1>3, <1>4, <2>3
    <3> QED BY <2>3, <3>1
  <2> QED BY <2>1, <2>2, <2>3
<1> QED BY <1>3, <1>5 DEF n, ListUpToDate

-----------------------------------------------------------------------------
(* The steps of a call. *)

\* What every one of them has to show.
LEMMA CallMoves ==
    ASSUME IInv, NEW c \in UnderWay, CallsOK',
           \A d \in 1..MaxCalls \ {c} : calls'[d] = calls[d],
           calls'[c].live => calls[c].live, tab' = tab,
           IsKernel(kernel'), ListedOK', AppOK',
           ~ apart' => ~ apart, lost => lost', busy' => busy,
           Disables(calls[c]) /\ busy' => lost' \/ Disables(calls[c])',
           ~ apart' /\ tab' = "versions" =>
               IF calls'[c].at = "none" THEN UpToDate' ELSE Tracks(calls[c])'
    PROVE  IInv'
<1>1. ViewInv'
  BY OneCall
<1>2. LiveHere'
  BY Parts DEF LiveHere
<1>3. BusyInv'
  <2> SUFFICES ASSUME busy' PROVE lost' \/ \E d \in 1..MaxCalls : Disables(calls[d])'
    BY DEF BusyInv
  <2>1. lost \/ \E d \in 1..MaxCalls : Disables(calls[d])
    BY Parts DEF BusyInv
  <2>2. CASE lost
    BY <2>2
  <2>3. CASE \E d \in 1..MaxCalls : Disables(calls[d])
    <3>1. PICK d \in 1..MaxCalls : Disables(calls[d])
      BY <2>3
    <3>2. CASE d = c
      BY <3>1, <3>2
    <3>3. CASE d # c
      <4>1. calls'[d] = calls[d]
        BY <3>3
      <4>2. Disables(calls[d])'
        BY <3>1, <4>1 DEF Disables
      <4> QED BY <4>2
    <3> QED BY <3>2, <3>3
  <2> QED BY <2>1, <2>2, <2>3
<1> QED BY <1>1, <1>2, <1>3 DEF IInv, TypeInv

LEMMA AtAwait ==
    ASSUME IInv, NEW c \in DOMAIN calls, calls[c].at # "none"
    PROVE  c \in 1..MaxCalls /\ c \in UnderWay /\ CallOK(calls[c])
  BY Parts, UnderWayIs

LEMMA AnswerStep ==
    ASSUME IInv, NEW c \in DOMAIN calls, Answer(c) PROVE IInv'
<1>1. /\ calls[c].at \in {"versions", "rest"} /\ calls[c].live
      /\ calls' = [calls EXCEPT ![c].saw = <<kernel>>]
      /\ kernel' = kernel /\ rows' = rows /\ total' = total /\ pending' = pending /\ shown' = shown
      /\ busy' = busy /\ tab' = tab /\ view' = view /\ status' = status
      /\ reconnecting' = reconnecting /\ composer' = composer /\ apart' = apart /\ lost' = lost
  BY DEF Answer, listing, app
<1>2. c \in UnderWay /\ CallOK(calls[c])
  BY <1>1, AtAwait
<1>3. calls[c].ok \in BOOLEAN
  BY <1>2 DEF CallOK
<1>4. /\ CallsOK'
      /\ \A d \in 1..MaxCalls \ {c} : calls'[d] = calls[d]
      /\ calls'[c].at = calls[c].at /\ calls'[c].saw = <<kernel>> /\ calls'[c].fn = calls[c].fn
      /\ calls'[c].off = calls[c].off /\ calls'[c].all = calls[c].all
      /\ calls'[c].live = calls[c].live
  <2>1. CallsOK /\ IsKernel(kernel)
    BY Parts
  <2>2. calls' = [calls EXCEPT ![c].saw = <<kernel>>] /\ calls[c].ok = calls[c].ok
    BY <1>1
  <2> DEFINE ok == calls[c].ok
  <2>3. ok \in BOOLEAN /\ calls' = [calls EXCEPT ![c].saw = <<kernel>>] /\ ok = calls[c].ok
    BY <1>3, <2>2
  <2> HIDE DEF ok
  <2> QED BY <1>2, <2>1, <2>3, Answered
<1>5. ListedOK' /\ AppOK' /\ IsKernel(kernel')
  BY <1>1, Parts DEF ListedOK, AppOK
<1>6. ASSUME ~ apart', tab' = "versions" PROVE Tracks(calls[c])'
  <2>1. Tracks(calls[c])
    BY <1>1, <1>2, <1>6, TheCall
  <2>2. <<kernel>>[1] = kernel'
    BY <1>1
  <2>3. LoadTracks(calls[c]) => LoadTracks(calls[c])'
    BY <1>1, <1>4 DEF LoadTracks
  <2> QED BY <1>1, <1>4, <2>1, <2>2, <2>3 DEF Tracks
<1>7. ~ Disables(calls[c])
  BY <1>1 DEF Disables
<1> QED BY <1>1, <1>2, <1>4, <1>5, <1>6, <1>7, CallMoves

LEMMA ServeStep ==
    ASSUME IInv, NEW c \in DOMAIN calls, Serve(c) PROVE IInv'
<1> DEFINE op == calls[c].op[1]
<1>1. /\ calls[c].at = "post" /\ calls[c].saw = <<>>
      /\ rows' = rows /\ total' = total /\ pending' = pending /\ shown' = shown
      /\ busy' = busy /\ tab' = tab /\ view' = view /\ status' = status
      /\ reconnecting' = reconnecting /\ composer' = composer /\ apart' = apart /\ lost' = lost
  BY DEF Serve, listing, app
<1>2. PICK o \in Outcomes(kernel, op) :
         kernel' = o.after /\ calls' = [calls EXCEPT ![c].saw = <<o.after>>, ![c].ok = o.ok]
  BY DEF Serve
<1>3. c \in UnderWay /\ CallOK(calls[c])
  BY <1>1, AtAwait
<1>4. OpOK(op)
  BY <1>1, <1>3 DEF CallOK
<1> HIDE DEF op
<1>5. /\ IsKernel(o.after) /\ o.ok \in BOOLEAN
      /\ ReadsAgain(op, o.ok) = "nothing" => o.after = kernel
      /\ ReadsAgain(op, o.ok) \in {"nothing", "rest"} =>
            Listing(o.after) = Listing(kernel) /\ Count(o.after) = Count(kernel)
      /\ ReadsAgain(op, o.ok) \in {"nothing", "rest", "versions"}
  BY <1>2, <1>4, Parts, OutcomeIs
<1>6. /\ CallsOK'
      /\ \A d \in 1..MaxCalls \ {c} : calls'[d] = calls[d]
      /\ calls'[c].at = calls[c].at /\ calls'[c].saw = <<o.after>> /\ calls'[c].fn = calls[c].fn
      /\ calls'[c].op = calls[c].op /\ calls'[c].ok = o.ok
      /\ calls'[c].live = calls[c].live
  <2> DEFINE k == o.after
             ok == o.ok
  <2>1. CallsOK /\ IsKernel(k) /\ ok \in BOOLEAN
    BY <1>5, Parts
  <2>2. calls' = [calls EXCEPT ![c].saw = <<k>>, ![c].ok = ok]
    BY <1>2
  <2>3. o.after = k /\ o.ok = ok
    OBVIOUS
  <2> HIDE DEF k, ok
  <2> QED BY <1>3, <2>1, <2>2, <2>3, Answered
<1>7. ListedOK' /\ AppOK' /\ IsKernel(kernel')
  BY <1>1, <1>2, <1>5, Parts DEF ListedOK, AppOK
<1>8. ASSUME ~ apart', tab' = "versions" PROVE Tracks(calls[c])'
  <2>1. Tracks(calls[c])
    BY <1>1, <1>3, <1>8, TheCall
  <2>2. ListUpToDate(kernel, rows, total, view) /\ RestUpToDate(kernel, pending, shown)
    BY <1>1, <2>1 DEF Tracks, PostTracks
  <2>3. <<o.after>>[1] = kernel' /\ <<o.after>> # <<>>
    BY <1>2
  <2>4. calls'[c].op[1] = op
    BY <1>6 DEF op
  <2>5. ReadsAgain(op, o.ok) # "versions" => ListUpToDate(kernel', rows', total', view')
    BY <1>1, <1>2, <1>5, <2>2, SameUpToDate
  <2>6. ReadsAgain(op, o.ok) = "nothing" => RestUpToDate(kernel', pending', shown')
    BY <1>1, <1>2, <1>5, <2>2
  <2>7. PostTracks(calls[c])'
    BY <1>6, <2>3, <2>4, <2>5, <2>6 DEF PostTracks
  <2> QED BY <1>1, <1>6, <2>1, <2>3, <2>7 DEF Tracks
<1>9. Disables(calls[c]) => Disables(calls[c])'
  BY <1>6 DEF Disables
<1> QED BY <1>1, <1>3, <1>6, <1>7, <1>8, <1>9, CallMoves

\* A page of the list.
LEMMA ListArrivesStep ==
    ASSUME IInv, NEW c \in DOMAIN calls, ListArrives(c) PROVE IInv'
<1> DEFINE k == calls[c].saw[1]
           off == calls[c].off
           got == Slice(k, Page, off)
<1>1. /\ calls[c].fn = "list" /\ calls[c].at = "versions" /\ calls[c].saw # <<>> /\ calls[c].live
      /\ Proceeds(c, "rest") /\ total' = Count(k)
      /\ rows' = IF off = 0 THEN got ELSE rows \o got
      /\ kernel' = kernel /\ pending' = pending /\ shown' = shown
      /\ busy' = busy /\ tab' = tab /\ view' = view /\ status' = status
      /\ reconnecting' = reconnecting /\ composer' = composer /\ apart' = apart /\ lost' = lost
  BY DEF ListArrives, Arrived, Listed, app
<1>2. c \in 1..MaxCalls /\ c \in UnderWay /\ CallOK(calls[c])
  BY <1>1, AtAwait
<1>3. IsKernel(k) /\ off \in Nat
  BY <1>1, <1>2 DEF CallOK
<1>4. Page \in Nat \ {0}
  BY VersionsAssumption
<1>5. tab = "versions"
  BY <1>1, <1>2, Parts DEF LiveHere
<1> HIDE DEF k, off, got
<1>6. got \in Seq(Rows) /\ Count(k) \in 0..MaxVersions
  BY <1>3, <1>4, SliceExtends, ListingIs DEF got
<1>7. rows' \in Seq(Rows)
  BY <1>1, <1>6, Parts
<1>8. ListedOK' /\ AppOK' /\ IsKernel(kernel')
  BY <1>1, <1>5, <1>6, <1>7, Parts DEF ListedOK, AppOK
<1>9. /\ CallsOK'
      /\ \A d \in 1..MaxCalls \ {c} : calls'[d] = calls[d]
      /\ calls'[c].at = "rest" /\ calls'[c].saw = <<>> /\ calls'[c].fn = calls[c].fn
      /\ calls'[c].live = calls[c].live
  BY <1>1, <1>2, Parts, ProceedsTo
<1>10. ASSUME ~ apart', tab' = "versions" PROVE Tracks(calls[c])'
  <2>1. Tracks(calls[c])
    BY <1>1, <1>2, <1>10, TheCall
  <2>2. k = kernel /\ view = "list" /\ (off # 0 => off = Len(rows) /\ ListUpToDate(kernel, rows, total, view))
    BY <1>1, <2>1 DEF Tracks, LoadTracks, k, off
  <2> DEFINE n == Count(kernel)
  <2>3. n \in Nat
    BY Parts
  <2>4. Min({n, Page}) = IF n <= Page THEN n ELSE Page
    BY <1>4, <2>3, MinOfTwo
  <2>5. CASE off = 0
    <3>1. Newest(kernel, 0) = <<>> /\ 0 \in 0..n /\ IsKernel(kernel)
      BY <2>3, Parts, NewestIs
    <3>2. got = Slice(kernel, Page, 0)
      BY <2>2, <2>5 DEF got
    <3>3. got = Longer(kernel, Page, off)
      BY <1>6, <2>5, <3>1, <3>2 DEF Longer
    <3> DEFINE m == UpTo(kernel, Page, off)
    <3>4. /\ Longer(kernel, Page, off) = Newest(kernel, m)
          /\ Len(Newest(kernel, m)) = m /\ m \in off..n /\ (m = n \/ m = off + Page)
      <4>1. off <= Count(kernel)
        BY <2>3, <2>5
      <4> QED BY <1>3, <1>4, <3>1, <4>1, Extended
    <3> HIDE DEF m
    <3>6. got = Newest(kernel, Len(got)) /\ Len(got) \in 0..n /\ (Len(got) = n \/ Len(got) = Page)
      BY <1>4, <2>5, <3>3, <3>4
    <3>7. rows' = got /\ Len(got) >= Min({n, Page}) /\ Len(got) <= n
      BY <1>1, <1>4, <2>3, <2>4, <2>5, <3>6
    <3>8. ListUpToDate(kernel, got, n, "list")
      BY <3>6, <3>7 DEF ListUpToDate
    <3> QED BY <1>1, <1>9, <2>1, <2>2, <3>7, <3>8 DEF Tracks
  <2>6. CASE off # 0
    <3>1. off = Len(rows) /\ rows = Newest(kernel, Len(rows)) /\ Len(rows) <= n
          /\ Len(rows) >= Min({n, Page})
      BY <2>2, <2>6 DEF ListUpToDate
    <3>2. Len(rows) \in 0..n
      BY <2>3, <3>1, Parts
    <3>3. rows' = Longer(kernel, Page, off) /\ off \in 0..n
      BY <1>1, <2>2, <2>6, <3>1, <3>2 DEF got, Longer
    <3>4. IsKernel(kernel)
      BY Parts
    <3> DEFINE m == UpTo(kernel, Page, off)
    <3>5. /\ Longer(kernel, Page, off) = Newest(kernel, m)
          /\ Len(Newest(kernel, m)) = m /\ m \in off .. n
      BY <1>3, <1>4, <3>1, <3>4, Extended
    <3> HIDE DEF n, m
    <3>6. rows' = Newest(kernel, m) /\ Len(rows') = m
      BY <3>3, <3>5
    <3>7. m >= Min({n, Page}) /\ m <= n
      BY <1>4, <2>3, <2>4, <3>1, <3>2, <3>5
    <3>8. ListUpToDate(kernel, rows', n, "list")
      BY <3>6, <3>7 DEF ListUpToDate, n
    <3> QED BY <1>1, <1>9, <2>1, <2>2, <3>8 DEF Tracks, n
  <2> QED BY <2>5, <2>6
<1>11. ~ Disables(calls[c])
  BY <1>1 DEF Disables
<1> QED BY <1>1, <1>2, <1>8, <1>9, <1>10, <1>11, CallMoves

\* A graph load asks for its next page.
LEMMA Advances ==
    ASSUME CallsOK, NEW c \in UnderWay, NEW all \in Seq(Rows), Len(all) < GraphCap, NEW more \in Nat,
           calls[c].at = "versions",
           calls' = [calls EXCEPT ![c].off = @ + more, ![c].all = all, ![c].saw = <<>>]
    PROVE  /\ CallsOK'
           /\ \A d \in 1..MaxCalls \ {c} : calls'[d] = calls[d]
           /\ calls'[c].at = "versions" /\ calls'[c].saw = <<>> /\ calls'[c].fn = calls[c].fn
           /\ calls'[c].off = calls[c].off + more /\ calls'[c].all = all
           /\ calls'[c].live = calls[c].live
<1> DEFINE to == calls[c].off + more
           a == [calls[c] EXCEPT !.off = to]
           b == [a EXCEPT !.all = all]
           e == [b EXCEPT !.saw = <<>>]
           ca == [calls EXCEPT ![c].off = @ + more]
           cb == [ca EXCEPT ![c].all = all]
<1>1. c \in 1..MaxCalls /\ DOMAIN calls = 1..MaxCalls /\ \A d \in 1..MaxCalls : CallOK(calls[d])
  BY DEF CallsOK, UnderWay
<1>2. DOMAIN calls[c] = Fields /\ calls[c].off \in Nat
  BY <1>1 DEF CallOK
<1>3. to \in Nat
  BY <1>2
<1>4. ca = [calls EXCEPT ![c] = a]
  BY <1>1, <1>2
<1>5. DOMAIN ca = 1..MaxCalls /\ ca[c] = a /\ \A d \in 1..MaxCalls \ {c} : ca[d] = calls[d]
  BY <1>1, <1>4
<1>6. calls' = [cb EXCEPT ![c].saw = <<>>]
  BY Zenon
<1>7. /\ DOMAIN a = Fields /\ a.fn = calls[c].fn /\ a.at = calls[c].at /\ a.op = calls[c].op
      /\ a.off = to /\ a.all = calls[c].all /\ a.saw = calls[c].saw
      /\ a.ok = calls[c].ok /\ a.live = calls[c].live
  BY <1>2 DEF Fields
<1> HIDE DEF ca, a, to
<1>8. cb = [ca EXCEPT ![c] = b]
  BY <1>1, <1>5
<1>9. DOMAIN cb = 1..MaxCalls /\ cb[c] = b /\ \A d \in 1..MaxCalls \ {c} : cb[d] = calls[d]
  BY <1>1, <1>5, <1>8
<1>10. /\ DOMAIN b = Fields /\ b.fn = calls[c].fn /\ b.at = calls[c].at /\ b.op = calls[c].op
       /\ b.off = to /\ b.all = all /\ b.saw = calls[c].saw
       /\ b.ok = calls[c].ok /\ b.live = calls[c].live
  BY <1>7 DEF Fields
<1> HIDE DEF cb, b
<1>11. calls' = [cb EXCEPT ![c] = e]
  BY <1>1, <1>6, <1>9
<1>12. /\ DOMAIN e = Fields /\ e.fn = calls[c].fn /\ e.at = calls[c].at /\ e.op = calls[c].op
       /\ e.off = to /\ e.all = all /\ e.saw = <<>>
       /\ e.ok = calls[c].ok /\ e.live = calls[c].live
  BY <1>10 DEF Fields
<1> HIDE DEF e
<1>13. CallOK(e)
  BY <1>1, <1>3, <1>12 DEF CallOK
<1>14. DOMAIN calls' = 1..MaxCalls /\ calls'[c] = e
       /\ \A d \in 1..MaxCalls \ {c} : calls'[d] = calls[d]
  BY <1>1, <1>9, <1>11
<1>15. CallsOK'
  BY <1>1, <1>13, <1>14 DEF CallsOK
<1> QED BY <1>12, <1>14, <1>15 DEF to

\* A page of the graph.
LEMMA GraphArrivesStep ==
    ASSUME IInv, NEW c \in DOMAIN calls, GraphArrives(c) PROVE IInv'
<1> DEFINE k == calls[c].saw[1]
           off == calls[c].off
           batch == Slice(k, GraphLimit, off)
           all == calls[c].all \o batch
           ends == batch = <<>> \/ Len(all) >= Count(k) \/ Len(all) >= GraphCap
<1>1. /\ calls[c].fn = "graph" /\ calls[c].at = "versions" /\ calls[c].saw # <<>> /\ calls[c].live
      /\ kernel' = kernel /\ pending' = pending /\ shown' = shown
      /\ busy' = busy /\ tab' = tab /\ view' = view /\ status' = status
      /\ reconnecting' = reconnecting /\ composer' = composer /\ apart' = apart /\ lost' = lost
  BY DEF GraphArrives, Arrived, app
<1>2. IF ends THEN rows' = all /\ total' = Count(k) /\ Proceeds(c, "rest")
      ELSE /\ calls' = [calls EXCEPT ![c].off = @ + Len(batch), ![c].all = all, ![c].saw = <<>>]
           /\ rows' = rows /\ total' = total
  BY DEF GraphArrives
<1>3. c \in 1..MaxCalls /\ c \in UnderWay /\ CallOK(calls[c])
  BY <1>1, AtAwait
<1>4. IsKernel(k) /\ off \in Nat /\ calls[c].all \in Seq(Rows)
  BY <1>1, <1>3 DEF CallOK
<1>5. GraphLimit \in Nat \ {0} /\ GraphCap \in Nat
  BY VersionsAssumption
<1>6. tab = "versions"
  BY <1>1, <1>3, Parts DEF LiveHere
<1>7. batch \in Seq(Rows) /\ Count(k) \in 0..MaxVersions /\ Count(k) \in Nat
  <2> HIDE DEF k, off
  <2> QED BY <1>4, <1>5, SliceExtends, ListingIs
<1>8. all \in Seq(Rows) /\ Len(all) = Len(calls[c].all) + Len(batch) /\ Len(all) \in Nat /\ Len(batch) \in Nat
  <2> HIDE DEF batch
  <2> QED BY <1>4, <1>7
\* What it has read is a prefix of the history.
<1>9. ASSUME ~ apart', tab' = "versions"
      PROVE  /\ Tracks(calls[c]) /\ k = kernel /\ view = "graph"
             /\ all = Newest(kernel, Len(all)) /\ Len(all) = off + Len(batch) /\ Len(all) <= Count(kernel)
             /\ batch = <<>> => Len(all) = Count(kernel)
  <2>1. Tracks(calls[c])
    BY <1>1, <1>3, <1>9, TheCall
  <2>2. k = kernel /\ view = "graph" /\ off = Len(calls[c].all) /\ off <= Count(kernel)
        /\ calls[c].all = Newest(kernel, off)
    BY <1>1, <2>1 DEF Tracks, LoadTracks
  <2> DEFINE n == Count(kernel)
  <2>3. off \in 0..n /\ n \in Nat /\ IsKernel(kernel)
    BY <1>4, <2>2, Parts
  <2>4. batch = Slice(kernel, GraphLimit, off) /\ all = Longer(kernel, GraphLimit, off)
    BY <2>2 DEF Longer
  <2> HIDE DEF all, batch
  <2> DEFINE m == UpTo(kernel, GraphLimit, off)
  <2>5. /\ Longer(kernel, GraphLimit, off) = Newest(kernel, m)
        /\ Len(Newest(kernel, m)) = m /\ m = off + Len(Slice(kernel, GraphLimit, off))
        /\ m \in off .. n /\ (m = n \/ m = off + GraphLimit)
    <3> HIDE DEF off
    <3>1. off \in Nat /\ off <= Count(kernel)
      BY <1>4, <2>2 DEF off
    <3> QED BY <1>5, <2>3, <3>1, Extended
  <2> HIDE DEF m
  <2>6. all = Newest(kernel, m) /\ Len(all) = m /\ m = off + Len(batch)
    BY <2>4, <2>5
  <2> HIDE DEF n
  <2>7. m <= n /\ (batch = <<>> => m = n)
    BY <1>5, <2>3, <2>5, <2>6
  <2> QED BY <2>1, <2>2, <2>6, <2>7 DEF n
<1>10. ~ Disables(calls[c])
  BY <1>1 DEF Disables
<1> HIDE DEF k, off, batch, all
<1>11. CASE ends
  <2>1. rows' = all /\ total' = Count(k) /\ Proceeds(c, "rest")
    BY <1>2, <1>11
  <2>2. ListedOK' /\ AppOK' /\ IsKernel(kernel')
    BY <1>1, <1>6, <1>7, <1>8, <2>1, Parts DEF ListedOK, AppOK
  <2>3. /\ CallsOK'
        /\ \A d \in 1..MaxCalls \ {c} : calls'[d] = calls[d]
        /\ calls'[c].at = "rest" /\ calls'[c].saw = <<>> /\ calls'[c].fn = calls[c].fn
        /\ calls'[c].live = calls[c].live
    BY <1>3, <2>1, Parts, ProceedsTo
  <2>4. ASSUME ~ apart', tab' = "versions" PROVE Tracks(calls[c])'
    <3> DEFINE n == Count(kernel)
    <3>1. /\ Tracks(calls[c]) /\ k = kernel /\ view = "graph" /\ n \in Nat
          /\ all = Newest(kernel, Len(all)) /\ Len(all) <= n /\ (batch = <<>> => Len(all) = n)
      BY <1>9, <2>4, Parts
    <3>2. Min({n, GraphCap}) = IF n <= GraphCap THEN n ELSE GraphCap
      BY <1>5, <3>1, MinOfTwo
    <3>3. Len(all) = n \/ Len(all) >= GraphCap
      BY <1>8, <1>11, <3>1
    <3> HIDE DEF n
    <3>4. Len(all) >= Min({n, GraphCap})
      BY <1>5, <1>8, <3>1, <3>2, <3>3
    <3>5. ListUpToDate(kernel, all, n, "graph")
      BY <3>1, <3>4 DEF ListUpToDate, n
    <3> QED BY <1>1, <2>1, <2>3, <3>1, <3>5 DEF Tracks, n
  <2> QED BY <1>1, <1>3, <1>10, <2>2, <2>3, <2>4, CallMoves
<1>12. CASE ~ ends
  <2>1. /\ calls' = [calls EXCEPT ![c].off = @ + Len(batch), ![c].all = all, ![c].saw = <<>>]
        /\ rows' = rows /\ total' = total
    BY <1>2, <1>12
  <2>2. ListedOK' /\ AppOK' /\ IsKernel(kernel')
    BY <1>1, <2>1, Parts DEF ListedOK, AppOK
  <2>3. Len(all) < GraphCap
    BY <1>5, <1>8, <1>12
  <2>4. /\ CallsOK'
        /\ \A d \in 1..MaxCalls \ {c} : calls'[d] = calls[d]
        /\ calls'[c].at = "versions" /\ calls'[c].saw = <<>> /\ calls'[c].fn = calls[c].fn
        /\ calls'[c].off = off + Len(batch) /\ calls'[c].all = all
        /\ calls'[c].live = calls[c].live
    BY <1>1, <1>3, <1>8, <2>1, <2>3, Parts, Advances DEF off
  <2>5. ASSUME ~ apart', tab' = "versions" PROVE Tracks(calls[c])'
    <3>1. /\ Tracks(calls[c]) /\ view = "graph" /\ Len(all) = off + Len(batch)
          /\ all = Newest(kernel, Len(all)) /\ Len(all) <= Count(kernel)
      BY <1>9, <2>5
    <3>2. LoadTracks(calls[c])'
      BY <1>1, <2>4, <3>1 DEF LoadTracks
    <3> QED BY <1>1, <2>4, <3>1, <3>2 DEF Tracks
  <2> QED BY <1>1, <1>3, <1>10, <2>2, <2>4, <2>5, CallMoves
<1> QED BY <1>11, <1>12

\* A call comes to rest.
LEMMA RestsIs ==
    ASSUME IInv, NEW c \in UnderWay, Rests(c)
    PROVE  /\ CallsOK' /\ calls'[c] = Idle /\ calls'[c].at = "none" /\ calls'[c].live = FALSE
           /\ \A d \in 1..MaxCalls \ {c} : calls'[d] = calls[d]
<1>1. c \in 1..MaxCalls /\ CallsOK
  BY Parts DEF UnderWay
<1>2. calls' = [calls EXCEPT ![c] = Idle]
  BY DEF Rests
<1>3. CallsOK' /\ calls'[c] = Idle /\ \A d \in 1..MaxCalls \ {c} : calls'[d] = calls[d]
  BY <1>1, <1>2, CallSet, IdleOK
<1>4. Idle.at = "none" /\ Idle.live = FALSE
  BY DEF Idle
<1> QED BY <1>3, <1>4

LEMMA FinishIs ==
    ASSUME IInv, NEW c \in UnderWay, Finish(c)
    PROVE  Rests(c) /\ reconnecting' \in BOOLEAN
<1>1. CallOK(calls[c]) /\ reconnecting \in BOOLEAN
  BY Parts DEF UnderWay
<1>2. calls[c].ok \in BOOLEAN
  BY <1>1 DEF CallOK
<1> DEFINE ok == calls[c].ok
<1>3. reconnecting' = reconnecting \/ reconnecting' = (reconnecting \/ ok)
  BY DEF Finish
<1>4. (reconnecting \/ ok) \in BOOLEAN
  OBVIOUS
<1> HIDE DEF ok
<1>5. reconnecting' \in BOOLEAN
  BY <1>1, <1>3, <1>4, Zenon
<1> QED BY <1>5 DEF Finish

\* The versions held, the lines and the previews.
LEMMA RestArrivesStep ==
    ASSUME IInv, NEW c \in DOMAIN calls, RestArrives(c) PROVE IInv'
<1> DEFINE k == calls[c].saw[1]
<1>1. /\ calls[c].at = "rest" /\ calls[c].saw # <<>> /\ calls[c].live
      /\ Finish(c) /\ rows' = rows /\ total' = total /\ kernel' = kernel
      /\ pending' = k.held /\ shown' = [tip |-> k.tip, previews |-> k.previews]
      /\ busy' = busy /\ tab' = tab /\ view' = view
      /\ composer' = composer /\ apart' = apart /\ lost' = lost
  BY DEF RestArrives, Arrived
<1>2. c \in UnderWay /\ CallOK(calls[c])
  BY <1>1, AtAwait
<1>3. IsKernel(k)
  BY <1>1, <1>2 DEF CallOK
<1>4. Rests(c) /\ reconnecting' \in BOOLEAN
  BY <1>1, <1>2, FinishIs
<1>5. /\ CallsOK' /\ calls'[c].at = "none" /\ calls'[c].live = FALSE
      /\ \A d \in 1..MaxCalls \ {c} : calls'[d] = calls[d]
  BY <1>2, <1>4, RestsIs
<1> HIDE DEF k
<1>6. ListedOK'
  <2>1. /\ k.held \subseteq 1..MaxVersions /\ k.tip \in [Lines -> 0..MaxVersions]
        /\ k.previews \in SUBSET (1..MaxVersions \cup Lines)
    BY <1>3 DEF IsKernel
  <2> QED BY <1>1, <2>1, Parts DEF ListedOK
<1>7. AppOK' /\ IsKernel(kernel')
  BY <1>1, <1>4, Parts DEF AppOK
<1>8. ASSUME ~ apart', tab' = "versions" PROVE UpToDate'
  <2>1. Tracks(calls[c])
    BY <1>1, <1>2, <1>8, TheCall
  <2>2. k = kernel /\ ListUpToDate(kernel, rows, total, view)
    BY <1>1, <2>1 DEF Tracks, k
  <2>3. RestUpToDate(kernel', pending', shown')
    BY <1>1, <2>2 DEF RestUpToDate
  <2> QED BY <1>1, <2>2, <2>3 DEF UpToDate
<1>9. ~ Disables(calls[c])
  BY <1>1 DEF Disables
<1> QED BY <1>1, <1>2, <1>5, <1>6, <1>7, <1>8, <1>9, CallMoves

\* An operation whose tab was left.
LEMMA LeftFinishesStep ==
    ASSUME IInv, NEW c \in DOMAIN calls, LeftFinishes(c) PROVE IInv'
<1>1. /\ calls[c].at \in {"versions", "rest"} /\ ~ calls[c].live /\ Finish(c)
      /\ kernel' = kernel /\ rows' = rows /\ total' = total /\ pending' = pending /\ shown' = shown
      /\ busy' = busy /\ tab' = tab /\ view' = view
      /\ composer' = composer /\ apart' = apart /\ lost' = lost
  BY DEF LeftFinishes, listing
<1>2. c \in UnderWay
  BY <1>1, AtAwait
<1>3. Rests(c) /\ reconnecting' \in BOOLEAN
  BY <1>1, <1>2, FinishIs
<1>4. /\ CallsOK' /\ calls'[c].at = "none" /\ calls'[c].live = FALSE
      /\ \A d \in 1..MaxCalls \ {c} : calls'[d] = calls[d]
  BY <1>2, <1>3, RestsIs
<1>5. ListedOK' /\ AppOK' /\ IsKernel(kernel')
  BY <1>1, <1>3, Parts DEF ListedOK, AppOK
<1>6. ASSUME ~ apart', tab' = "versions" PROVE FALSE
  <2>1. Tracks(calls[c])
    BY <1>1, <1>2, <1>6, TheCall
  <2> QED BY <1>1, <2>1 DEF Tracks
<1>7. ~ Disables(calls[c])
  BY <1>1 DEF Disables
<1> QED BY <1>1, <1>2, <1>4, <1>5, <1>6, <1>7, CallMoves

\* An operation is answered: the buttons are released, and what it may have
\* changed is read again.
LEMMA PostArrivesStep ==
    ASSUME IInv, NEW c \in DOMAIN calls, PostArrives(c) PROVE IInv'
<1> DEFINE op == calls[c].op[1]
           again == ReadsAgain(op, calls[c].ok)
           stay == op.kind = "label" \/ ~ calls[c].live
<1>1. /\ calls[c].at = "post" /\ calls[c].saw # <<>>
      /\ busy' = (busy /\ stay)
      /\ IF again = "nothing" \/ ~ calls[c].live THEN Finish(c)
         ELSE Proceeds(c, again) /\ reconnecting' = reconnecting
      /\ kernel' = kernel /\ rows' = rows /\ total' = total /\ pending' = pending /\ shown' = shown
      /\ tab' = tab /\ view' = view
      /\ composer' = composer /\ apart' = apart /\ lost' = lost
  BY DEF PostArrives, Arrived, listing
<1>2. c \in UnderWay /\ CallOK(calls[c])
  BY <1>1, AtAwait
<1>3. calls[c].off = 0 /\ calls[c].all = <<>>
  BY <1>1, <1>2 DEF CallOK
<1>4. again \in {"nothing", "rest", "versions"}
  BY DEF ReadsAgain
<1>5. busy' \in BOOLEAN /\ (busy' => busy) /\ (busy' => stay)
  <2> HIDE DEF stay
  <2> QED BY <1>1
<1>6. busy' => ~ Disables(calls[c])
  BY <1>5 DEF Disables
<1>7. ASSUME ~ apart', tab' = "versions"
      PROVE  /\ Tracks(calls[c])
             /\ again # "versions" => ListUpToDate(kernel, rows, total, view)
             /\ again = "nothing" => RestUpToDate(kernel, pending, shown)
  <2>1. Tracks(calls[c])
    BY <1>1, <1>2, <1>7, TheCall
  <2> QED BY <1>1, <2>1 DEF Tracks, PostTracks
<1> HIDE DEF op, again, stay
<1>8. ASSUME reconnecting' \in BOOLEAN PROVE ListedOK' /\ AppOK' /\ IsKernel(kernel')
  <2>1. ListedOK' /\ IsKernel(kernel')
    BY <1>1, Parts DEF ListedOK
  <2>2. apart' \in BOOLEAN /\ lost' \in BOOLEAN
    BY <1>1, Parts
  <2>3. {busy', reconnecting', apart', lost'} \subseteq BOOLEAN
    BY <1>5, <1>8, <2>2
  <2>4. tab' = "other" => rows' = <<>> /\ ~ busy'
    BY <1>1, <1>5, Parts DEF AppOK
  <2>5. AppOK'
    BY <1>1, <2>3, <2>4, Parts DEF AppOK
  <2> QED BY <2>1, <2>5
<1>9. CASE again = "nothing" \/ ~ calls[c].live
  <2>1. Rests(c) /\ reconnecting' \in BOOLEAN
    BY <1>1, <1>2, <1>9, FinishIs
  <2>2. /\ CallsOK' /\ calls'[c].at = "none" /\ calls'[c].live = FALSE
        /\ \A d \in 1..MaxCalls \ {c} : calls'[d] = calls[d]
    BY <1>2, <2>1, RestsIs
  <2>3. ASSUME ~ apart', tab' = "versions" PROVE UpToDate'
    <3>1. Tracks(calls[c])
      BY <1>7, <2>3
    <3>2. again = "nothing"
      BY <1>9, <3>1 DEF Tracks
    <3> QED BY <1>1, <1>7, <2>3, <3>2 DEF UpToDate
  <2>4. ListedOK' /\ AppOK' /\ IsKernel(kernel')
    BY <1>8, <2>1
  <2> QED BY <1>1, <1>2, <1>5, <1>6, <2>2, <2>3, <2>4, CallMoves
<1>10. CASE again # "nothing" /\ calls[c].live
  <2>1. Proceeds(c, again) /\ reconnecting' = reconnecting /\ again \in {"versions", "rest"}
    BY <1>1, <1>4, <1>10
  <2>2. /\ CallsOK'
        /\ \A d \in 1..MaxCalls \ {c} : calls'[d] = calls[d]
        /\ calls'[c].at = again /\ calls'[c].saw = <<>> /\ calls'[c].fn = calls[c].fn
        /\ calls'[c].off = calls[c].off /\ calls'[c].all = calls[c].all
        /\ calls'[c].live = calls[c].live
    BY <1>2, <2>1, Parts, ProceedsTo
  <2>3. ASSUME ~ apart', tab' = "versions" PROVE Tracks(calls[c])'
    <3>1. Tracks(calls[c]) /\ (again # "versions" => ListUpToDate(kernel, rows, total, view))
      BY <1>7, <2>3
    <3>2. LoadTracks(calls[c])'
      <4>1. 0 \in 0..Count(kernel) /\ IsKernel(kernel) /\ Count(kernel) \in Nat
        BY Parts
      <4>2. Newest(kernel, 0) = <<>>
        BY <4>1, NewestIs
      <4>3. Len(<<>>) = 0 /\ 0 <= Count(kernel)
        BY <4>1
      <4> QED BY <1>1, <1>3, <2>2, <4>2, <4>3 DEF LoadTracks
    <3>3. again = "rest" => ListUpToDate(kernel', rows', total', view')
      BY <1>1, <3>1
    <3> QED BY <1>1, <2>1, <2>2, <3>1, <3>2, <3>3 DEF Tracks
  <2>4. ListedOK' /\ AppOK' /\ IsKernel(kernel')
    BY <1>8, <2>1, Parts
  <2>5. calls'[c].at # "none"
    BY <2>1, <2>2
  <2> QED BY <1>1, <1>2, <1>5, <1>6, <2>2, <2>3, <2>4, <2>5, CallMoves
<1> QED BY <1>9, <1>10

\* A request is lost.
LEMMA LoseStep ==
    ASSUME IInv, NEW c \in DOMAIN calls, Lose(c) PROVE IInv'
<1>1. /\ calls[c] # Idle /\ Rests(c) /\ lost' = TRUE /\ apart' = TRUE
      /\ kernel' = kernel /\ rows' = rows /\ total' = total /\ pending' = pending /\ shown' = shown
      /\ busy' = busy /\ tab' = tab /\ view' = view
      /\ reconnecting' = reconnecting /\ composer' = composer
  BY DEF Lose, listing, app
<1>2. c \in UnderWay
  BY <1>1 DEF UnderWay
<1>3. /\ CallsOK' /\ calls'[c].at = "none" /\ calls'[c].live = FALSE
      /\ \A d \in 1..MaxCalls \ {c} : calls'[d] = calls[d]
  BY <1>1, <1>2, RestsIs
<1>4. ListedOK' /\ AppOK' /\ IsKernel(kernel')
  BY <1>1, Parts DEF ListedOK, AppOK
<1> QED BY <1>1, <1>2, <1>3, <1>4, CallMoves

-----------------------------------------------------------------------------
(* The operator's steps. *)

\* What every one that starts a call has to show.
LEMMA Starting ==
    ASSUME IInv, NEW call, CallOK(call), call.at # "none", Launch(call),
           kernel' = kernel, rows' = rows, total' = total, pending' = pending, shown' = shown,
           reconnecting' = reconnecting, lost' = lost, Len(composer') <= 1,
           view' \in {"graph", "list"}, tab' = "versions",
           busy' \in BOOLEAN, busy' => busy \/ Disables(call),
           UnderWay = {} /\ (~ apart \/ (call.op = <<>> /\ call.off = 0)) =>
               \A k : k = call => Tracks(k)'
    PROVE  IInv'
<1>1. CallsOK' /\ ViewInv' /\ apart' \in BOOLEAN
      /\ \E c \in 1..MaxCalls : /\ calls[c] = Idle /\ calls'[c] = call
                                /\ \A d \in 1..MaxCalls \ {c} : calls'[d] = calls[d]
  BY OneMore
<1>2. PICK c \in 1..MaxCalls : /\ calls[c] = Idle /\ calls'[c] = call
                               /\ \A d \in 1..MaxCalls \ {c} : calls'[d] = calls[d]
  BY <1>1
<1>3. LiveHere'
  BY DEF LiveHere
<1>4. ListedOK' /\ IsKernel(kernel')
  BY Parts DEF ListedOK
<1>5. AppOK'
  <2>1. reconnecting' \in BOOLEAN /\ lost' \in BOOLEAN
    BY Parts
  <2>2. {busy', reconnecting', apart', lost'} \subseteq BOOLEAN
    BY <1>1, <2>1
  <2> QED BY <2>2 DEF AppOK
<1>6. BusyInv'
  <2> SUFFICES ASSUME busy' PROVE lost' \/ \E d \in 1..MaxCalls : Disables(calls[d])'
    BY DEF BusyInv
  <2>1. CASE Disables(call)
    <3>1. Disables(calls[c])'
      BY <1>2, <2>1 DEF Disables
    <3> QED BY <3>1
  <2>2. CASE busy
    <3>1. lost \/ \E d \in 1..MaxCalls : Disables(calls[d])
      BY <2>2, Parts DEF BusyInv
    <3>2. CASE \E d \in 1..MaxCalls : Disables(calls[d])
      <4>1. PICK d \in 1..MaxCalls : Disables(calls[d])
        BY <3>2
      <4>2. d # c
        BY <1>2, <4>1 DEF Disables, Idle
      <4>3. calls'[d] = calls[d]
        BY <1>2, <4>2
      <4>4. Disables(calls[d])'
        BY <4>1, <4>3 DEF Disables
      <4> QED BY <4>4
    <3> QED BY <3>1, <3>2
  <2> QED BY <2>1, <2>2
<1> QED BY <1>1, <1>3, <1>4, <1>5, <1>6 DEF IInv, TypeInv

\* A load, and what it starts from.
LEMMA LoadingIs ==
    ASSUME NEW fn \in {"graph", "list"}, NEW off \in Nat
    PROVE  LET call == Loading(fn, off)
           IN  /\ CallOK(call) /\ call.at = "versions" /\ call.fn = fn /\ call.op = <<>>
               /\ call.off = off /\ call.all = <<>> /\ call.saw = <<>> /\ call.live = TRUE
<1> DEFINE call == Loading(fn, off)
<1>1. /\ DOMAIN call = Fields /\ call.fn = fn /\ call.at = "versions" /\ call.op = <<>>
      /\ call.off = off /\ call.all = <<>> /\ call.saw = <<>> /\ call.ok \in BOOLEAN
      /\ call.live = TRUE
  BY DEF Loading, Idle, Fields
<1> HIDE DEF call
<1>2. call.all \in Seq(Rows) /\ Len(call.all) < GraphCap
  BY <1>1, IdleOK DEF CallOK, Idle
<1>3. CallOK(call)
  BY <1>1, <1>2 DEF CallOK
<1> QED BY <1>1, <1>3 DEF call

\* A load that starts anew knows nothing yet.
LEMMA LoadStarts ==
    ASSUME IInv, NEW fn \in {"graph", "list"}, Launch(Loading(fn, 0)),
           kernel' = kernel, rows' = rows, total' = total, pending' = pending, shown' = shown,
           busy' = busy, reconnecting' = reconnecting, lost' = lost, Len(composer') <= 1,
           view' = fn, tab' = "versions"
    PROVE  IInv'
<1> DEFINE call == Loading(fn, 0)
<1>1. /\ CallOK(call) /\ call.at = "versions" /\ call.fn = fn /\ call.op = <<>>
      /\ call.off = 0 /\ call.all = <<>> /\ call.saw = <<>> /\ call.live = TRUE
  BY LoadingIs
<1> HIDE DEF call
<1>2. ASSUME NEW k, k = call PROVE Tracks(k)'
  <2>1. IsKernel(kernel) /\ Count(kernel) \in Nat
    BY Parts
  <2>2. 0 \in 0..Count(kernel)
    BY <2>1
  <2>3. Newest(kernel, 0) = <<>> /\ Len(<<>>) = 0 /\ 0 <= Count(kernel)
    BY <2>1, <2>2, NewestIs
  <2>4. LoadTracks(k)'
    BY <1>1, <1>2, <2>3 DEF LoadTracks
  <2> QED BY <1>1, <1>2, <2>4 DEF Tracks
<1>3. call.at # "none" /\ busy' \in BOOLEAN /\ (busy' => busy)
  BY <1>1, Parts
<1>4. Launch(call)
  BY DEF call
<1> QED BY <1>1, <1>2, <1>3, <1>4, Starting

LEMMA ReloadingIs ==
    ASSUME view \in {"graph", "list"} PROVE Reloading = Loading(view, 0) /\ Reloading.fn = view
<1>1. Reloading = Loading(view, 0)
  BY DEF Reloading
<1>2. Loading(view, 0).fn = view
  BY LoadingIs
<1> QED BY <1>1, <1>2

\* A button.
LEMMA ClickStep ==
    ASSUME IInv, NEW op \in Offered, Click(op) PROVE IInv'
<1> DEFINE call == [Idle EXCEPT !.fn = Reloading.fn, !.at = "post", !.op = <<op>>, !.live = TRUE]
           acts == op.kind # "label"
<1>1. /\ tab = "versions" /\ busy' = (busy \/ acts) /\ Launch(call)
      /\ kernel' = kernel /\ rows' = rows /\ total' = total /\ pending' = pending /\ shown' = shown
      /\ tab' = tab /\ view' = view /\ reconnecting' = reconnecting /\ composer' = composer
      /\ lost' = lost
  BY DEF Click, Usable, listing, app
<1>2. OpOK(op)
  BY Parts, OfferedOK
<1>3. view \in {"graph", "list"} /\ Reloading.fn = view
  BY Parts, ReloadingIs
<1>4. /\ DOMAIN call = Fields /\ call.fn = view /\ call.at = "post" /\ call.op = <<op>>
      /\ call.off = 0 /\ call.all = <<>> /\ call.saw = <<>> /\ call.ok \in BOOLEAN
      /\ call.live = TRUE
  BY <1>3 DEF Idle, Fields
<1> HIDE DEF call
<1>5. call.op # <<>> /\ call.op[1] = op
  BY <1>4
<1>6. CallOK(call)
  <2>1. call.all \in Seq(Rows) /\ Len(call.all) < GraphCap
    BY <1>4, IdleOK DEF CallOK, Idle
  <2>2. OpOK(call.op[1])
    BY <1>2, <1>5
  <2>3. /\ DOMAIN call = Fields /\ call.fn \in {"none", "graph", "list"} /\ call.at = "post"
        /\ call.off = 0 /\ call.all = <<>> /\ call.saw = <<>>
        /\ call.ok \in BOOLEAN /\ call.live \in BOOLEAN /\ call.op # <<>>
    BY <1>3, <1>4, <1>5
  <2> QED BY <2>1, <2>2, <2>3 DEF CallOK
<1>7. ASSUME UnderWay = {}, ~ apart \/ (call.op = <<>> /\ call.off = 0), NEW k, k = call
      PROVE  Tracks(k)'
  <2>1. UpToDate
    BY <1>1, <1>5, <1>7, Parts DEF ViewInv
  <2>2. ListUpToDate(kernel', rows', total', view') /\ RestUpToDate(kernel', pending', shown')
    BY <1>1, <2>1 DEF UpToDate
  <2>3. PostTracks(k)'
    BY <1>4, <1>7, <2>2 DEF PostTracks
  <2> QED BY <1>1, <1>4, <1>7, <2>3 DEF Tracks
<1>8. acts => Disables(call)
  BY <1>4, <1>5 DEF Disables
<1>9. busy' \in BOOLEAN /\ (busy' => busy \/ Disables(call))
  <2> HIDE DEF acts
  <2> QED BY <1>1, <1>8
<1>10. call.at # "none" /\ Len(composer') <= 1 /\ tab' = "versions" /\ view' \in {"graph", "list"}
  BY <1>1, <1>3, <1>4, Parts DEF AppOK
<1> HIDE DEF acts
<1> QED BY <1>1, <1>6, <1>7, <1>9, <1>10, Starting

LEMMA MountStep == ASSUME IInv, Mount PROVE IInv'
<1>1. /\ tab' = "versions" /\ composer' = <<>> /\ Launch(Loading(view, 0))
      /\ kernel' = kernel /\ rows' = rows /\ total' = total /\ pending' = pending /\ shown' = shown
      /\ busy' = busy /\ view' = view /\ reconnecting' = reconnecting /\ lost' = lost
      /\ view \in {"graph", "list"}
  BY Parts, ReloadingIs DEF Mount, listing
<1>2. Len(composer') <= 1
  BY <1>1
<1> QED BY <1>1, <1>2, LoadStarts

LEMMA RefreshStep == ASSUME IInv, Refresh PROVE IInv'
<1>1. /\ tab' = "versions" /\ composer' = composer /\ Launch(Loading(view, 0))
      /\ kernel' = kernel /\ rows' = rows /\ total' = total /\ pending' = pending /\ shown' = shown
      /\ busy' = busy /\ view' = view /\ reconnecting' = reconnecting /\ lost' = lost
      /\ view \in {"graph", "list"}
  BY Parts, ReloadingIs DEF Refresh, Usable, listing, app
<1>2. Len(composer') <= 1
  BY <1>1, Parts DEF AppOK
<1> QED BY <1>1, <1>2, LoadStarts

\* More of a list that is up to date, or of whatever is listed.
LEMMA LoadMoreStep == ASSUME IInv, LoadMore PROVE IInv'
<1> DEFINE call == Loading("list", Len(rows))
<1>1. /\ tab = "versions" /\ tab' = "versions" /\ composer' = composer /\ view = "list"
      /\ Launch(call)
      /\ kernel' = kernel /\ rows' = rows /\ total' = total /\ pending' = pending /\ shown' = shown
      /\ busy' = busy /\ view' = view /\ reconnecting' = reconnecting /\ lost' = lost
  BY DEF LoadMore, Usable, listing, app
<1>2. Len(rows) \in Nat
  BY Parts
<1>3. /\ CallOK(call) /\ call.at = "versions" /\ call.fn = "list" /\ call.op = <<>>
      /\ call.off = Len(rows) /\ call.all = <<>> /\ call.saw = <<>> /\ call.live = TRUE
  BY <1>2, LoadingIs
<1> HIDE DEF call
<1>4. ASSUME UnderWay = {}, ~ apart \/ (call.op = <<>> /\ call.off = 0), NEW k, k = call
      PROVE  Tracks(k)'
  <2>1. call.off # 0 => ListUpToDate(kernel, rows, total, view)
    BY <1>1, <1>4, Parts DEF ViewInv, UpToDate
  <2>2. LoadTracks(k)'
    BY <1>1, <1>3, <1>4, <2>1 DEF LoadTracks
  <2> QED BY <1>1, <1>3, <1>4, <2>2 DEF Tracks
<1>5. call.at # "none" /\ Len(composer') <= 1 /\ busy' \in BOOLEAN /\ (busy' => busy)
      /\ view' \in {"graph", "list"}
  BY <1>1, <1>3, Parts DEF AppOK
<1> QED BY <1>1, <1>3, <1>4, <1>5, Starting

\* The calls, and what they say, are as they were.
LEMMA CallsKept ==
    ASSUME IInv, calls' = calls, busy' = busy, lost' = lost, tab' = tab
    PROVE  CallsOK' /\ LiveHere' /\ BusyInv' /\ UnderWay' = UnderWay
<1>1. CallsOK' /\ LiveHere'
  BY Parts DEF CallsOK, LiveHere
<1>2. UnderWay' = UnderWay
  BY DEF UnderWay
<1>3. \A c : Disables(calls[c])' = Disables(calls[c])
  BY DEF Disables
<1>4. BusyInv'
  BY <1>3, Parts DEF BusyInv
<1> QED BY <1>1, <1>2, <1>4

LEMMA ToggleStep == ASSUME IInv, Toggle PROVE IInv'
<1>1. /\ tab = "versions" /\ tab' = "versions" /\ composer' = composer
      /\ view' = IF view = "graph" THEN "list" ELSE "graph"
      /\ IF view' = "graph" /\ Len(rows) < total THEN Launch(Loading("graph", 0))
         ELSE calls' = calls /\ apart' = (apart \/ UnderWay # {})
      /\ kernel' = kernel /\ rows' = rows /\ total' = total /\ pending' = pending /\ shown' = shown
      /\ busy' = busy /\ reconnecting' = reconnecting /\ lost' = lost
  BY DEF Toggle, Usable
<1>2. view \in {"graph", "list"} /\ view' \in {"graph", "list"} /\ Len(composer') <= 1
  BY <1>1, Parts DEF AppOK
<1>3. CASE view' = "graph" /\ Len(rows) < total
  BY <1>1, <1>2, <1>3, LoadStarts
<1>4. CASE ~ (view' = "graph" /\ Len(rows) < total)
  <2> DEFINE some == UnderWay # {}
  <2>1. calls' = calls /\ apart' = (apart \/ some)
    BY <1>1, <1>4
  <2>2. apart' \in BOOLEAN /\ (~ apart' => ~ apart /\ ~ some)
    <3> HIDE DEF some
    <3> QED BY <2>1, Parts
  <2>3. CallsOK' /\ LiveHere' /\ BusyInv' /\ UnderWay' = UnderWay
    BY <1>1, <2>1, CallsKept
  <2>4. ASSUME ~ apart' PROVE UnderWay' = {} /\ UpToDate'
    <3>1. UnderWay' = {} /\ UpToDate
      BY <1>1, <2>2, <2>3, <2>4, Parts DEF ViewInv
    <3>2. view' = "list" \/ view' = view \/ ~ (Len(rows) < total)
      BY <1>2, <1>4
    <3>3. ListUpToDate(kernel, rows, total, view')
      BY <1>2, <3>1, <3>2, Parts, OtherView DEF UpToDate
    <3> QED BY <1>1, <3>1, <3>3 DEF UpToDate
  <2>5. ViewInv'
    BY <2>4 DEF ViewInv
  <2>6. ListedOK' /\ IsKernel(kernel')
    BY <1>1, Parts DEF ListedOK
  <2>7. AppOK'
    <3>1. {busy', reconnecting', apart', lost'} \subseteq BOOLEAN
      BY <1>1, <2>2, Parts
    <3> QED BY <1>1, <1>2, <3>1 DEF AppOK
  <2> QED BY <2>3, <2>5, <2>6, <2>7 DEF IInv, TypeInv
<1> QED BY <1>3, <1>4

-----------------------------------------------------------------------------
(* The tab is left, the page is loaded again, others act. *)

LEMMA BlankIs ==
    ASSUME Blank
    PROVE  /\ ListedOK' /\ rows' = <<>> /\ busy' = FALSE
<1>1. 0 \in 0..MaxVersions
  BY MaxIsNat
<1>2. [l \in Lines |-> 0] \in [Lines -> 0..MaxVersions]
  BY <1>1
<1>3. {} \in SUBSET (1..MaxVersions \cup Lines)
  OBVIOUS
<1>4. shown' = [tip |-> [l \in Lines |-> 0], previews |-> {}]
  BY DEF Blank
<1>5. shown' \in [tip : [Lines -> 0..MaxVersions], previews : SUBSET (1..MaxVersions \cup Lines)]
  BY <1>2, <1>3, <1>4
<1>6. rows' = <<>> /\ total' = 0 /\ pending' = {} /\ busy' = FALSE
  BY DEF Blank
<1>7. rows' \in Seq(Rows) /\ pending' \subseteq 1..MaxVersions
  BY <1>6
<1> QED BY <1>1, <1>5, <1>6, <1>7 DEF ListedOK

LEMMA UnmountStep ==
    ASSUME IInv, Unmount, kernel' = kernel, view' = view, reconnecting' = reconnecting,
           apart' = apart, lost' = lost, Len(composer') <= 1
    PROVE  IInv'
<1> DEFINE left(c) == [calls[c] EXCEPT !.live = FALSE]
<1>1. Blank /\ tab' = "other" /\ ListedOK' /\ rows' = <<>> /\ busy' = FALSE
  BY BlankIs DEF Unmount
<1>2. calls' = [c \in 1..MaxCalls |-> IF calls[c].op = <<>> THEN Idle ELSE left(c)]
  BY Parts DEF Unmount
<1>3. ASSUME NEW c \in 1..MaxCalls
      PROVE  /\ CallOK(calls'[c]) /\ calls'[c].live = FALSE
             /\ calls'[c].at # "none" => calls[c].at # "none"
  <2>1. CallOK(calls[c])
    BY Parts
  <2>2. CASE calls[c].op = <<>>
    <3>1. calls'[c] = Idle
      BY <1>2, <2>2
    <3>2. Idle.live = FALSE
      BY DEF Idle
    <3> QED BY <3>1, <3>2, IdleOK, IdleIs
  <2>3. CASE calls[c].op # <<>>
    <3>1. calls'[c] = left(c)
      BY <1>2, <2>3
    <3>2. calls[c].at # "none"
      BY <2>1, <2>3 DEF CallOK, Idle
    <3>3. DOMAIN calls[c] = Fields
      BY <2>1 DEF CallOK
    <3>4. /\ DOMAIN left(c) = Fields /\ left(c).fn = calls[c].fn /\ left(c).at = calls[c].at
          /\ left(c).op = calls[c].op /\ left(c).off = calls[c].off /\ left(c).all = calls[c].all
          /\ left(c).saw = calls[c].saw /\ left(c).ok = calls[c].ok /\ left(c).live = FALSE
      BY <3>3 DEF Fields
    <3> HIDE DEF left
    <3>5. CallOK(left(c))
      BY <2>1, <3>2, <3>4 DEF CallOK
    <3> QED BY <3>1, <3>2, <3>4, <3>5
  <2> QED BY <2>2, <2>3
<1>4. CallsOK'
  BY <1>2, <1>3 DEF CallsOK
<1>5. LiveHere'
  BY <1>3 DEF LiveHere
<1>6. UnderWay' \subseteq UnderWay
  <2>1. UnderWay = {c \in 1..MaxCalls : calls[c].at # "none"}
    BY Parts, UnderWayIs
  <2>2. UnderWay' = {c \in 1..MaxCalls : calls'[c].at # "none"}
    BY <1>4, UnderWayNext
  <2> QED BY <1>3, <2>1, <2>2
<1>7. ViewInv'
  BY <1>1, <1>6, Parts DEF ViewInv
<1>8. BusyInv'
  BY <1>1 DEF BusyInv
<1>9. AppOK'
  <2>1. {busy', reconnecting', apart', lost'} \subseteq BOOLEAN
    BY <1>1, Parts
  <2> QED BY <1>1, <2>1, Parts DEF AppOK
<1>10. IsKernel(kernel')
  BY Parts
<1> QED BY <1>1, <1>4, <1>5, <1>7, <1>8, <1>9, <1>10 DEF IInv, TypeInv

LEMMA ContinueStep == ASSUME IInv, NEW r \in ToSet(rows), Continue(r) PROVE IInv'
<1>1. /\ Unmount /\ composer' = <<Intent(r)>> /\ kernel' = kernel /\ view' = view
      /\ reconnecting' = reconnecting /\ apart' = apart /\ lost' = lost
  BY DEF Continue
<1>2. Len(composer') <= 1
  BY <1>1
<1> QED BY <1>1, <1>2, UnmountStep

LEMMA LeaveStep == ASSUME IInv, Leave PROVE IInv'
<1>1. /\ Unmount /\ composer' = <<>> /\ kernel' = kernel /\ view' = view
      /\ reconnecting' = reconnecting /\ apart' = apart /\ lost' = lost
  BY DEF Leave
<1>2. Len(composer') <= 1
  BY <1>1
<1> QED BY <1>1, <1>2, UnmountStep

\* A page on which nothing has happened yet.
LEMMA Fresh ==
    ASSUME IsKernel(kernel), ListedOK, rows = <<>>, busy = FALSE, tab = "other",
           view \in {"graph", "list"}, reconnecting \in BOOLEAN, apart \in BOOLEAN,
           lost \in BOOLEAN, Len(composer) <= 1,
           calls = [c \in 1..MaxCalls |-> Idle]
    PROVE  IInv
<1>1. \A c \in 1..MaxCalls : calls[c] = Idle
  OBVIOUS
<1>2. CallsOK
  BY <1>1, IdleOK DEF CallsOK
<1>3. LiveHere
  BY <1>1 DEF LiveHere, Idle
<1>4. UnderWay = {}
  BY <1>1 DEF UnderWay
<1>5. ViewInv
  BY <1>4 DEF ViewInv
<1>6. AppOK
  BY DEF AppOK
<1>7. BusyInv
  BY DEF BusyInv
<1> QED BY <1>2, <1>3, <1>5, <1>6, <1>7 DEF IInv, TypeInv

LEMMA ReloadStep == ASSUME IInv, Reload PROVE IInv'
<1>1. /\ Blank /\ reconnecting' = FALSE /\ tab' = "other" /\ composer' = <<>> /\ apart' = FALSE
      /\ kernel' = kernel /\ view' = view /\ lost' = lost
      /\ calls' = [c \in 1..MaxCalls |-> Idle]
  BY Parts DEF Reload
<1>2. ListedOK' /\ rows' = <<>> /\ busy' = FALSE
  BY <1>1, BlankIs
<1>3. \A c \in 1..MaxCalls : calls'[c] = Idle
  BY <1>1
<1>4. CallsOK'
  BY <1>1, <1>3, IdleOK DEF CallsOK
<1>5. LiveHere'
  BY <1>3 DEF LiveHere, Idle
<1>6. ViewInv'
  BY <1>1, <1>3 DEF ViewInv, UnderWay
<1>7. AppOK'
  <2>1. {busy', reconnecting', apart', lost'} \subseteq BOOLEAN
    BY <1>1, <1>2, Parts
  <2>2. Len(composer') <= 1
    BY <1>1
  <2> QED BY <1>1, <1>2, <2>1, <2>2, Parts DEF AppOK
<1>8. BusyInv'
  BY <1>2 DEF BusyInv
<1>9. IsKernel(kernel')
  BY <1>1, Parts
<1> QED BY <1>2, <1>4, <1>5, <1>6, <1>7, <1>8, <1>9 DEF IInv, TypeInv

LEMMA OthersStep == ASSUME IInv, Others PROVE IInv'
<1>1. /\ kernel' \in OtherEffects(kernel) /\ apart' = TRUE
      /\ rows' = rows /\ total' = total /\ pending' = pending /\ shown' = shown
      /\ busy' = busy /\ tab' = tab /\ view' = view /\ calls' = calls
      /\ reconnecting' = reconnecting /\ composer' = composer /\ lost' = lost
  BY DEF Others, listing, app
<1>2. IsKernel(kernel')
  BY <1>1, Parts, OtherTyped
<1>3. CallsOK' /\ LiveHere' /\ BusyInv'
  BY <1>1, CallsKept
<1>4. ListedOK' /\ AppOK'
  BY <1>1, Parts DEF ListedOK, AppOK
<1>5. ViewInv'
  BY <1>1 DEF ViewInv
<1> QED BY <1>2, <1>3, <1>4, <1>5 DEF IInv, TypeInv

LEMMA StutterStep == ASSUME IInv, UNCHANGED vars PROVE IInv'
<1>1. /\ kernel' = kernel /\ apart' = apart
      /\ rows' = rows /\ total' = total /\ pending' = pending /\ shown' = shown
      /\ busy' = busy /\ tab' = tab /\ view' = view /\ calls' = calls
      /\ reconnecting' = reconnecting /\ composer' = composer /\ lost' = lost
  BY DEF vars
<1>2. CallsOK' /\ LiveHere' /\ BusyInv' /\ UnderWay' = UnderWay
  BY <1>1, CallsKept
<1>3. ListedOK' /\ AppOK' /\ IsKernel(kernel')
  BY <1>1, Parts DEF ListedOK, AppOK
<1>4. UpToDate' = UpToDate
  BY <1>1 DEF UpToDate
<1>5. \A c : Tracks(calls[c])' <=> Tracks(calls[c])
  BY <1>1 DEF Tracks, PostTracks, LoadTracks
<1>6. ViewInv'
  BY <1>1, <1>2, <1>4, <1>5, Parts DEF ViewInv
<1> QED BY <1>2, <1>3, <1>6 DEF IInv, TypeInv
-----------------------------------------------------------------------------
(* The invariant, and what it is for. *)

LEMMA InitIInv == ASSUME Init PROVE IInv
<1>1. IsKernel(kernel)
  BY StartsAssumption DEF Init
<1>2. /\ rows = <<>> /\ total = 0 /\ pending = {} /\ busy = FALSE /\ tab = "other"
      /\ view \in {"graph", "list"} /\ reconnecting = FALSE /\ apart = FALSE /\ lost = FALSE
      /\ composer = <<>> /\ calls = [c \in 1..MaxCalls |-> Idle]
      /\ shown = [tip |-> [l \in Lines |-> 0], previews |-> {}]
  BY DEF Init
<1>3. 0 \in 0..MaxVersions
  BY MaxIsNat
<1>4. [l \in Lines |-> 0] \in [Lines -> 0..MaxVersions]
  BY <1>3
<1>5. {} \in SUBSET (1..MaxVersions \cup Lines)
  OBVIOUS
<1>6. shown \in [tip : [Lines -> 0..MaxVersions], previews : SUBSET (1..MaxVersions \cup Lines)]
  BY <1>2, <1>4, <1>5
<1>7. rows \in Seq(Rows) /\ pending \subseteq 1..MaxVersions
  BY <1>2
<1>8. ListedOK
  BY <1>2, <1>3, <1>6, <1>7 DEF ListedOK
<1>9. Len(composer) <= 1
  BY <1>2
<1> QED BY <1>1, <1>2, <1>8, <1>9, Fresh

LEMMA ProgressStep ==
    ASSUME IInv, NEW c \in DOMAIN calls, Progress(c) PROVE IInv'
<1>1. CASE Answer(c)        BY <1>1, AnswerStep
<1>2. CASE Serve(c)         BY <1>2, ServeStep
<1>3. CASE ListArrives(c)   BY <1>3, ListArrivesStep
<1>4. CASE GraphArrives(c)  BY <1>4, GraphArrivesStep
<1>5. CASE RestArrives(c)   BY <1>5, RestArrivesStep
<1>6. CASE LeftFinishes(c)  BY <1>6, LeftFinishesStep
<1>7. CASE PostArrives(c)   BY <1>7, PostArrivesStep
<1> QED BY <1>1, <1>2, <1>3, <1>4, <1>5, <1>6, <1>7 DEF Progress

LEMMA OperatorStep == ASSUME IInv, Operator PROVE IInv'
<1>1. CASE \E op \in Offered : Click(op)        BY <1>1, ClickStep
<1>2. CASE \E r \in ToSet(rows) : Continue(r)   BY <1>2, ContinueStep
<1>3. CASE Mount     BY <1>3, MountStep
<1>4. CASE Toggle    BY <1>4, ToggleStep
<1>5. CASE Refresh   BY <1>5, RefreshStep
<1>6. CASE LoadMore  BY <1>6, LoadMoreStep
<1>7. CASE Leave     BY <1>7, LeaveStep
<1> QED BY <1>1, <1>2, <1>3, <1>4, <1>5, <1>6, <1>7 DEF Operator

LEMMA StepIInv == ASSUME IInv, [Next]_vars PROVE IInv'
<1>1. CASE \E c \in DOMAIN calls : Progress(c)  BY <1>1, ProgressStep
<1>2. CASE \E c \in DOMAIN calls : Lose(c)      BY <1>2, LoseStep
<1>3. CASE Operator        BY <1>3, OperatorStep
<1>4. CASE Reload          BY <1>4, ReloadStep
<1>5. CASE Others          BY <1>5, OthersStep
<1>6. CASE UNCHANGED vars  BY <1>6, StutterStep
<1> QED BY <1>1, <1>2, <1>3, <1>4, <1>5, <1>6 DEF Next

\* In every reachable state the tab's state is of its types, the one call under
\* way knows what it will make up to date, and disabled buttons are accounted for.
THEOREM Invariant == Spec => []IInv
<1>1. Init => IInv
  BY InitIInv
<1>2. IInv /\ [Next]_vars => IInv'
  BY StepIInv
<1> QED BY <1>1, <1>2, PTL DEF Spec

\* What the tab lists are rows of the history, a tab that is not mounted lists
\* nothing and has no disabled buttons, and a graph load stops at its cap
\* (load, loadGraph, loadPending, the effects that reset them).
THEOREM TypeCorrect == Spec => []TypeOK
<1>1. IInv => TypeOK
  <2> SUFFICES ASSUME IInv PROVE TypeOK
    OBVIOUS
  <2>1. \A c \in DOMAIN calls : calls[c].all \in Seq(Rows) /\ Len(calls[c].all) < GraphCap
    BY Parts DEF CallOK
  <2> QED BY <2>1, Parts DEF TypeOK, ListedOK, AppOK
<1> QED BY <1>1, Invariant, PTL

\* Once its calls have come to rest, the tab shows the kernel's history, unless
\* somebody else changed it or two of the tab's calls overlapped (load,
\* loadGraph, loadPending, runReboot and the other operations).
THEOREM ListingCorrect == Spec => []ListingAgrees
<1>1. IInv => ListingAgrees
  <2> SUFFICES ASSUME IInv, UnderWay = {}, tab = "versions", ~ apart
               PROVE  /\ rows = SubSeq(Listing(kernel), 1, Len(rows))
                      /\ Len(rows) >= Min({Count(kernel), IF view = "graph" THEN GraphCap ELSE Page})
                      /\ total = Count(kernel) /\ pending = kernel.held
                      /\ shown = [tip |-> kernel.tip, previews |-> kernel.previews]
                      /\ busy => lost
    BY DEF ListingAgrees
  <2>1. UpToDate
    BY Parts DEF ViewInv
  <2>2. ASSUME busy PROVE lost
    <3>1. ASSUME NEW c \in 1..MaxCalls, Disables(calls[c]) PROVE FALSE
      <4>1. calls[c].at # "none"
        BY <3>1 DEF Disables
      <4> QED BY <4>1, Parts, UnderWayIs
    <3> QED BY <2>2, <3>1, Parts DEF BusyInv
  <2> QED BY <2>1, <2>2 DEF UpToDate, ListUpToDate, RestUpToDate, Newest
<1> QED BY <1>1, Invariant, PTL
=============================================================================
