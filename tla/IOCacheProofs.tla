--------------------------- MODULE IOCacheProofs ---------------------------
(***************************************************************************)
(* Theorems about IOCache, for any address space, any sizes and ranges and  *)
(* any bounds: under CarefulSpec the trees of the layers stay sound, each   *)
(* operation does to a stack of layers of bytes what its name says, and an  *)
(* undo takes the last write back.                                          *)
(***************************************************************************)
EXTENDS IOCacheLayers, NatFacts, SequenceTheorems, FiniteSetTheorems, TLAPS

-----------------------------------------------------------------------------
(* Intervals.                                                               *)

\* The interval v goes from lo to hi; it is empty if hi = lo - 1.
Span(v, lo, hi) ==
  /\ lo \in Addr /\ hi \in Addr /\ lo <= hi + 1
  /\ v.addr = lo
  /\ End(v) = IF hi = MaxAddr THEN 0 ELSE hi + 1

\* An interval that is neither empty nor goes past the end nor is everything.
Proper(v) == v \in Itv /\ v.size >= 1 /\ v.addr + v.size <= M

Hi(v) == v.addr + v.size - 1

\* Remainders of what is at most one turn too large or too small.
LEMMA Mod ==
  ASSUME NEW x \in Int
  PROVE  /\ M \in Nat \ {0}
         /\ 0 <= x /\ x < M => x % M = x
         /\ M <= x /\ x < 2 * M => x % M = x - M
         /\ -M <= x /\ x < 0 => x % M = x + M
<1>1. M \in Nat \ {0}
  BY SizesAssumption DEF M
<1> QED BY <1>1

\* A proper interval has bounds, and its cells are between them.
LEMMA ProperSpan ==
  ASSUME NEW v, Proper(v)
  PROVE  /\ Span(v, v.addr, Hi(v)) /\ v.addr <= Hi(v)
         /\ Cells(v) = v.addr .. Hi(v) /\ Cells(v) \subseteq Addr
         /\ v.addr \in Nat /\ v.size \in Nat
<1>1. v.addr \in 0 .. MaxAddr /\ v.size \in 0 .. MaxAddr /\ MaxAddr \in Nat
      /\ v.size >= 1 /\ v.addr + v.size <= MaxAddr + 1
  BY SizesAssumption DEF Proper, Itv, Addr, M
<1>2. End(v) = IF Hi(v) = MaxAddr THEN 0 ELSE Hi(v) + 1
  <2> DEFINE e == v.addr + v.size
  <2>1. e % M = IF e = M THEN 0 ELSE e
    <3>1. e \in Int /\ 0 <= e /\ e <= M
      BY <1>1 DEF M
    <3> HIDE DEF e
    <3>2. 0 <= M /\ M < 2 * M /\ M - M = 0
      BY Mod
    <3> QED BY <3>1, <3>2, Mod
  <2>2. Hi(v) = MaxAddr <=> v.addr + v.size = M
    BY <1>1 DEF Hi, M
  <2>3. Hi(v) + 1 = v.addr + v.size
    BY <1>1 DEF Hi
  <2> QED BY <2>1, <2>2, <2>3 DEF End
<1> QED BY <1>1, <1>2 DEF Span, Hi, Cells, Addr

\* The boundaries that the commands give are those of the interval.
LEMMA ClosedSpan ==
  ASSUME NEW from \in Addr, NEW to \in Addr, from <= to
  PROVE  Span(Closed(from, to), from, to)
<1>1. from \in 0 .. MaxAddr /\ to \in 0 .. MaxAddr /\ MaxAddr \in Nat
  BY SizesAssumption DEF Addr
<1>2. CASE to + 1 - from = M
  <2>1. Closed(from, to) = [addr |-> from, size |-> 0] /\ from = 0 /\ to = MaxAddr
    BY <1>1, <1>2, Mod DEF Closed, M
  <2> QED BY <1>1, <2>1, Mod DEF Span, End, M, Addr
<1>3. CASE to + 1 - from # M
  <2>1. Closed(from, to) = [addr |-> from, size |-> to + 1 - from]
    BY <1>1, <1>3, Mod DEF Closed, M
  <2>2. End(Closed(from, to)) = (to + 1) % M
    BY <1>1, <2>1 DEF End
  <2>3. (to + 1) % M = IF to = MaxAddr THEN 0 ELSE to + 1
    BY <1>1, Mod DEF M
  <2> QED BY <1>1, <2>1, <2>2, <2>3 DEF Span, Addr
<1> QED BY <1>2, <1>3

\* The comparisons of r_itv are those of the bounds.
LEMMA Compare ==
  ASSUME NEW v, NEW l, NEW h, Span(v, l, h), NEW x, NEW lo, NEW hi, Span(x, lo, hi)
  PROVE  /\ Overlap(v, x) <=> l <= hi /\ lo <= h
         /\ Include(v, x) <=> l <= lo /\ hi <= h
<1>1. {l, h, lo, hi} \subseteq 0 .. MaxAddr /\ MaxAddr \in Nat
  BY SizesAssumption DEF Span, Addr
<1> QED BY <1>1 DEF Span, Overlap, Include

\* The intersection of intervals that overlap, one of which is proper.
LEMMA Intersection ==
  ASSUME NEW v, NEW l, NEW h, Span(v, l, h), NEW x, NEW lo, NEW hi, Span(x, lo, hi),
         l <= hi, lo <= h, l <= h, lo <= hi, l # 0 \/ h # MaxAddr \/ lo # 0 \/ hi # MaxAddr
  PROVE  /\ Proper(Intersect(v, x))
         /\ Intersect(v, x).addr = (IF l < lo THEN lo ELSE l)
         /\ Hi(Intersect(v, x)) = (IF h < hi THEN h ELSE hi)
<1>1. {l, h, lo, hi} \subseteq 0 .. MaxAddr /\ MaxAddr \in Nat
  BY SizesAssumption DEF Span, Addr
<1>2. (End(v) - 1) % M = h /\ (End(x) - 1) % M = hi
  <2>1. h = MaxAddr => End(v) - 1 = -1
    BY <1>1 DEF Span
  <2>2. hi = MaxAddr => End(x) - 1 = -1
    BY <1>1 DEF Span
  <2>3. (h # MaxAddr => End(v) - 1 = h) /\ (hi # MaxAddr => End(x) - 1 = hi)
    BY <1>1 DEF Span
  <2>4. (-1) % M = MaxAddr
    BY <1>1, Mod DEF M
  <2>5. h % M = h /\ hi % M = hi
    BY <1>1, Mod DEF M
  <2> QED BY <2>1, <2>2, <2>3, <2>4, <2>5
<1> DEFINE a == IF l < lo THEN lo ELSE l
           b == IF h < hi THEN h ELSE hi
<1>3. a \in 0 .. MaxAddr /\ b \in 0 .. MaxAddr /\ a <= b /\ (a # 0 \/ b # MaxAddr)
  BY <1>1
<1>4. Intersect(v, x) = [addr |-> a, size |-> (b + 1 - a) % M]
  <2>1. v.addr = l /\ x.addr = lo
    BY DEF Span
  <2>2. Larger(v.addr, x.addr) = a
    BY <1>1, <2>1 DEF Larger
  <2>3. Smaller((End(v) - 1) % M, (End(x) - 1) % M) = b
    BY <1>1, <1>2 DEF Smaller
  <2> HIDE DEF a, b
  <2>4. Intersect(v, x) =
          [addr |-> Larger(v.addr, x.addr),
           size |-> ((Smaller((End(v) - 1) % M, (End(x) - 1) % M) + 1)
                       - Larger(v.addr, x.addr)) % M]
    BY Zenon DEF Intersect
  <2>5. Intersect(v, x) = [addr |-> a, size |-> ((b + 1) - a) % M]
    BY <2>2, <2>3, <2>4, Zenon
  <2>6. (b + 1) - a = b + 1 - a
    BY <1>3
  <2> QED BY <2>5, <2>6
<1>5. (b + 1 - a) % M = b + 1 - a /\ b + 1 - a \in 1 .. MaxAddr
  <2> HIDE DEF a, b
  <2> QED BY <1>1, <1>3, Mod DEF M
<1> HIDE DEF a, b
<1>6. Proper(Intersect(v, x)) /\ Intersect(v, x).addr = a /\ Hi(Intersect(v, x)) = b
  BY <1>1, <1>3, <1>4, <1>5 DEF Proper, Itv, Addr, M, Hi
<1> QED BY <1>6 DEF a, b

-----------------------------------------------------------------------------
(* Items.                                                                   *)

\* The bytes that a write or the file can have put somewhere.
RealByte == (0 .. MaxWrites) \X Addr

Buffers == UNION {[Cells(v) -> RealByte] : v \in Itv}
Items == [itv : Itv, tree : Itv \cup {NoItv}, live : BOOLEAN, data : Buffers, odata : Buffers]

\* The interval of an item: a cut at its end can leave it empty, but not at 0.
Fits(v) == v \in Itv /\ v.addr + v.size <= M /\ (v.size = 0 => v.addr # 0)

\* An item whose node, if it has a tree_itv, lies in its buffers.
Good(i) ==
  /\ i \in Items
  /\ Fits(i.itv)
  /\ {i.data, i.odata} \subseteq [Cells(i.itv) -> RealByte]
  /\ i.tree # NoItv => Proper(i.tree) /\ Cells(i.tree) \subseteq Cells(i.itv)
  /\ i.live => i.tree # NoItv

\* The addresses at which the item i shows.
Shows(i) == IF i.live THEN Cells(i.tree) ELSE {}

\* The interval of an item has bounds, also if it is empty.
LEMMA FitsSpan ==
  ASSUME NEW v, Fits(v)
  PROVE  /\ Span(v, v.addr, Hi(v)) /\ Cells(v) = v.addr .. Hi(v) /\ Cells(v) \subseteq Addr
         /\ v.addr \in Nat /\ v.size \in Nat
<1>1. v.addr \in 0 .. MaxAddr /\ v.size \in 0 .. MaxAddr /\ MaxAddr \in Nat
  BY SizesAssumption DEF Fits, Itv, Addr
<1>2. CASE v.size # 0
  BY <1>1, <1>2, ProperSpan DEF Fits, Proper
<1>3. CASE v.size = 0
  <2>1. v.addr % M = v.addr
    BY <1>1, Mod DEF M
  <2>2. v.addr + v.size = v.addr
    BY <1>1, <1>3
  <2>3. End(v) = v.addr
    BY <2>1, <2>2 DEF End
  <2>4. Hi(v) = v.addr - 1 /\ v.addr - 1 \in Addr
    BY <1>1, <1>3 DEF Fits, Hi, Addr
  <2> QED BY <1>1, <1>3, <2>3, <2>4 DEF Span, Cells, Hi, Fits, Addr
<1> QED BY <1>2, <1>3

\* The parts of a good item.
LEMMA GoodParts ==
  ASSUME NEW i, Good(i)
  PROVE  /\ i.live \in BOOLEAN
         /\ i.data \in [Cells(i.itv) -> RealByte] /\ i.odata \in [Cells(i.itv) -> RealByte]
         /\ i.tree = NoItv \/ Proper(i.tree)
         /\ Shows(i) \subseteq Cells(i.itv) /\ Cells(i.itv) \subseteq Addr
         /\ i.live => /\ Proper(i.tree) /\ Shows(i) = i.tree.addr .. Hi(i.tree)
                      /\ Shows(i) # {}
<1>1. /\ i.live \in BOOLEAN /\ Fits(i.itv)
      /\ i.data \in [Cells(i.itv) -> RealByte] /\ i.odata \in [Cells(i.itv) -> RealByte]
      /\ i.tree # NoItv => Proper(i.tree) /\ Cells(i.tree) \subseteq Cells(i.itv)
      /\ i.live => i.tree # NoItv
  BY DEF Good, Items
<1>2. Cells(i.itv) \subseteq Addr
  BY <1>1, FitsSpan
<1>3. ASSUME i.live
      PROVE  Proper(i.tree) /\ Shows(i) = i.tree.addr .. Hi(i.tree) /\ Shows(i) # {}
  <2>1. Proper(i.tree) /\ Shows(i) = Cells(i.tree)
    BY <1>1, <1>3 DEF Shows
  <2>2. Cells(i.tree) = i.tree.addr .. Hi(i.tree) /\ i.tree.addr <= Hi(i.tree)
        /\ i.tree.addr \in Nat /\ Hi(i.tree) \in Nat
    BY <2>1, ProperSpan, SizesAssumption DEF Span, Addr
  <2> QED BY <2>1, <2>2
<1>4. Shows(i) \subseteq Cells(i.itv)
  BY <1>1 DEF Shows
<1> QED BY <1>1, <1>2, <1>3, <1>4

\* The bounds of the node lie in those of the item.
LEMMA TreeInItv ==
  ASSUME NEW i, Good(i), i.tree # NoItv
  PROVE  i.itv.addr <= i.tree.addr /\ Hi(i.tree) <= Hi(i.itv)
<1>1. Proper(i.tree) /\ Cells(i.tree) \subseteq Cells(i.itv) /\ Fits(i.itv)
  BY DEF Good
<1>2. Cells(i.tree) = i.tree.addr .. Hi(i.tree) /\ i.tree.addr <= Hi(i.tree)
      /\ Cells(i.itv) = i.itv.addr .. Hi(i.itv) /\ i.tree.addr \in Nat /\ Hi(i.tree) \in Addr
      /\ i.itv.addr \in Nat /\ Hi(i.itv) \in Addr
  BY <1>1, ProperSpan, FitsSpan DEF Span
<1>3. i.tree.addr \in i.itv.addr .. Hi(i.itv) /\ Hi(i.tree) \in i.itv.addr .. Hi(i.itv)
  BY <1>1, <1>2 DEF Addr
<1> QED BY <1>3

\* A search of the tree finds what shows in the interval.
LEMMA InTreeIs ==
  ASSUME NEW i, Good(i), NEW r, NEW lo, NEW hi, Span(r, lo, hi)
  PROVE  /\ InTree(i, r) <=> i.live /\ i.tree.addr <= hi /\ lo <= Hi(i.tree)
         /\ lo <= hi => (InTree(i, r) <=> Shows(i) \cap (lo .. hi) # {})
<1>1. i.live => Proper(i.tree) /\ Shows(i) = i.tree.addr .. Hi(i.tree)
  BY GoodParts
<1>2. InTree(i, r) <=> i.live /\ i.tree.addr <= hi /\ lo <= Hi(i.tree)
  BY <1>1, ProperSpan, Compare DEF InTree
<1>3. ASSUME i.live, lo <= hi
      PROVE  (i.tree.addr <= hi /\ lo <= Hi(i.tree)) <=> Shows(i) \cap (lo .. hi) # {}
  <2>1. i.tree.addr \in Nat /\ Hi(i.tree) \in 0 .. MaxAddr /\ i.tree.addr <= Hi(i.tree)
    BY <1>1, <1>3, ProperSpan DEF Span, Addr
  <2>2. lo \in Nat /\ hi \in Nat /\ MaxAddr \in Nat
    BY SizesAssumption DEF Span, Addr
  <2> DEFINE x == IF lo < i.tree.addr THEN i.tree.addr ELSE lo
  <2>3. ASSUME i.tree.addr <= hi, lo <= Hi(i.tree)
        PROVE  x \in Shows(i) /\ x \in lo .. hi
    BY <1>1, <1>3, <2>1, <2>2, <2>3
  <2>4. ASSUME NEW y \in Shows(i), y \in lo .. hi
        PROVE  i.tree.addr <= hi /\ lo <= Hi(i.tree)
    BY <1>1, <1>3, <2>1, <2>2, <2>4
  <2> QED BY <2>3, <2>4
<1>4. ~ i.live => Shows(i) = {}
  BY DEF Shows
<1> QED BY <1>2, <1>3, <1>4, GoodParts

\* An item with another node.
LEMMA Retree ==
  ASSUME NEW i, Good(i), i.live, NEW t, Proper(t), Cells(t) \subseteq Cells(i.itv),
         NEW c, c = [i EXCEPT !.tree = t]
  PROVE  Good(c) /\ c.itv = i.itv /\ c.data = i.data /\ c.odata = i.odata
         /\ Shows(c) = Cells(t)
<1>1. i \in Items /\ t \in Itv
  BY DEF Good, Proper
<1>2. /\ c \in Items /\ c.itv = i.itv /\ c.data = i.data /\ c.odata = i.odata
      /\ c.live = i.live /\ c.tree = t
  BY <1>1 DEF Items
<1>3. Fits(c.itv) /\ {c.data, c.odata} \subseteq [Cells(c.itv) -> RealByte]
  BY <1>2 DEF Good
<1>4. c.tree # NoItv
  BY <1>1, <1>2, NoneAssumption
<1>5. Good(c)
  BY <1>2, <1>3, <1>4, Zenon DEF Good
<1> QED BY <1>2, <1>5 DEF Shows

\* An item that lost its node.
LEMMA Untree ==
  ASSUME NEW i, Good(i)
  PROVE  /\ LET c == [i EXCEPT !.tree = NoItv, !.live = FALSE]
            IN  Good(c) /\ c.itv = i.itv /\ c.data = i.data /\ c.odata = i.odata /\ Shows(c) = {}
         /\ LET c == [i EXCEPT !.live = FALSE]
            IN  Good(c) /\ c.itv = i.itv /\ c.data = i.data /\ c.odata = i.odata /\ Shows(c) = {}
<1>1. i \in Items
  BY DEF Good
<1>2. ASSUME NEW c \in Items, c.itv = i.itv, c.data = i.data, c.odata = i.odata,
             c.live = FALSE, c.tree \in {i.tree, NoItv}
      PROVE  Good(c) /\ Shows(c) = {}
  BY <1>2 DEF Good, Shows
<1>3. LET c == [i EXCEPT !.tree = NoItv, !.live = FALSE]
      IN  c \in Items /\ c.itv = i.itv /\ c.data = i.data /\ c.odata = i.odata
          /\ c.live = FALSE /\ c.tree = NoItv
  BY <1>1 DEF Items
<1>4. LET c == [i EXCEPT !.live = FALSE]
      IN  c \in Items /\ c.itv = i.itv /\ c.data = i.data /\ c.odata = i.odata
          /\ c.live = FALSE /\ c.tree = i.tree
  BY <1>1 DEF Items
<1> QED BY <1>2, <1>3, <1>4

\* The node of i ends at the last address and v is written into it.
AtTop(i, v) == InTree(i, v) /\ v.addr > i.tree.addr /\ End(i.tree) = 0 /\ End(v) # 0

\* Cutting an item takes from it what v covers; only where v is inside the node is
\* also the tail taken.
LEMMA CutIs ==
  ASSUME NEW i, Good(i), NEW v, Proper(v)
  PROVE  /\ Good(Cut(i, v)) /\ Cut(i, v).itv = i.itv /\ Cut(i, v).data = i.data
         /\ Cut(i, v).odata = i.odata
         /\ Shows(Cut(i, v)) \subseteq Shows(i) \ Cells(v)
         /\ ~ Nested(i, v) /\ ~ AtTop(i, v) => Shows(Cut(i, v)) = Shows(i) \ Cells(v)
         /\ Nested(i, v) => Shows(Cut(i, v)) = Shows(i) \cap (0 .. v.addr - 1)
<1> DEFINE t == i.tree
           lo == v.addr
           hi == Hi(v)
           l == t.addr
           h == Hi(t)
<1>1. Span(v, lo, hi) /\ lo <= hi /\ Cells(v) = lo .. hi /\ lo \in Nat
  BY ProperSpan
<1>2. MaxAddr \in Nat /\ lo \in 0 .. MaxAddr /\ hi \in 0 .. MaxAddr
  BY <1>1, SizesAssumption DEF Span, Addr
<1>3. InTree(i, v) <=> Shows(i) \cap Cells(v) # {}
  BY <1>1, InTreeIs
<1>4. CASE ~ InTree(i, v)
  <2>1. Cut(i, v) = i /\ ~ Nested(i, v)
    BY <1>4 DEF Cut, Nested
  <2> QED BY <1>3, <1>4, <2>1
<1>5. CASE InTree(i, v)
  <2>1. i.live /\ Proper(t) /\ Shows(i) = l .. h /\ l <= hi /\ lo <= h /\ i.tree # NoItv
    BY <1>1, <1>5, InTreeIs, GoodParts DEF Good
  <2>2. Span(t, l, h) /\ l <= h /\ l \in 0 .. MaxAddr /\ h \in 0 .. MaxAddr
        /\ Cells(t) = l .. h /\ Cells(t) \subseteq Cells(i.itv)
    BY <2>1, ProperSpan DEF Span, Addr, Good
  <2>3. Nested(i, v) <=> l < lo /\ h # MaxAddr /\ hi < h
    BY <1>1, <1>2, <1>5, <2>1, <2>2 DEF Nested, Span
  <2>4. AtTop(i, v) <=> l < lo /\ h = MaxAddr /\ hi < h
    BY <1>1, <1>2, <1>5, <2>1, <2>2 DEF AtTop, Span
  <2>5. Include(v, t) <=> lo <= l /\ h <= hi
    BY <1>1, <2>2, Compare
  <2>6. CASE l < lo
    <3> DEFINE u == [addr |-> l, size |-> lo - l]
    <3>1. Cut(i, v) = [i EXCEPT !.tree = u]
      <4>1. Cut(i, v) = [i EXCEPT !.tree.size = lo - l]
        BY <1>2, <1>5, <2>2, <2>6 DEF Cut
      <4>2. i \in Items /\ t \in Itv
        BY <2>1 DEF Good, Proper
      <4>3. [t EXCEPT !.size = lo - l] = u
        BY <4>2 DEF Itv
      <4>4. [i EXCEPT !.tree.size = lo - l] = [i EXCEPT !.tree = [t EXCEPT !.size = lo - l]]
        BY <4>2 DEF Items
      <4> QED BY <4>1, <4>3, <4>4
    <3>2. u.addr = l /\ u.size = lo - l /\ u \in Itv /\ lo - l >= 1 /\ l + (lo - l) <= M
      BY <1>2, <2>2, <2>6 DEF Itv, Addr, M
    <3>3. Proper(u) /\ Cells(u) = l .. lo - 1
      <4> HIDE DEF u
      <4>1. Hi(u) = lo - 1
        BY <1>2, <2>2, <3>2 DEF Hi
      <4> QED BY <3>2, <4>1, ProperSpan DEF Proper
    <3>4. Cells(u) = Shows(i) \cap (0 .. lo - 1) /\ Cells(u) \subseteq Cells(i.itv)
      BY <1>2, <2>1, <2>2, <2>6, <3>3
    <3> HIDE DEF u
    <3>5. Good(Cut(i, v)) /\ Cut(i, v).itv = i.itv /\ Cut(i, v).data = i.data
          /\ Cut(i, v).odata = i.odata /\ Shows(Cut(i, v)) = Cells(u)
      BY <2>1, <3>1, <3>3, <3>4, Retree
    <3>6. Cells(u) \subseteq Shows(i) \ Cells(v)
      BY <1>1, <1>2, <2>1, <2>2, <2>6, <3>3
    <3>7. ASSUME ~ Nested(i, v), ~ AtTop(i, v) PROVE Cells(u) = Shows(i) \ Cells(v)
      <4>1. h <= hi
        BY <1>2, <2>2, <2>3, <2>4, <2>6, <3>7
      <4> QED BY <1>1, <1>2, <2>1, <2>2, <2>6, <3>3, <4>1
    <3> QED BY <3>4, <3>5, <3>6, <3>7
  <2>7. CASE lo <= l /\ h <= hi
    <3>1. Cut(i, v) = [i EXCEPT !.tree = NoItv, !.live = FALSE]
      BY <1>2, <1>5, <2>2, <2>5, <2>7 DEF Cut
    <3>2. Shows(i) \ Cells(v) = {}
      BY <1>1, <1>2, <2>1, <2>2, <2>7
    <3>3. ~ Nested(i, v)
      BY <1>2, <2>2, <2>3, <2>7
    <3> QED BY <3>1, <3>2, <3>3, Untree
  <2>8. CASE lo <= l /\ hi < h
    <3> DEFINE u == [addr |-> hi + 1, size |-> h - hi]
    <3>1. End(v) = hi + 1 /\ (End(t) - End(v)) % M = h - hi
      <4>1. End(v) = hi + 1 /\ End(t) = IF h = MaxAddr THEN 0 ELSE h + 1
        BY <1>1, <1>2, <2>2, <2>8 DEF Span
      <4>2. CASE h = MaxAddr
        <5>1. End(t) - End(v) = -(hi + 1)
          BY <1>2, <4>1, <4>2
        <5>2. (-(hi + 1)) % M = h - hi
          BY <1>2, <2>8, <4>2, Mod DEF M
        <5> QED BY <4>1, <5>1, <5>2
      <4>3. CASE h # MaxAddr
        <5>1. End(t) - End(v) = h - hi
          BY <1>2, <2>2, <4>1, <4>3
        <5>2. (h - hi) % M = h - hi
          BY <1>2, <2>2, <2>8, Mod DEF M
        <5> QED BY <4>1, <5>1, <5>2
      <4> QED BY <4>2, <4>3
    <3>2. Cut(i, v) = [i EXCEPT !.tree = u]
      BY <1>2, <1>5, <2>2, <2>5, <2>8, <3>1 DEF Cut
    <3>3. u.addr = hi + 1 /\ u.size = h - hi /\ u \in Itv /\ u.size >= 1 /\ u.addr + u.size <= M
          /\ Hi(u) = h
      BY <1>2, <2>2, <2>8 DEF Itv, Addr, M, Hi
    <3> HIDE DEF u
    <3>4. Proper(u) /\ Cells(u) = hi + 1 .. h
      BY <3>3, ProperSpan DEF Proper
    <3>5. Cells(u) = Shows(i) \ Cells(v) /\ Cells(u) \subseteq Cells(i.itv)
      BY <1>1, <1>2, <2>1, <2>2, <2>8, <3>4
    <3>6. Good(Cut(i, v)) /\ Cut(i, v).itv = i.itv /\ Cut(i, v).data = i.data
          /\ Cut(i, v).odata = i.odata /\ Shows(Cut(i, v)) = Cells(u)
      <4> DEFINE c == Cut(i, v)
      <4>1. c = [i EXCEPT !.tree = u]
        BY <3>2
      <4> HIDE DEF c
      <4>2. Good(i) /\ i.live /\ Proper(u) /\ Cells(u) \subseteq Cells(i.itv)
        BY <2>1, <3>4, <3>5
      <4>3. Good(c) /\ c.itv = i.itv /\ c.data = i.data /\ c.odata = i.odata
            /\ Shows(c) = Cells(u)
        BY ONLY <4>1, <4>2, Retree
      <4> QED BY <4>3 DEF c
    <3>7. ~ Nested(i, v)
      BY <1>2, <2>2, <2>3, <2>8
    <3> QED BY <3>5, <3>6, <3>7
  <2> QED BY <1>2, <2>2, <2>6, <2>7, <2>8
<1> QED BY <1>4, <1>5

\* The parts of a proper interval do not make the whole address space.
LEMMA NotWhole ==
  ASSUME NEW v, Proper(v)
  PROVE  v.addr # 0 \/ Hi(v) # MaxAddr
<1>1. v.addr \in 0 .. MaxAddr /\ v.size \in 0 .. MaxAddr /\ MaxAddr \in Nat
  BY SizesAssumption DEF Proper, Itv, Addr
<1> QED BY <1>1 DEF Hi

\* The interval from lo to hi.
Between(v, lo, hi) == v = [addr |-> lo, size |-> (hi + 1) - lo]

\* The interval between two addresses that do not make the whole space.
LEMMA BetweenIs ==
  ASSUME NEW lo \in Addr, NEW hi \in Addr, lo <= hi + 1, lo # 0 \/ hi # MaxAddr,
         NEW v, Between(v, lo, hi)
  PROVE  /\ Fits(v) /\ Cells(v) = lo .. hi /\ v.addr = lo /\ Hi(v) = hi
         /\ lo <= hi => Proper(v)
         /\ v.size = 0 => lo = hi + 1
<1>1. lo \in 0 .. MaxAddr /\ hi \in 0 .. MaxAddr /\ MaxAddr \in Nat
  BY SizesAssumption DEF Addr
<1>2. v.addr = lo /\ v.size = (hi + 1) - lo /\ v \in Itv
  BY <1>1 DEF Between, Itv, Addr
<1>3. v.addr + v.size <= M /\ (v.size = 0 => v.addr # 0) /\ (lo <= hi => v.size >= 1)
      /\ Hi(v) = hi /\ (v.size = 0 => lo = hi + 1)
  BY <1>1, <1>2 DEF M, Hi
<1> QED BY <1>2, <1>3, FitsSpan DEF Fits, Proper

\* The distance from one address to the end of another, round the end of the space.
LEMMA EndDistance ==
  ASSUME NEW h \in Addr, NEW hi \in Addr, hi <= h, hi # MaxAddr
  PROVE  ((IF h = MaxAddr THEN 0 ELSE h + 1) - (hi + 1)) % M = h - hi
<1>1. h \in 0 .. MaxAddr /\ hi \in 0 .. MaxAddr /\ MaxAddr \in Nat
  BY SizesAssumption DEF Addr
<1> DEFINE e == IF h = MaxAddr THEN 0 ELSE h + 1
<1>2. CASE h = MaxAddr
  <2>1. e - (hi + 1) = -(hi + 1)
    BY <1>1, <1>2
  <2>2. (-(hi + 1)) % M = h - hi
    BY <1>1, <1>2, Mod DEF M
  <2> QED BY <2>1, <2>2
<1>3. CASE h # MaxAddr
  <2>1. e - (hi + 1) = h - hi
    BY <1>1, <1>3
  <2>2. (h - hi) % M = h - hi
    BY <1>1, Mod DEF M
  <2> QED BY <2>1, <2>2
<1> QED BY <1>2, <1>3

\* An item put together from its parts.
Made(c, v, t, b, d, o) == c = [itv |-> v, tree |-> t, live |-> b, data |-> d, odata |-> o]

\* An item put together from fitting parts is a good one.
LEMMA MadeItem ==
  ASSUME NEW v, Fits(v), NEW t, t = NoItv \/ (Proper(t) /\ Cells(t) \subseteq Cells(v)),
         NEW b \in BOOLEAN, b => t # NoItv,
         NEW d \in [Cells(v) -> RealByte], NEW o \in [Cells(v) -> RealByte],
         NEW c, Made(c, v, t, b, d, o)
  PROVE  /\ Good(c) /\ Shows(c) = (IF b THEN Cells(t) ELSE {})
         /\ c.itv = v /\ c.tree = t /\ c.live = b /\ c.data = d /\ c.odata = o
<1>1. v \in Itv /\ t \in Itv \cup {NoItv} /\ d \in Buffers /\ o \in Buffers
  BY DEF Fits, Proper, Buffers
<1>2. c \in Items /\ c.itv = v /\ c.tree = t /\ c.live = b /\ c.data = d /\ c.odata = o
  BY <1>1 DEF Items, Made
<1>3. Good(c)
  BY <1>2 DEF Good
<1> QED BY <1>2, <1>3 DEF Shows

\* The item made for a write or a tail.
LEMMA NewItemIs ==
  ASSUME NEW v, Proper(v), NEW d \in [Cells(v) -> RealByte], NEW o \in [Cells(v) -> RealByte]
  PROVE  /\ Good(NewItem(v, d, o)) /\ Shows(NewItem(v, d, o)) = Cells(v)
         /\ NewItem(v, d, o).itv = v /\ NewItem(v, d, o).data = d
         /\ NewItem(v, d, o).odata = o
<1> DEFINE c == NewItem(v, d, o)
<1>1. v \in Itv /\ d \in Buffers /\ o \in Buffers /\ Fits(v) /\ v # NoItv
  BY NoneAssumption DEF Proper, Buffers, Fits
<1>2. c \in Items /\ c.itv = v /\ c.tree = v /\ c.live = TRUE /\ c.data = d /\ c.odata = o
  BY <1>1 DEF Items, NewItem
<1> HIDE DEF c
<1>3. Good(c) /\ Shows(c) = Cells(v)
  BY <1>1, <1>2 DEF Good, Shows
<1> QED BY <1>2, <1>3 DEF c

\* A part of a buffer, from where it lies.
LEMMA SlicedIs ==
  ASSUME NEW C, NEW d \in [C -> RealByte], NEW v, Cells(v) \subseteq C, C \subseteq Addr
  PROVE  Sliced(d, v, 0) \in [Cells(v) -> RealByte]
         /\ \A a \in Cells(v) : Sliced(d, v, 0)[a] = d[a]
<1>1. ASSUME NEW a \in Cells(v) PROVE ByteOf(d, a + 0) = d[a] /\ d[a] \in RealByte
  <2>1. a \in Addr /\ a \in C /\ MaxAddr \in Nat
    BY SizesAssumption
  <2>2. a + 0 = a
    BY <2>1 DEF Addr
  <2> QED BY <2>1, <2>2 DEF ByteOf
<1> QED BY <1>1 DEF Sliced

\* The item x holds bytes of i, where i holds them: what was written, and what was
\* found there.
Came(x, i) ==
  /\ Cells(x.itv) \subseteq Cells(i.itv)
  /\ \A a \in Cells(x.itv) : x.data[a] = i.data[a] /\ x.odata[a] = i.odata[a]

\* The tail of an item that still has its head holds the bytes behind the write.
LEMMA TailIs ==
  ASSUME NEW i, Good(i), NEW v, Proper(v), Nested(i, v), i.tree.addr = i.itv.addr
  PROVE  /\ Good(TailOf(i, v)) /\ Shows(TailOf(i, v)) = Shows(i) \cap (Hi(v) + 1 .. MaxAddr)
         /\ \A a \in Shows(TailOf(i, v)) : TailOf(i, v).data[a] = i.data[a]
         /\ Came(TailOf(i, v), i)
<1> DEFINE hi == Hi(v)
           h == Hi(i.tree)
           t == [addr |-> End(v), size |-> End(i.tree) - End(v)]
<1>1. Span(v, v.addr, hi) /\ MaxAddr \in Nat /\ hi \in 0 .. MaxAddr /\ v.addr \in Nat
      /\ v.addr <= hi
  BY ProperSpan, SizesAssumption DEF Span, Addr
<1>2. i.live /\ Proper(i.tree) /\ Shows(i) = i.tree.addr .. h /\ InTree(i, v)
      /\ v.addr > i.tree.addr /\ End(i.tree) > End(v) /\ End(v) # 0
      /\ Cells(i.tree) \subseteq Cells(i.itv)
  BY GoodParts DEF Nested, InTree, Good
<1>3. Span(i.tree, i.tree.addr, h) /\ h \in 0 .. MaxAddr /\ Cells(i.tree) = i.tree.addr .. h
      /\ i.tree.addr \in Nat
  BY <1>2, ProperSpan DEF Span, Addr
<1>4. End(v) = hi + 1 /\ End(i.tree) = h + 1 /\ hi < h /\ End(i.tree) - End(v) = h - hi
  BY <1>1, <1>2, <1>3 DEF Span
<1>5. Between(t, hi + 1, h) /\ hi + 1 \in Addr /\ h \in Addr /\ hi + 1 <= h
  BY <1>1, <1>3, <1>4 DEF Between, Addr
<1>6. i.itv.addr - i.tree.addr = 0
  BY <1>3
<1>7. TailOf(i, v) = NewItem(t, Sliced(i.data, t, 0), Sliced(i.odata, t, 0))
  BY <1>6 DEF TailOf
<1> HIDE DEF t
<1>8. Proper(t) /\ Fits(t) /\ Cells(t) = hi + 1 .. h
  BY <1>1, <1>3, <1>5, BetweenIs DEF Addr
<1>9. Cells(t) = Shows(i) \cap (hi + 1 .. MaxAddr) /\ Cells(t) \subseteq Cells(i.itv)
  BY <1>1, <1>2, <1>3, <1>4, <1>8
<1>10. /\ Sliced(i.data, t, 0) \in [Cells(t) -> RealByte]
       /\ Sliced(i.odata, t, 0) \in [Cells(t) -> RealByte]
       /\ \A a \in Cells(t) : Sliced(i.data, t, 0)[a] = i.data[a]
       /\ \A a \in Cells(t) : Sliced(i.odata, t, 0)[a] = i.odata[a]
  <2>1. i.data \in [Cells(i.itv) -> RealByte] /\ i.odata \in [Cells(i.itv) -> RealByte]
        /\ Cells(i.itv) \subseteq Addr /\ Cells(t) \subseteq Cells(i.itv)
    BY <1>9, GoodParts
  <2> QED BY <2>1, SlicedIs
<1> DEFINE c == TailOf(i, v)
<1>12. /\ Good(c) /\ Shows(c) = Cells(t) /\ c.data = Sliced(i.data, t, 0)
       /\ c.itv = t /\ c.odata = Sliced(i.odata, t, 0)
  <2> DEFINE d == Sliced(i.data, t, 0)
             o == Sliced(i.odata, t, 0)
  <2>1. c = NewItem(t, d, o) /\ d \in [Cells(t) -> RealByte] /\ o \in [Cells(t) -> RealByte]
        /\ Proper(t)
    BY <1>7, <1>8, <1>10
  <2> HIDE DEF c, d, o
  <2>2. Good(c) /\ Shows(c) = Cells(t) /\ c.data = d /\ c.itv = t /\ c.odata = o
    BY <2>1, NewItemIs
  <2> QED BY <2>2 DEF d, o
<1> HIDE DEF c
<1>13. /\ Good(c) /\ Shows(c) = Shows(i) \cap (hi + 1 .. MaxAddr)
       /\ \A a \in Shows(c) : c.data[a] = i.data[a]
       /\ Came(c, i)
  BY <1>9, <1>10, <1>12 DEF Came
<1> QED BY <1>13 DEF c

\* Clipping an item to a part of its interval keeps what shows there.
LEMMA ClipIs ==
  ASSUME NEW i, Good(i), NEW v, Fits(v), Cells(v) \subseteq Cells(i.itv),
         v.size # 0 \/ i.tree = NoItv \/ ~ Overlap(v, i.tree)
  PROVE  /\ Good(Clip(i, v)) /\ Shows(Clip(i, v)) = Shows(i) \cap Cells(v)
         /\ \A a \in Shows(Clip(i, v)) : Clip(i, v).data[a] = i.data[a]
         /\ Came(Clip(i, v), i)
         /\ i.tree = NoItv \/ i.live =>
              [Clip(i, v) EXCEPT !.live = Clip(i, v).tree # NoItv] = Clip(i, v)
<1> DEFINE shows == i.tree # NoItv /\ Overlap(v, i.tree)
           t == IF shows THEN Intersect(i.tree, v) ELSE NoItv
           b == shows /\ i.live
           c == Clip(i, v)
<1>1. Made(c, v, t, b, Sliced(i.data, v, 0), Sliced(i.odata, v, 0))
  BY DEF Clip, Made
<1>2. /\ Sliced(i.data, v, 0) \in [Cells(v) -> RealByte]
      /\ Sliced(i.odata, v, 0) \in [Cells(v) -> RealByte]
      /\ \A a \in Cells(v) : Sliced(i.data, v, 0)[a] = i.data[a]
      /\ \A a \in Cells(v) : Sliced(i.odata, v, 0)[a] = i.odata[a]
  BY GoodParts, SlicedIs
<1>0. Came(c, i)
  <2>1. c.itv = v /\ c.data = Sliced(i.data, v, 0) /\ c.odata = Sliced(i.odata, v, 0)
    BY DEF Clip
  <2> HIDE DEF c
  <2> QED BY <1>2, <2>1 DEF Came
<1>3. Span(v, v.addr, Hi(v)) /\ Cells(v) = v.addr .. Hi(v) /\ v.addr \in Nat /\ v.size \in Nat
      /\ MaxAddr \in Nat /\ Hi(v) \in 0 .. MaxAddr
  BY FitsSpan, SizesAssumption DEF Span, Addr
<1>4. ASSUME i.tree # NoItv
      PROVE  /\ Proper(i.tree) /\ Span(i.tree, i.tree.addr, Hi(i.tree))
             /\ Cells(i.tree) = i.tree.addr .. Hi(i.tree) /\ i.tree.addr \in Nat
             /\ Hi(i.tree) \in 0 .. MaxAddr /\ i.tree.addr <= Hi(i.tree)
  BY <1>4, ProperSpan DEF Good, Span, Addr
<1>5. CASE shows
  <2>1. v.addr <= Hi(i.tree) /\ i.tree.addr <= Hi(v) /\ v.size # 0
    BY <1>3, <1>4, <1>5, Compare
  <2>2. v.addr <= Hi(v)
    BY <1>3, <2>1 DEF Hi
  <2>3. /\ Proper(t)
        /\ t.addr = (IF i.tree.addr < v.addr THEN v.addr ELSE i.tree.addr)
        /\ Hi(t) = (IF Hi(i.tree) < Hi(v) THEN Hi(i.tree) ELSE Hi(v))
    BY <1>3, <1>4, <1>5, <2>1, <2>2, NotWhole, Intersection
  <2>4. Cells(t) = t.addr .. Hi(t)
    BY <2>3, ProperSpan
  <2>5. Cells(t) = Cells(i.tree) \cap Cells(v)
    <3> HIDE DEF t
    <3> QED BY <1>3, <1>4, <1>5, <2>3, <2>4
  <2>6. t \in Itv /\ t # NoItv
    BY <2>3, NoneAssumption DEF Proper
  <2> HIDE DEF t, c
  <2>7. b \in BOOLEAN /\ b = i.live
    BY <1>5, GoodParts
  <2> HIDE DEF b
  <2>8. Good(c) /\ Shows(c) = (IF b THEN Cells(t) ELSE {}) /\ c.data = Sliced(i.data, v, 0)
        /\ c.tree = t /\ c.live = b
    BY <1>1, <1>2, <2>3, <2>5, <2>6, <2>7, MadeItem
  <2>9. Shows(c) = Shows(i) \cap Cells(v)
    BY <2>5, <2>7, <2>8 DEF Shows
  <2>10. ASSUME i.live PROVE [c EXCEPT !.live = c.tree # NoItv] = c
    <3>1. (c.tree # NoItv) = TRUE /\ c.live = TRUE /\ c \in Items
      BY <2>6, <2>7, <2>8, <2>10, Zenon DEF Good
    <3> QED BY <3>1 DEF Items
  <2>11. /\ Good(c) /\ Shows(c) = Shows(i) \cap Cells(v)
         /\ \A a \in Shows(c) : c.data[a] = i.data[a]
         /\ Came(c, i)
         /\ i.tree = NoItv \/ i.live => [c EXCEPT !.live = c.tree # NoItv] = c
    BY <1>0, <1>2, <1>5, <2>8, <2>9, <2>10
  <2> QED BY <2>11 DEF c
<1>6. CASE ~ shows
  <2>1. t = NoItv /\ b = FALSE
    BY <1>6
  <2> HIDE DEF t, c, b
  <2>2. b \in BOOLEAN
    BY <2>1
  <2>3. Good(c) /\ Shows(c) = {} /\ c.tree = NoItv /\ c.live = FALSE
    BY <1>1, <1>2, <2>1, <2>2, MadeItem
  <2>4. Shows(i) \cap Cells(v) = {}
    <3>1. CASE ~ i.live
      BY <3>1 DEF Shows
    <3>2. CASE i.live
      <4>1. i.tree # NoItv /\ Shows(i) = i.tree.addr .. Hi(i.tree) /\ ~ Overlap(v, i.tree)
        BY <1>6, <3>2, GoodParts DEF Good
      <4>2. ~ (v.addr <= Hi(i.tree) /\ i.tree.addr <= Hi(v))
        BY <1>3, <1>4, <4>1, Compare
      <4> QED BY <1>3, <1>4, <4>1, <4>2
    <3> QED BY <3>1, <3>2
  <2>5. [c EXCEPT !.live = c.tree # NoItv] = c
    <3>1. (c.tree # NoItv) = FALSE /\ c.live = FALSE /\ c \in Items
      BY <2>3 DEF Good
    <3> QED BY <3>1 DEF Items
  <2>6. /\ Good(c) /\ Shows(c) = Shows(i) \cap Cells(v)
        /\ \A a \in Shows(c) : c.data[a] = i.data[a]
        /\ [c EXCEPT !.live = c.tree # NoItv] = c /\ Came(c, i)
    BY <1>0, <2>3, <2>4, <2>5
  <2> QED BY <2>6 DEF c
<1> QED BY <1>5, <1>6

\* The item x shows nothing but what i shows, with the same bytes, and holds no
\* others.
PartOf(x, i) ==
  /\ Good(x) /\ Shows(x) \subseteq Shows(i) /\ \A a \in Shows(x) : x.data[a] = i.data[a]
  /\ Came(x, i)

\* What goes through an invalidation of the interval r: it cuts no item that was
\* committed, and not in the two ways the code gets wrong.
Clean(i, r) ==
  Overlap(r, i.itv) /\ ~Include(r, i.itv) =>
    /\ i.tree = NoItv \/ i.live
    /\ Include(i.itv, r) => r.addr # i.itv.addr /\ End(r) # 0

\* What is left of i after lo .. hi went: at most one item in its place, and at most
\* one new item.
Leaves(i, lo, hi, K, S) ==
  /\ K = <<>> \/ \E x : Good(x) /\ K = <<x>>
  /\ S = <<>> \/ \E x : Good(x) /\ S = <<x>>
  /\ K # <<>> => PartOf(K[1], i) /\ Shows(K[1]) \cap (lo .. hi) = {}
  /\ S # <<>> => PartOf(S[1], i) /\ Shows(S[1]) \cap (lo .. hi) = {}
  /\ K # <<>> /\ S # <<>> => Shows(K[1]) \cap Shows(S[1]) = {}
  /\ \A a \in Shows(i) \ (lo .. hi) :
       (K # <<>> /\ a \in Shows(K[1])) \/ (S # <<>> /\ a \in Shows(S[1]))

\* A sequence of one element.
LEMMA Alone ==
  ASSUME NEW x
  PROVE  <<x>> # <<>> /\ <<x>>[1] = x
OBVIOUS

\* An invalidation of an item leaves its bytes outside the interval.
LEMMA LeavesIs ==
  ASSUME NEW i, Good(i), NEW r, NEW lo, NEW hi, Span(r, lo, hi), lo <= hi, Clean(i, r)
  PROVE  Leaves(i, lo, hi, Kept(i, r), Split(i, r))
<1> DEFINE l == i.itv.addr
           h == Hi(i.itv)
<1>0. Fits(i.itv) /\ Span(i.itv, l, h) /\ Cells(i.itv) = l .. h /\ Shows(i) \subseteq l .. h
  <2>1. Fits(i.itv) /\ Shows(i) \subseteq Cells(i.itv)
    BY GoodParts DEF Good
  <2> QED BY <2>1, FitsSpan
<1>1. /\ MaxAddr \in Nat /\ l \in 0 .. MaxAddr /\ h \in 0 .. MaxAddr /\ l <= h + 1
      /\ lo \in 0 .. MaxAddr /\ hi \in 0 .. MaxAddr
  BY <1>0, SizesAssumption DEF Span, Addr
<1>2. /\ Overlap(r, i.itv) <=> lo <= h /\ l <= hi
      /\ Include(r, i.itv) <=> lo <= l /\ h <= hi
      /\ Include(i.itv, r) <=> l <= lo /\ hi <= h
  BY <1>0, Compare
<1>3. r.addr = lo /\ (End(r) = IF hi = MaxAddr THEN 0 ELSE hi + 1)
      /\ (End(i.itv) = IF h = MaxAddr THEN 0 ELSE h + 1)
  BY <1>0 DEF Span
<1>4. PartOf(i, i)
  BY DEF PartOf, Came
<1> DEFINE K == Kept(i, r)
           S == Split(i, r)
<1>5. CASE ~ Overlap(r, i.itv)
  <2>1. K = <<i>> /\ S = <<>>
    BY <1>5 DEF Kept, Split
  <2>2. Shows(i) \cap (lo .. hi) = {}
    BY <1>0, <1>1, <1>2, <1>5
  <2> HIDE DEF K, S
  <2>3. Leaves(i, lo, hi, K, S)
    BY <1>4, <2>1, <2>2, Alone DEF Leaves
  <2> QED BY <2>3 DEF K, S
<1>6. CASE Overlap(r, i.itv) /\ Include(r, i.itv)
  <2>1. K = <<>> /\ S = <<>>
    BY <1>6 DEF Kept, Split
  <2>2. Shows(i) \ (lo .. hi) = {}
    BY <1>0, <1>1, <1>2, <1>6
  <2> HIDE DEF K, S
  <2>3. Leaves(i, lo, hi, K, S)
    BY <2>1, <2>2 DEF Leaves
  <2> QED BY <2>3 DEF K, S
<1>7. CASE Overlap(r, i.itv) /\ ~ Include(r, i.itv)
  <2>1. /\ i.tree = NoItv \/ i.live
        /\ Include(i.itv, r) => r.addr # l /\ End(r) # 0
        /\ lo <= h /\ l <= hi /\ ~ Lost(i, r)
    BY <1>2, <1>7 DEF Clean, Lost
  \* The part before the range.
  <2>2. ASSUME l < lo
        PROVE  LET b == Before(i, r)
               IN  Fits(b) /\ Cells(b) = l .. lo - 1 /\ b.size # 0 /\ Cells(b) \subseteq Cells(i.itv)
    <3> DEFINE b == Before(i, r)
               m == lo - 1
    <3>1. b = [addr |-> l, size |-> (m + 1) - l] /\ m \in Addr /\ l <= m /\ m # MaxAddr
          /\ l \in Addr
      <4>1. lo - l = (m + 1) - l
        BY <1>1
      <4> QED BY <1>1, <1>3, <2>2, <4>1 DEF Before, Addr
    <3> HIDE DEF b, m
    <3>2. Fits(b) /\ Cells(b) = l .. m /\ b.size # 0
      <4>1. l <= m + 1 /\ l # m + 1
        BY <1>1, <3>1 DEF Addr
      <4> QED BY <3>1, <4>1, BetweenIs DEF Between
    <3>3. l .. m \subseteq l .. h
      BY <1>1, <2>1 DEF m
    <3> QED BY <1>0, <3>2, <3>3 DEF b, m
  \* The part behind the range.
  <2>3. ASSUME hi <= h, hi # MaxAddr
        PROVE  LET b == Behind(i, r)
               IN  Fits(b) /\ Cells(b) = hi + 1 .. h /\ Cells(b) \subseteq Cells(i.itv)
                   /\ (b.size # 0 \/ i.tree = NoItv \/ ~ Overlap(b, i.tree))
    <3> DEFINE b == Behind(i, r)
               m == hi + 1
    <3>1. b = [addr |-> m, size |-> (h + 1) - m] /\ m \in Addr /\ h \in Addr /\ m <= h + 1
          /\ m # 0
      <4>1. (End(i.itv) - End(r)) % M = h - hi
        BY <1>1, <1>3, <2>3, EndDistance DEF Addr
      <4>2. h - hi = (h + 1) - m
        BY <1>1
      <4> QED BY <1>1, <1>3, <2>3, <4>1, <4>2 DEF Behind, Addr
    <3>2. b.addr = m /\ m = hi + 1
      BY <3>1
    <3> HIDE DEF b, m
    <3>3. Fits(b) /\ Cells(b) = m .. h /\ (b.size = 0 => m = h + 1) /\ Hi(b) = h /\ b.addr = m
      BY <3>1, BetweenIs DEF Between
    <3>4. Span(b, m, h)
      BY <3>3, FitsSpan
    <3>5. m .. h \subseteq l .. h
      BY <1>1, <2>1, <3>2
    <3>6. ASSUME b.size = 0, i.tree # NoItv PROVE ~ Overlap(b, i.tree)
      <4>1. Proper(i.tree) /\ Span(i.tree, i.tree.addr, Hi(i.tree)) /\ Hi(i.tree) <= h
            /\ Hi(i.tree) \in Addr
        BY <3>6, TreeInItv, ProperSpan DEF Good, Span
      <4>2. m = h + 1
        BY <3>3, <3>6
      <4>3. ~ (m <= Hi(i.tree))
        BY <1>1, <4>1, <4>2 DEF Addr
      <4> QED BY <3>4, <4>1, <4>3, Compare
    <3>7. b.size # 0 \/ i.tree = NoItv \/ ~ Overlap(b, i.tree)
      BY <3>6
    <3> QED BY <1>0, <3>2, <3>3, <3>5, <3>7 DEF b
  <2> DEFINE before == Clip(i, Before(i, r))
             behind == Clip(i, Behind(i, r))
  <2>4. ASSUME l < lo PROVE PartOf(before, i) /\ Shows(before) = Shows(i) \cap (l .. lo - 1)
    <3> DEFINE b == Before(i, r)
    <3>1. Fits(b) /\ Cells(b) = l .. lo - 1 /\ b.size # 0 /\ Cells(b) \subseteq Cells(i.itv)
      BY <2>2, <2>4
    <3> HIDE DEF b
    <3>2. /\ Good(Clip(i, b)) /\ Shows(Clip(i, b)) = Shows(i) \cap Cells(b)
          /\ \A a \in Shows(Clip(i, b)) : Clip(i, b).data[a] = i.data[a]
          /\ Came(Clip(i, b), i)
      BY <3>1, ClipIs
    <3>3. PartOf(Clip(i, b), i) /\ Shows(Clip(i, b)) = Shows(i) \cap (l .. lo - 1)
      BY <3>1, <3>2 DEF PartOf
    <3> QED BY <3>3 DEF b
  <2>5. ASSUME hi <= h, hi # MaxAddr
        PROVE  PartOf(behind, i) /\ Shows(behind) = Shows(i) \cap (hi + 1 .. h)
               /\ [behind EXCEPT !.live = behind.tree # NoItv] = behind
    <3> DEFINE b == Behind(i, r)
    <3>1. /\ Fits(b) /\ Cells(b) = hi + 1 .. h /\ Cells(b) \subseteq Cells(i.itv)
          /\ b.size # 0 \/ i.tree = NoItv \/ ~ Overlap(b, i.tree)
      BY <2>3, <2>5
    <3> HIDE DEF b
    <3>2. /\ Good(Clip(i, b)) /\ Shows(Clip(i, b)) = Shows(i) \cap Cells(b)
          /\ \A a \in Shows(Clip(i, b)) : Clip(i, b).data[a] = i.data[a]
          /\ Came(Clip(i, b), i)
          /\ [Clip(i, b) EXCEPT !.live = Clip(i, b).tree # NoItv] = Clip(i, b)
      BY <2>1, <3>1, ClipIs
    <3>3. /\ PartOf(Clip(i, b), i) /\ Shows(Clip(i, b)) = Shows(i) \cap (hi + 1 .. h)
          /\ [Clip(i, b) EXCEPT !.live = Clip(i, b).tree # NoItv] = Clip(i, b)
      BY <3>1, <3>2 DEF PartOf
    <3> QED BY <3>3 DEF b
  <2>6. CASE Include(i.itv, r)
    <3>1. l < lo /\ hi <= h /\ hi # MaxAddr
      BY <1>1, <1>2, <1>3, <2>1, <2>6
    <3>2. K = <<before>> /\ S = <<[behind EXCEPT !.live = behind.tree # NoItv]>>
      BY <1>7, <2>1, <2>6 DEF Kept, Split
    <3>3. K = <<before>> /\ S = <<behind>>
      BY <2>5, <3>1, <3>2
    <3> HIDE DEF K, S, before, behind
    <3>4. /\ Shows(before) \cap (lo .. hi) = {} /\ Shows(behind) \cap (lo .. hi) = {}
          /\ Shows(before) \cap Shows(behind) = {}
          /\ Shows(i) \ (lo .. hi) \subseteq Shows(before) \cup Shows(behind)
      BY <1>0, <1>1, <2>4, <2>5, <3>1
    <3>5. Leaves(i, lo, hi, K, S)
      BY <2>4, <2>5, <3>1, <3>3, <3>4, Alone DEF Leaves, PartOf
    <3> QED BY <3>5 DEF K, S
  <2>7. CASE ~ Include(i.itv, r) /\ l < lo
    <3>1. K = <<before>> /\ S = <<>>
      BY <1>3, <1>7, <2>1, <2>7 DEF Kept, Split
    <3>2. h < hi
      BY <1>1, <1>2, <2>7
    <3> HIDE DEF K, S, before, behind
    <3>3. /\ Shows(before) \cap (lo .. hi) = {}
          /\ Shows(i) \ (lo .. hi) \subseteq Shows(before)
      BY <1>0, <1>1, <2>4, <2>7, <3>2
    <3>4. Leaves(i, lo, hi, K, S)
      BY <2>4, <2>7, <3>1, <3>3, Alone DEF Leaves, PartOf
    <3> QED BY <3>4 DEF K, S
  <2>8. CASE ~ Include(i.itv, r) /\ ~ (l < lo)
    <3>1. K = <<behind>> /\ S = <<>>
      BY <1>3, <1>7, <2>1, <2>8 DEF Kept, Split
    <3>2. lo <= l /\ hi < h /\ hi # MaxAddr
      BY <1>1, <1>2, <1>7, <2>8
    <3> HIDE DEF K, S, before, behind
    <3>3. /\ Shows(behind) \cap (lo .. hi) = {}
          /\ Shows(i) \ (lo .. hi) \subseteq Shows(behind)
      BY <1>0, <1>1, <2>5, <3>2
    <3>4. Leaves(i, lo, hi, K, S)
      BY <1>1, <2>5, <3>1, <3>2, <3>3, Alone DEF Leaves, PartOf
    <3> QED BY <3>4 DEF K, S
  <2> QED BY <2>6, <2>7, <2>8
<1> QED BY <1>5, <1>6, <1>7

-----------------------------------------------------------------------------
(* Sequences of sequences.                                                  *)

\* F is what the first i of the sequences s, none longer than 1, make one after the
\* other: p tells where its elements come from.
Flat(F, s, i, p, X) ==
  /\ F \in Seq(X) /\ p \in [1 .. Len(F) -> 1 .. i]
  /\ \A m \in 1 .. Len(F) : s[p[m]] # <<>> /\ F[m] = s[p[m]][1]
  /\ \A m, n \in 1 .. Len(F) : m # n => p[m] # p[n]
  /\ \A k \in 1 .. i : s[k] # <<>> => \E m \in 1 .. Len(F) : p[m] = k

\* A sequence of at most one element that is not empty.
LEMMA OneLong ==
  ASSUME NEW X, NEW y \in Seq(X), y # <<>>, Len(y) <= 1
  PROVE  Len(y) = 1 /\ y[1] \in X
<1>1. Len(y) \in Nat \ {0}
  BY EmptySeq
<1>2. Len(y) = 1
  BY <1>1
<1> QED BY <1>2

\* One more sequence of at most one element is added to a flattened one.
LEMMA FlatStep ==
  ASSUME NEW X, NEW s \in Seq(Seq(X)), NEW i \in Nat, i + 1 \in 1 .. Len(s), Len(s[i + 1]) <= 1,
         NEW F, NEW p, Flat(F, s, i, p, X)
  PROVE  \E q : Flat(F \o s[i + 1], s, i + 1, q, X)
<1> DEFINE n == Len(F)
           y == s[i + 1]
<1>1. /\ F \in Seq(X) /\ n \in Nat /\ y \in Seq(X) /\ Len(y) \in Nat /\ Len(y) <= 1
      /\ p \in [1 .. n -> 1 .. i]
      /\ \A m \in 1 .. n : s[p[m]] # <<>> /\ F[m] = s[p[m]][1]
      /\ \A m, l \in 1 .. n : m # l => p[m] # p[l]
      /\ \A k \in 1 .. i : s[k] # <<>> => \E m \in 1 .. n : p[m] = k
  BY DEF Flat
<1>2. \A m \in 1 .. n : p[m] \in 1 .. i
  BY <1>1
<1>3. CASE y = <<>>
  <2>1. F \o y = F
    BY <1>1, <1>3
  <2>2. p \in [1 .. n -> 1 .. i + 1]
    <3> HIDE DEF n
    <3> QED BY <1>1
  <2>3. \A k \in 1 .. i + 1 : s[k] # <<>> => \E m \in 1 .. n : p[m] = k
    <3> HIDE DEF n
    <3>1. \A k \in 1 .. i + 1 : k \in 1 .. i \/ k = i + 1
      OBVIOUS
    <3> QED BY <1>1, <1>3, <3>1
  <2>4. Flat(F, s, i + 1, p, X)
    BY <1>1, <2>2, <2>3 DEF Flat
  <2> QED BY <2>1, <2>4
<1>4. CASE y # <<>>
  <2> DEFINE H == F \o y
             q == [m \in 1 .. n + 1 |-> IF m = n + 1 THEN i + 1 ELSE p[m]]
  <2>1. Len(y) = 1 /\ y[1] \in X
    <3> HIDE DEF y
    <3>1. y \in Seq(X) /\ Len(y) <= 1
      BY <1>1
    <3> QED BY <1>4, <3>1, OneLong
  <2>2. H \in Seq(X) /\ Len(H) = n + 1 /\ H[n + 1] = y[1]
    <3> HIDE DEF y
    <3>1. H \in Seq(X) /\ Len(H) = n + Len(y)
      BY <1>1
    <3>2. n + 1 \in 1 .. n + Len(y) /\ n + 1 > n /\ n + 1 - n = 1
      BY <1>1, <2>1
    <3>3. H[n + 1] = y[n + 1 - n]
      BY <1>1, <3>2
    <3> QED BY <2>1, <3>1, <3>2, <3>3
  <2>3. \A m \in 1 .. n : H[m] = F[m]
    <3> HIDE DEF y
    <3> QED BY <1>1, <2>1
  <2> HIDE DEF n
  <2>4. q \in [1 .. n + 1 -> 1 .. i + 1]
    BY <1>1, <1>2
  <2>5. q[n + 1] = i + 1 /\ \A m \in 1 .. n : q[m] = p[m]
    BY <1>1
  <2> HIDE DEF H, q
  <2>6. \A m \in 1 .. n + 1 : m = n + 1 \/ m \in 1 .. n
    BY <1>1
  <2>7. ASSUME NEW m \in 1 .. n + 1 PROVE s[q[m]] # <<>> /\ H[m] = s[q[m]][1]
    <3>1. CASE m = n + 1
      BY <1>4, <2>2, <2>5, <3>1
    <3>2. CASE m \in 1 .. n
      BY <1>1, <2>3, <2>5, <3>2
    <3> QED BY <2>6, <3>1, <3>2
  <2>8. ASSUME NEW m \in 1 .. n + 1, NEW l \in 1 .. n + 1, m # l PROVE q[m] # q[l]
    <3>1. \A k \in 1 .. n : q[k] # i + 1
      BY <1>2, <2>5
    <3>2. CASE m = n + 1
      BY <2>5, <2>6, <2>8, <3>1, <3>2
    <3>3. CASE l = n + 1
      BY <2>5, <2>6, <2>8, <3>1, <3>3
    <3>4. CASE m \in 1 .. n /\ l \in 1 .. n
      BY <1>1, <2>5, <2>8, <3>4
    <3> QED BY <2>6, <3>2, <3>3, <3>4
  <2>9. ASSUME NEW k \in 1 .. i + 1, s[k] # <<>> PROVE \E m \in 1 .. n + 1 : q[m] = k
    <3>1. CASE k = i + 1
      <4>1. n + 1 \in 1 .. n + 1
        BY <1>1
      <4> QED BY <2>5, <3>1, <4>1
    <3>2. CASE k # i + 1
      <4>1. k \in 1 .. i
        BY <3>2
      <4>2. PICK m \in 1 .. n : p[m] = k
        BY <1>1, <2>9, <4>1
      <4>3. m \in 1 .. n + 1
        BY <1>1
      <4> QED BY <2>5, <4>2, <4>3
    <3> QED BY <3>1, <3>2
  <2>10. Flat(H, s, i + 1, q, X)
    BY <2>2, <2>4, <2>7, <2>8, <2>9 DEF Flat
  <2> QED BY <2>10 DEF H
<1> QED BY <1>3, <1>4

\* Flattening sequences of at most one element each loses none, and keeps them apart.
LEMMA Flattened ==
  ASSUME NEW X, NEW s \in Seq(Seq(X)), \A k \in 1 .. Len(s) : Len(s[k]) <= 1
  PROVE  \E p : Flat(FlattenSeq(s), s, Len(s), p, X)
<1> DEFINE none == <<>>
           N == Len(s)
<1>1. N \in Nat /\ none \in Seq(X)
  OBVIOUS
<1>2. \E p : Flat(none, s, 0, p, X)
  <2>1. Flat(none, s, 0, [m \in 1 .. 0 |-> 1], X)
    BY DEF Flat
  <2> QED BY <2>1
<1>3. CASE N = 0
  <2>1. s = none /\ FlattenSeq(s) = none
    BY <1>3 DEF FlattenSeq
  <2> HIDE DEF none
  <2> QED BY <1>2, <1>3, <2>1
<1>4. CASE N # 0
  <2> DEFINE flatten[i \in 1 .. Len(s)] == IF i = 1 THEN s[i] ELSE flatten[i - 1] \o s[i]
  <2>1. FlattenSeq(s) = flatten[N]
    BY <1>4 DEF FlattenSeq
  <2> DEFINE G == [q \in Seq(X) \X Nat |-> IF q[2] \in 1 .. N THEN q[1] \o s[q[2]] ELSE q[1]]
             body(f) == [i \in 1 .. Len(s) |-> IF i = 1 THEN s[i] ELSE f[i - 1] \o s[i]]
  <2>2. G \in [Seq(X) \X Nat -> Seq(X)]
    OBVIOUS
  <2>3. ASSUME NEW v \in Seq(X), NEW i \in 1 .. N PROVE G[<<v, i>>] = v \o s[i]
    <3>1. <<v, i>> \in Seq(X) \X Nat /\ <<v, i>>[1] = v /\ <<v, i>>[2] = i
      BY <1>1
    <3> QED BY <3>1
  <2>4. PICK f \in [0 .. N -> Seq(X)] : Solves(f, none, G, N)
    <3> HIDE DEF G, none
    <3> QED BY <1>1, <2>2, SolutionUpTo
  <2> DEFINE g == [i \in 1 .. N |-> f[i]]
  <2>5. g = body(g)
    <3>1. ASSUME NEW i \in 1 .. N PROVE f[i] = IF i = 1 THEN s[i] ELSE g[i - 1] \o s[i]
      <4>1. f[i] = f[i - 1] \o s[i] /\ f[0] = <<>>
        <5>1. i - 1 \in 0 .. N /\ f[i - 1] \in Seq(X)
          <6> HIDE DEF G, none
          <6>1. i - 1 \in 0 .. N
            BY <1>1
          <6> QED BY <2>4, <6>1
        <5>2. f[0] = none /\ f[i] = G[<<f[i - 1], i>>]
          <6> HIDE DEF G, none
          <6> QED BY <2>4 DEF Solves
        <5>3. G[<<f[i - 1], i>>] = f[i - 1] \o s[i]
          <6> HIDE DEF G
          <6> QED BY <2>3, <5>1
        <5> QED BY <5>2, <5>3
      <4>2. CASE i = 1
        <5>1. i - 1 = 0 /\ s[i] \in Seq(X)
          BY <4>2
        <5>2. <<>> \o s[i] = s[i]
          BY <5>1
        <5> QED BY <4>1, <4>2, <5>1, <5>2
      <4>3. CASE i # 1
        <5>1. i - 1 \in 1 .. N
          BY <1>1, <4>3
        <5> QED BY <4>1, <4>3, <5>1
      <4> QED BY <4>2, <4>3
    <3> QED BY <3>1
  <2>6. flatten = body(flatten)
    BY <2>5
  <2> HIDE DEF flatten
  <2>7. \A i \in 1 .. N : flatten[i] = IF i = 1 THEN s[i] ELSE flatten[i - 1] \o s[i]
    BY <2>6
  <2> DEFINE T == {i \in 1 .. N : ~ \E p : Flat(flatten[i], s, i, p, X)}
  <2>8. T = {}
    <3> SUFFICES ASSUME T # {} PROVE FALSE
      OBVIOUS
    <3>1. PICK i \in T : \A j \in T : i <= j
      <4>1. T \in SUBSET Nat
        OBVIOUS
      <4> HIDE DEF T
      <4> QED BY <4>1, LeastExists
    <3>2. i \in 1 .. N /\ ~ \E p : Flat(flatten[i], s, i, p, X)
      OBVIOUS
    <3> DEFINE j == i - 1
               F == IF i = 1 THEN <<>> ELSE flatten[i - 1]
    <3>3. j \in Nat /\ j + 1 = i /\ j + 1 \in 1 .. Len(s)
      BY <1>1, <3>2
    <3>4. PICK p : Flat(F, s, j, p, X)
      <4>1. CASE i = 1
        BY <1>2, <4>1
      <4>2. CASE i # 1
        <5>1. j \in 1 .. N /\ ~ (i <= j)
          BY <1>1, <3>2, <4>2
        <5>2. j \notin T
          <6> HIDE DEF T, j
          <6> QED BY <3>1, <5>1
        <5> QED BY <4>2, <5>1, <5>2
      <4> QED BY <4>1, <4>2
    <3>5. flatten[i] = F \o s[i]
      <4>1. CASE i = 1
        <5>1. s[i] \in Seq(X)
          BY <3>2
        <5>2. <<>> \o s[i] = s[i]
          BY <5>1
        <5> QED BY <2>7, <3>2, <4>1, <5>2
      <4>2. CASE i # 1
        BY <2>7, <3>2, <4>2
      <4> QED BY <4>1, <4>2
    <3> HIDE DEF F, j
    <3>6. \E q : Flat(F \o s[j + 1], s, j + 1, q, X)
      BY <3>3, <3>4, FlatStep
    <3> QED BY <3>2, <3>3, <3>5, <3>6
  <2>9. N \in 1 .. N
    BY <1>1, <1>4
  <2> QED BY <2>1, <2>8, <2>9
<1> QED BY <1>3, <1>4

-----------------------------------------------------------------------------
(* Layers.                                                                  *)

GoodItems == {i \in Items : Good(i)}

\* The nodes of a layer do not overlap.
Apart(L) == \A j, k \in DOMAIN L : j # k => Shows(L[j]) \cap Shows(L[k]) = {}

Layer(L) == L \in Seq(GoodItems) /\ Apart(L)

IsFunction(f) == f = [a \in DOMAIN f |-> f[a]]

\* The items of a layer are good ones.
LEMMA GoodOf ==
  ASSUME NEW L \in Seq(GoodItems), NEW k \in DOMAIN L
  PROVE  Good(L[k]) /\ L[k] \in GoodItems
<1>1. k \in 1 .. Len(L)
  OBVIOUS
<1>2. L[k] \in GoodItems
  BY <1>1
<1> QED BY <1>2 DEF GoodItems

\* Good items are the members of GoodItems.
LEMMA GoodIn ==
  ASSUME NEW i, Good(i)
  PROVE  i \in GoodItems
BY DEF Good, GoodItems

\* The byte of an item at an address where it shows.
LEMMA ByteIs ==
  ASSUME NEW i, Good(i), NEW a \in Shows(i)
  PROVE  ByteOf(i.data, a) = i.data[a] /\ i.data[a] \in RealByte /\ a \in Addr
<1>1. i.data \in [Cells(i.itv) -> RealByte] /\ a \in Cells(i.itv) /\ a \in Addr
  BY GoodParts
<1> QED BY <1>1 DEF ByteOf

\* What a layer shows is what its items show.
LEMMA OverlayIs ==
  ASSUME NEW L, Layer(L)
  PROVE  /\ IsFunction(Overlay(L))
         /\ \A a : a \in DOMAIN Overlay(L) <=> \E k \in DOMAIN L : a \in Shows(L[k])
         /\ \A k \in DOMAIN L : \A a \in Shows(L[k]) :
              Overlay(L)[a] = L[k].data[a] /\ L[k].data[a] \in RealByte /\ a \in Addr
<1> DEFINE lives == {k \in DOMAIN L : L[k].live}
           D == UNION {Cells(L[k].tree) : k \in lives}
           of(a) == CHOOSE k \in lives : a \in Cells(L[k].tree)
<1>1. Overlay(L) = [a \in D |-> ByteOf(L[of(a)].data, a)]
  BY DEF Overlay
<1>2. \A k, a : k \in lives /\ a \in Cells(L[k].tree) <=> k \in DOMAIN L /\ a \in Shows(L[k])
  BY DEF Shows
<1>3. ASSUME NEW k \in DOMAIN L, NEW a \in Shows(L[k])
      PROVE  of(a) = k
  <2>1. k \in lives /\ a \in Cells(L[k].tree)
    BY <1>2, <1>3
  <2>2. of(a) \in lives /\ a \in Cells(L[of(a)].tree)
    BY <2>1
  <2>3. of(a) \in DOMAIN L /\ a \in Shows(L[of(a)])
    <3> HIDE DEF of, lives
    <3> QED BY <1>2, <2>2
  <2> HIDE DEF of
  <2> QED BY <1>3, <2>3 DEF Layer, Apart
<1>4. \A a : a \in D <=> \E k \in DOMAIN L : a \in Shows(L[k])
  <2> HIDE DEF lives
  <2> QED BY <1>2
<1> HIDE DEF D, of
<1>5. DOMAIN Overlay(L) = D
  BY <1>1
<1>6. ASSUME NEW k \in DOMAIN L, NEW a \in Shows(L[k])
      PROVE  Overlay(L)[a] = L[k].data[a] /\ L[k].data[a] \in RealByte /\ a \in Addr
  <2>1. a \in D
    BY <1>4, <1>6
  <2>2. Overlay(L)[a] = ByteOf(L[k].data, a)
    BY <1>1, <1>3, <1>6, <2>1
  <2>3. Good(L[k])
    BY GoodOf DEF Layer
  <2> QED BY <1>6, <2>2, <2>3, ByteIs
<1>7. IsFunction(Overlay(L))
  BY <1>1 DEF IsFunction
<1> QED BY <1>4, <1>5, <1>6, <1>7

\* A function that has the bytes of the items of a layer is what the layer shows.
LEMMA OverlayIsThis ==
  ASSUME NEW L, Layer(L), NEW f, IsFunction(f),
         \A a : a \in DOMAIN f <=> \E k \in DOMAIN L : a \in Shows(L[k]),
         \A k \in DOMAIN L : \A a \in Shows(L[k]) : f[a] = L[k].data[a]
  PROVE  Overlay(L) = f
<1>1. DOMAIN Overlay(L) = DOMAIN f
  BY OverlayIs
<1>2. \A a \in DOMAIN f : Overlay(L)[a] = f[a]
  BY OverlayIs
<1>3. IsFunction(Overlay(L))
  BY OverlayIs
<1> QED BY <1>1, <1>2, <1>3 DEF IsFunction

\* N is what remains of L when the addresses R went.
Remains(N, L, R) ==
  /\ N \in Seq(GoodItems) /\ Apart(N)
  /\ \A m \in DOMAIN N : Shows(N[m]) \cap R = {} /\ \E k \in DOMAIN L : PartOf(N[m], L[k])
  /\ \A k \in DOMAIN L : \A a \in Shows(L[k]) \ R : \E m \in DOMAIN N : a \in Shows(N[m])

\* Each item of N holds bytes of one of L.
Stems(N, L) == \A m \in DOMAIN N : \E k \in DOMAIN L : Came(N[m], L[k])

\* Parts of the items of a layer are what its writes left, and no more.
LEMMA StemsKnow ==
  ASSUME NEW L, NEW N, Stems(N, L)
  PROVE  Origins(N) \subseteq Origins(L)
<1> SUFFICES ASSUME NEW m \in DOMAIN N, NEW a \in Cells(N[m].itv)
             PROVE  <<N[m].data[a][1], a, N[m].odata[a]>> \in Origins(L)
  BY DEF Origins
<1>1. PICK k \in DOMAIN L : Came(N[m], L[k])
  BY DEF Stems
<1>2. a \in Cells(L[k].itv) /\ N[m].data[a] = L[k].data[a] /\ N[m].odata[a] = L[k].odata[a]
  BY <1>1 DEF Came
<1> QED BY <1>2 DEF Origins

\* What the writes of each layer found.
Known(ls) == [n \in DOMAIN ls |-> Origins(ls[n])]

\* The bytes of an item are of one write, one of the first w.
OfWrite(i, w) == \E k \in 1 .. w : \A a \in Cells(i.itv) : i.data[a][1] = k
Traced(ls, w) == \A n \in DOMAIN ls : \A k \in DOMAIN ls[n] : OfWrite(ls[n][k], w)

\* Layer for layer, the items of ks hold bytes of those of ls.
Descends(ks, ls) == DOMAIN ks = DOMAIN ls /\ \A n \in DOMAIN ls : Stems(ks[n], ls[n])

\* Such layers know no more, and what they hold can still be traced.
LEMMA DescendsIs ==
  ASSUME NEW ls, NEW ks, Descends(ks, ls)
  PROVE  /\ DOMAIN Known(ks) = DOMAIN Known(ls)
         /\ \A n \in DOMAIN Known(ls) : Known(ks)[n] \subseteq Known(ls)[n]
         /\ \A w : Traced(ls, w) => Traced(ks, w)
<1>1. DOMAIN ks = DOMAIN ls /\ \A n \in DOMAIN ls : Origins(ks[n]) \subseteq Origins(ls[n])
  BY StemsKnow DEF Descends
<1>2. ASSUME NEW w, Traced(ls, w), NEW n \in DOMAIN ks, NEW k \in DOMAIN ks[n]
      PROVE  OfWrite(ks[n][k], w)
  <2>1. PICK j \in DOMAIN ls[n] : Came(ks[n][k], ls[n][j])
    BY <1>1, <1>2 DEF Descends, Stems
  <2>2. OfWrite(ls[n][j], w)
    BY <1>1, <1>2 DEF Traced
  <2> QED BY <2>1, <2>2 DEF OfWrite, Came
<1>3. \A w : Traced(ls, w) => Traced(ks, w)
  BY <1>2 DEF Traced
<1> QED BY <1>1, <1>3 DEF Known

\* A step after which the layers know no more.
LEMMA KnowsLess ==
  ASSUME Descends(layers', layers), writes' = writes
  PROVE  /\ Abstract!KnowAtMost([n \in DOMAIN layers |-> Origins(layers[n])])
         /\ Traced(layers, writes) => Traced(layers', writes')
<1> DEFINE ks == layers'
<1>1. Descends(ks, layers)
  OBVIOUS
<1> HIDE DEF ks
<1>2. /\ DOMAIN Known(ks) = DOMAIN Known(layers)
      /\ \A n \in DOMAIN Known(layers) : Known(ks)[n] \subseteq Known(layers)[n]
      /\ \A w : Traced(layers, w) => Traced(ks, w)
  BY <1>1, DescendsIs
<1>3. Abstract!KnowAtMost(Known(layers))
  BY <1>2 DEF Abstract!KnowAtMost, Known, ks
<1> QED BY <1>2, <1>3 DEF ks, Known

\* What can be traced to one of the first w writes can be with one more.
LEMMA TracedMore ==
  ASSUME NEW ls, NEW w \in Nat, Traced(ls, w)
  PROVE  Traced(ls, w + 1)
<1>1. 1 .. w \subseteq 1 .. w + 1
  OBVIOUS
<1> QED BY <1>1 DEF Traced, OfWrite

\* What remains of a layer shows the bytes that the layer showed, without the others.
LEMMA RemainsShows ==
  ASSUME NEW L, Layer(L), NEW N, NEW R, Remains(N, L, R)
  PROVE  Layer(N) /\ Overlay(N) = Abstract!Without(Overlay(L), R) /\ Stems(N, L)
<1>1. Layer(N) /\ Stems(N, L)
  BY DEF Layer, Remains, Stems, PartOf
<1> DEFINE f == Abstract!Without(Overlay(L), R)
<1>2. f = [a \in DOMAIN Overlay(L) \ R |-> Overlay(L)[a]]
  BY DEF Abstract!Without
<1>3. IsFunction(f) /\ DOMAIN f = DOMAIN Overlay(L) \ R
      /\ \A a \in DOMAIN f : f[a] = Overlay(L)[a]
  BY <1>2 DEF IsFunction
<1> HIDE DEF f
<1>4. ASSUME NEW m \in DOMAIN N, NEW a \in Shows(N[m])
      PROVE  a \in DOMAIN f /\ f[a] = N[m].data[a]
  <2>1. PICK k \in DOMAIN L : PartOf(N[m], L[k])
    BY DEF Remains
  <2>2. a \notin R /\ a \in Shows(L[k]) /\ N[m].data[a] = L[k].data[a]
    BY <1>4, <2>1 DEF Remains, PartOf
  <2> QED BY <1>3, <2>2, OverlayIs
<1>5. ASSUME NEW a \in DOMAIN f PROVE \E m \in DOMAIN N : a \in Shows(N[m])
  <2>1. a \in DOMAIN Overlay(L) /\ a \notin R
    BY <1>3
  <2>2. PICK k \in DOMAIN L : a \in Shows(L[k])
    BY <2>1, OverlayIs
  <2> QED BY <2>1, <2>2 DEF Remains
<1>6. \A a : a \in DOMAIN f <=> \E m \in DOMAIN N : a \in Shows(N[m])
  BY <1>4, <1>5
<1>7. Overlay(N) = f
  BY <1>1, <1>3, <1>4, <1>6, OverlayIsThis
<1> QED BY <1>1, <1>7 DEF f

\* The items of F are parts of different items of L without R: o tells of which.
PartsFrom(F, o, L, R) ==
  /\ F \in Seq(GoodItems)
  /\ \A m \in 1 .. Len(F) :
       o[m] \in DOMAIN L /\ PartOf(F[m], L[o[m]]) /\ Shows(F[m]) \cap R = {}
  /\ \A m, n \in 1 .. Len(F) : m # n => o[m] # o[n]

\* Parts of the same item in F and in H do not overlap.
NotMixed(F, o, H, q) ==
  \A m \in 1 .. Len(F) : \A n \in 1 .. Len(H) :
    o[m] = q[n] => Shows(F[m]) \cap Shows(H[n]) = {}

\* F and H show what L does but in R.
ShowRest(F, H, L, R) ==
  \A k \in DOMAIN L : \A a \in Shows(L[k]) \ R :
    \/ \E m \in 1 .. Len(F) : a \in Shows(F[m])
    \/ \E m \in 1 .. Len(H) : a \in Shows(H[m])

\* What two lists of parts make, one after the other.
LEMMA JoinedParts ==
  ASSUME NEW L, Layer(L), NEW R, NEW F, NEW o, PartsFrom(F, o, L, R),
         NEW H, NEW q, PartsFrom(H, q, L, R), NotMixed(F, o, H, q), ShowRest(F, H, L, R)
  PROVE  Remains(F \o H, L, R)
<1>0. F \in Seq(GoodItems) /\ H \in Seq(GoodItems)
  BY DEF PartsFrom
<1> DEFINE N == F \o H
           f == Len(F)
           h == Len(H)
           p == [m \in 1 .. f + h |-> IF m <= f THEN o[m] ELSE q[m - f]]
<1>1. f \in Nat /\ h \in Nat
  BY <1>0
<1>2. N \in Seq(GoodItems) /\ Len(N) = f + h /\ DOMAIN N = 1 .. f + h
  BY <1>0
<1>3. \A m \in 1 .. f : m \in 1 .. f + h /\ N[m] = F[m] /\ p[m] = o[m]
  BY <1>0, <1>1
<1>4. \A m \in 1 .. f + h : ~(m <= f) =>
        m - f \in 1 .. h /\ N[m] = H[m - f] /\ p[m] = q[m - f]
  BY <1>0, <1>1
<1>5. \A m \in 1 .. h : f + m \in 1 .. f + h /\ ~(f + m <= f) /\ f + m - f = m
  BY <1>1
<1>6. \A m \in 1 .. f + h : m <= f => m \in 1 .. f
  BY <1>1
<1> HIDE DEF N, p
<1>7. ASSUME NEW m \in 1 .. f + h
      PROVE  p[m] \in DOMAIN L /\ PartOf(N[m], L[p[m]]) /\ Shows(N[m]) \cap R = {}
  BY <1>3, <1>4, <1>6 DEF PartsFrom
<1>8. ASSUME NEW m \in 1 .. f + h, NEW n \in 1 .. f + h, m # n, p[m] = p[n]
      PROVE  Shows(N[m]) \cap Shows(N[n]) = {}
  <2>1. CASE m <= f /\ n <= f
    <3>1. m \in 1 .. f /\ n \in 1 .. f /\ o[m] = o[n]
      BY <1>3, <1>6, <1>8, <2>1
    <3> QED BY <1>8, <3>1 DEF PartsFrom
  <2>2. CASE m <= f /\ ~(n <= f)
    <3>1. m \in 1 .. f /\ n - f \in 1 .. h /\ o[m] = q[n - f]
          /\ N[m] = F[m] /\ N[n] = H[n - f]
      BY <1>3, <1>4, <1>6, <1>8, <2>2
    <3>2. Shows(F[m]) \cap Shows(H[n - f]) = {}
      BY <3>1 DEF NotMixed
    <3> QED BY <3>1, <3>2
  <2>3. CASE ~(m <= f) /\ n <= f
    <3>1. n \in 1 .. f /\ m - f \in 1 .. h /\ o[n] = q[m - f]
          /\ N[n] = F[n] /\ N[m] = H[m - f]
      BY <1>3, <1>4, <1>6, <1>8, <2>3
    <3>2. Shows(F[n]) \cap Shows(H[m - f]) = {}
      BY <3>1 DEF NotMixed
    <3> QED BY <3>1, <3>2
  <2>4. CASE ~(m <= f) /\ ~(n <= f)
    <3>1. m - f # n - f
      BY <1>1, <1>8
    <3>2. m - f \in 1 .. h /\ n - f \in 1 .. h /\ q[m - f] = q[n - f]
      BY <1>4, <1>8, <2>4
    <3> QED BY <3>1, <3>2 DEF PartsFrom
  <2> QED BY <2>1, <2>2, <2>3, <2>4
<1>9. Apart(N)
  <2> SUFFICES ASSUME NEW m \in 1 .. f + h, NEW n \in 1 .. f + h, m # n
               PROVE  Shows(N[m]) \cap Shows(N[n]) = {}
    BY <1>2 DEF Apart
  <2>1. CASE p[m] = p[n]
    BY <1>8, <2>1
  <2>2. CASE p[m] # p[n]
    <3>1. Shows(L[p[m]]) \cap Shows(L[p[n]]) = {}
      BY <1>7, <2>2 DEF Layer, Apart
    <3>2. Shows(N[m]) \subseteq Shows(L[p[m]]) /\ Shows(N[n]) \subseteq Shows(L[p[n]])
      BY <1>7 DEF PartOf
    <3> QED BY <3>1, <3>2
  <2> QED BY <2>1, <2>2
<1>10. ASSUME NEW k \in DOMAIN L, NEW a \in Shows(L[k]) \ R
       PROVE  \E m \in DOMAIN N : a \in Shows(N[m])
  <2>1. CASE \E m \in 1 .. f : a \in Shows(F[m])
    BY <1>2, <1>3, <2>1
  <2>2. CASE \E m \in 1 .. h : a \in Shows(H[m])
    <3>1. PICK m \in 1 .. h : a \in Shows(H[m])
      BY <2>2
    <3>2. N[f + m] = H[m] /\ f + m \in 1 .. f + h
      BY <1>4, <1>5
    <3> QED BY <1>2, <3>1, <3>2
  <2> QED BY <1>10, <2>1, <2>2 DEF ShowRest
<1>11. Remains(N, L, R)
  BY <1>2, <1>7, <1>9, <1>10 DEF Remains
<1> QED BY <1>11 DEF N

\* Invalidating takes exactly the addresses of the interval from what a layer shows.
LEMMA InvalidateIs ==
  ASSUME NEW L, Layer(L), NEW r, NEW lo, NEW hi, Span(r, lo, hi), lo <= hi,
         \A k \in DOMAIN L : Clean(L[k], r)
  PROVE  Remains(InvalidateIn(L, r), L, lo .. hi)
<1> DEFINE N == Len(L)
           K == [k \in DOMAIN L |-> Kept(L[k], r)]
           S == [k \in DOMAIN L |-> Split(L[k], r)]
           T == Reverse(S)
           R == lo .. hi
<1>1. N \in Nat /\ DOMAIN L = 1 .. N /\ L \in Seq(GoodItems)
  BY DEF Layer
<1>2. ASSUME NEW k \in 1 .. N
      PROVE  /\ Leaves(L[k], lo, hi, K[k], S[k])
             /\ K[k] \in Seq(GoodItems) /\ Len(K[k]) <= 1
             /\ S[k] \in Seq(GoodItems) /\ Len(S[k]) <= 1
  <2>1. Leaves(L[k], lo, hi, Kept(L[k], r), Split(L[k], r))
    BY <1>1, GoodOf, LeavesIs
  <2>2. Leaves(L[k], lo, hi, K[k], S[k])
    BY <1>1, <2>1
  <2> HIDE DEF K, S
  <2>3. ASSUME NEW s, s = <<>> \/ \E x : Good(x) /\ s = <<x>>
        PROVE  s \in Seq(GoodItems) /\ Len(s) <= 1
    <3>1. CASE s = <<>>
      BY <3>1
    <3>2. CASE \E x : Good(x) /\ s = <<x>>
      BY <3>2, GoodIn
    <3> QED BY <2>3, <3>1, <3>2
  <2>4. (K[k] = <<>> \/ \E x : Good(x) /\ K[k] = <<x>>)
        /\ (S[k] = <<>> \/ \E x : Good(x) /\ S[k] = <<x>>)
    BY <2>2 DEF Leaves
  <2> QED BY <2>2, <2>3, <2>4
<1>3. K \in Seq(Seq(GoodItems)) /\ Len(K) = N
  <2>1. K = [k \in 1 .. N |-> K[k]]
    BY <1>1
  <2> HIDE DEF K
  <2> QED BY <1>1, <1>2, <2>1
<1>4. S \in Seq(Seq(GoodItems)) /\ Len(S) = N
  <2>1. S = [k \in 1 .. N |-> S[k]]
    BY <1>1
  <2> HIDE DEF S
  <2> QED BY <1>1, <1>2, <2>1
<1>5. T = [k \in 1 .. N |-> S[(N - k) + 1]]
  BY <1>4 DEF Reverse
<1>6. InvalidateIn(L, r) = FlattenSeq(K) \o FlattenSeq(T)
  BY DEF InvalidateIn
<1> HIDE DEF K, S, T
<1>7. \A k \in 1 .. N : (N - k) + 1 \in 1 .. N /\ (N - ((N - k) + 1)) + 1 = k
  BY <1>1
<1>8. T \in Seq(Seq(GoodItems)) /\ Len(T) = N /\ \A k \in 1 .. N : Len(T[k]) <= 1
  <2>1. \A k \in 1 .. N : S[(N - k) + 1] \in Seq(GoodItems) /\ Len(S[(N - k) + 1]) <= 1
    BY <1>2, <1>7
  <2> QED BY <1>1, <1>5, <2>1
<1> DEFINE F == FlattenSeq(K)
           H == FlattenSeq(T)
<1>9. PICK p : Flat(F, K, N, p, GoodItems)
  <2> HIDE DEF F
  <2>1. \E p : Flat(FlattenSeq(K), K, Len(K), p, GoodItems)
    BY <1>2, <1>3, Flattened
  <2> QED BY <1>3, <2>1 DEF F
<1>10. PICK t : Flat(H, T, N, t, GoodItems)
  <2> HIDE DEF H
  <2>1. \E q : Flat(FlattenSeq(T), T, Len(T), q, GoodItems)
    BY <1>8, Flattened
  <2> QED BY <1>8, <2>1 DEF H
<1> HIDE DEF F, H
<1> DEFINE q == [m \in 1 .. Len(H) |-> (N - t[m]) + 1]
<1>11. F \in Seq(GoodItems) /\ H \in Seq(GoodItems)
  BY <1>9, <1>10 DEF Flat
<1>12. ASSUME NEW m \in 1 .. Len(F)
       PROVE  p[m] \in 1 .. N /\ K[p[m]] # <<>> /\ F[m] = K[p[m]][1]
              /\ PartOf(F[m], L[p[m]]) /\ Shows(F[m]) \cap R = {}
  <2>1. p[m] \in 1 .. N /\ K[p[m]] # <<>> /\ F[m] = K[p[m]][1]
    BY <1>9 DEF Flat
  <2> QED BY <1>2, <2>1 DEF Leaves
<1>13. ASSUME NEW m \in 1 .. Len(H)
       PROVE  q[m] \in 1 .. N /\ S[q[m]] # <<>> /\ H[m] = S[q[m]][1]
              /\ PartOf(H[m], L[q[m]]) /\ Shows(H[m]) \cap R = {}
  <2>1. t[m] \in 1 .. N /\ T[t[m]] # <<>> /\ H[m] = T[t[m]][1]
    BY <1>10 DEF Flat
  <2>2. q[m] = (N - t[m]) + 1 /\ T[t[m]] = S[q[m]] /\ q[m] \in 1 .. N
    BY <1>5, <1>7, <2>1
  <2> HIDE DEF q
  <2> QED BY <1>2, <2>1, <2>2 DEF Leaves
<1>14. \A m, n \in 1 .. Len(F) : m # n => p[m] # p[n]
  BY <1>9 DEF Flat
<1>15. ASSUME NEW m \in 1 .. Len(H), NEW n \in 1 .. Len(H), m # n PROVE q[m] # q[n]
  <2>1. t[m] # t[n] /\ t[m] \in 1 .. N /\ t[n] \in 1 .. N
    BY <1>10, <1>15 DEF Flat
  <2> QED BY <1>1, <2>1
<1>16. ASSUME NEW k \in DOMAIN L, NEW a \in Shows(L[k]) \ R
       PROVE  \/ \E m \in 1 .. Len(F) : a \in Shows(F[m])
              \/ \E m \in 1 .. Len(H) : a \in Shows(H[m])
  <2>1. k \in 1 .. N /\ Leaves(L[k], lo, hi, K[k], S[k])
    BY <1>1, <1>2
  <2>2. (K[k] # <<>> /\ a \in Shows(K[k][1])) \/ (S[k] # <<>> /\ a \in Shows(S[k][1]))
    BY <1>16, <2>1 DEF Leaves
  <2>3. CASE K[k] # <<>> /\ a \in Shows(K[k][1])
    <3>1. PICK m \in 1 .. Len(F) : p[m] = k
      BY <1>9, <2>1, <2>3 DEF Flat
    <3> QED BY <1>12, <2>3, <3>1
  <2>4. CASE S[k] # <<>> /\ a \in Shows(S[k][1])
    <3> DEFINE j == (N - k) + 1
    <3>1. j \in 1 .. N /\ T[j] = S[k] /\ (N - j) + 1 = k
      BY <1>5, <1>7, <2>1
    <3> HIDE DEF j
    <3>2. PICK m \in 1 .. Len(H) : t[m] = j
      BY <1>10, <2>4, <3>1 DEF Flat
    <3>3. q[m] = k
      BY <3>1, <3>2
    <3> QED BY <1>13, <2>4, <3>3
  <2> QED BY <2>2, <2>3, <2>4
<1> HIDE DEF q
<1>17. ASSUME NEW m \in 1 .. Len(F), NEW n \in 1 .. Len(H), p[m] = q[n]
       PROVE  Shows(F[m]) \cap Shows(H[n]) = {}
  <2> DEFINE k == p[m]
  <2>1. Leaves(L[k], lo, hi, K[k], S[k]) /\ K[k] # <<>> /\ S[k] # <<>>
        /\ F[m] = K[k][1] /\ H[n] = S[k][1]
    BY <1>2, <1>12, <1>13, <1>17
  <2> QED BY <2>1 DEF Leaves
<1> HIDE DEF R
<1>18. Remains(F \o H, L, R)
  <2>1. PartsFrom(F, p, L, R) /\ PartsFrom(H, q, L, R)
    BY <1>1, <1>11, <1>12, <1>13, <1>14, <1>15 DEF PartsFrom
  <2>2. NotMixed(F, p, H, q) /\ ShowRest(F, H, L, R)
    BY <1>16, <1>17 DEF NotMixed, ShowRest
  <2> QED BY <2>1, <2>2, JoinedParts
<1> QED BY <1>6, <1>18 DEF F, H, R

\* A new item at the end of a layer shows over the others, if they do not show there.
LEMMA ExtendedShows ==
  ASSUME NEW N, Layer(N), NEW x, Good(x),
         \A k \in DOMAIN N : Shows(N[k]) \cap Shows(x) = {},
         NEW d, IsFunction(d), DOMAIN d = Shows(x), \A a \in Shows(x) : d[a] = x.data[a]
  PROVE  Layer(N \o <<x>>) /\ Overlay(N \o <<x>>) = Abstract!On(d, Overlay(N))
<1> DEFINE W == N \o <<x>>
           n == Len(N)
           f == Abstract!On(d, Overlay(N))
<1>1. N \in Seq(GoodItems) /\ x \in GoodItems /\ n \in Nat /\ DOMAIN N = 1 .. n
  BY GoodIn DEF Layer
<1>2. W \in Seq(GoodItems) /\ DOMAIN W = 1 .. n + 1 /\ W[n + 1] = x
      /\ \A k \in 1 .. n : W[k] = N[k]
  BY <1>1
<1>3. \A k \in 1 .. n + 1 : k = n + 1 \/ k \in 1 .. n
  BY <1>1
<1>4. n + 1 \in 1 .. n + 1 /\ \A k \in 1 .. n : k \in 1 .. n + 1
  BY <1>1
<1> HIDE DEF W, n
<1>5. Apart(W)
  <2> SUFFICES ASSUME NEW j \in 1 .. n + 1, NEW k \in 1 .. n + 1, j # k
               PROVE  Shows(W[j]) \cap Shows(W[k]) = {}
    BY <1>2 DEF Apart
  <2>1. CASE j = n + 1
    BY <1>1, <1>2, <1>3, <2>1
  <2>2. CASE k = n + 1
    BY <1>1, <1>2, <1>3, <2>2
  <2>3. CASE j \in 1 .. n /\ k \in 1 .. n
    BY <1>1, <1>2, <2>3 DEF Layer, Apart
  <2> QED BY <1>3, <2>1, <2>2, <2>3
<1>6. Layer(W)
  BY <1>2, <1>5 DEF Layer
<1>7. DOMAIN f = Shows(x) \cup DOMAIN Overlay(N) /\ IsFunction(f)
      /\ \A a \in DOMAIN f : f[a] = IF a \in Shows(x) THEN d[a] ELSE Overlay(N)[a]
  BY DEF Abstract!On, IsFunction
<1> HIDE DEF f
<1>8. ASSUME NEW k \in 1 .. n + 1, NEW a \in Shows(W[k])
      PROVE  a \in DOMAIN f /\ f[a] = W[k].data[a]
  <2>1. CASE k = n + 1
    BY <1>2, <1>7, <1>8, <2>1
  <2>2. CASE k \in 1 .. n
    <3>1. a \in Shows(N[k]) /\ a \notin Shows(x) /\ W[k] = N[k] /\ k \in DOMAIN N
      BY <1>1, <1>2, <1>8, <2>2
    <3>2. a \in DOMAIN Overlay(N) /\ Overlay(N)[a] = N[k].data[a]
      BY <3>1, OverlayIs
    <3> QED BY <1>7, <3>1, <3>2
  <2> QED BY <1>3, <2>1, <2>2
<1>9. ASSUME NEW a \in DOMAIN f PROVE \E k \in 1 .. n + 1 : a \in Shows(W[k])
  <2>1. CASE a \in Shows(x)
    BY <1>2, <1>4, <2>1
  <2>2. CASE a \in DOMAIN Overlay(N)
    <3>1. PICK k \in DOMAIN N : a \in Shows(N[k])
      BY <2>2, OverlayIs
    <3> QED BY <1>1, <1>2, <1>4, <3>1
  <2> QED BY <1>7, <2>1, <2>2
<1>10. \A a : a \in DOMAIN f <=> \E k \in DOMAIN W : a \in Shows(W[k])
  BY <1>2, <1>8, <1>9
<1>11. \A k \in DOMAIN W : \A a \in Shows(W[k]) : f[a] = W[k].data[a]
  BY <1>2, <1>8
<1>12. Overlay(W) = f
  BY <1>6, <1>7, <1>10, <1>11, OverlayIsThis
<1> QED BY <1>6, <1>12 DEF W, f

\* What is left of a layer when v is written over it.
LEMMA CutLayer ==
  ASSUME NEW L, Layer(L), NEW v, Proper(v), NEW C, C = [k \in DOMAIN L |-> Cut(L[k], v)],
         \A k \in DOMAIN L : ~ AtTop(L[k], v),
         \A k \in DOMAIN L : Nested(L[k], v) => L[k].tree.addr = L[k].itv.addr
  PROVE  LET K == {k \in DOMAIN L : Nested(L[k], v)}
             tail == IF K = {} THEN <<>> ELSE <<TailOf(L[CHOOSE k \in K : TRUE], v)>>
         IN  Remains(C \o tail, L, Cells(v))
<1> DEFINE K == {k \in DOMAIN L : Nested(L[k], v)}
           t == CHOOSE k \in K : TRUE
           x == TailOf(L[t], v)
           n == Len(L)
           R == Cells(v)
           none == <<>>
           o == [k \in 1 .. n |-> k]
           q == [m \in 1 .. 1 |-> t]
<1>1. L \in Seq(GoodItems) /\ n \in Nat /\ DOMAIN L = 1 .. n
  BY DEF Layer
<1>2. Span(v, v.addr, Hi(v)) /\ v.addr <= Hi(v) /\ R = v.addr .. Hi(v) /\ R \subseteq Addr
      /\ v.addr \in Nat /\ Hi(v) \in Addr
  BY ProperSpan DEF Span
<1>3. ASSUME NEW k \in 1 .. n
      PROVE  /\ Good(L[k]) /\ Good(C[k]) /\ PartOf(C[k], L[k]) /\ Shows(C[k]) \cap R = {}
             /\ ~ Nested(L[k], v) => Shows(C[k]) = Shows(L[k]) \ R
             /\ Nested(L[k], v) => Shows(C[k]) = Shows(L[k]) \cap (0 .. v.addr - 1)
  <2>1. Good(L[k]) /\ C[k] = Cut(L[k], v) /\ ~ AtTop(L[k], v)
    BY <1>1, GoodOf
  <2> QED BY <2>1, CutIs DEF PartOf, Came
<1>4. C \in Seq(GoodItems) /\ Len(C) = n
  <2>1. C = [k \in 1 .. n |-> C[k]] /\ \A k \in 1 .. n : C[k] \in GoodItems
    BY <1>1, <1>3, GoodIn
  <2> QED BY <1>1, <2>1
<1>5. PartsFrom(C, o, L, R)
  BY <1>1, <1>3, <1>4 DEF PartsFrom
<1>6. CASE K = {}
  <2>1. PartsFrom(none, q, L, R) /\ NotMixed(C, o, none, q)
    BY DEF PartsFrom, NotMixed
  <2>2. ShowRest(C, none, L, R)
    BY <1>1, <1>3, <1>4, <1>6 DEF ShowRest
  <2> HIDE DEF none, o, q, R
  <2>3. Remains(C \o none, L, R)
    BY <1>5, <2>1, <2>2, JoinedParts
  <2> QED BY <1>6, <2>3 DEF none, R
<1>7. CASE K # {}
  <2>1. t \in 1 .. n /\ Nested(L[t], v)
    BY <1>1, <1>7
  <2> HIDE DEF t
  <2>2. /\ Good(x) /\ Shows(x) = Shows(L[t]) \cap (Hi(v) + 1 .. MaxAddr)
        /\ \A a \in Shows(x) : x.data[a] = L[t].data[a]
        /\ Came(x, L[t])
    BY <1>1, <1>3, <2>1, TailIs
  <2> HIDE DEF x
  <2>3. Shows(x) \cap R = {} /\ PartOf(x, L[t])
    <3>1. \A a \in Hi(v) + 1 .. MaxAddr : a \notin R
      BY <1>2, SizesAssumption DEF Addr
    <3> QED BY <2>2, <3>1 DEF PartOf
  <2>4. ASSUME NEW k \in 1 .. n, Nested(L[k], v) PROVE k = t
    <3>1. ASSUME NEW j \in 1 .. n, Nested(L[j], v) PROVE v.addr \in Shows(L[j])
      <4>1. Good(L[j]) /\ InTree(L[j], v) /\ v.addr > L[j].tree.addr
        BY <1>3, <3>1 DEF Nested
      <4>2. L[j].live /\ v.addr <= Hi(L[j].tree) /\ Shows(L[j]) = L[j].tree.addr .. Hi(L[j].tree)
            /\ Proper(L[j].tree)
        BY <1>2, <4>1, InTreeIs, GoodParts
      <4>3. L[j].tree.addr \in Nat /\ Hi(L[j].tree) \in Addr
        BY <4>2, ProperSpan DEF Span
      <4> QED BY <1>2, <4>1, <4>2, <4>3, SizesAssumption DEF Addr
    <3>2. v.addr \in Shows(L[k]) \cap Shows(L[t])
      BY <2>1, <2>4, <3>1
    <3> QED BY <1>1, <2>1, <3>2 DEF Layer, Apart
  <2> DEFINE H == <<x>>
  <2>5. H \in Seq(GoodItems) /\ Len(H) = 1 /\ H[1] = x
    BY <2>2, GoodIn
  <2>6. PartsFrom(H, q, L, R)
    BY <1>1, <2>1, <2>3, <2>5 DEF PartsFrom
  <2>7. NotMixed(C, o, H, q)
    <3>1. Shows(C[t]) \cap Shows(x) = {}
      <4>1. \A a \in 0 .. v.addr - 1 : a \notin Hi(v) + 1 .. MaxAddr
        BY <1>2, SizesAssumption DEF Addr
      <4> QED BY <1>3, <2>1, <2>2, <4>1
    <3>2. ASSUME NEW m \in 1 .. Len(C), NEW l \in 1 .. Len(H), o[m] = q[l]
          PROVE  Shows(C[m]) \cap Shows(H[l]) = {}
      <4>1. m = t /\ l = 1
        BY <1>4, <2>5, <3>2
      <4> QED BY <2>5, <3>1, <4>1
    <3> HIDE DEF H, o, q
    <3> QED BY <3>2 DEF NotMixed
  <2>8. ShowRest(C, H, L, R)
    <3> SUFFICES ASSUME NEW k \in 1 .. n, NEW a \in Shows(L[k]) \ R
                 PROVE  a \in Shows(C[k]) \/ a \in Shows(H[1])
      BY <1>1, <1>4, <2>5 DEF ShowRest
    <3>1. CASE ~ Nested(L[k], v)
      BY <1>3, <3>1
    <3>2. CASE Nested(L[k], v)
      <4>1. k = t /\ a \in Addr
        BY <1>3, <2>4, <3>2, GoodParts
      <4>2. a \in 0 .. v.addr - 1 \/ a \in Hi(v) + 1 .. MaxAddr
        BY <1>2, <4>1, SizesAssumption DEF Addr
      <4> QED BY <1>3, <2>2, <2>5, <3>2, <4>1, <4>2
    <3> QED BY <3>1, <3>2
  <2> HIDE DEF H, o, q, R
  <2>9. Remains(C \o H, L, R)
    BY <1>5, <2>6, <2>7, <2>8, JoinedParts
  <2> QED BY <1>7, <2>9 DEF H, R, x, t
<1> QED BY <1>6, <1>7

\* The items of W hold bytes of those of L, or what was written to v and what was
\* read there.
Grows(W, L, v, d) ==
  \A m \in DOMAIN W :
    \/ \E k \in DOMAIN L : Came(W[m], L[k])
    \/ W[m].itv = v /\ W[m].data = d /\ W[m].odata = ReadAt(v)

\* The addresses of a write show what was written, the others what they did.
LEMMA WriteIs ==
  ASSUME NEW L, Layer(L), NEW v, Proper(v), NEW d \in [Cells(v) -> RealByte],
         ReadAt(v) \in [Cells(v) -> RealByte],
         \A k \in DOMAIN L : ~ AtTop(L[k], v),
         \A k \in DOMAIN L : Nested(L[k], v) => L[k].tree.addr = L[k].itv.addr
  PROVE  /\ Layer(WriteIn(L, v, d)) /\ Overlay(WriteIn(L, v, d)) = Abstract!On(d, Overlay(L))
         /\ Grows(WriteIn(L, v, d), L, v, d)
<1> DEFINE C == [k \in DOMAIN L |-> Cut(L[k], v)]
           K == {k \in DOMAIN L : Nested(L[k], v)}
           tail == IF K = {} THEN <<>> ELSE <<TailOf(L[CHOOSE k \in K : TRUE], v)>>
           N == C \o tail
           x == NewItem(v, d, ReadAt(v))
           R == Cells(v)
<1>1. WriteIn(L, v, d) = N \o <<x>>
  BY DEF WriteIn
<1>2. Remains(N, L, R)
  BY CutLayer
<1>3. Good(x) /\ Shows(x) = R /\ x.data = d /\ x.itv = v /\ x.odata = ReadAt(v)
  <2> DEFINE r == ReadAt(v)
  <2>1. r \in [Cells(v) -> RealByte]
    OBVIOUS
  <2> HIDE DEF r
  <2>2. /\ Good(NewItem(v, d, r)) /\ Shows(NewItem(v, d, r)) = Cells(v)
        /\ NewItem(v, d, r).data = d /\ NewItem(v, d, r).itv = v /\ NewItem(v, d, r).odata = r
    BY <2>1, NewItemIs
  <2> QED BY <2>2 DEF r
<1> HIDE DEF N, x, R
<1>4. Layer(N) /\ Overlay(N) = Abstract!Without(Overlay(L), R) /\ Stems(N, L)
  BY <1>2, RemainsShows
<1>5. \A k \in DOMAIN N : Shows(N[k]) \cap Shows(x) = {}
  BY <1>2, <1>3 DEF Remains
<1>6. IsFunction(d) /\ DOMAIN d = Shows(x) /\ \A a \in Shows(x) : d[a] = x.data[a]
  BY <1>3 DEF R, IsFunction
<1>7. Layer(N \o <<x>>) /\ Overlay(N \o <<x>>) = Abstract!On(d, Overlay(N))
  BY <1>3, <1>4, <1>5, <1>6, ExtendedShows
<1>8. Abstract!On(d, Abstract!Without(Overlay(L), R)) = Abstract!On(d, Overlay(L))
  <2>1. DOMAIN d = R
    BY <1>3, <1>6
  <2> DEFINE w == Abstract!Without(Overlay(L), R)
  <2>2. DOMAIN w = DOMAIN Overlay(L) \ R /\ \A a \in DOMAIN w : w[a] = Overlay(L)[a]
    BY DEF Abstract!Without
  <2> HIDE DEF w
  <2>3. Abstract!On(d, w) = Abstract!On(d, Overlay(L))
    BY <2>1, <2>2 DEF Abstract!On
  <2> QED BY <2>3 DEF w
<1>9. Grows(N \o <<x>>, L, v, d)
  <2>1. N \in Seq(GoodItems)
    BY <1>4 DEF Layer
  <2>2. ASSUME NEW m \in DOMAIN (N \o <<x>>)
        PROVE  (m \in DOMAIN N /\ (N \o <<x>>)[m] = N[m]) \/ (N \o <<x>>)[m] = x
    BY <2>1
  <2> QED BY <1>3, <1>4, <2>2 DEF Grows, Stems
<1> QED BY <1>1, <1>4, <1>7, <1>8, <1>9

-----------------------------------------------------------------------------
(* Stacks of layers.                                                        *)

Stack(ls) == ls \in Seq(Seq(GoodItems)) /\ \A n \in DOMAIN ls : Apart(ls[n])

\* The layers that show something at a, and what the stack shows over the bytes f.
Having(ls, a) == {n \in DOMAIN ls : a \in DOMAIN Overlay(ls[n])}
Seen(ls, f) ==
  [a \in Addr |-> IF Having(ls, a) = {} THEN f[a] ELSE Overlay(ls[Highest(Having(ls, a))])[a]]

\* The members of a stack are layers.
LEMMA LayerOf ==
  ASSUME NEW ls, Stack(ls), NEW n \in DOMAIN ls
  PROVE  Layer(ls[n])
<1>1. n \in 1 .. Len(ls) /\ ls \in Seq(Seq(GoodItems))
  BY DEF Stack
<1>2. ls[n] \in Seq(GoodItems)
  BY <1>1
<1> QED BY <1>2 DEF Stack, Layer

\* The highest of some numbers up to n is one of them.
LEMMA HighestIs ==
  ASSUME NEW n \in Nat, NEW K \in SUBSET (1 .. n), K # {}
  PROVE  Highest(K) \in K /\ \A j \in K : j <= Highest(K)
<1>1. K \in SUBSET (0 .. n)
  OBVIOUS
<1>2. \E k \in K : \A j \in K : j <= k
  BY <1>1, GreatestExists
<1> QED BY <1>2 DEF Highest

\* The highest layer that shows at an address.
LEMMA HavingIs ==
  ASSUME NEW ls, Stack(ls), NEW a, Having(ls, a) # {}
  PROVE  /\ Highest(Having(ls, a)) \in DOMAIN ls
         /\ a \in DOMAIN Overlay(ls[Highest(Having(ls, a))])
<1> DEFINE K == Having(ls, a)
<1>1. K \in SUBSET (1 .. Len(ls)) /\ Len(ls) \in Nat
  BY DEF Having, Stack
<1> HIDE DEF K
<1>2. Highest(K) \in K
  BY <1>1, HighestIs DEF K
<1> QED BY <1>2 DEF K, Having

\* The bytes of a stack are real ones if those below it are.
LEMMA SeenBytes ==
  ASSUME NEW ls, Stack(ls), NEW f \in [Addr -> RealByte]
  PROVE  Seen(ls, f) \in [Addr -> RealByte]
<1>1. ASSUME NEW a \in Addr, Having(ls, a) # {}
      PROVE  Overlay(ls[Highest(Having(ls, a))])[a] \in RealByte
  <2> DEFINE L == ls[Highest(Having(ls, a))]
  <2>1. Layer(L) /\ a \in DOMAIN Overlay(L)
    BY <1>1, HavingIs, LayerOf
  <2> HIDE DEF L
  <2>2. PICK k \in DOMAIN L : a \in Shows(L[k])
    BY <2>1, OverlayIs
  <2>3. Overlay(L)[a] \in RealByte
    BY <2>1, <2>2, OverlayIs
  <2> QED BY <2>3 DEF L
<1> QED BY <1>1 DEF Seen

\* A read takes from an item what it shows.
LEMMA ServedIs ==
  ASSUME NEW i, Good(i), NEW v, NEW lo, NEW hi, Span(v, lo, hi), lo <= hi
  PROVE  /\ Served(i, v) = Shows(i) \cap (lo .. hi)
         /\ InTree(i, v) => Cells(Intersect(i.tree, v)) = Shows(i) \cap (lo .. hi)
<1>1. CASE ~ InTree(i, v)
  BY <1>1, InTreeIs DEF Served
<1>2. CASE InTree(i, v)
  <2> DEFINE t == i.tree
             its == Intersect(t, v)
             h == Hi(t)
  <2>1. i.live /\ Proper(t) /\ Shows(i) = t.addr .. h /\ t.addr <= hi /\ lo <= h
        /\ t # NoItv
    BY <1>2, InTreeIs, GoodParts DEF Good
  <2>2. /\ Span(t, t.addr, h) /\ t.addr <= h /\ t.addr \in Nat /\ h \in 0 .. MaxAddr
        /\ lo \in 0 .. MaxAddr /\ hi \in 0 .. MaxAddr /\ MaxAddr \in Nat
        /\ t.addr # 0 \/ h # MaxAddr
    BY <2>1, ProperSpan, NotWhole, SizesAssumption DEF Span, Addr
  <2>3. /\ Proper(its) /\ its.addr = (IF t.addr < lo THEN lo ELSE t.addr)
        /\ Hi(its) = (IF h < hi THEN h ELSE hi)
    BY <2>1, <2>2, Intersection
  <2> HIDE DEF its
  <2>4. Cells(its) = its.addr .. Hi(its) /\ its.addr \in Nat /\ its.size \in Nat
        /\ its.addr <= Hi(its)
    BY <2>3, ProperSpan
  <2>5. Cells(its) = Shows(i) \cap (lo .. hi)
    BY <2>1, <2>2, <2>3, <2>4
  <2>6. i.itv.addr <= t.addr /\ h <= Hi(i.itv) /\ i.itv.addr \in Nat /\ i.itv.size \in Nat
    BY <2>1, TreeInItv, FitsSpan DEF Good
  <2>7. its.size <= i.itv.size
    <3>1. t.addr <= its.addr /\ Hi(its) <= h
      BY <2>2, <2>3
    <3>2. i.itv.addr <= its.addr
      BY <2>2, <2>4, <2>6, <3>1
    <3>3. its.addr + its.size - 1 <= h /\ h <= i.itv.addr + i.itv.size - 1 /\ h \in Nat
      BY <2>2, <2>6, <3>1 DEF Hi
    <3> QED BY <2>4, <2>6, <3>2, <3>3
  <2>8. Smaller(its.size, i.itv.size) = its.size
    BY <2>4, <2>6, <2>7 DEF Smaller
  <2>9. Served(i, v) = its.addr .. its.addr + its.size - 1
    BY <1>2, <2>8 DEF Served, its
  <2> QED BY <2>5, <2>9 DEF Cells, its
<1> QED BY <1>1, <1>2

\* The items of a layer that show at an address: there is one if the layer shows there.
ShowingAt(L, a, K) == K = {k \in DOMAIN L : a \in Shows(L[k])}

\* If a layer shows at an address, then by one of its items alone.
LEMMA ShowingItem ==
  ASSUME NEW L, Layer(L), NEW a, NEW K, ShowingAt(L, a, K)
  PROVE  /\ K # {} <=> a \in DOMAIN Overlay(L)
         /\ \A k \in K : ByteOf(L[k].data, a) = Overlay(L)[a] /\ K = {k}
            /\ L[k].tree.addr \in Nat
<1>0. K = {k \in DOMAIN L : a \in Shows(L[k])}
  BY DEF ShowingAt
<1>1. K # {} <=> a \in DOMAIN Overlay(L)
  BY <1>0, OverlayIs
<1>2. ASSUME NEW k \in K
      PROVE  ByteOf(L[k].data, a) = Overlay(L)[a] /\ K = {k} /\ L[k].tree.addr \in Nat
  <2>1. k \in DOMAIN L /\ a \in Shows(L[k]) /\ Good(L[k])
    BY <1>0, GoodOf DEF Layer
  <2>2. \A j \in K : j = k
    BY <1>0, <2>1 DEF Layer, Apart
  <2>3. L[k].live /\ Proper(L[k].tree)
    BY <2>1, GoodParts DEF Shows
  <2> QED BY <2>1, <2>2, <2>3, ByteIs, OverlayIs, ProperSpan
<1> QED BY <1>1, <1>2

\* A read of an interval gives what is seen there.
LEMMA ReadIs ==
  ASSUME NEW ls, Stack(ls), NEW v, NEW lo, NEW hi, Span(v, lo, hi), lo <= hi,
         Cells(v) = lo .. hi, NEW f
  PROVE  /\ IsFunction(ReadLayers(ls, v, f)) /\ DOMAIN ReadLayers(ls, v, f) = Cells(v)
         /\ \A a \in Cells(v) : ReadLayers(ls, v, f)[a] = Seen(ls, f)[a]
<1>1. \A a \in Cells(v) : a \in Addr
  BY SizesAssumption DEF Span, Addr
<1>2. ASSUME NEW n \in DOMAIN ls, NEW a \in Cells(v)
      PROVE  ShowingAt(ls[n], a, Serving(ls[n], v, a))
  <2>1. ASSUME NEW k \in DOMAIN ls[n] PROVE a \in Served(ls[n][k], v) <=> a \in Shows(ls[n][k])
    <3>1. Good(ls[n][k])
      BY LayerOf, GoodOf DEF Layer
    <3> QED BY <3>1, ServedIs
  <2> QED BY <2>1 DEF Serving, ShowingAt
<1>3. ASSUME NEW a \in Cells(v) PROVE ServingLayers(ls, v, a) = Having(ls, a)
  <2>1. ASSUME NEW n \in DOMAIN ls
        PROVE  Serving(ls[n], v, a) # {} <=> a \in DOMAIN Overlay(ls[n])
    BY <1>2, LayerOf, ShowingItem
  <2> QED BY <2>1 DEF ServingLayers, Having
<1>4. ASSUME NEW a \in Cells(v), Having(ls, a) # {}
      PROVE  ReadByte(ls, v, a) = Overlay(ls[Highest(Having(ls, a))])[a]
  <2> DEFINE n == Highest(Having(ls, a))
             L == ls[n]
             K == Serving(L, v, a)
             k == CHOOSE k \in K : \A j \in K : L[j].tree.addr <= L[k].tree.addr
  <2>2. n \in DOMAIN ls /\ a \in DOMAIN Overlay(L) /\ Layer(L)
    BY <1>4, HavingIs, LayerOf
  <2>1. ReadByte(ls, v, a) = ByteOf(L[k].data, a)
    <3>1. ServedByte(L, v, a) = ByteOf(L[k].data, a)
      BY DEF ServedByte
    <3> HIDE DEF L, K, k
    <3>2. L = ls[n]
      BY DEF L
    <3> HIDE DEF n
    <3>3. Highest(ServingLayers(ls, v, a)) = n
      BY <1>3 DEF n
    <3> QED BY <2>2, <3>1, <3>2, <3>3 DEF ReadByte
  <2>3. ShowingAt(L, a, K)
    BY <1>2, <2>2
  <2> HIDE DEF n, L, K
  <2>4. K # {} /\ \A j \in K : ByteOf(L[j].data, a) = Overlay(L)[a] /\ K = {j}
                               /\ L[j].tree.addr \in Nat
    BY <2>2, <2>3, ShowingItem
  <2>5. \E i \in K : \A j \in K : L[j].tree.addr <= L[i].tree.addr
    <3>1. PICK i \in K : TRUE
      BY <2>4
    <3>2. \A j \in K : j = i
      BY <2>4
    <3> QED BY <2>4, <3>1, <3>2
  <2>6. k \in K
    BY <2>5
  <2> HIDE DEF k
  <2> QED BY <2>1, <2>4, <2>6 DEF L, n
<1>5. IsFunction(ReadLayers(ls, v, f)) /\ DOMAIN ReadLayers(ls, v, f) = Cells(v)
  BY DEF ReadLayers, IsFunction
<1> QED BY <1>1, <1>3, <1>4, <1>5 DEF ReadLayers, Seen

\* The interval of one address.
LEMMA OneAddress ==
  ASSUME NEW a \in Addr
  PROVE  LET v == [addr |-> a, size |-> 1] IN Span(v, a, a) /\ Cells(v) = a .. a
<1>1. a \in 0 .. MaxAddr /\ MaxAddr \in Nat
  BY SizesAssumption DEF Addr
<1>2. (a + 1) % M = IF a = MaxAddr THEN 0 ELSE a + 1
  BY <1>1, Mod DEF M
<1>3. a + 1 - 1 = a
  BY <1>1
<1> QED BY <1>1, <1>2, <1>3 DEF Span, End, Cells, Addr

\* Reading byte by byte shows what is seen.
LEMMA ReadBytes ==
  ASSUME NEW ls, Stack(ls), NEW f
  PROVE  [a \in Addr |-> ReadLayers(ls, [addr |-> a, size |-> 1], f)[a]] = Seen(ls, f)
<1>1. ASSUME NEW a \in Addr
      PROVE  ReadLayers(ls, [addr |-> a, size |-> 1], f)[a] = Seen(ls, f)[a]
  <2> DEFINE v == [addr |-> a, size |-> 1]
  <2>1. Span(v, a, a) /\ Cells(v) = a .. a
    BY OneAddress
  <2>0. a <= a /\ a \in a .. a
    BY SizesAssumption DEF Addr
  <2>2. \A b \in Cells(v) : ReadLayers(ls, v, f)[b] = Seen(ls, f)[b]
    <3> DEFINE z == a
    <3>1. Span(v, a, z) /\ Cells(v) = a .. z /\ a <= z
      BY <2>0, <2>1
    <3> HIDE DEF v, z
    <3> QED BY <3>1, ReadIs
  <2> HIDE DEF v
  <2>3. ReadLayers(ls, v, f)[a] = Seen(ls, f)[a]
    BY <2>0, <2>1, <2>2
  <2> QED BY <2>3 DEF v
<1>2. Seen(ls, f) = [a \in Addr |-> Seen(ls, f)[a]]
  BY DEF Seen
<1> QED BY <1>1, <1>2

\* A commit of an interval brings down what is seen there.
LEMMA FlushIs ==
  ASSUME NEW ls, Stack(ls), NEW v, NEW lo, NEW hi, Span(v, lo, hi), lo <= hi, NEW f, Writable
  PROVE  Flush(ls, v, f) = [a \in Addr |-> IF a \in lo .. hi THEN Seen(ls, f)[a] ELSE f[a]]
<1>1. ASSUME NEW n \in DOMAIN ls, NEW a \in Addr
      PROVE  Flushing(ls[n], v, a) =
               IF a \in lo .. hi THEN {k \in DOMAIN ls[n] : a \in Shows(ls[n][k])} ELSE {}
  <2>1. ASSUME NEW k \in DOMAIN ls[n]
        PROVE  InTree(ls[n][k], v) /\ a \in Cells(Intersect(ls[n][k].tree, v))
                 <=> a \in lo .. hi /\ a \in Shows(ls[n][k])
    <3>1. Good(ls[n][k])
      BY LayerOf, GoodOf DEF Layer
    <3>2. InTree(ls[n][k], v) <=> Shows(ls[n][k]) \cap (lo .. hi) # {}
      BY <3>1, InTreeIs
    <3>3. InTree(ls[n][k], v) =>
            Cells(Intersect(ls[n][k].tree, v)) = Shows(ls[n][k]) \cap (lo .. hi)
      BY <3>1, ServedIs
    <3> QED BY <3>2, <3>3
  <2> QED BY <2>1 DEF Flushing
<1>2. ASSUME NEW a \in Addr
      PROVE  FlushingLayers(ls, v, a) = IF a \in lo .. hi THEN Having(ls, a) ELSE {}
  <2>1. ASSUME NEW n \in DOMAIN ls
        PROVE  Flushing(ls[n], v, a) # {} <=> a \in lo .. hi /\ a \in DOMAIN Overlay(ls[n])
    <3>1. Layer(ls[n])
      BY LayerOf
    <3> DEFINE K == {k \in DOMAIN ls[n] : a \in Shows(ls[n][k])}
    <3>3. Flushing(ls[n], v, a) = (IF a \in lo .. hi THEN K ELSE {}) /\ ShowingAt(ls[n], a, K)
      BY <1>1 DEF ShowingAt
    <3> HIDE DEF K
    <3>2. K # {} <=> a \in DOMAIN Overlay(ls[n])
      BY <3>1, <3>3, ShowingItem
    <3> QED BY <3>2, <3>3
  <2> QED BY <2>1 DEF FlushingLayers, Having
<1>3. ASSUME NEW a \in Addr, a \in lo .. hi, Having(ls, a) # {}
      PROVE  LET L == ls[Highest(FlushingLayers(ls, v, a))]
             IN  ByteOf(L[CHOOSE k \in Flushing(L, v, a) : TRUE].data, a)
                   = Overlay(ls[Highest(Having(ls, a))])[a]
  <2> DEFINE n == Highest(Having(ls, a))
             L == ls[n]
             K == Flushing(L, v, a)
             k == CHOOSE k \in K : TRUE
  <2>1. FlushingLayers(ls, v, a) = Having(ls, a)
    BY <1>2, <1>3
  <2>2. n \in DOMAIN ls /\ a \in DOMAIN Overlay(L) /\ Layer(L)
    BY <1>3, HavingIs, LayerOf
  <2>3. ShowingAt(L, a, K)
    BY <1>1, <1>3, <2>2 DEF ShowingAt
  <2> HIDE DEF n, L, K
  <2>4. K # {} /\ \A j \in K : ByteOf(L[j].data, a) = Overlay(L)[a]
    BY <2>2, <2>3, ShowingItem
  <2>5. k \in K
    BY <2>4
  <2> HIDE DEF k
  <2>6. ByteOf(L[k].data, a) = Overlay(L)[a]
    BY <2>4, <2>5
  <2> QED BY <2>1, <2>6 DEF k, K, L, n
<1> DEFINE g(a) == IF FlushingLayers(ls, v, a) = {} \/ ~Writable THEN f[a]
                   ELSE LET L == ls[Highest(FlushingLayers(ls, v, a))]
                        IN  ByteOf(L[CHOOSE k \in Flushing(L, v, a) : TRUE].data, a)
<1>4. ASSUME NEW a \in Addr PROVE g(a) = IF a \in lo .. hi THEN Seen(ls, f)[a] ELSE f[a]
  <2>1. Seen(ls, f)[a] = IF Having(ls, a) = {} THEN f[a]
                         ELSE Overlay(ls[Highest(Having(ls, a))])[a]
    BY DEF Seen
  <2>2. CASE a \notin lo .. hi
    BY <1>2, <2>2
  <2>3. CASE a \in lo .. hi /\ Having(ls, a) = {}
    BY <1>2, <2>1, <2>3
  <2>4. CASE a \in lo .. hi /\ Having(ls, a) # {}
    <3>1. FlushingLayers(ls, v, a) # {}
      BY <1>2, <2>4
    <3> QED BY <1>3, <2>1, <2>4, <3>1
  <2> QED BY <2>2, <2>3, <2>4
<1>5. Flush(ls, v, f) = [a \in Addr |-> g(a)]
  BY DEF Flush
<1> HIDE DEF g
<1> QED BY <1>4, <1>5

-----------------------------------------------------------------------------
(* The state.                                                               *)

\* Real bytes below, and layers whose items are good and whose nodes are apart.
Base ==
  /\ file \in [Addr -> RealByte] /\ Stack(layers)
  /\ writes \in 0 .. MaxWrites /\ ops \in 0 .. MaxOps

Over(ls) == [n \in DOMAIN ls |-> Overlay(ls[n])]

\* A function on the numbers up to N is a sequence.
LEMMA AsSeq ==
  ASSUME NEW N \in Nat, NEW S, NEW f \in [1 .. N -> S]
  PROVE  f \in Seq(S) /\ Len(f) = N
<1>1. f \in Seq(S)
  OBVIOUS
<1>2. DOMAIN f = 1 .. N /\ DOMAIN f = 1 .. Len(f) /\ Len(f) \in Nat
  BY <1>1
<1> QED BY <1>1, <1>2

\* The layers as the abstract specification sees them.
LEMMA OverIs ==
  ASSUME NEW ls, Stack(ls)
  PROVE  /\ ls \in Seq(Seq(GoodItems)) /\ DOMAIN ls = 1 .. Len(ls) /\ Len(ls) \in Nat
         /\ DOMAIN Over(ls) = 1 .. Len(ls) /\ Len(Over(ls)) = Len(ls)
         /\ Over(ls) \in Seq({Over(ls)[n] : n \in DOMAIN ls})
         /\ \A n \in DOMAIN ls : Over(ls)[n] = Overlay(ls[n])
<1>1. ls \in Seq(Seq(GoodItems)) /\ DOMAIN ls = 1 .. Len(ls) /\ Len(ls) \in Nat
  BY DEF Stack
<1>2. Over(ls) = [n \in 1 .. Len(ls) |-> Overlay(ls[n])]
  BY <1>1 DEF Over
<1>3. \A n \in DOMAIN ls : Over(ls)[n] = Overlay(ls[n])
  BY <1>1, <1>2
<1>4. DOMAIN Over(ls) = 1 .. Len(ls) /\ Over(ls) = [n \in 1 .. Len(ls) |-> Over(ls)[n]]
  BY <1>2
<1> DEFINE o == Over(ls)
           S == {o[n] : n \in 1 .. Len(ls)}
<1>5. o \in [1 .. Len(ls) -> S]
  BY <1>4
<1> HIDE DEF o
<1>6. o \in Seq(S) /\ Len(o) = Len(ls)
  <2> HIDE DEF S
  <2> QED BY <1>1, <1>5, AsSeq
<1> QED BY <1>1, <1>3, <1>4, <1>6 DEF o

\* A layer without items shows nothing.
LEMMA OverEmpty ==
  Layer(<<>>) /\ Overlay(<<>>) = Abstract!Empty
<1> DEFINE e == Abstract!Empty
           none == <<>>
<1>1. Layer(none)
  BY DEF Layer, Apart
<1>2. IsFunction(e) /\ DOMAIN e = {}
  BY DEF Abstract!Empty, IsFunction
<1>3. DOMAIN none = {}
  OBVIOUS
<1> HIDE DEF e, none
<1>4. Overlay(none) = e
  BY <1>1, <1>2, <1>3, OverlayIsThis
<1> QED BY <1>1, <1>4 DEF none, e

\* Replacing a layer.
LEMMA Relayered ==
  ASSUME NEW ls, Stack(ls), NEW n \in DOMAIN ls, NEW W, Layer(W),
         NEW ks, ks = [ls EXCEPT ![n] = W]
  PROVE  Stack(ks) /\ Over(ks) = [Over(ls) EXCEPT ![n] = Overlay(W)]
<1>1. ls \in Seq(Seq(GoodItems)) /\ DOMAIN ls = 1 .. Len(ls) /\ Len(ls) \in Nat
  BY DEF Stack
<1>2. W \in Seq(GoodItems)
  BY DEF Layer
<1>3. ks \in Seq(Seq(GoodItems)) /\ DOMAIN ks = DOMAIN ls
      /\ \A m \in DOMAIN ls : ks[m] = IF m = n THEN W ELSE ls[m]
  BY <1>1, <1>2
<1>4. Stack(ks)
  BY <1>3 DEF Stack, Layer
<1>5. Over(ks) = [Over(ls) EXCEPT ![n] = Overlay(W)]
  BY <1>3 DEF Over
<1> QED BY <1>4, <1>5

\* Taking the same addresses from all layers.
LEMMA InvalidateStack ==
  ASSUME NEW ls, Stack(ls), NEW r, NEW lo, NEW hi, Span(r, lo, hi), lo <= hi,
         \A n \in DOMAIN ls : \A k \in DOMAIN ls[n] : Clean(ls[n][k], r)
  PROVE  /\ Stack(InvalidateAll(ls, r)) /\ Descends(InvalidateAll(ls, r), ls)
         /\ Over(InvalidateAll(ls, r)) = Abstract!Drop(Over(ls), lo .. hi)
         /\ DOMAIN InvalidateAll(ls, r) = DOMAIN ls
         /\ \A n \in DOMAIN ls : \A k \in DOMAIN InvalidateAll(ls, r)[n] :
              ~ InTree(InvalidateAll(ls, r)[n][k], r)
<1> DEFINE R == lo .. hi
           N == InvalidateAll(ls, r)
<1>1. ls \in Seq(Seq(GoodItems)) /\ DOMAIN ls = 1 .. Len(ls) /\ Len(ls) \in Nat
  BY DEF Stack
<1>2. N = [n \in 1 .. Len(ls) |-> InvalidateIn(ls[n], r)]
  BY <1>1 DEF InvalidateAll
<1> HIDE DEF N
<1>3. ASSUME NEW n \in 1 .. Len(ls)
      PROVE  Remains(N[n], ls[n], R) /\ Layer(ls[n])
  <2>1. Layer(ls[n])
    BY <1>1, LayerOf
  <2>2. N[n] = InvalidateIn(ls[n], r)
    BY <1>2
  <2>3. \A k \in DOMAIN ls[n] : Clean(ls[n][k], r)
    BY <1>1
  <2> QED BY <2>1, <2>2, <2>3, InvalidateIs
<1> HIDE DEF R
<1>4. ASSUME NEW n \in 1 .. Len(ls)
      PROVE  Layer(N[n]) /\ Overlay(N[n]) = Abstract!Without(Overlay(ls[n]), R)
             /\ Stems(N[n], ls[n])
  BY <1>3, RemainsShows
<1>5. N \in Seq(Seq(GoodItems)) /\ DOMAIN N = 1 .. Len(ls)
  <2>1. \A n \in 1 .. Len(ls) : N[n] \in Seq(GoodItems)
    BY <1>4 DEF Layer
  <2>2. N = [n \in 1 .. Len(ls) |-> N[n]]
    BY <1>2
  <2> QED BY <1>1, <2>1, <2>2
<1>6. Stack(N)
  BY <1>4, <1>5 DEF Stack, Layer
<1>7. Over(N) = Abstract!Drop(Over(ls), R)
  BY <1>1, <1>4, <1>5 DEF Over, Abstract!Drop
<1>8. ASSUME NEW n \in 1 .. Len(ls), NEW k \in DOMAIN N[n]
      PROVE  ~ InTree(N[n][k], r)
  <2>1. Good(N[n][k]) /\ Shows(N[n][k]) \cap R = {}
    BY <1>3, GoodOf DEF Remains
  <2> QED BY <2>1, InTreeIs DEF R
<1>9. Descends(N, ls)
  BY <1>1, <1>4, <1>5 DEF Descends
<1> QED BY <1>1, <1>5, <1>6, <1>7, <1>8, <1>9 DEF R, N

\* What the lowest layers show.
LEMMA ShownIs ==
  ASSUME Stack(layers), NEW n \in 0 .. Len(layers)
  PROVE  /\ Abstract!Shown(n) = Seen(SubSeq(layers, 1, n), file)
         /\ Stack(SubSeq(layers, 1, n))
         /\ n = Len(layers) => SubSeq(layers, 1, n) = layers
<1> DEFINE ls == SubSeq(layers, 1, n)
           over == [m \in DOMAIN layers |-> Overlay(layers[m])]
<1>1. layers \in Seq(Seq(GoodItems)) /\ DOMAIN layers = 1 .. Len(layers) /\ Len(layers) \in Nat
  BY DEF Stack
<1>2. ls \in Seq(Seq(GoodItems)) /\ DOMAIN ls = 1 .. n /\ \A m \in 1 .. n : ls[m] = layers[m]
      /\ \A i \in 1 .. n : i \in DOMAIN layers
  BY <1>1
<1>3. n = Len(layers) => ls = layers
  BY <1>1
<1> HIDE DEF ls
<1>4. Stack(ls)
  BY <1>2 DEF Stack
<1> DEFINE h(a) == {k \in 1 .. n : a \in DOMAIN over[k]}
<1>5. ASSUME NEW a PROVE h(a) = Having(ls, a)
  BY <1>2 DEF Having
<1>6. ASSUME NEW a, Having(ls, a) # {}
      PROVE  over[Highest(Having(ls, a))][a] = Overlay(ls[Highest(Having(ls, a))])[a]
  BY <1>2, <1>4, <1>6, HavingIs
<1>7. Abstract!Shown(n) =
        [a \in Addr |-> IF h(a) = {} THEN file[a] ELSE over[Highest(h(a))][a]]
  BY DEF Abstract!Shown, Abstract!Addrs, Addr, Highest
<1> HIDE DEF over, h
<1>8. Abstract!Shown(n) =
        [a \in Addr |-> IF Having(ls, a) = {} THEN file[a] ELSE over[Highest(Having(ls, a))][a]]
  BY <1>5, <1>7
<1>9. Abstract!Shown(n) = Seen(ls, file)
  BY <1>6, <1>8 DEF Seen
<1> QED BY <1>3, <1>4, <1>9 DEF ls

\* Byte by byte, a reader sees what the stack of layers shows.
LEMMA ViewIs ==
  ASSUME Base
  PROVE  View = Seen(layers, file) /\ Abstract!View = Seen(layers, file)
         /\ View \in [Addr -> RealByte]
<1>1. Stack(layers) /\ Len(layers) \in 0 .. Len(layers) /\ file \in [Addr -> RealByte]
  BY DEF Base, Stack
<1>2. View = Seen(layers, file)
  BY <1>1, ReadBytes DEF View, ReadAt
<1>3. Len([n \in DOMAIN layers |-> Overlay(layers[n])]) = Len(layers)
  BY <1>1, OverIs DEF Over
<1>4. Abstract!View = Abstract!Shown(Len(layers))
  BY <1>3 DEF Abstract!View
<1> QED BY <1>1, <1>2, <1>4, ShownIs, SeenBytes

-----------------------------------------------------------------------------
(* Writes.                                                                  *)

\* The parts of a write are proper intervals.
LEMMA PartsProper ==
  ASSUME NEW addr \in Addr, NEW len \in Sizes
  PROVE  /\ addr \in Nat /\ len \in Nat /\ MaxAddr \in Nat /\ addr <= MaxAddr /\ len <= MaxAddr
         /\ PastEnd(addr, len) <=> addr + len > MaxAddr + 1
         /\ PastEnd(addr, len) =>
              /\ Proper(Rest(addr, len)) /\ Rest(addr, len).addr = 0
              /\ Cells(Rest(addr, len)) = 0 .. addr + len - (MaxAddr + 2)
              /\ Proper(UpToEnd(addr)) /\ End(UpToEnd(addr)) = 0
              /\ Cells(UpToEnd(addr)) = addr .. MaxAddr
         /\ ~ PastEnd(addr, len) =>
              /\ Proper([addr |-> addr, size |-> len])
              /\ Cells([addr |-> addr, size |-> len]) = addr .. addr + len - 1
<1>1. addr \in 0 .. MaxAddr /\ len \in 1 .. MaxAddr /\ MaxAddr \in Nat
  BY SizesAssumption DEF Addr
<1>2. PastEnd(addr, len) <=> addr + len > MaxAddr + 1
  BY <1>1 DEF PastEnd, M
<1>3. ASSUME PastEnd(addr, len)
      PROVE  /\ Proper(Rest(addr, len)) /\ Rest(addr, len).addr = 0
             /\ Cells(Rest(addr, len)) = 0 .. addr + len - (MaxAddr + 2)
  <2> DEFINE n == len - (M - addr)
  <2>1. Rest(addr, len) = [addr |-> 0, size |-> n]
    BY DEF Rest
  <2>2. n \in 1 .. MaxAddr /\ 0 + n <= M /\ 0 + n - 1 = addr + len - (MaxAddr + 2)
    BY <1>1, <1>2, <1>3 DEF M
  <2> HIDE DEF n
  <2>3. Rest(addr, len) \in Itv /\ Rest(addr, len).addr = 0 /\ Rest(addr, len).size = n
    BY <1>1, <2>1, <2>2 DEF Itv, Addr
  <2> QED BY <2>2, <2>3 DEF Proper, Cells
<1>4. ASSUME PastEnd(addr, len)
      PROVE  /\ Proper(UpToEnd(addr)) /\ End(UpToEnd(addr)) = 0
             /\ Cells(UpToEnd(addr)) = addr .. MaxAddr
  <2> DEFINE n == M - addr
  <2>1. UpToEnd(addr) = [addr |-> addr, size |-> n]
    BY DEF UpToEnd
  <2>2. n \in 1 .. MaxAddr /\ addr + n = M /\ addr + n - 1 = MaxAddr
    BY <1>1, <1>2, <1>3, <1>4 DEF M
  <2> HIDE DEF n
  <2>3. UpToEnd(addr) \in Itv /\ UpToEnd(addr).addr = addr /\ UpToEnd(addr).size = n
    BY <1>1, <2>1, <2>2 DEF Itv, Addr
  <2>4. M % M = 0
    BY <1>1 DEF M
  <2> QED BY <1>1, <2>2, <2>3, <2>4 DEF Proper, Cells, End, M
<1>5. ASSUME ~ PastEnd(addr, len)
      PROVE  /\ Proper([addr |-> addr, size |-> len])
             /\ Cells([addr |-> addr, size |-> len]) = addr .. addr + len - 1
  <2>1. addr + len <= M
    BY <1>1, <1>2, <1>5 DEF M
  <2> QED BY <1>1, <2>1 DEF Proper, Cells, Itv, Addr
<1> QED BY <1>1, <1>2, <1>3, <1>4, <1>5

\* The cells of the parts are those counted from addr on round the end.
Covered(addr, len) ==
  IF PastEnd(addr, len) THEN Cells(Rest(addr, len)) \cup Cells(UpToEnd(addr))
  ELSE Cells([addr |-> addr, size |-> len])

\* The parts of a write cover the addresses of the abstract write.
LEMMA CoveredIs ==
  ASSUME NEW addr \in Addr, NEW len \in Sizes
  PROVE  /\ Covered(addr, len) = {(addr + i) % (MaxAddr + 1) : i \in 0 .. len - 1}
         /\ Covered(addr, len) \subseteq Addr
         /\ \A a : a \in Covered(addr, len) <=> \E v \in Parts(addr, len) : a \in Cells(v)
<1> DEFINE N == MaxAddr + 1
           W == {(addr + i) % N : i \in 0 .. len - 1}
<1>1. addr \in Nat /\ len \in Nat /\ MaxAddr \in Nat /\ addr <= MaxAddr /\ len <= MaxAddr
  BY PartsProper
<1>2. ASSUME NEW x \in Int
      PROVE  /\ 0 <= x /\ x < N => x % N = x
             /\ N <= x /\ x < 2 * N => x % N = x - N
  BY Mod DEF M
<1>3. ASSUME NEW i \in 0 .. len - 1
      PROVE  (addr + i) % N = IF addr + i <= MaxAddr THEN addr + i ELSE (addr + i) - N
  <2>1. addr + i \in Int /\ 0 <= addr + i /\ addr + i < 2 * N
    BY <1>1
  <2>2. addr + i <= MaxAddr => addr + i < N
    BY <1>1
  <2>3. ~ (addr + i <= MaxAddr) => N <= addr + i
    BY <1>1
  <2> HIDE DEF N
  <2> QED BY <1>2, <2>1, <2>2, <2>3
<1>4. \A a : a \in W <=> \E i \in 0 .. len - 1 : a = (addr + i) % N
  OBVIOUS
<1>5. CASE PastEnd(addr, len)
  <2>1. Covered(addr, len) = (0 .. addr + len - (MaxAddr + 2)) \cup (addr .. MaxAddr)
        /\ addr + len > MaxAddr + 1
    BY <1>5, PartsProper DEF Covered
  <2>2. ASSUME NEW a \in W PROVE a \in Covered(addr, len)
    <3>1. PICK i \in 0 .. len - 1 : a = (addr + i) % N
      BY <1>4, <2>2
    <3>2. a = IF addr + i <= MaxAddr THEN addr + i ELSE (addr + i) - N
      BY <1>3, <3>1
    <3> QED BY <1>1, <2>1, <3>2
  <2>3. ASSUME NEW a \in addr .. MaxAddr PROVE a \in W
    <3>1. a - addr \in 0 .. len - 1 /\ addr + (a - addr) = a /\ a <= MaxAddr
      BY <1>1, <2>1
    <3>2. (addr + (a - addr)) % N = a
      BY <1>3, <3>1
    <3> QED BY <1>4, <3>1, <3>2
  <2>4. ASSUME NEW a \in 0 .. addr + len - (MaxAddr + 2) PROVE a \in W
    <3> DEFINE i == a + N - addr
    <3>1. i \in 0 .. len - 1 /\ addr + i = a + N /\ ~ (addr + i <= MaxAddr) /\ (addr + i) - N = a
      BY <1>1, <2>1
    <3>2. (addr + i) % N = a
      <4> HIDE DEF i
      <4> QED BY <1>3, <3>1
    <3> QED BY <1>4, <3>1, <3>2
  <2>5. Covered(addr, len) = W
    BY <2>1, <2>2, <2>3, <2>4
  <2>6. Covered(addr, len) \subseteq Addr
    BY <1>1, <2>1 DEF Addr
  <2>7. Parts(addr, len) = {Rest(addr, len), UpToEnd(addr)}
    BY <1>5 DEF Parts
  <2> QED BY <1>5, <2>5, <2>6, <2>7 DEF Covered
<1>6. CASE ~ PastEnd(addr, len)
  <2>1. Covered(addr, len) = addr .. addr + len - 1 /\ addr + len <= MaxAddr + 1
    BY <1>1, <1>6, PartsProper DEF Covered
  <2>2. ASSUME NEW a \in W PROVE a \in Covered(addr, len)
    <3>1. PICK i \in 0 .. len - 1 : a = (addr + i) % N
      BY <1>4, <2>2
    <3>2. a = IF addr + i <= MaxAddr THEN addr + i ELSE (addr + i) - N
      BY <1>3, <3>1
    <3> QED BY <1>1, <2>1, <3>2
  <2>3. ASSUME NEW a \in addr .. addr + len - 1 PROVE a \in W
    <3>1. a - addr \in 0 .. len - 1 /\ addr + (a - addr) = a /\ a <= MaxAddr
      BY <1>1, <2>1
    <3>2. (addr + (a - addr)) % N = a
      BY <1>3, <3>1
    <3> QED BY <1>4, <3>1, <3>2
  <2>5. Covered(addr, len) = W
    BY <2>1, <2>2, <2>3
  <2>6. Covered(addr, len) \subseteq Addr
    BY <1>1, <2>1 DEF Addr
  <2>7. Parts(addr, len) = {[addr |-> addr, size |-> len]}
    BY <1>6 DEF Parts
  <2> QED BY <1>6, <2>5, <2>6, <2>7 DEF Covered
<1> QED BY <1>5, <1>6

\* The bytes of a write are real ones.
LEMMA BufIs ==
  ASSUME NEW addr \in Addr, NEW v, Cells(v) \subseteq Addr, Base, writes < MaxWrites
  PROVE  /\ Buf(addr, v) \in [Cells(v) -> RealByte]
         /\ \A a \in Addr : <<writes + 1, (a - addr) % M>> \in RealByte
<1>1. \A a \in Addr : (a - addr) % M \in Addr
  <2> SUFFICES ASSUME NEW a \in Addr PROVE (a - addr) % M \in 0 .. MaxAddr
    BY DEF Addr
  <2> QED BY SizesAssumption DEF Addr, M
<1>2. writes + 1 \in 0 .. MaxWrites
  BY SizesAssumption DEF Base
<1>3. \A a \in Addr : <<writes + 1, (a - addr) % M>> \in RealByte
  BY <1>1, <1>2 DEF RealByte
<1> QED BY <1>3 DEF Buf

\* Reading a proper interval gives real bytes.
LEMMA ReadReal ==
  ASSUME Base, NEW v, Proper(v)
  PROVE  /\ ReadAt(v) \in [Cells(v) -> RealByte]
         /\ \A a \in Cells(v) : ReadAt(v)[a] = View[a]
<1> DEFINE lo == v.addr
           hi == Hi(v)
<1>1. Span(v, lo, hi) /\ lo <= hi /\ Cells(v) = lo .. hi /\ Cells(v) \subseteq Addr
  BY ProperSpan
<1>2. Stack(layers) /\ file \in [Addr -> RealByte]
  BY DEF Base
<1> HIDE DEF lo, hi
<1>3. IsFunction(ReadAt(v)) /\ DOMAIN ReadAt(v) = Cells(v)
      /\ \A a \in Cells(v) : ReadAt(v)[a] = Seen(layers, file)[a]
  BY <1>1, <1>2, ReadIs DEF ReadAt
<1>4. Seen(layers, file) \in [Addr -> RealByte] /\ View = Seen(layers, file)
  BY <1>2, SeenBytes, ViewIs
<1>5. \A a \in Cells(v) : ReadAt(v)[a] \in RealByte
  BY <1>1, <1>3, <1>4
<1> QED BY <1>3, <1>4, <1>5 DEF IsFunction

\* The item i holds bytes of the next write, at addresses of A, and what shows there.
Writes(i, A) ==
  /\ Cells(i.itv) \subseteq A
  /\ \A a \in Cells(i.itv) : i.data[a][1] = writes + 1 /\ i.odata[a] = View[a]

\* The items of W hold bytes of those of L or of the next write, at addresses of A.
Adds(W, L, A) ==
  \A m \in DOMAIN W : (\E k \in DOMAIN L : Came(W[m], L[k])) \/ Writes(W[m], A)

\* What is added to more than was added before.
LEMMA AddsTwice ==
  ASSUME NEW W, NEW K, NEW L, NEW A, NEW B, Adds(K, L, A), Adds(W, K, B)
  PROVE  Adds(W, L, A \cup B)
<1> SUFFICES ASSUME NEW m \in DOMAIN W
             PROVE  (\E k \in DOMAIN L : Came(W[m], L[k])) \/ Writes(W[m], A \cup B)
  BY DEF Adds
<1>1. CASE Writes(W[m], B)
  BY <1>1 DEF Writes
<1>2. CASE \E j \in DOMAIN K : Came(W[m], K[j])
  <2>1. PICK j \in DOMAIN K : Came(W[m], K[j])
    BY <1>2
  <2>2. CASE Writes(K[j], A)
    BY <2>1, <2>2 DEF Writes, Came
  <2>3. CASE \E k \in DOMAIN L : Came(K[j], L[k])
    <3>1. PICK k \in DOMAIN L : Came(K[j], L[k])
      BY <2>3
    <3>2. Came(W[m], L[k])
      BY <2>1, <3>1 DEF Came
    <3> QED BY <3>2
  <2> QED BY <2>2, <2>3 DEF Adds
<1> QED BY <1>1, <1>2 DEF Adds

\* What a layer knows after a write, and that its items can still be traced.
LEMMA AddsIs ==
  ASSUME Base, NEW W, NEW L, NEW A, Adds(W, L, A)
  PROVE  /\ Origins(W) \subseteq Origins(L) \cup {<<writes + 1, a, View[a]>> : a \in A}
         /\ (\A k \in DOMAIN L : OfWrite(L[k], writes)) => \A m \in DOMAIN W : OfWrite(W[m], writes + 1)
<1>1. ASSUME NEW m \in DOMAIN W, NEW a \in Cells(W[m].itv)
      PROVE  <<W[m].data[a][1], a, W[m].odata[a]>>
               \in Origins(L) \cup {<<writes + 1, b, View[b]>> : b \in A}
  <2>1. CASE Writes(W[m], A)
    BY <2>1 DEF Writes
  <2>2. CASE \E k \in DOMAIN L : Came(W[m], L[k])
    <3>1. PICK k \in DOMAIN L : Came(W[m], L[k])
      BY <2>2
    <3>2. a \in Cells(L[k].itv) /\ W[m].data[a] = L[k].data[a] /\ W[m].odata[a] = L[k].odata[a]
      BY <3>1 DEF Came
    <3> QED BY <3>2 DEF Origins
  <2> QED BY <2>1, <2>2 DEF Adds
<1>2. ASSUME \A k \in DOMAIN L : OfWrite(L[k], writes), NEW m \in DOMAIN W
      PROVE  OfWrite(W[m], writes + 1)
  <2>1. writes \in Nat /\ writes + 1 \in 1 .. writes + 1 /\ 1 .. writes \subseteq 1 .. writes + 1
    BY SizesAssumption DEF Base
  <2>2. CASE Writes(W[m], A)
    BY <2>1, <2>2 DEF Writes, OfWrite
  <2>3. CASE \E k \in DOMAIN L : Came(W[m], L[k])
    BY <1>2, <2>1, <2>3 DEF OfWrite, Came
  <2> QED BY <2>2, <2>3 DEF Adds
<1> QED BY <1>1, <1>2 DEF Origins

\* A part of a write puts its bytes over those of the layer.
LEMMA WritePart ==
  ASSUME Base, writes < MaxWrites, NEW addr \in Addr, NEW L, Layer(L), NEW v, Proper(v),
         \A k \in DOMAIN L : ~ AtTop(L[k], v),
         \A k \in DOMAIN L : Nested(L[k], v) => L[k].tree.addr = L[k].itv.addr
  PROVE  /\ Layer(WriteIn(L, v, Buf(addr, v)))
         /\ Overlay(WriteIn(L, v, Buf(addr, v))) = Abstract!On(Buf(addr, v), Overlay(L))
         /\ Adds(WriteIn(L, v, Buf(addr, v)), L, Cells(v))
<1>1. Buf(addr, v) \in [Cells(v) -> RealByte]
  BY ProperSpan, BufIs
<1>2. ReadAt(v) \in [Cells(v) -> RealByte] /\ \A a \in Cells(v) : ReadAt(v)[a] = View[a]
  BY ReadReal
<1> DEFINE W == WriteIn(L, v, Buf(addr, v))
<1>3. /\ Layer(W) /\ Overlay(W) = Abstract!On(Buf(addr, v), Overlay(L))
      /\ Grows(W, L, v, Buf(addr, v))
  BY <1>1, <1>2, WriteIs
<1>4. \A a \in Cells(v) : Buf(addr, v)[a][1] = writes + 1
  BY DEF Buf
<1> HIDE DEF W
<1>5. Adds(W, L, Cells(v))
  BY <1>2, <1>3, <1>4 DEF Adds, Grows, Writes
<1> QED BY <1>3, <1>5 DEF W

\* No node begins below 0, and a write up to the end leaves no tail.
LEMMA NoTail ==
  ASSUME NEW L, Layer(L), NEW v, v.addr = 0 \/ End(v) = 0, NEW k \in DOMAIN L
  PROVE  ~ AtTop(L[k], v) /\ ~ Nested(L[k], v)
<1>1. Good(L[k])
  BY GoodOf DEF Layer
<1>2. L[k].live => L[k].tree.addr \in Nat
  BY <1>1, GoodParts, ProperSpan
<1> QED BY <1>2 DEF AtTop, Nested, InTree

\* A careful write puts its bytes over those of the layer.
LEMMA WritePartsIs ==
  ASSUME Base, writes < MaxWrites, NEW addr \in Addr, NEW len \in Sizes, layers # <<>>,
         ClearOfTop(addr, len), HeadsKept(addr, len)
  PROVE  LET L == layers[Len(layers)]
             W == WriteParts(L, addr, len)
         IN  /\ Layer(L) /\ Layer(W)
             /\ Overlay(W) = Abstract!On(Abstract!Written(addr, len), Overlay(L))
             /\ Adds(W, L, DOMAIN Abstract!Written(addr, len))
<1> DEFINE L == layers[Len(layers)]
           w == Abstract!Written(addr, len)
<1>1. layers \in Seq(Seq(GoodItems)) /\ Stack(layers) /\ Len(layers) \in DOMAIN layers
  BY DEF Base, Stack
<1>2. Layer(L)
  BY <1>1, LayerOf
<1>3. Last(layers) = L
  BY DEF Last
<1>4. /\ DOMAIN w = Covered(addr, len) /\ Covered(addr, len) \subseteq Addr
      /\ \A a \in DOMAIN w : w[a] = <<writes + 1, (a - addr) % M>>
  BY CoveredIs DEF Abstract!Written, M
<1> HIDE DEF w, L
<1>5. CASE ~ PastEnd(addr, len)
  <2> DEFINE v == [addr |-> addr, size |-> len]
  <2>1. Parts(addr, len) = {v} /\ WriteParts(L, addr, len) = WriteIn(L, v, Buf(addr, v))
    BY <1>5 DEF Parts, WriteParts
  <2>2. Proper(v) /\ DOMAIN w = Cells(v)
    BY <1>4, <1>5, PartsProper DEF Covered
  <2>3. Buf(addr, v) = [a \in Cells(v) |-> <<writes + 1, (a - addr) % M>>]
    BY DEF Buf
  <2> HIDE DEF v
  <2>4. v \in Parts(addr, len)
    BY <2>1
  <2>5. ASSUME NEW k \in DOMAIN L
        PROVE  ~ AtTop(L[k], v) /\ (Nested(L[k], v) => L[k].tree.addr = L[k].itv.addr)
    <3>1. InTree(L[k], v) /\ v.addr > L[k].tree.addr => L[k] \in ReachInto(v)
      BY <1>3 DEF ReachInto, ToSet
    <3>2. \A i \in ReachInto(v) : End(i.tree) = 0 => End(v) = 0
      BY <2>4 DEF ClearOfTop
    <3>3. \A i \in ReachInto(v) : Nested(i, v) => i.tree.addr = i.itv.addr
      BY <2>4 DEF HeadsKept
    <3> QED BY <3>1, <3>2, <3>3 DEF AtTop, Nested
  <2>6. /\ Layer(WriteIn(L, v, Buf(addr, v)))
        /\ Overlay(WriteIn(L, v, Buf(addr, v))) = Abstract!On(Buf(addr, v), Overlay(L))
        /\ Adds(WriteIn(L, v, Buf(addr, v)), L, DOMAIN w)
    BY <1>2, <2>2, <2>5, WritePart
  <2>7. Abstract!On(Buf(addr, v), Overlay(L)) = Abstract!On(w, Overlay(L))
    BY <1>4, <2>2, <2>3 DEF Abstract!On
  <2> QED BY <1>2, <2>1, <2>6, <2>7 DEF L, w
<1>6. CASE PastEnd(addr, len)
  <2> DEFINE r == Rest(addr, len)
             u == UpToEnd(addr)
             K == WriteIn(L, r, Buf(addr, r))
  <2>1. WriteParts(L, addr, len) = WriteIn(K, u, Buf(addr, u))
    BY <1>6 DEF WriteParts
  <2>2. Proper(r) /\ r.addr = 0 /\ Proper(u) /\ End(u) = 0 /\ DOMAIN w = Cells(r) \cup Cells(u)
    BY <1>4, <1>6, PartsProper DEF Covered
  <2>3. Buf(addr, r) = [a \in Cells(r) |-> <<writes + 1, (a - addr) % M>>]
        /\ Buf(addr, u) = [a \in Cells(u) |-> <<writes + 1, (a - addr) % M>>]
    BY DEF Buf
  <2> HIDE DEF r, u
  <2>4. /\ Layer(K) /\ Overlay(K) = Abstract!On(Buf(addr, r), Overlay(L))
        /\ Adds(K, L, Cells(r))
    <3>1. \A k \in DOMAIN L : ~ AtTop(L[k], r) /\ ~ Nested(L[k], r)
      BY <1>2, <2>2, NoTail
    <3> QED BY <1>2, <2>2, <3>1, WritePart
  <2> HIDE DEF K
  <2>5. /\ Layer(WriteIn(K, u, Buf(addr, u)))
        /\ Overlay(WriteIn(K, u, Buf(addr, u))) = Abstract!On(Buf(addr, u), Overlay(K))
        /\ Adds(WriteIn(K, u, Buf(addr, u)), K, Cells(u))
    <3>1. \A k \in DOMAIN K : ~ AtTop(K[k], u) /\ ~ Nested(K[k], u)
      BY <2>2, <2>4, NoTail
    <3> QED BY <2>2, <2>4, <3>1, WritePart
  <2>6. Abstract!On(Buf(addr, u), Abstract!On(Buf(addr, r), Overlay(L)))
          = Abstract!On(w, Overlay(L))
    BY <1>4, <2>2, <2>3 DEF Abstract!On
  <2>7. Adds(WriteIn(K, u, Buf(addr, u)), L, DOMAIN w)
    BY <2>2, <2>4, <2>5, AddsTwice
  <2> QED BY <1>2, <2>1, <2>4, <2>5, <2>6, <2>7 DEF L, w
<1> QED BY <1>5, <1>6

\* A careful cached write is a write of the top layer.
LEMMA PutStep ==
  ASSUME Base, NEW addr \in Addr, NEW len \in Sizes, layers # <<>>,
         ClearOfTop(addr, len), HeadsKept(addr, len), CachedWrite(addr, len)
  PROVE  /\ Base' /\ Abstract!Put(addr, len) /\ writes < MaxWrites
         /\ Traced(layers, writes) => Traced(layers', writes')
<1> DEFINE n == Len(layers)
           L == layers[n]
           W == WriteParts(L, addr, len)
<1>1. /\ writes < MaxWrites /\ layers' = [layers EXCEPT ![n] = W] /\ writes' = writes + 1
      /\ file' = file /\ ops' = ops
  BY DEF CachedWrite
<1>2. /\ Layer(W) /\ Overlay(W) = Abstract!On(Abstract!Written(addr, len), Overlay(L))
      /\ Adds(W, L, DOMAIN Abstract!Written(addr, len))
  BY <1>1, WritePartsIs
<1>3. Stack(layers) /\ layers \in Seq(Seq(GoodItems)) /\ n \in DOMAIN layers
  BY DEF Base, Stack
<1> HIDE DEF W
<1>4. Stack(layers') /\ Over(layers') = [Over(layers) EXCEPT ![n] = Overlay(W)]
  <2> DEFINE ks == layers'
  <2>1. ks = [layers EXCEPT ![n] = W]
    BY <1>1
  <2> HIDE DEF ks, n
  <2>2. Stack(ks) /\ Over(ks) = [Over(layers) EXCEPT ![n] = Overlay(W)]
    BY <1>2, <1>3, <2>1, Relayered
  <2> QED BY <2>2 DEF ks
<1>5. Base'
  <2>1. writes' \in 0 .. MaxWrites
    BY <1>1, SizesAssumption DEF Base
  <2>2. file' \in [Addr -> RealByte] /\ ops' \in 0 .. MaxOps
    BY <1>1 DEF Base
  <2> QED BY <1>4, <2>1, <2>2 DEF Base
<1>6. Over(layers) # <<>> /\ Len(Over(layers)) = n /\ Over(layers)[n] = Overlay(L)
  <2>1. Len(Over(layers)) = Len(layers) /\ Over(layers)[n] = Overlay(layers[n])
        /\ DOMAIN Over(layers) = 1 .. Len(layers) /\ n \in 1 .. Len(layers)
    BY <1>3, OverIs
  <2> QED BY <2>1
<1>7. Over(layers') = [Over(layers) EXCEPT ![Len(Over(layers))]
                         = Abstract!On(Abstract!Written(addr, len), Over(layers)[n])]
  BY <1>2, <1>4, <1>6
<1>8. /\ Origins(W) \subseteq Origins(L) \cup
                         {<<writes + 1, a, View[a]>> : a \in DOMAIN Abstract!Written(addr, len)}
      /\ (\A k \in DOMAIN L : OfWrite(L[k], writes)) => \A m \in DOMAIN W : OfWrite(W[m], writes + 1)
  BY <1>2, AddsIs
<1>9. DOMAIN layers' = DOMAIN layers /\ layers'[n] = W
      /\ \A m \in DOMAIN layers : m # n => layers'[m] = layers[m]
  BY <1>1, <1>3
<1>10. ASSUME NEW new, new = {<<writes + 1, a, View[a]>> : a \in DOMAIN Abstract!Written(addr, len)}
       PROVE  Abstract!KnowAtMost([[m \in DOMAIN layers |-> Origins(layers[m])]
                                     EXCEPT ![Len(Over(layers))] = @ \cup new])
  BY <1>3, <1>6, <1>8, <1>9, <1>10 DEF Abstract!KnowAtMost
<1>11. Abstract!Put(addr, len)
  <2>1. Abstract!View = View
    BY ViewIs
  <2> DEFINE f == [m \in DOMAIN layers |-> Origins(layers[m])]
             new == {<<writes + 1, a, Abstract!View[a]>> : a \in DOMAIN Abstract!Written(addr, len)}
  <2>2. Abstract!KnowAtMost([f EXCEPT ![Len(Over(layers))] = @ \cup new])
    BY <1>10, <2>1
  <2>3. /\ Over(layers) # <<>> /\ writes' = writes + 1 /\ file' = file
        /\ Over(layers') = [Over(layers) EXCEPT ![Len(Over(layers))]
                               = Abstract!On(Abstract!Written(addr, len), @)]
    BY <1>1, <1>6, <1>7
  <2> QED BY <2>2, <2>3, Zenon DEF Abstract!Put, Over
<1>12. ASSUME Traced(layers, writes) PROVE Traced(layers', writes')
  <2>1. Traced(layers, writes + 1)
    BY <1>12, TracedMore, SizesAssumption DEF Base
  <2>2. \A k \in DOMAIN W : OfWrite(W[k], writes + 1)
    BY <1>3, <1>8, <1>12 DEF Traced
  <2> QED BY <1>1, <1>9, <2>1, <2>2 DEF Traced
<1> QED BY <1>1, <1>5, <1>11, <1>12

\* A write with the cache off is a write of the file.
LEMMA StoreStep ==
  ASSUME Base, NEW addr \in Addr, NEW len \in Sizes, DirectWrite(addr, len)
  PROVE  /\ Base' /\ Abstract!Store(addr, len) /\ writes < MaxWrites /\ Writable
         /\ Traced(layers, writes) => Traced(layers', writes')
<1> DEFINE w == Abstract!Written(addr, len)
           f == Abstract!On(w, file)
<1>1. /\ writes < MaxWrites /\ writes' = writes + 1 /\ layers' = layers /\ Writable
      /\ ops' = ops + 1 /\ ops < MaxOps
      /\ file' = [a \in Addr |-> IF \E v \in Parts(addr, len) : a \in Cells(v)
                                   THEN <<writes + 1, (a - addr) % M>> ELSE file[a]]
  BY DEF DirectWrite, Counted
<1>2. /\ DOMAIN w = Covered(addr, len) /\ Covered(addr, len) \subseteq Addr
      /\ \A a \in DOMAIN w : w[a] = <<writes + 1, (a - addr) % M>>
      /\ \A a : a \in Covered(addr, len) <=> \E v \in Parts(addr, len) : a \in Cells(v)
  BY CoveredIs DEF Abstract!Written, M
<1>3. file \in [Addr -> RealByte]
  BY DEF Base
<1> HIDE DEF w
<1>4. f = file'
  <2>1. f = [a \in DOMAIN w \cup Addr |-> IF a \in DOMAIN w THEN w[a] ELSE file[a]]
    BY <1>3 DEF Abstract!On
  <2>2. DOMAIN w \cup Addr = Addr
    BY <1>2
  <2>3. \A a \in Addr : (IF a \in DOMAIN w THEN w[a] ELSE file[a])
                          = IF \E v \in Parts(addr, len) : a \in Cells(v)
                              THEN <<writes + 1, (a - addr) % M>> ELSE file[a]
    BY <1>2
  <2> QED BY <1>1, <2>1, <2>2, <2>3
<1>5. file' \in [Addr -> RealByte]
  <2>1. \A a \in Addr : <<writes + 1, (a - addr) % M>> \in RealByte
    <3> DEFINE v == [addr |-> addr, size |-> 1]
    <3>1. Cells(v) \subseteq Addr
      BY OneAddress
    <3> HIDE DEF v
    <3> QED BY <1>1, <3>1, BufIs
  <2> QED BY <1>1, <1>3, <2>1
<1>6. Base'
  <2>1. writes + 1 \in 0 .. MaxWrites /\ ops + 1 \in 0 .. MaxOps
    BY <1>1, SizesAssumption DEF Base
  <2>2. Stack(layers')
    BY <1>1 DEF Base
  <2> QED BY <1>1, <1>5, <2>1, <2>2 DEF Base
<1>7. Abstract!Store(addr, len)
  BY <1>1, <1>4 DEF Abstract!Store, w
<1>8. ASSUME Traced(layers, writes) PROVE Traced(layers', writes')
  BY <1>1, <1>8, TracedMore, SizesAssumption DEF Base
<1> QED BY <1>1, <1>6, <1>7, <1>8

-----------------------------------------------------------------------------
(* Invalidations and commits.                                               *)

\* The ranges that the commands are given.
LEMMA RangeIs ==
  ASSUME NEW r \in Ranges
  PROVE  /\ r[1] \in Addr /\ r[2] \in Addr /\ r[1] <= r[2]
         /\ Span(Closed(r[1], r[2]), r[1], r[2])
<1>1. r[1] \in Addr /\ r[2] \in Addr /\ r[1] <= r[2]
  BY SizesAssumption
<1> QED BY <1>1, ClosedSpan

\* An invalidation that cuts items cleanly takes the interval from all layers.
LEMMA InvalidateCut ==
  ASSUME Base, NEW r, NEW lo, NEW hi, Span(r, lo, hi), lo <= hi, CutsClean(r)
  PROVE  /\ Stack(InvalidateAll(layers, r)) /\ Descends(InvalidateAll(layers, r), layers)
         /\ Over(InvalidateAll(layers, r)) = Abstract!Drop(Over(layers), lo .. hi)
         /\ DOMAIN InvalidateAll(layers, r) = DOMAIN layers
         /\ \A n \in DOMAIN layers : \A k \in DOMAIN InvalidateAll(layers, r)[n] :
              ~ InTree(InvalidateAll(layers, r)[n][k], r)
<1>1. \A n \in DOMAIN layers : \A k \in DOMAIN layers[n] : Clean(layers[n][k], r)
  BY DEF CutsClean, Clean
<1>2. Stack(layers)
  BY DEF Base
<1> QED BY <1>1, <1>2, InvalidateStack

\* A careful invalidation takes the interval from all layers.
LEMMA ForgetStep ==
  ASSUME Base, NEW r \in Ranges, CutsClean(Closed(r[1], r[2])), Invalidate(r[1], r[2])
  PROVE  /\ Base' /\ Abstract!Forget(r[1] .. r[2])
         /\ Traced(layers, writes) => Traced(layers', writes')
<1> DEFINE c == Closed(r[1], r[2])
           lo == r[1]
           hi == r[2]
<1>1. Span(c, lo, hi) /\ lo <= hi /\ CutsClean(c)
  BY RangeIs
<1>2. layers' = InvalidateAll(layers, c) /\ file' = file /\ writes' = writes /\ ops' = ops + 1
      /\ ops < MaxOps
  BY DEF Invalidate, Counted
<1>3. /\ Stack(layers') /\ Over(layers') = Abstract!Drop(Over(layers), lo .. hi)
      /\ Descends(layers', layers)
  <2> HIDE DEF c, lo, hi
  <2>1. /\ Stack(InvalidateAll(layers, c))
        /\ Over(InvalidateAll(layers, c)) = Abstract!Drop(Over(layers), lo .. hi)
        /\ Descends(InvalidateAll(layers, c), layers)
    BY <1>1, InvalidateCut
  <2> QED BY <1>2, <2>1
<1> HIDE DEF c
<1>4. Base'
  <2>1. ops' \in 0 .. MaxOps
    BY <1>2, SizesAssumption DEF Base
  <2>2. file' \in [Addr -> RealByte] /\ writes' \in 0 .. MaxWrites
    BY <1>2 DEF Base
  <2> QED BY <1>3, <2>1, <2>2 DEF Base
<1>5. /\ Abstract!KnowAtMost([n \in DOMAIN layers |-> Origins(layers[n])])
      /\ Traced(layers, writes) => Traced(layers', writes')
  BY <1>2, <1>3, KnowsLess
<1>6. Abstract!Forget(r[1] .. r[2])
  BY <1>2, <1>3, <1>5 DEF Abstract!Forget, Over
<1> QED BY <1>4, <1>5, <1>6

\* An emptied tree shows nothing.
LEMMA DetachIs ==
  ASSUME NEW L, Layer(L)
  PROVE  Layer(Detach(L)) /\ Overlay(Detach(L)) = Abstract!Empty /\ Stems(Detach(L), L)
<1> DEFINE N == Detach(L)
           e == Abstract!Empty
<1>1. L \in Seq(GoodItems) /\ DOMAIN L = 1 .. Len(L) /\ Len(L) \in Nat
  BY DEF Layer
<1>2. N = [k \in 1 .. Len(L) |-> [L[k] EXCEPT !.live = FALSE]]
  BY <1>1 DEF Detach
<1>3. ASSUME NEW k \in 1 .. Len(L)
      PROVE  N[k] \in GoodItems /\ Shows(N[k]) = {} /\ Came(N[k], L[k])
  <2> DEFINE i == L[k]
             c == [i EXCEPT !.live = FALSE]
  <2>1. N[k] = c /\ Good(i)
    BY <1>1, <1>2, GoodOf
  <2> HIDE DEF i
  <2>2. Good(c) /\ Shows(c) = {} /\ c.itv = i.itv /\ c.data = i.data /\ c.odata = i.odata
    BY <2>1, Untree
  <2> HIDE DEF c
  <2>3. Came(c, i)
    BY <2>2 DEF Came
  <2>4. c \in GoodItems
    BY <2>2, GoodIn
  <2> HIDE DEF N
  <2> QED BY <2>1, <2>2, <2>3, <2>4 DEF i
<1>4. DOMAIN N = 1 .. Len(L) /\ N \in Seq(GoodItems)
  <2>1. N = [k \in 1 .. Len(L) |-> N[k]]
    BY <1>2
  <2> HIDE DEF N
  <2> QED BY <1>1, <1>3, <2>1
<1> HIDE DEF N
<1>5. Layer(N)
  BY <1>3, <1>4 DEF Layer, Apart
<1>6. IsFunction(e) /\ DOMAIN e = {}
  BY DEF Abstract!Empty, IsFunction
<1> HIDE DEF e
<1>7. Overlay(N) = e
  BY <1>3, <1>4, <1>5, <1>6, OverlayIsThis
<1>8. Stems(N, L)
  BY <1>1, <1>3, <1>4 DEF Stems
<1> QED BY <1>5, <1>7, <1>8 DEF N, e

\* A full commit writes what the layers it reaches show, and empties them; it changes
\* nothing of what is seen and no item but for its node.
LEMMA SettleLayersStep ==
  ASSUME Base, NEW many \in BOOLEAN, Writable, CommitAll(many)
  PROVE  /\ Base'
         /\ Abstract!SettleLayers(Reach(many)) /\ Reach(many) \in 0 .. Len(layers)
         /\ Reach(many) = 0 => UNCHANGED <<file, layers, writes>>
         /\ Traced(layers, writes) => Traced(layers', writes')
<1> DEFINE n == Reach(many)
           ls == SubSeq(layers, 1, n)
           w == Whole
<1>1. /\ file' = Flush(ls, w, file) /\ writes' = writes /\ ops' = ops + 1 /\ ops < MaxOps
      /\ layers' = [m \in DOMAIN layers |-> IF m <= n THEN Detach(layers[m]) ELSE layers[m]]
  BY DEF CommitAll, Counted
<1>2. Stack(layers) /\ layers \in Seq(Seq(GoodItems)) /\ Len(layers) \in Nat
      /\ DOMAIN layers = 1 .. Len(layers) /\ file \in [Addr -> RealByte]
  BY DEF Base, Stack
<1>3. n \in 0 .. Len(layers) /\ (n = 0 => layers = <<>>)
  <2>1. CASE many \/ layers = <<>>
    BY <1>2, <2>1 DEF Reach
  <2>2. CASE ~ (many \/ layers = <<>>)
    BY <1>2, <2>2 DEF Reach
  <2> QED BY <2>1, <2>2
<1> HIDE DEF n
<1>4. Stack(ls) /\ Abstract!Shown(n) = Seen(ls, file)
  BY <1>2, <1>3, ShownIs
<1> HIDE DEF ls
<1>5. file' = Seen(ls, file)
  <2> DEFINE z == 0
             hi == MaxAddr
             f == file
  <2>1. Span(w, z, hi) /\ z <= hi /\ Addr = z .. hi
    <3>1. 0 \in Addr /\ MaxAddr \in Addr /\ 0 <= MaxAddr
      BY SizesAssumption DEF Addr
    <3> QED BY <3>1, ClosedSpan DEF Whole, Addr
  <2> HIDE DEF z, hi, w, f
  <2>2. Flush(ls, w, f) = [a \in Addr |-> IF a \in z .. hi THEN Seen(ls, f)[a] ELSE f[a]]
    BY <1>4, <2>1, FlushIs
  <2>3. Seen(ls, f) = [a \in Addr |-> Seen(ls, f)[a]]
    BY DEF Seen
  <2>4. Flush(ls, w, f) = Seen(ls, f)
    BY <2>1, <2>2, <2>3
  <2> QED BY <1>1, <2>4 DEF f
<1>6. file' \in [Addr -> RealByte]
  BY <1>2, <1>4, <1>5, SeenBytes
<1>7. ASSUME NEW m \in 1 .. Len(layers)
      PROVE  /\ Layer(layers'[m]) /\ Stems(layers'[m], layers[m])
             /\ Overlay(layers'[m]) = IF m <= n THEN Abstract!Empty ELSE Overlay(layers[m])
  <2>1. Layer(layers[m])
    BY <1>2, LayerOf
  <2>2. layers'[m] = IF m <= n THEN Detach(layers[m]) ELSE layers[m]
    BY <1>1, <1>2
  <2>3. CASE m <= n
    BY <2>1, <2>2, <2>3, DetachIs
  <2>4. CASE ~ (m <= n)
    <3>1. Stems(layers[m], layers[m])
      BY DEF Stems, Came
    <3> QED BY <2>1, <2>2, <2>4, <3>1
  <2> QED BY <2>3, <2>4
<1>8. Stack(layers') /\ DOMAIN layers' = 1 .. Len(layers)
  <2> DEFINE ks == layers'
  <2>1. DOMAIN ks = 1 .. Len(layers) /\ ks = [m \in 1 .. Len(layers) |-> ks[m]]
    BY <1>1, <1>2
  <2>2. \A m \in 1 .. Len(layers) : ks[m] \in Seq(GoodItems) /\ Apart(ks[m])
    BY <1>7 DEF Layer
  <2> HIDE DEF ks
  <2>3. ks \in Seq(Seq(GoodItems))
    BY <1>2, <2>1, <2>2
  <2>4. Stack(ks)
    BY <2>1, <2>2, <2>3 DEF Stack
  <2> QED BY <2>1, <2>4 DEF ks
<1>9. Base'
  <2>1. ops' \in 0 .. MaxOps /\ writes' \in 0 .. MaxWrites
    BY <1>1, SizesAssumption DEF Base
  <2> QED BY <1>6, <1>8, <2>1 DEF Base
<1>10. ASSUME n = 0 PROVE UNCHANGED <<file, layers, writes>>
  <2>1. layers = <<>> /\ layers' = layers
    BY <1>1, <1>3, <1>10
  <2>2. \A a : Having(ls, a) = {}
    <3>1. DOMAIN ls = {}
      BY <1>2, <1>10 DEF ls
    <3> QED BY <3>1 DEF Having
  <2>3. Seen(ls, file) = file
    BY <1>2, <2>2 DEF Seen
  <2> QED BY <1>1, <1>5, <2>1, <2>3
<1>11. /\ Abstract!KnowAtMost([m \in DOMAIN layers |-> Origins(layers[m])])
       /\ Traced(layers, writes) => Traced(layers', writes')
  <2>1. Descends(layers', layers)
    BY <1>2, <1>7, <1>8 DEF Descends
  <2> QED BY <1>1, <2>1, KnowsLess
<1>12. Abstract!SettleLayers(n)
  <2>1. /\ Len(Over(layers)) = Len(layers) /\ DOMAIN Over(layers) = 1 .. Len(layers)
        /\ \A m \in 1 .. Len(layers) : Over(layers)[m] = Overlay(layers[m])
    BY <1>2, OverIs
  <2>2. n <= Len(Over(layers))
    BY <1>2, <1>3, <2>1
  <2>3. Over(layers') = [k \in DOMAIN Over(layers) |->
                           IF k <= n THEN Abstract!Empty ELSE Over(layers)[k]]
    <3>1. Over(layers') = [m \in 1 .. Len(layers) |-> Overlay(layers'[m])]
      BY <1>8 DEF Over
    <3> QED BY <1>7, <2>1, <3>1
  <2> QED BY <1>1, <1>4, <1>5, <1>11, <2>2, <2>3 DEF Abstract!SettleLayers, Over
<1> QED BY <1>3, <1>9, <1>10, <1>11, <1>12 DEF n

\* The recursion of CommitRange: s holds what is left after each layer.
Settling(s, base, N, r) ==
  s = [n \in 0 .. N |-> IF n = 0 THEN base ELSE SettleLayer(s[n - 1], n, r)]

\* The recursion has one solution.
LEMMA SettlingIs ==
  ASSUME NEW N \in Nat, NEW base, NEW r, NEW s, Settling(s, base, N, r),
         NEW g, Settling(g, base, N, r)
  PROVE  s[N] = g[N]
<1> DEFINE T == {n \in 0 .. N : s[n] # g[n]}
<1> SUFFICES ASSUME T # {} PROVE FALSE
  OBVIOUS
<1>1. T \in SUBSET Nat
  OBVIOUS
<1>2. PICK n \in T : \A m \in T : n <= m
  <2> HIDE DEF T
  <2> QED BY <1>1, LeastExists
<1>3. n \in 0 .. N /\ s[n] # g[n]
  OBVIOUS
<1>4. /\ \A m \in 0 .. N : s[m] = IF m = 0 THEN base ELSE SettleLayer(s[m - 1], m, r)
      /\ \A m \in 0 .. N : g[m] = IF m = 0 THEN base ELSE SettleLayer(g[m - 1], m, r)
  BY DEF Settling
<1>5. n # 0
  BY <1>3, <1>4
<1>6. n - 1 \in 0 .. N /\ ~ (n <= n - 1)
  BY <1>3, <1>5
<1>7. s[n - 1] = g[n - 1]
  BY <1>2, <1>6
<1> HIDE DEF T
<1> QED BY <1>3, <1>4, <1>5, <1>7

\* No layer that a commit reaches has bytes in the interval: nothing happens.
LEMMA SettlesNone ==
  ASSUME NEW N \in Nat, NEW r, NEW f, NEW ls,
         \A n \in 1 .. N : \A k \in DOMAIN ls[n] : ~ InTree(ls[n][k], r),
         NEW g, g = [n \in 0 .. N |-> [f |-> f, ls |-> ls]]
  PROVE  Settling(g, [f |-> f, ls |-> ls], N, r)
<1> DEFINE base == [f |-> f, ls |-> ls]
<1>1. base.ls = ls
  OBVIOUS
<1> HIDE DEF base
<1>2. \A n \in 1 .. N : SettleLayer(base, n, r) = base
  BY <1>1 DEF SettleLayer
<1>3. g = [n \in 0 .. N |-> base]
  BY DEF base
<1>4. \A n \in 0 .. N : n # 0 => n \in 1 .. N /\ n - 1 \in 0 .. N
  OBVIOUS
<1>5. \A n \in 0 .. N : g[n] = IF n = 0 THEN base ELSE SettleLayer(g[n - 1], n, r)
  BY <1>2, <1>3, <1>4
<1>6. Settling(g, base, N, r)
  BY <1>3, <1>5 DEF Settling
<1> QED BY <1>6 DEF base

\* One layer m has bytes in the interval: they go down, and out of all layers.
LEMMA SettlesOne ==
  ASSUME NEW N \in Nat, NEW r, NEW f, NEW ls, NEW m \in 1 .. N,
         \A n \in 1 .. N : n # m => \A k \in DOMAIN ls[n] : ~ InTree(ls[n][k], r),
         \E k \in DOMAIN ls[m] : InTree(ls[m][k], r),
         NEW ks, ks = InvalidateAll(ls, r),
         \A n \in 1 .. N : \A k \in DOMAIN ks[n] : ~ InTree(ks[n][k], r),
         NEW fin, fin = [f |-> Flush(<<ls[m]>>, r, f), ls |-> ks],
         NEW g, g = [n \in 0 .. N |-> IF n < m THEN [f |-> f, ls |-> ls] ELSE fin]
  PROVE  Settling(g, [f |-> f, ls |-> ls], N, r)
<1> DEFINE base == [f |-> f, ls |-> ls]
<1>1. base.ls = ls /\ base.f = f
  OBVIOUS
<1>2. fin.ls = ks
  OBVIOUS
<1> HIDE DEF base
<1>3. ASSUME NEW n \in 1 .. N, n < m PROVE SettleLayer(base, n, r) = base
  BY <1>1, <1>3 DEF SettleLayer
<1>4. SettleLayer(base, m, r) = fin
  BY <1>1 DEF SettleLayer
<1>5. ASSUME NEW n \in 1 .. N PROVE SettleLayer(fin, n, r) = fin
  BY <1>2 DEF SettleLayer
<1>6. g = [n \in 0 .. N |-> IF n < m THEN base ELSE fin]
  BY DEF base
<1>7. \A n \in 0 .. N : g[n] = IF n = 0 THEN base ELSE SettleLayer(g[n - 1], n, r)
  <2> SUFFICES ASSUME NEW n \in 0 .. N
               PROVE  g[n] = IF n = 0 THEN base ELSE SettleLayer(g[n - 1], n, r)
    OBVIOUS
  <2>1. CASE n = 0
    BY <1>6, <2>1
  <2>2. CASE n # 0
    <3>1. n \in 1 .. N /\ n - 1 \in 0 .. N /\ g[n - 1] = IF n - 1 < m THEN base ELSE fin
      BY <1>6, <2>2
    <3>2. CASE n < m
      BY <1>3, <1>6, <2>2, <3>1, <3>2
    <3>3. CASE n = m
      BY <1>4, <1>6, <2>2, <3>1, <3>3
    <3>4. CASE n > m
      BY <1>5, <1>6, <2>2, <3>1, <3>4
    <3> QED BY <3>1, <3>2, <3>3, <3>4
  <2> QED BY <2>1, <2>2
<1>8. Settling(g, base, N, r)
  BY <1>6, <1>7 DEF Settling
<1> QED BY <1>8 DEF base

\* A commit of an interval ends with the solution of its recursion.
LEMMA CommitRangeIs ==
  ASSUME NEW from, NEW to, NEW many, CommitRange(from, to, many), Reach(many) \in Nat,
         NEW g, Settling(g, [f |-> file, ls |-> layers], Reach(many), Closed(from, to))
  PROVE  file' = g[Reach(many)].f /\ layers' = g[Reach(many)].ls
<1> DEFINE N == Reach(many)
           base == [f |-> file, ls |-> layers]
           r == Closed(from, to)
           s == CHOOSE s : s = [n \in 0 .. N |->
                                  IF n = 0 THEN base ELSE SettleLayer(s[n - 1], n, r)]
<1>1. file' = s[N].f /\ layers' = s[N].ls
  BY DEF CommitRange
<1>2. Settling(s, base, N, r)
  <2>1. Settling(g, base, N, r)
    OBVIOUS
  <2> HIDE DEF base, N, r
  <2> QED BY <2>1 DEF Settling
<1> HIDE DEF s, base, N, r
<1>3. s[N] = g[N]
  <2>1. Settling(g, base, N, r) /\ N \in Nat
    BY DEF base, N, r
  <2> QED BY <1>2, <2>1, SettlingIs
<1> QED BY <1>1, <1>3 DEF N

\* A layer alone.
LEMMA OneLayerSeen ==
  ASSUME NEW ls, Stack(ls), NEW m \in DOMAIN ls, NEW f, NEW one, one = <<ls[m]>>
  PROVE  /\ Stack(one)
         /\ \A a \in Addr : Having(ls, a) \subseteq {m} => Seen(one, f)[a] = Seen(ls, f)[a]
<1>1. Layer(ls[m]) /\ DOMAIN one = {1} /\ one[1] = ls[m] /\ 1 \in Nat
  BY LayerOf
<1>2. Stack(one)
  <2>1. ls[m] \in Seq(GoodItems)
    BY <1>1 DEF Layer
  <2>2. one \in Seq(Seq(GoodItems))
    BY <2>1
  <2> QED BY <1>1, <2>2 DEF Stack, Layer
<1>3. ASSUME NEW n PROVE Highest({n}) = n
  BY DEF Highest
<1>4. ASSUME NEW a \in Addr, Having(ls, a) \subseteq {m} PROVE Seen(one, f)[a] = Seen(ls, f)[a]
  <2>1. Having(one, a) = {} \/ Having(one, a) = {1}
    BY <1>1 DEF Having
  <2>2. 1 \in Having(one, a) <=> a \in DOMAIN Overlay(ls[m])
    BY <1>1 DEF Having
  <2>3. m \in Having(ls, a) <=> a \in DOMAIN Overlay(ls[m])
    BY DEF Having
  <2>4. CASE Having(one, a) = {}
    <3>1. Having(ls, a) = {}
      BY <1>4, <2>2, <2>3, <2>4
    <3> QED BY <2>4, <3>1 DEF Seen
  <2>5. CASE Having(one, a) = {1}
    <3>1. Having(ls, a) = {m}
      BY <1>4, <2>2, <2>3, <2>5
    <3>2. Highest(Having(one, a)) = 1 /\ Highest(Having(ls, a)) = m
      BY <1>3, <2>5, <3>1
    <3>3. Seen(one, f)[a] = Overlay(one[1])[a] /\ Seen(ls, f)[a] = Overlay(ls[m])[a]
      BY <2>5, <3>1, <3>2 DEF Seen
    <3> QED BY <1>1, <3>3
  <2> QED BY <2>1, <2>4, <2>5
<1> QED BY <1>2, <1>4

\* The layers that have bytes in an interval.
Holding(ls, r) == {n \in DOMAIN ls : \E k \in DOMAIN ls[n] : InTree(ls[n][k], r)}

\* A layer that shows in an interval has a node there.
LEMMA HavingHolds ==
  ASSUME NEW ls, Stack(ls), NEW r, NEW lo, NEW hi, Span(r, lo, hi), lo <= hi,
         NEW a \in lo .. hi
  PROVE  Having(ls, a) \subseteq Holding(ls, r)
<1> SUFFICES ASSUME NEW n \in DOMAIN ls, a \in DOMAIN Overlay(ls[n])
             PROVE  \E k \in DOMAIN ls[n] : InTree(ls[n][k], r)
  BY DEF Having, Holding
<1>1. Layer(ls[n])
  BY LayerOf
<1>2. PICK k \in DOMAIN ls[n] : a \in Shows(ls[n][k])
  BY <1>1, OverlayIs
<1>3. Good(ls[n][k])
  BY <1>1, GoodOf DEF Layer
<1>4. Shows(ls[n][k]) \cap (lo .. hi) # {}
  BY <1>2
<1> QED BY <1>3, <1>4, InTreeIs

\* A commit reaches layers that there are.
LEMMA ReachIs ==
  ASSUME Base, NEW many \in BOOLEAN
  PROVE  /\ Reach(many) \in Nat /\ 1 .. Reach(many) \subseteq DOMAIN layers
         /\ DOMAIN layers = 1 .. Len(layers) /\ Len(layers) \in Nat
<1>1. DOMAIN layers = 1 .. Len(layers) /\ Len(layers) \in Nat
  BY DEF Base, Stack
<1>2. CASE many \/ layers = <<>>
  BY <1>1, <1>2 DEF Reach
<1>3. CASE ~ (many \/ layers = <<>>)
  BY <1>1, <1>3 DEF Reach
<1> QED BY <1>1, <1>2, <1>3

\* A careful commit of an interval writes what is seen there, and takes it from the layers.
LEMMA SettleStep ==
  ASSUME Base, NEW r \in Ranges, CutsClean(Closed(r[1], r[2])), NEW many \in BOOLEAN, Writable,
         OneLayer(Closed(r[1], r[2]), many), CommitRange(r[1], r[2], many)
  PROVE  /\ Base'
         /\ IF Holding(layers, Closed(r[1], r[2])) \cap 1 .. Reach(many) = {}
            THEN UNCHANGED <<file, layers, writes>> ELSE Abstract!Settle(r[1] .. r[2])
         /\ Traced(layers, writes) => Traced(layers', writes')
<1> DEFINE c == Closed(r[1], r[2])
           lo == r[1]
           hi == r[2]
           N == Reach(many)
           has == Holding(layers, c)
           ks == InvalidateAll(layers, c)
<1>1. Span(c, lo, hi) /\ lo <= hi /\ CutsClean(c) /\ CommitRange(lo, hi, many)
      /\ lo \in Addr /\ hi \in Addr
  BY RangeIs
<1>2. N \in Nat /\ 1 .. N \subseteq DOMAIN layers /\ DOMAIN layers = 1 .. Len(layers)
      /\ Len(layers) \in Nat
  BY ReachIs
<1>3. writes' = writes /\ ops' = ops + 1 /\ ops < MaxOps
  BY DEF CommitRange, Counted
<1>4. Stack(layers) /\ file \in [Addr -> RealByte]
  BY DEF Base
<1>5. /\ Stack(ks) /\ DOMAIN ks = DOMAIN layers /\ Descends(ks, layers)
      /\ Over(ks) = Abstract!Drop(Over(layers), lo .. hi)
      /\ \A n \in DOMAIN layers : \A k \in DOMAIN ks[n] : ~ InTree(ks[n][k], c)
  <2> HIDE DEF c, lo, hi
  <2> QED BY <1>1, InvalidateCut
<1>6. has \cap 1 .. N = {} \/ Cardinality(has) = 1
  BY DEF OneLayer, Holding
<1>7. \A n \in DOMAIN layers : n \notin has => \A k \in DOMAIN layers[n] : ~ InTree(layers[n][k], c)
  BY DEF Holding
<1>8. ops' \in 0 .. MaxOps /\ writes' \in 0 .. MaxWrites
  BY <1>3, SizesAssumption DEF Base
<1>9. \A g : Settling(g, [f |-> file, ls |-> layers], N, c) => file' = g[N].f /\ layers' = g[N].ls
  <2> SUFFICES ASSUME NEW g, Settling(g, [f |-> file, ls |-> layers], N, c)
               PROVE  file' = g[N].f /\ layers' = g[N].ls
    OBVIOUS
  <2> HIDE DEF lo, hi
  <2>1. Settling(g, [f |-> file, ls |-> layers], Reach(many), Closed(lo, hi)) /\ Reach(many) \in Nat
    BY <1>2 DEF lo, hi
  <2> QED BY <1>1, <2>1, CommitRangeIs
<1> HIDE DEF c, lo, hi, N, ks
<1>10. CASE has \cap 1 .. N = {}
  <2> DEFINE g == [n \in 0 .. N |-> [f |-> file, ls |-> layers]]
  <2>1. \A n \in 1 .. N : \A k \in DOMAIN layers[n] : ~ InTree(layers[n][k], c)
    BY <1>2, <1>7, <1>10
  <2>2. Settling(g, [f |-> file, ls |-> layers], N, c)
    BY <1>2, <2>1, SettlesNone
  <2>3. g[N].f = file /\ g[N].ls = layers
    BY <1>2
  <2> HIDE DEF g
  <2>4. file' = file /\ layers' = layers
    BY <1>9, <2>2, <2>3
  <2>5. Base'
    BY <1>4, <1>8, <2>4 DEF Base
  <2>6. Traced(layers, writes) => Traced(layers', writes')
    BY <1>3, <2>4
  <2> QED BY <1>3, <1>10, <2>4, <2>5, <2>6 DEF N, c
<1>11. CASE has \cap 1 .. N # {}
  <2>1. PICK m : has = {m}
    <3>1. has \subseteq 1 .. Len(layers)
      BY <1>2 DEF Holding
    <3>2. IsFiniteSet(has)
      <4>1. IsFiniteSet(1 .. Len(layers))
        BY <1>2, FS_Interval
      <4>2. has \in SUBSET (1 .. Len(layers))
        BY <3>1
      <4> HIDE DEF has
      <4> QED BY <4>1, <4>2, FS_Subset
    <3> HIDE DEF has
    <3> QED BY <1>6, <1>11, <3>2, FS_Singleton
  <2>2. m \in 1 .. N /\ m \in DOMAIN layers
    BY <1>2, <1>11, <2>1
  <2> DEFINE one == <<layers[m]>>
             fin == [f |-> Flush(<<layers[m]>>, c, file), ls |-> ks]
             g == [n \in 0 .. N |-> IF n < m THEN [f |-> file, ls |-> layers] ELSE fin]
  <2>3. \A n \in 1 .. N : n # m => \A k \in DOMAIN layers[n] : ~ InTree(layers[n][k], c)
    BY <1>2, <1>7, <2>1
  <2>4. \E k \in DOMAIN layers[m] : InTree(layers[m][k], c)
    BY <2>1, <2>2 DEF Holding
  <2>5. \A n \in 1 .. N : \A k \in DOMAIN ks[n] : ~ InTree(ks[n][k], c)
    BY <1>2, <1>5
  <2>6. Settling(g, [f |-> file, ls |-> layers], N, c)
    BY <1>2, <2>2, <2>3, <2>4, <2>5, SettlesOne DEF ks
  <2>7. file' = Flush(one, c, file) /\ layers' = ks
    <3>1. g[N] = fin
      BY <1>2, <2>2
    <3>2. g[N].f = Flush(one, c, file) /\ g[N].ls = ks
      BY <3>1
    <3> HIDE DEF g, fin, one
    <3> QED BY <1>9, <2>6, <3>2
  <2>8. Stack(one) /\ \A a \in lo .. hi : Seen(one, file)[a] = View[a]
    <3>1. Stack(one) /\ \A a \in Addr : Having(layers, a) \subseteq {m} =>
                          Seen(one, file)[a] = Seen(layers, file)[a]
      <4> HIDE DEF one
      <4> QED BY <1>4, <2>2, OneLayerSeen DEF one
    <3>2. \A a \in lo .. hi : a \in Addr /\ Having(layers, a) \subseteq {m}
      <4>1. \A a \in lo .. hi : Having(layers, a) \subseteq has
        BY <1>1, <1>4, HavingHolds
      <4> QED BY <1>1, <2>1, <4>1, SizesAssumption DEF Addr
    <3> QED BY <3>1, <3>2, ViewIs
  <2>9. file' = [a \in Addr |-> IF a \in lo .. hi THEN View[a] ELSE file[a]]
    <3> DEFINE f == file
    <3> HIDE DEF one, f
    <3>1. Flush(one, c, f) = [a \in Addr |-> IF a \in lo .. hi THEN Seen(one, f)[a] ELSE f[a]]
      BY <1>1, <2>8, FlushIs
    <3> QED BY <2>7, <2>8, <3>1 DEF f
  <2> HIDE DEF one, fin, g
  <2>10. Base'
    <3>1. View \in [Addr -> RealByte]
      BY ViewIs
    <3>2. file' \in [Addr -> RealByte]
      BY <1>4, <2>9, <3>1
    <3> QED BY <1>5, <1>8, <2>7, <3>2 DEF Base
  <2>11. /\ Abstract!KnowAtMost([n \in DOMAIN layers |-> Origins(layers[n])])
         /\ Traced(layers, writes) => Traced(layers', writes')
    <3>1. Descends(layers', layers)
      BY <1>5, <2>7
    <3> QED BY <1>3, <3>1, KnowsLess
  <2>12. Abstract!Settle(r[1] .. r[2])
    <3>1. Abstract!View = View
      BY ViewIs
    <3>2. Over(layers') = Abstract!Drop(Over(layers), lo .. hi)
      BY <1>5, <2>7
    <3>3. file' = [a \in Abstract!Addrs |-> IF a \in lo .. hi THEN Abstract!View[a] ELSE file[a]]
      BY <2>9, <3>1 DEF Abstract!Addrs, Addr
    <3> HIDE DEF has
    <3> QED BY <1>3, <2>11, <3>2, <3>3 DEF Abstract!Settle, Over, lo, hi
  <2> QED BY <1>11, <2>10, <2>11, <2>12 DEF N, c
<1> QED BY <1>10, <1>11

-----------------------------------------------------------------------------
(* Undos and layers.                                                        *)

\* A layer without its last item shows what the others show.
LEMMA FrontIs ==
  ASSUME NEW L, Layer(L), L # <<>>, NEW N, N = Front(L)
  PROVE  /\ Layer(N) /\ Good(Last(L)) /\ Shows(Last(L)) \subseteq Cells(Last(L).itv)
         /\ Overlay(N) = Abstract!Without(Overlay(L), Shows(Last(L))) /\ Stems(N, L)
         /\ Last(L) = L[Len(L)] /\ Len(L) \in DOMAIN L
<1> DEFINE n == Len(L)
           R == Shows(Last(L))
<1>1. L \in Seq(GoodItems) /\ n \in Nat \ {0} /\ n \in DOMAIN L /\ DOMAIN L = 1 .. n
  BY DEF Layer
<1>2. Last(L) = L[n] /\ Good(L[n])
  BY <1>1, GoodOf DEF Last
<1>3. N \in Seq(GoodItems) /\ DOMAIN N = 1 .. n - 1 /\ \A k \in 1 .. n - 1 : N[k] = L[k]
  <2>1. N = SubSeq(L, 1, n - 1) /\ n - 1 \in Nat /\ n - 1 <= Len(L)
    BY <1>1 DEF Front
  <2> HIDE DEF n
  <2>2. N \in Seq(GoodItems) /\ Len(N) = n - 1 /\ \A k \in 1 .. n - 1 : N[k] = L[k]
    BY <1>1, <2>1
  <2> QED BY <2>2
<1> HIDE DEF n
<1>4. \A k \in 1 .. n : k = n \/ k \in 1 .. n - 1
  BY <1>1
<1>5. \A k \in 1 .. n - 1 : k \in DOMAIN L /\ k # n
  BY <1>1
<1>6. Apart(N)
  BY <1>3, <1>5 DEF Apart, Layer
<1>7. ASSUME NEW k \in DOMAIN N
      PROVE  Shows(N[k]) \cap R = {} /\ \E j \in DOMAIN L : PartOf(N[k], L[j])
  <2>1. N[k] = L[k] /\ k \in DOMAIN L /\ k # n
    BY <1>3, <1>5
  <2>2. Shows(L[k]) \cap Shows(L[n]) = {}
    BY <1>1, <2>1 DEF Layer, Apart
  <2>3. PartOf(L[k], L[k])
    BY <1>1, <2>1, GoodOf DEF PartOf, Came
  <2> QED BY <1>2, <2>1, <2>2, <2>3
<1>8. ASSUME NEW k \in DOMAIN L, NEW a \in Shows(L[k]) \ R
      PROVE  \E m \in DOMAIN N : a \in Shows(N[m])
  <2>1. k # n
    BY <1>2, <1>8
  <2>2. k \in DOMAIN N /\ N[k] = L[k]
    BY <1>1, <1>3, <1>4, <2>1
  <2> QED BY <1>8, <2>2
<1>9. Remains(N, L, R)
  BY <1>3, <1>6, <1>7, <1>8 DEF Remains
<1> HIDE DEF R
<1>10. Layer(N) /\ Overlay(N) = Abstract!Without(Overlay(L), R) /\ Stems(N, L)
  BY <1>9, RemainsShows
<1>11. Shows(Last(L)) \subseteq Cells(Last(L).itv)
  BY <1>2, GoodParts
<1> QED BY <1>1, <1>2, <1>10, <1>11 DEF R, n

\* An undo gives up what shows of the last item, bytes of one write, and gives the file
\* what this write found at the addresses of the item.
LEMMA TakeBackStep ==
  ASSUME Base, Undo
  PROVE  /\ Base'
         /\ Traced(layers, writes) =>
              /\ Traced(layers', writes')
              /\ \E k \in 1 .. writes : \E from, to \in Addr : Abstract!TakeBack(k, from .. to)
<1> DEFINE n == Len(layers)
           L == layers[n]
           c == Last(L)
           from == c.itv.addr
           to == Hi(c.itv)
           N == Front(L)
           G == Shows(c)
<1>1. /\ layers # <<>> /\ L # <<>> /\ layers' = [layers EXCEPT ![n] = N]
      /\ writes' = writes /\ ops' = ops
      /\ file' = [a \in Addr |-> IF Writable /\ a \in Cells(c.itv) THEN ByteOf(c.odata, a)
                                   ELSE file[a]]
  BY DEF Undo, Last
<1>2. Stack(layers) /\ layers \in Seq(Seq(GoodItems)) /\ n \in DOMAIN layers
      /\ file \in [Addr -> RealByte]
  BY <1>1 DEF Base, Stack
<1>3. Layer(L)
  BY <1>2, LayerOf
<1>4. /\ Layer(N) /\ Good(c) /\ Shows(c) \subseteq Cells(c.itv)
      /\ Overlay(N) = Abstract!Without(Overlay(L), G)
      /\ Stems(N, L) /\ c = L[Len(L)] /\ Len(L) \in DOMAIN L
  <2> HIDE DEF L
  <2>1. /\ Layer(N) /\ Good(Last(L)) /\ Shows(Last(L)) \subseteq Cells(Last(L).itv)
        /\ Overlay(N) = Abstract!Without(Overlay(L), Shows(Last(L)))
        /\ Stems(N, L) /\ Last(L) = L[Len(L)] /\ Len(L) \in DOMAIN L
    <3> HIDE DEF N
    <3> QED BY <1>1, <1>3, FrontIs DEF N
  <2> QED BY <2>1
<1>5. from \in Addr /\ to \in Addr /\ Cells(c.itv) = from .. to
  <2>1. Fits(c.itv)
    BY <1>4 DEF Good
  <2> HIDE DEF c
  <2> QED BY <2>1, FitsSpan DEF Span
<1>6. c.odata \in [Cells(c.itv) -> RealByte] /\ Cells(c.itv) \subseteq Addr
  <2> HIDE DEF c
  <2> QED BY <1>4, GoodParts
<1>7. /\ file' \in [Addr -> RealByte]
      /\ \A a \in Addr \ (from .. to) : file'[a] = file[a]
      /\ \A a \in from .. to :
           a \in Addr /\ file'[a] = IF Writable THEN c.odata[a] ELSE file[a]
  <2> HIDE DEF c, from, to
  <2>1. \A a \in Cells(c.itv) : ByteOf(c.odata, a) \in RealByte /\ ByteOf(c.odata, a) = c.odata[a]
    BY <1>6 DEF ByteOf
  <2>2. file' \in [Addr -> RealByte]
    BY <1>1, <1>2, <2>1
  <2>3. \A a \in Addr \ Cells(c.itv) : file'[a] = file[a]
    BY <1>1
  <2>4. \A a \in Cells(c.itv) : a \in Addr /\ file'[a] = IF Writable THEN c.odata[a] ELSE file[a]
    BY <1>1, <1>6, <2>1
  <2> QED BY <1>5, <2>2, <2>3, <2>4
<1> HIDE DEF N, c
<1>8. Stack(layers') /\ Over(layers') = [Over(layers) EXCEPT ![n] = Overlay(N)]
  <2> DEFINE ks == layers'
  <2>1. ks = [layers EXCEPT ![n] = N]
    BY <1>1
  <2>2. Layer(N)
    BY <1>4
  <2> HIDE DEF ks, n
  <2>3. Stack(ks) /\ Over(ks) = [Over(layers) EXCEPT ![n] = Overlay(N)]
    BY <1>2, <2>1, <2>2, Relayered
  <2> QED BY <2>3 DEF ks
<1>9. Base'
  <2>1. writes' \in 0 .. MaxWrites /\ ops' \in 0 .. MaxOps
    BY <1>1 DEF Base
  <2> QED BY <1>7, <1>8, <2>1 DEF Base
<1>10. Over(layers) # <<>> /\ Len(Over(layers)) = n /\ Over(layers)[n] = Overlay(L)
  <2>1. Len(Over(layers)) = Len(layers) /\ Over(layers)[n] = Overlay(layers[n])
        /\ DOMAIN Over(layers) = 1 .. Len(layers) /\ n \in 1 .. Len(layers)
    BY <1>2, OverIs
  <2> QED BY <2>1
<1>11. G \subseteq from .. to /\ G \subseteq DOMAIN Overlay(L)
       /\ \A a \in G : Overlay(L)[a] = c.data[a]
  <2>1. \A a \in Shows(c) : a \in DOMAIN Overlay(L) /\ Overlay(L)[a] = c.data[a]
    <3> HIDE DEF L
    <3> QED BY <1>3, <1>4, OverlayIs
  <2> QED BY <1>4, <1>5, <2>1
<1>12. Over(layers') = [Over(layers) EXCEPT ![Len(Over(layers))]
                          = Abstract!Without(Over(layers)[n], G)]
  BY <1>4, <1>8, <1>10
<1>13. /\ Abstract!KnowAtMost([m \in DOMAIN layers |-> Origins(layers[m])])
       /\ Traced(layers, writes) => Traced(layers', writes')
  <2>1. DOMAIN layers' = DOMAIN layers
        /\ \A m \in DOMAIN layers : layers'[m] = IF m = n THEN N ELSE layers[m]
    <3> HIDE DEF n
    <3> QED BY <1>1, <1>2
  <2>2. \A m \in DOMAIN layers : Stems(layers[m], layers[m])
    BY DEF Stems, Came
  <2>3. Descends(layers', layers)
    BY <1>4, <2>1, <2>2 DEF Descends
  <2> QED BY <1>1, <2>3, KnowsLess
<1>14. \A a \in from .. to : <<c.data[a][1], a, c.odata[a]>> \in Origins(L)
  <2>1. \A m \in DOMAIN L : \A a \in Cells(L[m].itv) :
          <<L[m].data[a][1], a, L[m].odata[a]>> \in Origins(L)
    BY DEF Origins
  <2> HIDE DEF L, from, to
  <2>2. \A a \in Cells(c.itv) : <<c.data[a][1], a, c.odata[a]>> \in Origins(L)
    BY <1>4, <2>1
  <2> QED BY <1>5, <2>2
<1>15. ASSUME Traced(layers, writes)
       PROVE  \E k \in 1 .. writes : \A a \in from .. to : c.data[a][1] = k
  <2>1. OfWrite(c, writes)
    <3> HIDE DEF c
    <3> QED BY <1>2, <1>4, <1>15 DEF Traced
  <2> HIDE DEF c, from, to
  <2> QED BY <1>5, <2>1 DEF OfWrite
<1> DEFINE f == [m \in DOMAIN layers |-> Origins(layers[m])]
<1>16. f[n] = Origins(L)
  BY <1>2
<1> HIDE DEF G, from, to, L, n, f
<1>17. ASSUME NEW k \in 1 .. writes, \A a \in from .. to : c.data[a][1] = k
       PROVE  Abstract!TakeBack(k, from .. to)
  <2> DEFINE A == from .. to
             o == Over(layers)
             top == Len(o)
  <2>1. \A a \in A : \E t \in f[top] :
          t[1] = k /\ t[2] = a /\ file'[a] = IF Writable THEN t[3] ELSE file[a]
    <3> SUFFICES ASSUME NEW a \in A
                 PROVE  \E t \in f[top] :
                          t[1] = k /\ t[2] = a
                          /\ file'[a] = IF Writable THEN t[3] ELSE file[a]
      OBVIOUS
    <3> DEFINE t == <<c.data[a][1], a, c.odata[a]>>
    <3>1. t \in f[top]
      BY <1>10, <1>14, <1>16
    <3>2. t[1] = k /\ t[2] = a /\ t[3] = c.odata[a]
      BY <1>17
    <3>3. file'[a] = IF Writable THEN t[3] ELSE file[a]
      BY <1>7, <3>2
    <3> HIDE DEF t, A, top
    <3> QED BY <3>1, <3>2, <3>3
  <2>2. file' = [a \in Abstract!Addrs |-> IF a \in A THEN file'[a] ELSE file[a]]
    BY <1>7 DEF Abstract!Addrs, Addr
  <2>3. \E X \in SUBSET (A \cap DOMAIN o[top]) :
          /\ \A a \in X : o[top][a][1] = k
          /\ Over(layers') = [o EXCEPT ![top] = Abstract!Without(@, X)]
    <3>1. G \in SUBSET (A \cap DOMAIN o[top]) /\ \A a \in G : o[top][a][1] = k
      BY <1>10, <1>11, <1>17
    <3>2. Over(layers') = [o EXCEPT ![top] = Abstract!Without(@, G)]
      BY <1>10, <1>12
    <3> HIDE DEF A, o, top
    <3> QED BY <3>1, <3>2
  <2> HIDE DEF A
  <2> QED
    BY <1>1, <1>10, <1>13, <2>1, <2>2, <2>3 DEF Abstract!TakeBack, Over, f, A
<1> QED BY <1>5, <1>9, <1>13, <1>15, <1>17

\* Two sequences of what layers show are the same if they agree everywhere.
LEMMA OverEquals ==
  ASSUME NEW ls, Stack(ls), NEW S, NEW o \in Seq(S), Len(o) = Len(ls),
         \A n \in 1 .. Len(ls) : o[n] = Overlay(ls[n])
  PROVE  Over(ls) = o
<1>1. Over(ls) \in Seq({Over(ls)[n] : n \in DOMAIN ls}) /\ Len(Over(ls)) = Len(ls)
      /\ Len(ls) \in Nat /\ DOMAIN ls = 1 .. Len(ls)
      /\ \A n \in DOMAIN ls : Over(ls)[n] = Overlay(ls[n])
  BY OverIs
<1> DEFINE T == S \cup {Over(ls)[n] : n \in DOMAIN ls}
           v == Over(ls)
<1>2. v \in Seq(T) /\ o \in Seq(T)
  BY <1>1, SeqMonotonic
<1>3. Len(v) = Len(o) /\ \A n \in 1 .. Len(v) : v[n] = o[n]
  BY <1>1
<1> HIDE DEF T, v
<1>4. v = o
  BY <1>2, <1>3, SeqEqual
<1> QED BY <1>4 DEF v

\* A layer without bytes is put on top.
LEMMA PushStep ==
  ASSUME Base, PushLayer
  PROVE  /\ Base' /\ Abstract!Push
         /\ Traced(layers, writes) => Traced(layers', writes')
<1> DEFINE ks == layers'
           e == <<>>
           S == {Over(layers)[n] : n \in DOMAIN layers} \cup {Abstract!Empty}
           o == Append(Over(layers), Abstract!Empty)
<1>1. ks = Append(layers, e) /\ file' = file /\ writes' = writes /\ ops' = ops + 1 /\ ops < MaxOps
  BY DEF PushLayer, Counted
<1>2. Stack(layers) /\ layers \in Seq(Seq(GoodItems)) /\ Len(layers) \in Nat
      /\ DOMAIN layers = 1 .. Len(layers)
  BY DEF Base, Stack
<1>3. Layer(e) /\ Overlay(e) = Abstract!Empty
  BY OverEmpty
<1> HIDE DEF ks, e
<1>4. /\ ks \in Seq(Seq(GoodItems)) /\ Len(ks) = Len(layers) + 1 /\ ks[Len(layers) + 1] = e
      /\ DOMAIN ks = 1 .. Len(layers) + 1 /\ \A n \in 1 .. Len(layers) : ks[n] = layers[n]
  <2>1. e \in Seq(GoodItems)
    BY <1>3 DEF Layer
  <2>2. /\ ks \in Seq(Seq(GoodItems)) /\ Len(ks) = Len(layers) + 1 /\ ks[Len(layers) + 1] = e
        /\ \A n \in 1 .. Len(layers) : ks[n] = layers[n]
    BY <1>1, <1>2, <2>1, AppendProperties
  <2> QED BY <2>2
<1>5. \A n \in 1 .. Len(layers) + 1 : n = Len(layers) + 1 \/ n \in 1 .. Len(layers)
  BY <1>2
<1>6. Stack(ks)
  BY <1>2, <1>3, <1>4, <1>5 DEF Stack, Layer
<1>7. Base'
  <2>1. ops' \in 0 .. MaxOps /\ file' \in [Addr -> RealByte] /\ writes' \in 0 .. MaxWrites
    BY <1>1, SizesAssumption DEF Base
  <2> QED BY <1>6, <2>1 DEF Base, ks
<1>8. /\ Over(layers) \in Seq(S) /\ Abstract!Empty \in S /\ Len(Over(layers)) = Len(layers)
      /\ \A n \in 1 .. Len(layers) : Over(layers)[n] = Overlay(layers[n])
  BY <1>2, OverIs, SeqMonotonic
<1>9. /\ o \in Seq(S) /\ Len(o) = Len(layers) + 1 /\ o[Len(layers) + 1] = Abstract!Empty
      /\ \A n \in 1 .. Len(layers) : o[n] = Overlay(layers[n])
  <2> DEFINE x == Abstract!Empty
  <2> HIDE DEF S, x
  <2> QED BY <1>8, AppendProperties DEF x
<1> HIDE DEF o, S
<1>10. Over(ks) = o
  <2>1. Len(o) = Len(ks) /\ \A n \in 1 .. Len(ks) : o[n] = Overlay(ks[n])
    BY <1>3, <1>4, <1>5, <1>9
  <2> QED BY <1>6, <1>9, <2>1, OverEquals
<1>11. Abstract!KnowAtMost([n \in 1 .. Len(Over(layers)) + 1 |->
                              IF n <= Len(Over(layers)) THEN Known(layers)[n] ELSE {}])
  <2>1. Origins(e) = {}
    BY DEF Origins, e
  <2>2. \A n \in 1 .. Len(layers) : n <= Len(layers) /\ Known(layers)[n] = Origins(ks[n])
    BY <1>2, <1>4 DEF Known
  <2>3. ~ (Len(layers) + 1 <= Len(layers)) /\ Origins(ks[Len(layers) + 1]) = {}
    BY <1>2, <1>4, <2>1
  <2> QED BY <1>4, <1>5, <1>8, <2>2, <2>3 DEF Abstract!KnowAtMost, ks
<1>12. Abstract!Push
  BY <1>1, <1>10, <1>11 DEF Abstract!Push, Over, Known, ks, o
<1>13. ASSUME Traced(layers, writes) PROVE Traced(layers', writes')
  <2>1. DOMAIN e = {}
    BY DEF e
  <2>2. \A n \in DOMAIN ks : (n \in DOMAIN layers /\ ks[n] = layers[n]) \/ ks[n] = e
    BY <1>2, <1>4, <1>5
  <2> QED BY <1>1, <1>13, <2>1, <2>2 DEF Traced, ks
<1> QED BY <1>7, <1>12, <1>13

\* The top layer goes.
LEMMA PopStep ==
  ASSUME Base, PopLayer
  PROVE  /\ Base' /\ Abstract!Pop
         /\ Traced(layers, writes) => Traced(layers', writes')
<1> DEFINE ks == layers'
           n == Len(layers)
           o == SubSeq(Over(layers), 1, n - 1)
           S == {Over(layers)[m] : m \in DOMAIN layers}
<1>1. /\ layers # <<>> /\ ks = SubSeq(layers, 1, n - 1) /\ file' = file /\ writes' = writes
      /\ ops' = ops + 1 /\ ops < MaxOps
  BY DEF PopLayer, Counted, Front
<1>2. Stack(layers) /\ layers \in Seq(Seq(GoodItems)) /\ n \in Nat \ {0}
      /\ DOMAIN layers = 1 .. n
  BY <1>1 DEF Base, Stack
<1> HIDE DEF ks
<1>3. ks \in Seq(Seq(GoodItems)) /\ Len(ks) = n - 1 /\ DOMAIN ks = 1 .. n - 1
      /\ \A m \in 1 .. n - 1 : ks[m] = layers[m] /\ m \in DOMAIN layers
  BY <1>1, <1>2
<1>4. Stack(ks)
  BY <1>2, <1>3 DEF Stack
<1>5. Base'
  <2>1. ops' \in 0 .. MaxOps /\ file' \in [Addr -> RealByte] /\ writes' \in 0 .. MaxWrites
    BY <1>1, SizesAssumption DEF Base
  <2> QED BY <1>4, <2>1 DEF Base, ks
<1>6. /\ Over(layers) \in Seq(S) /\ Len(Over(layers)) = n /\ DOMAIN Over(layers) = 1 .. n
      /\ \A m \in 1 .. n : Over(layers)[m] = Overlay(layers[m])
  BY <1>2, OverIs
<1>7. /\ o \in Seq(S) /\ Len(o) = n - 1
      /\ \A m \in 1 .. n - 1 : o[m] = Overlay(layers[m])
  <2> DEFINE v == Over(layers)
  <2>1. v \in Seq(S) /\ Len(v) = n /\ \A m \in 1 .. n : v[m] = Overlay(layers[m])
    BY <1>6
  <2> HIDE DEF S, v, n
  <2>2. SubSeq(v, 1, n - 1) \in Seq(S) /\ Len(SubSeq(v, 1, n - 1)) = n - 1
        /\ \A m \in 1 .. n - 1 : SubSeq(v, 1, n - 1)[m] = v[m]
    BY <1>2, <2>1
  <2>3. \A m \in 1 .. n - 1 : m \in 1 .. n
    BY <1>2
  <2> QED BY <2>1, <2>2, <2>3 DEF v
<1> HIDE DEF o, S
<1>8. Over(ks) = o
  <2>1. Len(o) = Len(ks) /\ \A m \in 1 .. Len(ks) : o[m] = Overlay(ks[m])
    BY <1>3, <1>7
  <2> QED BY <1>4, <1>7, <2>1, OverEquals
<1>9. Over(layers) # <<>>
  BY <1>2, <1>6
<1>10. Abstract!KnowAtMost([m \in 1 .. Len(Over(layers)) - 1 |-> Known(layers)[m]])
  BY <1>3, <1>6 DEF Abstract!KnowAtMost, Known, ks
<1>11. Abstract!Pop
  BY <1>1, <1>6, <1>8, <1>9, <1>10 DEF Abstract!Pop, Over, Known, ks, o
<1>12. ASSUME Traced(layers, writes) PROVE Traced(layers', writes')
  BY <1>1, <1>3, <1>12 DEF Traced, ks
<1> QED BY <1>5, <1>11, <1>12

\* One empty layer.
LEMMA FreshLayer ==
  /\ Stack(<<<<>>>>) /\ Over(<<<<>>>>) = <<Abstract!Empty>>
  /\ Known(<<<<>>>>) = <<{}>> /\ \A w : Traced(<<<<>>>>, w)
<1> DEFINE e == <<>>
           ls == <<e>>
           o == <<Abstract!Empty>>
           S == {Abstract!Empty}
<1>1. Layer(e) /\ Overlay(e) = Abstract!Empty
  BY OverEmpty
<1>2. e \in Seq(GoodItems) /\ Origins(e) = {} /\ DOMAIN e = {}
  BY <1>1 DEF Layer, Origins
<1> HIDE DEF e
<1>3. ls \in Seq(Seq(GoodItems)) /\ DOMAIN ls = {1} /\ ls[1] = e /\ Len(ls) = 1
  BY <1>2
<1>4. o \in Seq(S) /\ Len(o) = 1 /\ o[1] = Abstract!Empty
  OBVIOUS
<1> HIDE DEF ls, o, S
<1>5. Stack(ls)
  BY <1>1, <1>3 DEF Stack, Layer
<1>6. \A n \in 1 .. Len(ls) : n = 1
  BY <1>3
<1>7. Over(ls) = o
  BY <1>1, <1>3, <1>4, <1>5, <1>6, OverEquals
<1>8. Known(ls) = <<{}>>
  <2>1. Known(ls) = [n \in {1} |-> {}]
    BY <1>2, <1>3 DEF Known
  <2>2. [n \in {1} |-> {}] = <<{}>>
    OBVIOUS
  <2> QED BY <2>1, <2>2
<1>9. \A w : Traced(ls, w)
  BY <1>2, <1>3 DEF Traced
<1> QED BY <1>5, <1>7, <1>8, <1>9 DEF ls, o, e

\* One layer without bytes is left.
LEMMA ResetStep ==
  ASSUME Base, Reset
  PROVE  Base' /\ Abstract!Reset /\ Traced(layers', writes')
<1> DEFINE ks == layers'
           e == <<<<>>>>
<1>1. ks = e /\ file' = file /\ writes' = writes /\ ops' = ops + 1 /\ ops < MaxOps
  BY DEF Reset, Counted
<1>2. /\ Stack(e) /\ Over(e) = <<Abstract!Empty>>
      /\ Known(e) = <<{}>> /\ \A w : Traced(e, w)
  BY FreshLayer
<1> HIDE DEF ks, e
<1>3. /\ Stack(ks) /\ Over(ks) = <<Abstract!Empty>>
      /\ Known(ks) = <<{}>> /\ \A w : Traced(ks, w)
  BY <1>1, <1>2
<1>4. Base'
  <2>1. ops' \in 0 .. MaxOps /\ file' \in [Addr -> RealByte] /\ writes' \in 0 .. MaxWrites
    BY <1>1, SizesAssumption DEF Base
  <2> QED BY <1>3, <2>1 DEF Base, ks
<1>5. Abstract!Reset
  <2>1. Abstract!KnowAtMost(<<{}>>)
    BY <1>3 DEF Abstract!KnowAtMost, Known, ks
  <2> QED BY <1>1, <1>3, <2>1 DEF Abstract!Reset, Over, ks
<1> QED BY <1>3, <1>4, <1>5 DEF ks

-----------------------------------------------------------------------------
(* The specification.                                                       *)

\* What the layers show does not change if neither the layers nor the file do.
LEMMA SameOver ==
  ASSUME UNCHANGED <<file, layers, writes>>
  PROVE  UNCHANGED Abstract!vars
BY DEF Abstract!vars

\* If the items can be traced to their writes, the step is one of the abstract
\* specification, after which they still can.
Follows ==
  Traced(layers, writes) => Traced(layers', writes') /\ [Abstract!Next]_(Abstract!vars)

\* Every careful step keeps the layers sound, and follows the abstract specification.
LEMMA CarefulStep ==
  ASSUME Base, [CarefulNext]_vars
  PROVE  Base' /\ Follows
<1>1. ASSUME NEW addr \in Addr, NEW len \in Sizes, layers # <<>>, ClearOfTop(addr, len),
             HeadsKept(addr, len), CachedWrite(addr, len)
      PROVE  Base' /\ Follows
  <2>1. /\ Base' /\ Abstract!Put(addr, len) /\ writes < MaxWrites
        /\ Traced(layers, writes) => Traced(layers', writes')
    BY <1>1, PutStep
  <2>2. addr \in Abstract!Addrs
    BY DEF Abstract!Addrs, Addr
  <2> QED BY <2>1, <2>2 DEF Abstract!Next, Follows
<1>2. ASSUME NEW addr \in Addr, NEW len \in Sizes, DirectWrite(addr, len)
      PROVE  Base' /\ Follows
  <2>1. /\ Base' /\ Abstract!Store(addr, len) /\ writes < MaxWrites /\ Writable
        /\ Traced(layers, writes) => Traced(layers', writes')
    BY <1>2, StoreStep
  <2>2. addr \in Abstract!Addrs
    BY DEF Abstract!Addrs, Addr
  <2> QED BY <2>1, <2>2 DEF Abstract!Next, Follows
<1>3. ASSUME NEW r \in Ranges, CutsClean(Closed(r[1], r[2])), Invalidate(r[1], r[2])
      PROVE  Base' /\ Follows
  <2>1. /\ Base' /\ Abstract!Forget(r[1] .. r[2])
        /\ Traced(layers, writes) => Traced(layers', writes')
    BY <1>3, ForgetStep
  <2> QED BY <2>1 DEF Abstract!Next, Follows
<1>4. ASSUME NEW r \in Ranges, CutsClean(Closed(r[1], r[2])), NEW many \in BOOLEAN, Writable,
             OneLayer(Closed(r[1], r[2]), many), CommitRange(r[1], r[2], many)
      PROVE  Base' /\ Follows
  <2>1. /\ Base' /\ (Abstract!Settle(r[1] .. r[2]) \/ UNCHANGED <<file, layers, writes>>)
        /\ Traced(layers, writes) => Traced(layers', writes')
    BY <1>4, SettleStep
  <2> QED BY <2>1, SameOver DEF Abstract!Next, Follows
<1>5. ASSUME NEW many \in BOOLEAN, Writable, CommitAll(many)
      PROVE  Base' /\ Follows
  <2>1. /\ Base' /\ (\/ Abstract!SettleLayers(Reach(many)) /\ Reach(many) \in 1 .. Len(layers)
                     \/ UNCHANGED <<file, layers, writes>>)
        /\ Traced(layers, writes) => Traced(layers', writes')
    <3>1. Len(layers) \in Nat
      BY DEF Base, Stack
    <3> QED BY <1>5, <3>1, SettleLayersStep
  <2>2. Len([n \in DOMAIN layers |-> Overlay(layers[n])]) = Len(layers)
    BY OverIs DEF Over, Base
  <2> QED BY <2>1, <2>2, SameOver DEF Abstract!Next, Follows
<1>6. ASSUME Undo PROVE Base' /\ Follows
  <2>1. /\ Base'
        /\ Traced(layers, writes) =>
             /\ Traced(layers', writes')
             /\ \E k \in 1 .. writes : \E from, to \in Addr : Abstract!TakeBack(k, from .. to)
    BY <1>6, TakeBackStep
  <2>2. Abstract!Addrs = Addr
    BY DEF Abstract!Addrs, Addr
  <2> QED BY <2>1, <2>2 DEF Abstract!Next, Follows
<1>7. ASSUME PushLayer PROVE Base' /\ Follows
  BY <1>7, PushStep DEF Abstract!Next, Follows
<1>8. ASSUME PopLayer PROVE Base' /\ Follows
  BY <1>8, PopStep DEF Abstract!Next, Follows
<1>9. ASSUME Reset PROVE Base' /\ Follows
  BY <1>9, ResetStep DEF Abstract!Next, Follows
<1>10. ASSUME UNCHANGED vars PROVE Base' /\ Follows
  <2>1. UNCHANGED <<file, layers, writes, ops>>
    BY <1>10 DEF vars
  <2> QED BY <2>1, SameOver DEF Base, Follows
<1> HIDE DEF CarefulNext
<1> QED
  BY <1>1, <1>2, <1>3, <1>4, <1>5, <1>6, <1>7, <1>8, <1>9, <1>10 DEF CarefulNext

\* At the start there is the file and one layer without items.
LEMMA InitIs ==
  ASSUME Init
  PROVE  Base /\ Abstract!Init /\ Traced(layers, writes)
<1> DEFINE e == <<<<>>>>
<1>1. /\ Stack(e) /\ Over(e) = <<Abstract!Empty>>
      /\ Known(e) = <<{}>> /\ \A w : Traced(e, w)
  BY FreshLayer
<1>2. layers = e /\ file = [a \in Addr |-> <<0, a>>] /\ writes = 0 /\ ops = 0
  BY DEF Init
<1> HIDE DEF e
<1>3. file \in [Addr -> RealByte]
  BY <1>2, SizesAssumption DEF RealByte
<1>4. Base
  BY <1>1, <1>2, <1>3, SizesAssumption DEF Base
<1>5. Over(layers) = <<Abstract!Empty>> /\ Known(layers) = <<{}>> /\ Traced(layers, writes)
  BY <1>1, <1>2
<1>6. Abstract!Init
  BY <1>2, <1>5 DEF Abstract!Init, Abstract!Addrs, Addr, Over, Known
<1> QED BY <1>4, <1>5, <1>6

\* What the writes that can be undone showed before: at most one per write.
Remembered == past \in Seq([Addr -> RealByte]) /\ Len(past) <= writes

\* Every step keeps what is remembered.
LEMMA PastStep ==
  ASSUME Base, Remembered, [CarefulNext]_vars
  PROVE  Remembered'
<1> DEFINE S == [Addr -> RealByte]
<1>1. past \in Seq(S) /\ Len(past) \in Nat /\ Len(past) <= writes /\ writes \in Nat
      /\ View \in S
  BY ViewIs, SizesAssumption DEF Base, Remembered
<1> HIDE DEF S
<1>2. past' \in Seq(S) /\ Len(past') <= writes'
  <2>1. ASSUME past' = <<>>, writes' \in {writes, writes + 1}
        PROVE  past' \in Seq(S) /\ Len(past') <= writes'
    BY <1>1, <2>1
  <2>2. ASSUME past' = past, writes' = writes
        PROVE  past' \in Seq(S) /\ Len(past') <= writes'
    BY <1>1, <2>2
  <2>3. ASSUME NEW addr, NEW len, CachedWrite(addr, len)
        PROVE  past' \in Seq(S) /\ Len(past') <= writes'
    <3>1. past' = (IF Undoable(addr, len) THEN Append(past, View) ELSE <<>>)
          /\ writes' = writes + 1
      BY <2>3 DEF CachedWrite
    <3>2. CASE Undoable(addr, len)
      <4> DEFINE v == View
      <4>1. past' = Append(past, v) /\ v \in S
        BY <1>1, <3>1, <3>2
      <4> HIDE DEF v
      <4>2. past' \in Seq(S) /\ Len(past') = Len(past) + 1
        BY <1>1, <4>1
      <4> QED BY <1>1, <3>1, <4>2
    <3>3. CASE ~ Undoable(addr, len)
      BY <2>1, <3>1, <3>3
    <3> QED BY <3>2, <3>3
  <2>4. ASSUME Undo PROVE past' \in Seq(S) /\ Len(past') <= writes'
    <3>1. writes' = writes /\ past' = IF past = <<>> THEN past ELSE Front(past)
      BY <2>4 DEF Undo
    <3>2. CASE past # <<>>
      <4>1. Front(past) = SubSeq(past, 1, Len(past) - 1) /\ Len(past) - 1 \in Nat
        BY <1>1, <3>2 DEF Front
      <4>2. past' \in Seq(S) /\ Len(past') = Len(past) - 1
        <5> DEFINE p == past
                   n == Len(p) - 1
        <5>1. past' = SubSeq(p, 1, n) /\ n \in Nat /\ n <= Len(p) /\ p \in Seq(S)
          BY <1>1, <3>1, <3>2, <4>1
        <5> HIDE DEF p, n
        <5>2. SubSeq(p, 1, n) \in Seq(S) /\ Len(SubSeq(p, 1, n)) = n
          BY <5>1
        <5> QED BY <5>1, <5>2 DEF n, p
      <4> QED BY <1>1, <3>1, <4>2
    <3> QED BY <2>2, <3>1, <3>2
  <2>5. ASSUME NEW addr, NEW len, DirectWrite(addr, len)
        PROVE  past' \in Seq(S) /\ Len(past') <= writes'
    BY <2>1, <2>5 DEF DirectWrite
  <2>6. ASSUME NEW from, NEW to, Invalidate(from, to)
        PROVE  past' \in Seq(S) /\ Len(past') <= writes'
    BY <2>1, <2>6 DEF Invalidate
  <2>7. ASSUME NEW from, NEW to, NEW many, CommitRange(from, to, many)
        PROVE  past' \in Seq(S) /\ Len(past') <= writes'
    BY <2>1, <2>7 DEF CommitRange
  <2>8. ASSUME NEW many, CommitAll(many)
        PROVE  past' \in Seq(S) /\ Len(past') <= writes'
    BY <2>2, <2>8 DEF CommitAll
  <2>9. ASSUME PushLayer \/ PopLayer \/ Reset
        PROVE  past' \in Seq(S) /\ Len(past') <= writes'
    BY <2>1, <2>9 DEF PushLayer, PopLayer, Reset
  <2>10. CASE UNCHANGED vars
    BY <2>2, <2>10 DEF vars
  <2> QED BY <2>3, <2>4, <2>5, <2>6, <2>7, <2>8, <2>9, <2>10 DEF CarefulNext
<1> QED BY <1>2 DEF Remembered, S

\* The layers are sound in every state of a careful run, and each item is of one write.
LEMMA Always ==
  CarefulSpec => [](Base /\ Remembered /\ Traced(layers, writes))
<1>1. Init => Base /\ Remembered /\ Traced(layers, writes)
  <2>1. ASSUME Init PROVE Remembered
    BY <2>1 DEF Init, Remembered
  <2> QED BY <2>1, InitIs
<1>2. Base /\ Remembered /\ Traced(layers, writes) /\ [CarefulNext]_vars
        => (Base /\ Remembered /\ Traced(layers, writes))'
  <2>1. ASSUME Base, Remembered, Traced(layers, writes), [CarefulNext]_vars
        PROVE  Base' /\ Remembered' /\ Traced(layers', writes')
    BY <2>1, CarefulStep, PastStep DEF Follows
  <2>2. Traced(layers', writes') => Traced(layers, writes)'
    BY DEF Traced, OfWrite
  <2> QED BY <2>1, <2>2
<1> QED BY <1>1, <1>2, PTL DEF CarefulSpec

(* Buffers keep bytes whose origin is known, and a node of the tree belongs  *)
(* to an item with a tree_itv, which _ci_start_cmp_cb relies on.             *)
THEOREM TypeCorrect ==
  CarefulSpec => []TypeOK
<1>1. ASSUME Base, Remembered PROVE TypeOK
  <2>1. \A b \in RealByte : b \in Byte
    BY DEF RealByte, Byte
  <2>2. file \in [Addr -> Byte]
    BY <1>1, <2>1 DEF Base
  <2>3. ASSUME NEW n \in DOMAIN layers, NEW k \in DOMAIN layers[n]
        PROVE  LET i == layers[n][k]
               IN  /\ i.itv \in Itv
                   /\ i.tree \in Itv \cup {NoItv}
                   /\ i.live \in BOOLEAN /\ (i.live => i.tree # NoItv)
                   /\ {i.data, i.odata} \subseteq [Cells(i.itv) -> Byte]
    <3> DEFINE i == layers[n][k]
    <3>1. Good(i)
      BY <1>1, LayerOf, GoodOf DEF Base, Layer
    <3> HIDE DEF i
    <3>2. i \in Items /\ (i.live => i.tree # NoItv)
          /\ i.data \in [Cells(i.itv) -> RealByte] /\ i.odata \in [Cells(i.itv) -> RealByte]
      BY <3>1 DEF Good
    <3>3. i.data \in [Cells(i.itv) -> Byte] /\ i.odata \in [Cells(i.itv) -> Byte]
      BY <2>1, <3>2
    <3>4. i.itv \in Itv /\ i.tree \in Itv \cup {NoItv} /\ i.live \in BOOLEAN
      BY <3>2 DEF Items
    <3> QED BY <3>2, <3>3, <3>4 DEF i
  <2> QED BY <1>1, <2>2, <2>3 DEF TypeOK, Base, Remembered
<1> QED BY <1>1, Always, PTL

(* The search of _find_entry_ci_node and the offsets of every memcpy are     *)
(* right: the nodes of a layer are disjoint and lie in the buffers of their   *)
(* items, after any careful operations.                                      *)
THEOREM TreesSound ==
  CarefulSpec => []TreeSound
<1>1. ASSUME Base PROVE TreeSound
  <2>1. ASSUME NEW n \in DOMAIN layers, NEW k \in DOMAIN layers[n], layers[n][k].live
        PROVE  /\ Cells(layers[n][k].tree) # {}
               /\ Cells(layers[n][k].tree) \subseteq Cells(layers[n][k].itv)
               /\ \A j \in DOMAIN layers[n] \ {k} :
                    layers[n][j].live =>
                      Cells(layers[n][k].tree) \cap Cells(layers[n][j].tree) = {}
    <3>1. Layer(layers[n])
      BY <1>1, LayerOf DEF Base
    <3>2. Good(layers[n][k])
      BY <3>1, GoodOf DEF Layer
    <3>3. Shows(layers[n][k]) # {} /\ Shows(layers[n][k]) \subseteq Cells(layers[n][k].itv)
          /\ Shows(layers[n][k]) = Cells(layers[n][k].tree)
      BY <2>1, <3>2, GoodParts DEF Shows
    <3>4. ASSUME NEW j \in DOMAIN layers[n] \ {k}, layers[n][j].live
          PROVE  Cells(layers[n][k].tree) \cap Cells(layers[n][j].tree) = {}
      <4>1. Shows(layers[n][k]) \cap Shows(layers[n][j]) = {}
        BY <3>1, <3>4 DEF Layer, Apart
      <4>2. Shows(layers[n][j]) = Cells(layers[n][j].tree)
        BY <3>4 DEF Shows
      <4> QED BY <3>3, <4>1, <4>2
    <3> QED BY <3>3, <3>4
  <2> QED BY <2>1 DEF TreeSound
<1> QED BY <1>1, Always, PTL

(* Careful operations implement the stack of layers of bytes: r_io_cache_     *)
(* write_at writes over the top layer, and an undo gives up bytes of one write *)
(* of the top layer and puts back what that write found there.  What exactly   *)
(* invalidations and commits do is in the next two theorems.                  *)
THEOREM CacheImplementsLayers ==
  CarefulSpec => ImplementsLayers
<1>1. Init => Abstract!Init
  BY InitIs
<1>2. Base /\ Traced(layers, writes) /\ [CarefulNext]_vars => [Abstract!Next]_(Abstract!vars)
  BY CarefulStep DEF Follows
<1> QED BY <1>1, <1>2, Always, PTL DEF CarefulSpec, ImplementsLayers, Abstract!Spec

(* r_io_cache_invalidate takes the bytes of the range from all layers, and no  *)
(* other byte, whatever items it cuts, clips and splits on its way.           *)
THEOREM InvalidationsAreExact ==
  CarefulSpec => InvalidationsExact
<1>1. Base /\ [CarefulNext]_vars =>
        [\A r \in Ranges :
           Invalidate(r[1], r[2]) /\ CutsClean(Closed(r[1], r[2])) => Abstract!Forget(r[1] .. r[2])]_vars
  BY ForgetStep
<1> QED BY <1>1, Always, PTL DEF CarefulSpec, InvalidationsExact

-----------------------------------------------------------------------------
(* Undoing.  The views of "past" belong to the last items of the only layer,  *)
(* one each: taking the items away, from the last one down to one of them,     *)
(* gives the view back that was there before it.                              *)

\* The old view is the view w with the bytes put back that the items of L from k on keep.
Restores(L, k, w, old) ==
  \A a \in Addr :
    /\ (\A m \in k .. Len(L) : a \notin Cells(L[m].itv)) => old[a] = w[a]
    /\ \A m \in k .. Len(L) :
         a \in Cells(L[m].itv) /\ (\A j \in k .. m - 1 : a \notin Cells(L[j].itv))
           => old[a] = L[m].odata[a]

\* The views p belong to the items behind the first q, and no item shows where one of
\* those after it keeps bytes.
Undoes(L, w, p, q) ==
  /\ Len(L) = q + Len(p)
  /\ \A j \in 1 .. Len(p) : Restores(L, q + j, w, p[j])
  /\ \A k \in q + 1 .. Len(L) : \A i \in 1 .. k - 1 : Shows(L[i]) \cap Cells(L[k].itv) = {}

\* What an undo may still take back can be taken back.
PastKept ==
  Writable /\ past # <<>> =>
    /\ Len(layers) = 1 /\ Len(past) <= Len(layers[1])
    /\ Undoes(layers[1], View, past, Len(layers[1]) - Len(past))

\* N is L without its last element, the one after n others.
Shorter(N, L, n) == Len(L) = n + 1 /\ Len(N) = n /\ \A k \in 1 .. n : N[k] = L[k]

\* The view x is w with the bytes put back that the item i keeps.
PutBack(x, w, i) ==
  \A a \in Addr : x[a] = IF a \in Cells(i.itv) THEN i.odata[a] ELSE w[a]

\* The last item goes.
LEMMA UndoesLess ==
  ASSUME NEW n \in Nat, NEW L, NEW N, Shorter(N, L, n), NEW q \in Nat, NEW m \in Nat,
         NEW p, NEW o, Shorter(o, p, m), NEW w, NEW x, Undoes(L, w, p, q),
         PutBack(x, w, L[n + 1])
  PROVE  Undoes(N, x, o, q) /\ \A a \in Addr : p[m + 1][a] = x[a]
<1>0. /\ Len(L) = n + 1 /\ Len(N) = n /\ \A k \in 1 .. n : N[k] = L[k]
      /\ Len(p) = m + 1 /\ Len(o) = m /\ \A j \in 1 .. m : o[j] = p[j]
      /\ \A a \in Addr : x[a] = IF a \in Cells(L[n + 1].itv) THEN L[n + 1].odata[a] ELSE w[a]
  BY DEF Shorter, PutBack
<1>1. n + 1 = q + (m + 1) /\ n = q + m
  BY <1>0 DEF Undoes
<1>2. ASSUME NEW a \in Addr PROVE p[m + 1][a] = x[a]
  <2>1. m + 1 \in 1 .. Len(p) /\ q + (m + 1) = n + 1
    BY <1>0, <1>1
  <2>2. Restores(L, n + 1, w, p[m + 1])
    BY <2>1 DEF Undoes
  <2>3. n + 1 .. Len(L) = {n + 1} /\ n + 1 .. (n + 1) - 1 = {}
    BY <1>0
  <2>4. /\ a \notin Cells(L[n + 1].itv) => p[m + 1][a] = w[a]
        /\ a \in Cells(L[n + 1].itv) => p[m + 1][a] = L[n + 1].odata[a]
    BY <2>2, <2>3 DEF Restores
  <2> QED BY <1>0, <2>4
<1>3. ASSUME NEW j \in 1 .. Len(o) PROVE Restores(N, q + j, x, o[j])
  <2>1. j \in 1 .. Len(p) /\ o[j] = p[j] /\ q + j \in 1 .. n
    BY <1>0, <1>1
  <2>2. Restores(L, q + j, w, p[j])
    BY <2>1 DEF Undoes
  <2> DEFINE k == q + j
  <2>3. k \in 1 .. n /\ Len(L) = n + 1 /\ Len(N) = n
    BY <1>0, <2>1
  <2> HIDE DEF k
  <2>4. \A i \in k .. n : i \in k .. n + 1 /\ i \in 1 .. n /\ N[i] = L[i]
    BY <1>0, <2>3
  <2>5. \A i \in k .. n : \A h \in k .. i - 1 : h \in k .. n
    BY <2>3
  <2>6. \A i \in k .. n + 1 : i = n + 1 \/ i \in k .. n
    BY <2>3
  <2>7. n + 1 \in k .. n + 1 /\ k .. (n + 1) - 1 = k .. n
    BY <2>3
  <2>8. ASSUME NEW a \in Addr, \A i \in k .. n : a \notin Cells(N[i].itv)
        PROVE  p[j][a] = x[a]
    <3>1. \A i \in k .. n : a \notin Cells(L[i].itv)
      BY <2>4, <2>8
    <3>2. CASE a \in Cells(L[n + 1].itv)
      <4>1. p[j][a] = L[n + 1].odata[a]
        BY <2>2, <2>3, <2>7, <3>1, <3>2 DEF Restores, k
      <4> QED BY <1>0, <3>2, <4>1
    <3>3. CASE a \notin Cells(L[n + 1].itv)
      <4>1. \A i \in k .. n + 1 : a \notin Cells(L[i].itv)
        BY <2>6, <3>1, <3>3
      <4>2. p[j][a] = w[a]
        BY <2>2, <2>3, <4>1 DEF Restores, k
      <4> QED BY <1>0, <3>3, <4>2
    <3> QED BY <3>2, <3>3
  <2>9. ASSUME NEW a \in Addr, NEW i \in k .. n, a \in Cells(N[i].itv),
               \A h \in k .. i - 1 : a \notin Cells(N[h].itv)
        PROVE  p[j][a] = N[i].odata[a]
    <3>1. a \in Cells(L[i].itv) /\ N[i] = L[i] /\ i \in k .. Len(L)
      BY <2>3, <2>4, <2>9
    <3>2. \A h \in k .. i - 1 : a \notin Cells(L[h].itv)
      BY <2>4, <2>5, <2>9
    <3>3. p[j][a] = L[i].odata[a]
      BY <2>2, <3>1, <3>2 DEF Restores, k
    <3> QED BY <3>1, <3>3
  <2> QED BY <2>1, <2>3, <2>8, <2>9 DEF Restores, k
<1>4. ASSUME NEW k \in q + 1 .. n, NEW i \in 1 .. k - 1
      PROVE  Shows(N[i]) \cap Cells(N[k].itv) = {}
  <2>1. k \in q + 1 .. Len(L) /\ k \in 1 .. n /\ i \in 1 .. n
    BY <1>0, <1>1
  <2>2. Shows(L[i]) \cap Cells(L[k].itv) = {}
    BY <2>1 DEF Undoes
  <2> QED BY <1>0, <2>1, <2>2
<1> QED BY <1>0, <1>1, <1>2, <1>3, <1>4 DEF Undoes

\* N is L with one item more, and others that show no more than in L and not in it.
Longer(N, L, n) ==
  /\ Len(L) = n /\ Len(N) = n + 1
  /\ \A k \in 1 .. n : N[k].itv = L[k].itv /\ N[k].odata = L[k].odata
                       /\ Shows(N[k]) \subseteq Shows(L[k]) \ Cells(N[n + 1].itv)

\* The item i keeps what w shows where x may differ from it.
Remembers(x, w, i) ==
  \A a \in Addr : IF a \in Cells(i.itv) THEN i.odata[a] = w[a] ELSE x[a] = w[a]

\* An item is added that keeps what was shown, and covers those that showed there.
LEMMA UndoesMore ==
  ASSUME NEW n \in Nat, NEW L, NEW N, Longer(N, L, n), NEW q \in Nat, NEW m \in Nat,
         NEW p, NEW o, Shorter(p, o, m), NEW x, Undoes(L, o[m + 1], p, q),
         Remembers(x, o[m + 1], N[n + 1])
  PROVE  Undoes(N, x, o, q)
<1> DEFINE w == o[m + 1]
<1>0. /\ Len(L) = n /\ Len(N) = n + 1 /\ Len(p) = m /\ Len(o) = m + 1
      /\ \A k \in 1 .. n : N[k].itv = L[k].itv /\ N[k].odata = L[k].odata
                           /\ Shows(N[k]) \subseteq Shows(L[k]) \ Cells(N[n + 1].itv)
      /\ \A j \in 1 .. m : o[j] = p[j]
      /\ o[m + 1] = w /\ Undoes(L, w, p, q)
      /\ \A a \in Addr : IF a \in Cells(N[n + 1].itv) THEN N[n + 1].odata[a] = w[a]
                         ELSE x[a] = w[a]
  BY DEF Longer, Shorter, Remembers
<1> HIDE DEF w
<1>1. n = q + m /\ n + 1 = q + (m + 1)
  BY <1>0 DEF Undoes
<1>2. ASSUME NEW k \in 1 .. n + 1, NEW old,
             \A a \in Addr :
               /\ (\A i \in k .. n : a \notin Cells(L[i].itv)) => old[a] = w[a]
               /\ \A i \in k .. n :
                    a \in Cells(L[i].itv) /\ (\A h \in k .. i - 1 : a \notin Cells(L[h].itv))
                      => old[a] = L[i].odata[a]
      PROVE  Restores(N, k, x, old)
  <2>1. \A i \in k .. n : i \in k .. n + 1 /\ i \in 1 .. n
    BY <1>2
  <2>2. \A i \in k .. n + 1 : i = n + 1 \/ i \in k .. n
    BY <1>2
  <2>3. \A i \in k .. n : \A h \in k .. i - 1 : h \in k .. n
    BY <1>2
  <2>4. n + 1 \in k .. n + 1 /\ k .. (n + 1) - 1 = k .. n
    BY <1>2
  <2>5. ASSUME NEW a \in Addr, \A i \in k .. n + 1 : a \notin Cells(N[i].itv)
        PROVE  old[a] = x[a]
    <3>1. \A i \in k .. n : a \notin Cells(L[i].itv)
      BY <1>0, <2>1, <2>5
    <3>2. old[a] = w[a]
      BY <1>2, <3>1
    <3>3. a \notin Cells(N[n + 1].itv)
      BY <2>4, <2>5
    <3> QED BY <1>0, <3>2, <3>3
  <2>6. ASSUME NEW a \in Addr, NEW i \in k .. n + 1, a \in Cells(N[i].itv),
               \A h \in k .. i - 1 : a \notin Cells(N[h].itv)
        PROVE  old[a] = N[i].odata[a]
    <3>1. CASE i = n + 1
      <4>1. \A h \in k .. n : a \notin Cells(L[h].itv)
        BY <1>0, <2>1, <2>4, <2>6, <3>1
      <4>2. old[a] = w[a]
        BY <1>2, <4>1
      <4> QED BY <1>0, <2>6, <3>1, <4>2
    <3>2. CASE i \in k .. n
      <4>1. a \in Cells(L[i].itv) /\ N[i].odata = L[i].odata
        BY <1>0, <2>1, <2>6, <3>2
      <4>2. \A h \in k .. i - 1 : a \notin Cells(L[h].itv)
        BY <1>0, <2>1, <2>3, <2>6, <3>2
      <4>3. old[a] = L[i].odata[a]
        BY <1>2, <3>2, <4>1, <4>2
      <4> QED BY <4>1, <4>3
    <3> QED BY <2>2, <3>1, <3>2
  <2>7. Len(N) = n + 1
    BY <1>0
  <2> QED BY <2>5, <2>6, <2>7 DEF Restores
<1>3. ASSUME NEW j \in 1 .. Len(o) PROVE Restores(N, q + j, x, o[j])
  <2>1. CASE j \in 1 .. m
    <3> DEFINE k == q + j
    <3>1. k \in 1 .. n + 1 /\ o[j] = p[j] /\ j \in 1 .. Len(p)
      BY <1>0, <1>1, <2>1
    <3>2. Restores(L, k, w, p[j])
      BY <1>0, <3>1 DEF Undoes
    <3> HIDE DEF k
    <3>3. Restores(N, k, x, p[j])
      BY <1>0, <1>2, <3>1, <3>2 DEF Restores
    <3> QED BY <3>1, <3>3 DEF k
  <2>2. CASE j = m + 1
    <3>1. q + j = n + 1 /\ o[j] = w
      BY <1>0, <1>1, <2>2
    <3>2. n + 1 .. n = {} /\ n + 1 \in 1 .. n + 1
      OBVIOUS
    <3>3. Restores(N, n + 1, x, w)
      BY <1>2, <3>2
    <3> QED BY <3>1, <3>3
  <2>3. j = m + 1 \/ j \in 1 .. m
    BY <1>0, <1>1
  <2> QED BY <2>1, <2>2, <2>3
<1>4. ASSUME NEW k \in q + 1 .. n + 1, NEW i \in 1 .. k - 1
      PROVE  Shows(N[i]) \cap Cells(N[k].itv) = {}
  <2>1. i \in 1 .. n
    BY <1>1
  <2>2. CASE k = n + 1
    BY <1>0, <2>1, <2>2
  <2>3. CASE k # n + 1
    <3>1. k \in 1 .. n /\ k \in q + 1 .. Len(L)
      BY <1>0, <1>1, <2>3
    <3>2. Shows(L[i]) \cap Cells(L[k].itv) = {}
      BY <3>1 DEF Undoes
    <3> QED BY <1>0, <2>1, <3>1, <3>2
  <2> QED BY <2>2, <2>3
<1> QED BY <1>0, <1>1, <1>3, <1>4 DEF Undoes

\* N is L without any nodes.
Emptied(N, L, n) ==
  /\ Len(L) = n /\ Len(N) = n
  /\ \A k \in 1 .. n : N[k].itv = L[k].itv /\ N[k].odata = L[k].odata /\ Shows(N[k]) = {}

\* The items lose their nodes.
LEMMA UndoesSame ==
  ASSUME NEW n \in Nat, NEW L, NEW N, Emptied(N, L, n),
         NEW q \in Nat, NEW m \in Nat, NEW p, Len(p) = m, NEW w, Undoes(L, w, p, q)
  PROVE  Undoes(N, w, p, q)
<1>0. /\ Len(L) = n /\ Len(N) = n
      /\ \A k \in 1 .. n : N[k].itv = L[k].itv /\ N[k].odata = L[k].odata /\ Shows(N[k]) = {}
  BY DEF Emptied
<1>1. n = q + m
  BY <1>0 DEF Undoes
<1>2. ASSUME NEW j \in 1 .. Len(p) PROVE Restores(N, q + j, w, p[j])
  <2> DEFINE k == q + j
  <2>1. k \in 1 .. n /\ Restores(L, k, w, p[j])
    BY <1>1 DEF Undoes
  <2> HIDE DEF k
  <2>2. \A i \in k .. n : i \in 1 .. n /\ \A h \in k .. i - 1 : h \in 1 .. n
    BY <2>1
  <2>3. Restores(N, k, w, p[j])
    BY <1>0, <2>1, <2>2 DEF Restores
  <2> QED BY <2>3 DEF k
<1>3. ASSUME NEW k \in q + 1 .. n, NEW i \in 1 .. k - 1
      PROVE  Shows(N[i]) \cap Cells(N[k].itv) = {}
  <2>1. i \in 1 .. n
    BY <1>1
  <2> QED BY <1>0, <2>1
<1> QED BY <1>0, <1>1, <1>2, <1>3 DEF Undoes

\* What one layer shows.
LEMMA SeenAlone ==
  ASSUME NEW ls, Stack(ls), Len(ls) = 1, NEW f
  PROVE  /\ \A a \in Addr : Seen(ls, f)[a] = IF a \in DOMAIN Overlay(ls[1])
                                               THEN Overlay(ls[1])[a] ELSE f[a]
         /\ 1 \in DOMAIN ls /\ Layer(ls[1])
<1>1. DOMAIN ls = {1}
  BY DEF Stack
<1>2. Highest({1}) = 1
  BY DEF Highest
<1>3. ASSUME NEW a \in Addr
      PROVE  Having(ls, a) = IF a \in DOMAIN Overlay(ls[1]) THEN {1} ELSE {}
  BY <1>1 DEF Having
<1>4. 1 \in DOMAIN ls
  BY <1>1
<1> DEFINE one == 1
<1>5. one \in DOMAIN ls
  BY <1>4
<1> HIDE DEF one
<1>6. Layer(ls[one])
  BY <1>5, LayerOf
<1> QED BY <1>2, <1>3, <1>4, <1>6 DEF Seen, one

\* What is shown after a step.
LEMMA ViewNext ==
  ASSUME Stack(layers')
  PROVE  View' = Seen(layers', file')
<1> DEFINE ls == layers'
           f == file'
<1>1. View' = [a \in Addr |-> ReadLayers(ls, [addr |-> a, size |-> 1], f)[a]]
  BY DEF View, ReadAt
<1>2. Stack(ls)
  OBVIOUS
<1> HIDE DEF ls, f
<1>3. [a \in Addr |-> ReadLayers(ls, [addr |-> a, size |-> 1], f)[a]] = Seen(ls, f)
  BY <1>2, ReadBytes
<1> QED BY <1>1, <1>3 DEF ls, f

\* The layers are sound after a step, and the views are still numbers of bytes.
LEMMA Soundly ==
  ASSUME Base, Remembered, [CarefulNext]_vars
  PROVE  /\ Stack(layers) /\ Stack(layers') /\ layers \in Seq(Seq(GoodItems))
         /\ View = Seen(layers, file) /\ View' = Seen(layers', file')
         /\ View \in [Addr -> RealByte] /\ View' \in [Addr -> RealByte]
         /\ past \in Seq([Addr -> RealByte]) /\ Len(past) \in Nat
         /\ past' \in Seq([Addr -> RealByte])
<1>1. Base' /\ Remembered'
  BY CarefulStep, PastStep
<1>2. Stack(layers) /\ Stack(layers') /\ file' \in [Addr -> RealByte]
  BY <1>1 DEF Base
<1> DEFINE ls == layers'
           f == file'
<1>3. Seen(ls, f) \in [Addr -> RealByte]
  <2>1. Stack(ls) /\ f \in [Addr -> RealByte]
    BY <1>2
  <2> HIDE DEF ls, f
  <2> QED BY <2>1, SeenBytes
<1>4. layers \in Seq(Seq(GoodItems))
  BY <1>2 DEF Stack
<1>5. past \in Seq([Addr -> RealByte]) /\ Len(past) \in Nat /\ past' \in Seq([Addr -> RealByte])
  BY <1>1 DEF Remembered
<1> QED BY <1>2, <1>3, <1>4, <1>5, ViewIs, ViewNext

-----------------------------------------------------------------------------
(* Commits do not change what is read.                                      *)

\* An address that lost its bytes to the file, where they are what was seen, and one
\* where neither the layers nor the file changed.
LEMMA SeenSame ==
  ASSUME NEW ls, NEW ks, NEW f, NEW g, NEW a \in Addr,
         \/ Having(ks, a) = {} /\ g[a] = Seen(ls, f)[a]
         \/ /\ Having(ks, a) = Having(ls, a) /\ g[a] = f[a]
            /\ Having(ls, a) # {} =>
                 Overlay(ks[Highest(Having(ls, a))])[a] = Overlay(ls[Highest(Having(ls, a))])[a]
  PROVE  Seen(ks, g)[a] = Seen(ls, f)[a]
<1>1. CASE Having(ks, a) = {} /\ g[a] = Seen(ls, f)[a]
  BY <1>1 DEF Seen
<1>2. CASE Having(ks, a) # {}
  BY <1>2 DEF Seen
<1>3. CASE Having(ks, a) = {} /\ g[a] = f[a] /\ Having(ls, a) = {}
  BY <1>3 DEF Seen
<1> QED BY <1>1, <1>2, <1>3

\* What goes to the file from all layers is still seen.
LEMMA SettleShows ==
  ASSUME Base, Stack(layers'), NEW lo, NEW hi, Abstract!Settle(lo .. hi)
  PROVE  View' = View
<1> DEFINE ls == layers
           ks == layers'
           f == file
           g == file'
           A == lo .. hi
<1>1. /\ Over(ks) = Abstract!Drop(Over(ls), A)
      /\ g = [a \in Addr |-> IF a \in A THEN Seen(ls, f)[a] ELSE f[a]]
  BY ViewIs DEF Abstract!Settle, Abstract!Addrs, Addr, Over
<1>2. View' = Seen(ks, g) /\ View = Seen(ls, f) /\ Stack(ls)
  BY ViewIs, ViewNext DEF Base
<1> HIDE DEF ls, ks, f, g, A
<1>3. DOMAIN ks = DOMAIN ls
      /\ \A n \in DOMAIN ls : Overlay(ks[n]) = Abstract!Without(Overlay(ls[n]), A)
  <2>1. /\ DOMAIN Over(ks) = DOMAIN ks /\ DOMAIN Over(ls) = DOMAIN ls
        /\ \A n \in DOMAIN ks : Over(ks)[n] = Overlay(ks[n])
        /\ \A n \in DOMAIN ls : Over(ls)[n] = Overlay(ls[n])
    BY DEF Over
  <2>2. /\ DOMAIN Abstract!Drop(Over(ls), A) = DOMAIN Over(ls)
        /\ \A n \in DOMAIN Over(ls) :
             Abstract!Drop(Over(ls), A)[n] = Abstract!Without(Over(ls)[n], A)
    BY DEF Abstract!Drop
  <2> QED BY <1>1, <2>1, <2>2
<1>4. ASSUME NEW n \in DOMAIN ls
      PROVE  /\ DOMAIN Overlay(ks[n]) = DOMAIN Overlay(ls[n]) \ A
             /\ \A a \in DOMAIN Overlay(ls[n]) \ A : Overlay(ks[n])[a] = Overlay(ls[n])[a]
  BY <1>3 DEF Abstract!Without
<1>5. ASSUME NEW a \in Addr PROVE Seen(ks, g)[a] = Seen(ls, f)[a]
  <2>1. CASE a \in A
    <3>1. Having(ks, a) = {}
      BY <1>3, <1>4, <2>1 DEF Having
    <3> QED BY <1>1, <2>1, <3>1, SeenSame
  <2>2. CASE a \notin A
    <3>1. Having(ks, a) = Having(ls, a) /\ g[a] = f[a]
      BY <1>1, <1>3, <1>4, <2>2 DEF Having
    <3>2. ASSUME Having(ls, a) # {}
          PROVE  Overlay(ks[Highest(Having(ls, a))])[a] = Overlay(ls[Highest(Having(ls, a))])[a]
      BY <1>2, <1>4, <2>2, <3>2, HavingIs
    <3> QED BY <3>1, <3>2, SeenSame
  <2> QED BY <2>1, <2>2
<1>6. Seen(ks, g) = Seen(ls, f)
  <2>1. /\ Seen(ks, g) = [a \in Addr |-> Seen(ks, g)[a]]
        /\ Seen(ls, f) = [a \in Addr |-> Seen(ls, f)[a]]
    BY DEF Seen
  <2> QED BY <1>5, <2>1
<1> QED BY <1>2, <1>6

\* What goes to the file from the lowest layers is still seen.
LEMMA SettleLayersShows ==
  ASSUME Base, Stack(layers'), NEW n \in 0 .. Len(layers), Abstract!SettleLayers(n)
  PROVE  View' = View
<1> DEFINE ls == layers
           low == SubSeq(ls, 1, n)
           ks == layers'
           f == file
           g == file'
<1>1. /\ Over(ks) = [m \in DOMAIN Over(ls) |-> IF m <= n THEN Abstract!Empty ELSE Over(ls)[m]]
      /\ g = Seen(low, f)
  BY ShownIs DEF Abstract!SettleLayers, Over, Base
<1>2. View' = Seen(ks, g) /\ View = Seen(ls, f) /\ Stack(ls)
  BY ViewIs, ViewNext DEF Base
<1>3. /\ DOMAIN ls = 1 .. Len(ls) /\ Len(ls) \in Nat /\ n \in 0 .. Len(ls)
      /\ DOMAIN low = 1 .. n /\ \A m \in 1 .. n : low[m] = ls[m]
  BY <1>2 DEF Stack
<1> HIDE DEF ls, low, ks, f, g
<1>4. DOMAIN ks = DOMAIN ls
      /\ \A m \in DOMAIN ls : Overlay(ks[m]) = IF m <= n THEN Abstract!Empty ELSE Overlay(ls[m])
  <2>1. /\ DOMAIN Over(ks) = DOMAIN ks /\ DOMAIN Over(ls) = DOMAIN ls
        /\ \A m \in DOMAIN ks : Over(ks)[m] = Overlay(ks[m])
        /\ \A m \in DOMAIN ls : Over(ls)[m] = Overlay(ls[m])
    BY DEF Over
  <2> QED BY <1>1, <2>1
<1>5. ASSUME NEW a \in Addr PROVE Seen(ks, g)[a] = Seen(ls, f)[a]
  <2> DEFINE H == Having(ls, a)
             U == Having(ks, a)
  <2>1. H \in SUBSET (1 .. Len(ls)) /\ U = {m \in H : n < m}
    <3>1. DOMAIN Abstract!Empty = {}
      BY DEF Abstract!Empty
    <3>2. \A m \in DOMAIN ls : ~ (m <= n) <=> n < m
      BY <1>3
    <3> QED BY <1>3, <1>4, <3>1, <3>2 DEF Having
  <2>2. CASE U = {}
    <3>1. Having(low, a) = H
      BY <1>3, <2>1, <2>2 DEF Having
    <3>2. H # {} => Overlay(low[Highest(H)])[a] = Overlay(ls[Highest(H)])[a]
      <4>1. H # {} => Highest(H) \in H
        BY <1>3, <2>1, HighestIs
      <4> QED BY <1>3, <2>1, <2>2, <4>1
    <3>3. Seen(low, f)[a] = Seen(ls, f)[a]
      BY <3>1, <3>2 DEF Seen
    <3>4. Seen(ks, g)[a] = g[a] /\ g[a] = Seen(low, f)[a]
      BY <1>1, <2>2 DEF Seen
    <3> QED BY <3>3, <3>4
  <2>3. CASE U # {}
    <3>1. Highest(H) \in H /\ (\A j \in H : j <= Highest(H)) /\ H # {}
      BY <1>3, <2>1, <2>3, HighestIs
    <3>2. Highest(U) \in U /\ \A j \in U : j <= Highest(U)
      BY <1>3, <2>1, <2>3, HighestIs
    <3>3. Highest(H) = Highest(U)
      <4> DEFINE h == Highest(H)
                 u == Highest(U)
      <4>1. h \in 1 .. Len(ls) /\ u \in 1 .. Len(ls) /\ u <= h /\ n < u /\ h \in H
        BY <2>1, <3>1, <3>2
      <4> HIDE DEF h, u, H, U
      <4>2. h \in U
        BY <1>3, <2>1, <4>1
      <4>3. h <= u
        BY <3>2, <4>2 DEF h, u
      <4> QED BY <1>3, <4>1, <4>3 DEF h, u
    <3>4. Overlay(ks[Highest(U)]) = Overlay(ls[Highest(H)])
      BY <1>3, <1>4, <2>1, <3>2, <3>3
    <3> QED BY <2>3, <3>1, <3>4 DEF Seen
  <2> QED BY <2>2, <2>3
<1>6. Seen(ks, g) = Seen(ls, f)
  <2>1. /\ Seen(ks, g) = [a \in Addr |-> Seen(ks, g)[a]]
        /\ Seen(ls, f) = [a \in Addr |-> Seen(ls, f)[a]]
    BY DEF Seen
  <2> QED BY <1>5, <2>1
<1> QED BY <1>2, <1>6

(* A commit never changes what is read.  A full one sends down the layers that *)
(* it reaches; one of a range, careful as in CarefulSpec, sends down the bytes *)
(* of the range and takes them from all layers, or finds none and does nothing. *)
THEOREM CommitsAreExact ==
  CarefulSpec =>
    [][/\ \A many \in BOOLEAN :
            Writable /\ CommitAll(many) => Abstract!SettleLayers(Reach(many)) /\ View' = View
       /\ \A r \in Ranges : \A many \in BOOLEAN :
            Writable /\ CutsClean(Closed(r[1], r[2])) /\ OneLayer(Closed(r[1], r[2]), many)
              /\ CommitRange(r[1], r[2], many) =>
                /\ View' = View
                /\ IF Holding(layers, Closed(r[1], r[2])) \cap 1 .. Reach(many) = {}
                   THEN UNCHANGED <<file, layers, writes>> ELSE Abstract!Settle(r[1] .. r[2])]_vars
<1>1. ASSUME Base, NEW many \in BOOLEAN, Writable, CommitAll(many)
      PROVE  Abstract!SettleLayers(Reach(many)) /\ View' = View
  <2>1. Base' /\ Abstract!SettleLayers(Reach(many)) /\ Reach(many) \in 0 .. Len(layers)
    BY <1>1, SettleLayersStep
  <2> QED BY <1>1, <2>1, SettleLayersShows DEF Base
<1>2. ASSUME Base, NEW r \in Ranges, NEW many \in BOOLEAN, Writable,
             CutsClean(Closed(r[1], r[2])), OneLayer(Closed(r[1], r[2]), many),
             CommitRange(r[1], r[2], many)
      PROVE  /\ View' = View
             /\ IF Holding(layers, Closed(r[1], r[2])) \cap 1 .. Reach(many) = {}
                THEN UNCHANGED <<file, layers, writes>> ELSE Abstract!Settle(r[1] .. r[2])
  <2>1. /\ Base'
        /\ IF Holding(layers, Closed(r[1], r[2])) \cap 1 .. Reach(many) = {}
           THEN UNCHANGED <<file, layers, writes>> ELSE Abstract!Settle(r[1] .. r[2])
    BY <1>2, SettleStep
  <2>2. CASE UNCHANGED <<file, layers, writes>>
    BY <1>2, <2>1, <2>2 DEF View, ReadAt
  <2>3. CASE Abstract!Settle(r[1] .. r[2])
    BY <1>2, <2>1, <2>3, SettleShows DEF Base
  <2> QED BY <2>1, <2>2, <2>3
<1>3. Base /\ [CarefulNext]_vars =>
        [/\ \A many \in BOOLEAN :
              Writable /\ CommitAll(many) => Abstract!SettleLayers(Reach(many)) /\ View' = View
         /\ \A r \in Ranges : \A many \in BOOLEAN :
              Writable /\ CutsClean(Closed(r[1], r[2])) /\ OneLayer(Closed(r[1], r[2]), many)
                /\ CommitRange(r[1], r[2], many) =>
                  /\ View' = View
                  /\ IF Holding(layers, Closed(r[1], r[2])) \cap 1 .. Reach(many) = {}
                     THEN UNCHANGED <<file, layers, writes>> ELSE Abstract!Settle(r[1] .. r[2])]_vars
  BY <1>1, <1>2
<1> QED BY <1>3, Always, PTL DEF CarefulSpec

-----------------------------------------------------------------------------
(* Each undo.                                                               *)

\* An undo gives the last view back.
LEMMA UndoStep ==
  ASSUME Base, Remembered, PastKept, Writable, past # <<>>, Undo
  PROVE  View' = Last(past) /\ PastKept'
<1> DEFINE L == layers[1]
           n == Len(L) - 1
           c == L[n + 1]
           N == Front(L)
           m == Len(past) - 1
           q == Len(L) - Len(past)
           o == past'
           x == View'
           w == View
<1>1. /\ Len(layers) = 1 /\ Len(past) <= Len(L) /\ Undoes(L, w, past, q)
  BY DEF PastKept
<1>2. /\ Stack(layers) /\ Stack(layers') /\ w = Seen(layers, file) /\ x = Seen(layers', file')
      /\ w \in [Addr -> RealByte] /\ x \in [Addr -> RealByte]
      /\ past \in Seq([Addr -> RealByte]) /\ Len(past) \in Nat \ {0}
  <2>1. [CarefulNext]_vars
    BY DEF CarefulNext
  <2>2. past \in Seq([Addr -> RealByte]) /\ Len(past) \in Nat \ {0}
    BY DEF Remembered
  <2> QED BY <2>1, <2>2, Soundly
<1>3. Layer(L) /\ L \in Seq(GoodItems) /\ 1 \in DOMAIN layers /\ Len(L) \in Nat
      /\ \A a \in Addr : w[a] = IF a \in DOMAIN Overlay(L) THEN Overlay(L)[a] ELSE file[a]
  <2>1. Layer(L) /\ 1 \in DOMAIN layers
        /\ \A a \in Addr : Seen(layers, file)[a]
                             = IF a \in DOMAIN Overlay(L) THEN Overlay(L)[a] ELSE file[a]
    BY <1>1, <1>2, SeenAlone
  <2>2. L \in Seq(GoodItems)
    BY <2>1 DEF Layer
  <2> QED BY <1>2, <2>1, <2>2
<1>4. n \in Nat /\ m \in Nat /\ q \in Nat /\ Len(L) = n + 1 /\ Len(past) = m + 1
      /\ Last(layers) = L /\ Last(L) = c /\ L # <<>> /\ n = q + m
  <2>1. Len(L) \in Nat \ {0} /\ Len(past) \in Nat \ {0} /\ Len(past) <= Len(L)
    BY <1>1, <1>2, <1>3
  <2>2. Len(L) = n + 1
    BY <2>1
  <2>3. Last(L) = c /\ Last(layers) = L
    BY <1>1, <2>2, Zenon DEF Last
  <2>4. L # <<>>
    BY <2>1
  <2> HIDE DEF L, c
  <2> QED BY <2>1, <2>2, <2>3, <2>4
<1>5. /\ layers' = [layers EXCEPT ![1] = N]
      /\ file' = [a \in Addr |-> IF Writable /\ a \in Cells(c.itv) THEN ByteOf(c.odata, a)
                                   ELSE file[a]]
      /\ o = Front(past)
  <2>1. /\ layers' = [layers EXCEPT ![Len(layers)] = Front(@)]
        /\ file' = [a \in Addr |-> IF Writable /\ a \in Cells(Last(Last(layers)).itv)
                                     THEN ByteOf(Last(Last(layers)).odata, a) ELSE file[a]]
        /\ o = IF past = <<>> THEN past ELSE Front(past)
    BY DEF Undo
  <2>2. Last(Last(layers)) = c
    BY <1>4
  <2> HIDE DEF c
  <2> QED BY <1>1, <2>1, <2>2
<1>6. Layer(N) /\ Good(c) /\ Shows(c) \subseteq Cells(c.itv)
      /\ Overlay(N) = Abstract!Without(Overlay(L), Shows(c))
  <2> HIDE DEF L
  <2>1. /\ Layer(N) /\ Good(Last(L)) /\ Shows(Last(L)) \subseteq Cells(Last(L).itv)
        /\ Overlay(N) = Abstract!Without(Overlay(L), Shows(Last(L)))
    <3> HIDE DEF N
    <3> QED BY <1>3, <1>4, FrontIs DEF N
  <2> QED BY <1>4, <2>1
<1>7. Len(N) = n /\ \A k \in 1 .. n : N[k] = L[k] /\ k \in DOMAIN N
  <2>1. N = SubSeq(L, 1, n)
    BY DEF Front
  <2> HIDE DEF L, n
  <2> QED BY <1>3, <1>4, <2>1
<1>8. Len(o) = m /\ (\A j \in 1 .. m : o[j] = past[j]) /\ Last(past) = past[m + 1]
      /\ Last(past) \in [Addr -> RealByte]
  <2>1. o = SubSeq(past, 1, m) /\ Last(past) = past[Len(past)]
    BY <1>5 DEF Front, Last
  <2> HIDE DEF o, m
  <2>2. Len(o) = m /\ \A j \in 1 .. m : o[j] = past[j]
    BY <1>2, <1>4, <2>1
  <2>3. past[Len(past)] \in [Addr -> RealByte]
    BY <1>2
  <2> QED BY <1>4, <2>1, <2>2, <2>3
<1>9. layers'[1] = N /\ Len(layers') = 1
  <2>1. layers \in Seq(Seq(GoodItems)) /\ N \in Seq(GoodItems)
    BY <1>2, <1>6 DEF Stack, Layer
  <2> HIDE DEF N
  <2> QED BY <1>1, <1>3, <1>5, <2>1
<1>10. \A a \in Addr : x[a] = IF a \in DOMAIN Overlay(N) THEN Overlay(N)[a] ELSE file'[a]
  <2> DEFINE ls == layers'
             f == file'
  <2>1. Stack(ls) /\ Len(ls) = 1 /\ ls[1] = N /\ x = Seen(ls, f)
    BY <1>2, <1>9
  <2> HIDE DEF ls, f, N, x
  <2>2. \A a \in Addr : Seen(ls, f)[a] = IF a \in DOMAIN Overlay(ls[1])
                                           THEN Overlay(ls[1])[a] ELSE f[a]
    BY <2>1, SeenAlone
  <2> QED BY <2>1, <2>2 DEF f
<1>11. ASSUME NEW a \in Addr
       PROVE  x[a] = IF a \in Cells(c.itv) THEN c.odata[a] ELSE w[a]
  <2>1. a \in DOMAIN Overlay(N) <=> a \in DOMAIN Overlay(L) /\ a \notin Shows(c)
    BY <1>6 DEF Abstract!Without
  <2>2. a \in DOMAIN Overlay(N) => Overlay(N)[a] = Overlay(L)[a]
    BY <1>6 DEF Abstract!Without
  <2>3. CASE a \in Cells(c.itv)
    <3>1. \A i \in 1 .. n : Shows(L[i]) \cap Cells(c.itv) = {}
      <4>1. n + 1 \in q + 1 .. Len(L) /\ 1 .. (n + 1) - 1 = 1 .. n
        BY <1>4
      <4>2. \A k \in q + 1 .. Len(L) : \A i \in 1 .. k - 1 : Shows(L[i]) \cap Cells(L[k].itv) = {}
        BY <1>1 DEF Undoes
      <4> HIDE DEF L, n, q
      <4> QED BY <4>1, <4>2
    <3>2. a \notin DOMAIN Overlay(N)
      <4>1. \A i \in DOMAIN N : i \in 1 .. n
        <5>1. DOMAIN N = 1 .. Len(N)
          BY <1>6 DEF Layer
        <5> QED BY <1>7, <5>1
      <4>2. \A i \in DOMAIN N : a \notin Shows(N[i])
        BY <1>7, <2>3, <3>1, <4>1
      <4> QED BY <1>6, <4>2, OverlayIs
    <3>3. ByteOf(c.odata, a) = c.odata[a]
      <4>1. c.odata \in [Cells(c.itv) -> RealByte]
        BY <1>6, GoodParts
      <4> QED BY <2>3, <4>1 DEF ByteOf
    <3> HIDE DEF c, N, x, w
    <3> QED BY <1>5, <1>10, <2>3, <3>2, <3>3
  <2>4. CASE a \notin Cells(c.itv)
    <3>1. a \notin Shows(c)
      BY <1>6, <2>4
    <3> HIDE DEF c, N, x, w
    <3>2. file'[a] = file[a]
      BY <1>5, <2>4
    <3> QED BY <1>3, <1>10, <2>1, <2>2, <2>4, <3>1, <3>2
  <2> QED BY <2>3, <2>4
<1>12. Undoes(N, x, o, q) /\ \A a \in Addr : past[m + 1][a] = x[a]
  <2> HIDE DEF N, x, o, q, m, n, L, w
  <2>1. PutBack(x, w, L[n + 1])
    BY <1>11 DEF c, PutBack
  <2>2. Shorter(N, L, n) /\ Shorter(o, past, m)
    BY <1>4, <1>7, <1>8 DEF Shorter
  <2>3. n \in Nat /\ m \in Nat /\ q \in Nat /\ Undoes(L, w, past, q)
    BY <1>1, <1>4
  <2> HIDE DEF c
  <2> QED BY <2>1, <2>2, <2>3, UndoesLess
<1>13. x = Last(past)
  <2> HIDE DEF x, m
  <2> QED BY <1>2, <1>8, <1>12
<1>14. PastKept'
  <2>1. Len(layers'[1]) - Len(past') = q /\ Len(past') <= Len(layers'[1])
    <3> HIDE DEF N, o
    <3>1. Len(N) - Len(o) = q /\ Len(o) <= Len(N)
      BY <1>4, <1>7, <1>8
    <3> QED BY <1>9, <3>1 DEF o
  <2>2. Undoes(layers'[1], View', past', Len(layers'[1]) - Len(past'))
    BY <1>9, <1>12, <2>1
  <2> QED BY <1>9, <2>1, <2>2 DEF PastKept
<1> QED BY <1>13, <1>14

\* A write that makes one item can be undone, and so can those before it.
LEMMA UndoableStep ==
  ASSUME Base, Remembered, PastKept, Writable, NEW addr \in Addr, NEW len \in Sizes,
         layers # <<>>, ClearOfTop(addr, len), HeadsKept(addr, len), CachedWrite(addr, len),
         Undoable(addr, len)
  PROVE  PastKept'
<1> DEFINE v == [addr |-> addr, size |-> len]
           L == layers[1]
           n == Len(L)
           d == Buf(addr, v)
           C == [k \in DOMAIN L |-> Cut(L[k], v)]
           e == NewItem(v, d, ReadAt(v))
           N == WriteIn(L, v, d)
           w == View
           x == View'
           o == past'
           m == Len(past)
           q == n - m
<1>1. /\ Len(layers) = 1 /\ ~ PastEnd(addr, len) /\ writes < MaxWrites
      /\ \A k \in DOMAIN L : ~ Nested(L[k], v)
  BY Zenon DEF Undoable, Last, CachedWrite
<1>2. /\ Stack(layers) /\ Stack(layers') /\ layers \in Seq(Seq(GoodItems))
      /\ w = Seen(layers, file) /\ x = Seen(layers', file')
      /\ w \in [Addr -> RealByte] /\ x \in [Addr -> RealByte]
      /\ past \in Seq([Addr -> RealByte]) /\ m \in Nat
  <2>1. [CarefulNext]_vars
    BY DEF CarefulNext
  <2> QED BY <2>1, Soundly
<1>3. /\ Layer(L) /\ L \in Seq(GoodItems) /\ n \in Nat /\ DOMAIN L = 1 .. n
      /\ \A a \in Addr : w[a] = IF a \in DOMAIN Overlay(L) THEN Overlay(L)[a] ELSE file[a]
  <2>1. Layer(L) /\ \A a \in Addr : Seen(layers, file)[a]
                          = IF a \in DOMAIN Overlay(L) THEN Overlay(L)[a] ELSE file[a]
    BY <1>1, <1>2, SeenAlone
  <2>2. L \in Seq(GoodItems)
    BY <2>1 DEF Layer
  <2> QED BY <1>2, <2>1, <2>2
<1>4. layers' = [layers EXCEPT ![1] = N] /\ file' = file /\ o = Append(past, w)
  <2>1. layers' = [layers EXCEPT ![Len(layers)] = WriteParts(@, addr, len)] /\ file' = file
        /\ o = IF Undoable(addr, len) THEN Append(past, View) ELSE <<>>
    BY DEF CachedWrite
  <2>2. WriteParts(L, addr, len) = N
    BY <1>1 DEF WriteParts
  <2> QED BY <1>1, <2>1, <2>2
<1>5. /\ Proper(v) /\ d \in [Cells(v) -> RealByte] /\ ReadAt(v) \in [Cells(v) -> RealByte]
      /\ Cells(v) \subseteq Addr
      /\ \A a \in Cells(v) : ReadAt(v)[a] = w[a]
  <2>1. Proper(v)
    BY <1>1, PartsProper
  <2> HIDE DEF v
  <2> QED BY <1>1, <2>1, ProperSpan, ReadReal, BufIs
<1>6. N = C \o <<e>>
  <2>1. {k \in DOMAIN L : Nested(L[k], v)} = {}
    BY <1>1
  <2>2. N = C \o <<>> \o <<e>>
    BY <2>1 DEF WriteIn
  <2>3. C \o <<>> = C
    <3>1. C \in Seq({C[k] : k \in 1 .. n})
      <4>1. C \in [1 .. n -> {C[k] : k \in 1 .. n}]
        BY <1>3
      <4> HIDE DEF C
      <4> QED BY <1>3, <4>1
    <3> HIDE DEF C
    <3> QED BY <3>1
  <2> HIDE DEF C, e, N
  <2> QED BY <2>2, <2>3
<1>7. ASSUME NEW k \in 1 .. n
      PROVE  C[k] \in GoodItems /\ C[k].itv = L[k].itv /\ C[k].odata = L[k].odata
             /\ Shows(C[k]) \subseteq Shows(L[k]) \ Cells(v)
  <2>1. Good(L[k]) /\ C[k] = Cut(L[k], v)
    BY <1>3, GoodOf
  <2> HIDE DEF C, L, v
  <2> QED BY <1>5, <2>1, CutIs, GoodIn
<1>8. Good(e) /\ e.itv = v /\ e.odata = ReadAt(v)
  <2> DEFINE z == ReadAt(v)
  <2> HIDE DEF v, d, z
  <2> QED BY <1>5, NewItemIs DEF z
<1>9. /\ N \in Seq(GoodItems) /\ Len(N) = n + 1 /\ N[n + 1] = e
      /\ \A k \in 1 .. n : N[k] = C[k]
  <2>1. C \in Seq(GoodItems) /\ Len(C) = n
    <3>1. C = [k \in 1 .. n |-> C[k]]
      BY <1>3
    <3>2. C \in [1 .. n -> GoodItems]
      <4> HIDE DEF C
      <4> QED BY <1>7, <3>1
    <3> HIDE DEF C, n
    <3> QED BY <1>3, <3>2, AsSeq
  <2>2. e \in GoodItems
    <3> HIDE DEF e
    <3> QED BY <1>8, GoodIn
  <2> HIDE DEF C, e, N, n
  <2> QED BY <1>3, <1>6, <2>1, <2>2
<1>10. Layer(N) /\ Overlay(N) = Abstract!On(d, Overlay(L))
  <2>1. \A k \in DOMAIN L : ~ AtTop(L[k], v)
    <3>1. v \in Parts(addr, len)
      BY <1>1 DEF Parts
    <3>2. \A i \in ReachInto(v) : End(i.tree) = 0 => End(v) = 0
      BY <3>1 DEF ClearOfTop
    <3>3. Last(layers) = L
      BY <1>1 DEF Last
    <3> HIDE DEF v, L
    <3> QED BY <3>2, <3>3 DEF AtTop, ReachInto, ToSet
  <2>2. \A k \in DOMAIN L : Nested(L[k], v) => L[k].tree.addr = L[k].itv.addr
    BY <1>1
  <2> HIDE DEF v, L, N, d
  <2> QED BY <1>3, <1>5, <2>1, <2>2, WriteIs DEF N
<1>11. layers'[1] = N /\ Len(layers') = 1
  <2>1. 1 \in DOMAIN layers
    BY <1>1, <1>2
  <2> HIDE DEF N
  <2> QED BY <1>1, <1>2, <1>4, <1>9, <2>1
<1>12. \A a \in Addr : x[a] = IF a \in DOMAIN Overlay(N) THEN Overlay(N)[a] ELSE file[a]
  <2> DEFINE ls == layers'
             f == file'
  <2>1. Stack(ls) /\ Len(ls) = 1 /\ ls[1] = N /\ x = Seen(ls, f) /\ f = file
    BY <1>2, <1>4, <1>11
  <2> HIDE DEF ls, f, N, x
  <2>2. \A a \in Addr : Seen(ls, f)[a] = IF a \in DOMAIN Overlay(ls[1])
                                           THEN Overlay(ls[1])[a] ELSE f[a]
    BY <2>1, SeenAlone
  <2> QED BY <2>1, <2>2
<1>13. ASSUME NEW a \in Addr, a \notin Cells(v) PROVE x[a] = w[a]
  <2>1. /\ a \in DOMAIN Overlay(N) <=> a \in DOMAIN Overlay(L)
        /\ a \in DOMAIN Overlay(L) => Overlay(N)[a] = Overlay(L)[a]
    <3> HIDE DEF v, d, N, L
    <3> QED BY <1>5, <1>10, <1>13 DEF Abstract!On
  <2> HIDE DEF N, L, x, w
  <2> QED BY <1>3, <1>12, <2>1
<1>14. n = q + m /\ q \in Nat /\ Undoes(L, w, past, q)
  <2>1. CASE past # <<>>
    <3>1. m <= n /\ Undoes(L, w, past, q)
      BY <2>1 DEF PastKept
    <3> HIDE DEF n, m
    <3> QED BY <1>2, <1>3, <3>1
  <2>2. CASE past = <<>>
    <3>1. m = 0 /\ q = n
      BY <1>3, <2>2
    <3> HIDE DEF n, m, q
    <3>2. n + 1 .. n = {} /\ 1 .. m = {} /\ n = q + m
      BY <1>3, <3>1
    <3> QED BY <1>3, <3>1, <3>2 DEF Undoes, n, m
  <2> QED BY <2>1, <2>2
<1>15. Longer(N, L, n)
  <2> HIDE DEF N, C, e, v, n
  <2> QED BY <1>7, <1>8, <1>9 DEF Longer, n
<1>16. Shorter(past, o, m) /\ o[m + 1] = w /\ Len(o) = m + 1
  <2> DEFINE S == [Addr -> RealByte]
  <2> HIDE DEF S, w, o
  <2>1. /\ Len(o) = m + 1 /\ o[m + 1] = w /\ \A j \in 1 .. m : o[j] = past[j]
    BY <1>2, <1>4, AppendProperties DEF S
  <2> QED BY <2>1 DEF Shorter
<1>17. Remembers(x, w, N[n + 1])
  <2> HIDE DEF N, e, v, n, x, w
  <2> QED BY <1>5, <1>8, <1>9, <1>13 DEF Remembers
<1>18. Undoes(N, x, o, q)
  <2> HIDE DEF N, L, n, x, o, m, q, w
  <2>1. n \in Nat /\ m \in Nat /\ q \in Nat /\ Undoes(L, o[m + 1], past, q)
        /\ Remembers(x, o[m + 1], N[n + 1])
    BY <1>2, <1>3, <1>14, <1>16, <1>17
  <2> QED BY <1>15, <1>16, <2>1, UndoesMore
<1>19. Len(layers'[1]) - Len(past') = q /\ Len(past') <= Len(layers'[1])
  <2> HIDE DEF N, o, n, m, q
  <2>1. Len(N) - Len(o) = q /\ Len(o) <= Len(N)
    BY <1>2, <1>3, <1>9, <1>14, <1>16
  <2> QED BY <1>11, <2>1 DEF o
<1>20. Undoes(layers'[1], View', past', Len(layers'[1]) - Len(past'))
  BY <1>11, <1>18, <1>19
<1> QED BY <1>11, <1>19, <1>20 DEF PastKept

\* A full commit changes neither what is shown nor what is kept.
LEMMA CommitStep ==
  ASSUME Base, Remembered, PastKept, Writable, past # <<>>, NEW many \in BOOLEAN, CommitAll(many)
  PROVE  PastKept'
<1> DEFINE L == layers[1]
           N == Detach(L)
           n == Len(L)
           m == Len(past)
           q == n - m
           w == View
           x == View'
<1>1. Len(layers) = 1 /\ m <= n /\ Undoes(L, w, past, q)
  BY DEF PastKept
<1>2. /\ Stack(layers) /\ Stack(layers') /\ layers \in Seq(Seq(GoodItems))
      /\ w = Seen(layers, file) /\ x = Seen(layers', file')
      /\ w \in [Addr -> RealByte] /\ x \in [Addr -> RealByte]
      /\ past \in Seq([Addr -> RealByte]) /\ m \in Nat
  <2>1. [CarefulNext]_vars
    BY DEF CarefulNext
  <2> QED BY <2>1, Soundly
<1>3. Layer(L) /\ L \in Seq(GoodItems) /\ n \in Nat /\ DOMAIN L = 1 .. n /\ DOMAIN layers = {1}
  <2>1. Layer(L)
    BY <1>1, <1>2, SeenAlone
  <2>2. L \in Seq(GoodItems)
    BY <2>1 DEF Layer
  <2> QED BY <1>1, <1>2, <2>1, <2>2
<1>4. Reach(many) = 1
  BY <1>1 DEF Reach
<1>5. layers' = [k \in {1} |-> N] /\ past' = past
  <2>1. layers' = [k \in DOMAIN layers |->
                     IF k <= Reach(many) THEN Detach(layers[k]) ELSE layers[k]]
        /\ past' = past
    BY DEF CommitAll
  <2> QED BY <1>3, <1>4, <2>1
<1>6. layers'[1] = N /\ Len(layers') = 1
  <2> DEFINE ls == layers'
             one == 1
             K == {N}
  <2>1. ls = [k \in {1} |-> N] /\ {1} = 1 .. one /\ one \in Nat
    BY <1>5
  <2> HIDE DEF ls, N
  <2>2. ls \in [1 .. one -> K] /\ ls[1] = N
    BY <2>1
  <2> HIDE DEF one, K
  <2>3. Len(ls) = one
    BY <2>1, <2>2, AsSeq
  <2> QED BY <2>2, <2>3 DEF ls, one
<1>7. ASSUME NEW k \in 1 .. n
      PROVE  N[k].itv = L[k].itv /\ N[k].odata = L[k].odata /\ Shows(N[k]) = {}
  <2>1. N[k] = [L[k] EXCEPT !.live = FALSE] /\ Good(L[k])
    BY <1>3, GoodOf DEF Detach
  <2> HIDE DEF N, L
  <2> QED BY <2>1, Untree
<1>8. Len(N) = n
  <2>1. N = [k \in 1 .. n |-> N[k]]
    BY <1>3 DEF Detach
  <2> DEFINE T == {N[k] : k \in 1 .. n}
  <2>2. N \in [1 .. n -> T]
    <3> HIDE DEF N
    <3> QED BY <2>1
  <2> HIDE DEF N, n, T
  <2> QED BY <1>3, <2>2, AsSeq
<1>9. x = w
  <2>1. Abstract!SettleLayers(1)
    BY <1>4, SettleLayersStep
  <2>2. file' = Seen(layers, file)
    <3>1. Abstract!View = Abstract!Shown(1)
      BY <1>1, <1>2, OverIs DEF Abstract!View, Over
    <3> QED BY <2>1, <3>1, ViewIs DEF Abstract!SettleLayers
  <2>3. \A a \in Addr : x[a] = file'[a]
    <3> DEFINE ls == layers'
               f == file'
    <3>1. Stack(ls) /\ Len(ls) = 1 /\ ls[1] = N /\ x = Seen(ls, f)
      BY <1>2, <1>6
    <3> HIDE DEF ls, f, N, x
    <3>2. \A a \in Addr : Seen(ls, f)[a] = IF a \in DOMAIN Overlay(ls[1])
                                             THEN Overlay(ls[1])[a] ELSE f[a]
      BY <3>1, SeenAlone
    <3>3. DOMAIN Overlay(N) = {}
      <4>1. Overlay(N) = Abstract!Empty
        BY <1>3, DetachIs DEF N
      <4> QED BY <4>1 DEF Abstract!Empty
    <3> QED BY <3>1, <3>2, <3>3 DEF f
  <2> HIDE DEF x, w
  <2> QED BY <1>2, <2>2, <2>3
<1>10. Undoes(N, x, past, q)
  <2> HIDE DEF N, L, n, x, m, q, w
  <2>1. Emptied(N, L, n)
    BY <1>7, <1>8 DEF Emptied, n
  <2>2. n \in Nat /\ m \in Nat /\ q \in Nat /\ Len(past) = m
    BY <1>1, <1>2, <1>3 DEF q, m
  <2>3. Undoes(N, w, past, q)
    BY <1>1, <2>1, <2>2, UndoesSame
  <2> QED BY <1>9, <2>3
<1>11. Len(layers'[1]) - Len(past') = q /\ Len(past') <= Len(layers'[1])
  BY <1>1, <1>5, <1>6, <1>8
<1>12. Undoes(layers'[1], View', past', Len(layers'[1]) - Len(past'))
  BY <1>5, <1>6, <1>10, <1>11
<1> QED BY <1>6, <1>11, <1>12 DEF PastKept

\* Every careful step keeps the views that undos bring back.
LEMMA PastKeptStep ==
  ASSUME Base, Remembered, PastKept, [CarefulNext]_vars
  PROVE  PastKept'
<1> SUFFICES ASSUME Writable, past' # <<>>
             PROVE  PastKept'
  BY DEF PastKept
<1>1. ASSUME NEW addr \in Addr, NEW len \in Sizes, layers # <<>>, ClearOfTop(addr, len),
             HeadsKept(addr, len), CachedWrite(addr, len)
      PROVE  PastKept'
  <2>1. Undoable(addr, len)
    BY <1>1 DEF CachedWrite
  <2> QED BY <1>1, <2>1, UndoableStep
<1>2. ASSUME NEW many \in BOOLEAN, CommitAll(many) PROVE PastKept'
  <2>1. past # <<>>
    BY <1>2 DEF CommitAll
  <2> QED BY <1>2, <2>1, CommitStep
<1>3. ASSUME Undo PROVE PastKept'
  <2>1. past # <<>>
    BY <1>3 DEF Undo
  <2> QED BY <1>3, <2>1, UndoStep
<1>4. ASSUME UNCHANGED vars PROVE PastKept'
  <2>1. UNCHANGED <<layers, past, View>>
    BY <1>4 DEF vars, View, ReadAt
  <2> QED BY <2>1 DEF PastKept
<1>5. \A addr, len : ~ DirectWrite(addr, len)
  BY DEF DirectWrite
<1>6. \A from, to : ~ Invalidate(from, to)
  BY DEF Invalidate
<1>7. \A from, to, many : ~ CommitRange(from, to, many)
  BY DEF CommitRange
<1>8. ~ PushLayer /\ ~ PopLayer /\ ~ Reset
  BY DEF PushLayer, PopLayer, Reset
<1> QED
  BY <1>1, <1>2, <1>3, <1>4, <1>5, <1>6, <1>7, <1>8 DEF CarefulNext

(* Where the file can be written, r_io_cache_undo brings back what a reader   *)
(* saw before the last write, for every write since the last operation that    *)
(* nothing can take back, and also if it was committed in between.            *)
THEOREM UndoTakesBack ==
  CarefulSpec => UndoRestores
<1>1. Init => PastKept
  BY DEF Init, PastKept
<1>2. Base /\ Remembered /\ PastKept /\ [CarefulNext]_vars => PastKept'
  BY PastKeptStep
<1>3. Base /\ Remembered /\ PastKept /\ [CarefulNext]_vars
        => [Writable /\ past # <<>> /\ Undo => View' = Last(past)]_vars
  BY UndoStep
<1> QED BY <1>1, <1>2, <1>3, Always, PTL DEF CarefulSpec, UndoRestores

-----------------------------------------------------------------------------
(* What a write shows.                                                      *)

\* A top layer with bytes put over it.
Topped(ks, ls, d) ==
  Over(ks) = [Over(ls) EXCEPT ![Len(ls)] = Abstract!On(d, Overlay(ls[Len(ls)]))]

\* Bytes put over the top layer are seen, and no other changes.
LEMMA ToppedSeen ==
  ASSUME NEW ls, Stack(ls), ls # <<>>, NEW ks, Stack(ks), NEW d, Topped(ks, ls, d), NEW f,
         NEW a \in Addr
  PROVE  Seen(ks, f)[a] = IF a \in DOMAIN d THEN d[a] ELSE Seen(ls, f)[a]
<1> DEFINE n == Len(ls)
<1>1. /\ n \in Nat \ {0} /\ DOMAIN ls = 1 .. n /\ n \in DOMAIN ls
      /\ DOMAIN Over(ls) = 1 .. n /\ \A k \in DOMAIN ls : Over(ls)[k] = Overlay(ls[k])
  <2>1. Len(ls) \in Nat /\ DOMAIN ls = 1 .. Len(ls) /\ ls \in Seq(Seq(GoodItems))
        /\ DOMAIN Over(ls) = 1 .. Len(ls) /\ \A k \in DOMAIN ls : Over(ls)[k] = Overlay(ls[k])
    BY OverIs
  <2> QED BY <2>1
<1>2. /\ DOMAIN ks = 1 .. Len(ks) /\ DOMAIN Over(ks) = 1 .. Len(ks)
      /\ \A k \in DOMAIN ks : Over(ks)[k] = Overlay(ks[k])
  BY OverIs
<1> DEFINE top == Abstract!On(d, Overlay(ls[n]))
<1>3. Over(ks) = [Over(ls) EXCEPT ![n] = top]
  BY DEF Topped
<1> HIDE DEF n, top
<1>4. DOMAIN ks = 1 .. n
  BY <1>1, <1>2, <1>3
<1>5. \A k \in 1 .. n : Overlay(ks[k]) = IF k = n THEN top ELSE Overlay(ls[k])
  BY <1>1, <1>2, <1>3, <1>4
<1>6. /\ a \in DOMAIN top <=> a \in DOMAIN d \/ a \in DOMAIN Overlay(ls[n])
      /\ a \in DOMAIN top => top[a] = IF a \in DOMAIN d THEN d[a] ELSE Overlay(ls[n])[a]
  BY DEF Abstract!On, top
<1>7. CASE a \in DOMAIN d
  <2>1. n \in Having(ks, a) /\ Having(ks, a) \in SUBSET (1 .. n)
    BY <1>1, <1>4, <1>5, <1>6, <1>7 DEF Having
  <2> DEFINE K == Having(ks, a)
             h == Highest(K)
  <2>2. h \in K /\ \A j \in K : j <= h
    <3> HIDE DEF K
    <3> QED BY <1>1, <2>1, HighestIs DEF K
  <2>3. h = n
    <3> HIDE DEF K, h
    <3>1. n <= h /\ h \in 1 .. n
      BY <2>1, <2>2 DEF K
    <3> QED BY <1>1, <3>1
  <2>4. Seen(ks, f)[a] = Overlay(ks[h])[a]
    BY <2>1 DEF Seen
  <2> HIDE DEF h
  <2> QED BY <1>1, <1>5, <1>6, <1>7, <2>3, <2>4
<1>8. CASE a \notin DOMAIN d
  <2>1. \A k \in 1 .. n : a \in DOMAIN Overlay(ks[k]) <=> a \in DOMAIN Overlay(ls[k])
    BY <1>5, <1>6, <1>8
  <2>2. Having(ks, a) = Having(ls, a)
    BY <1>1, <1>4, <2>1 DEF Having
  <2> DEFINE h == Highest(Having(ls, a))
  <2>3. ASSUME Having(ls, a) # {} PROVE Overlay(ks[h])[a] = Overlay(ls[h])[a]
    <3>1. h \in DOMAIN ls /\ a \in DOMAIN Overlay(ls[h])
      BY <2>3, HavingIs
    <3> HIDE DEF h
    <3> QED BY <1>1, <1>5, <1>6, <1>8, <3>1
  <2> QED BY <1>8, <2>2, <2>3 DEF Seen
<1> QED BY <1>7, <1>8

(* A cached write that does not fall inside a node up to the last address or  *)
(* without its head is what is read back, and nothing else that is shown       *)
(* changes, through any number of layers: nothing but those two ways of        *)
(* writing into an earlier write can make WriteShows fail.                   *)
THEOREM CarefulWritesShow ==
  CarefulSpec =>
    [][\A addr \in Addr, len \in Sizes :
         layers # <<>> /\ ClearOfTop(addr, len) /\ HeadsKept(addr, len) /\ CachedWrite(addr, len) =>
           \A a \in Addr :
             View'[a] = IF \E v \in Parts(addr, len) : a \in Cells(v)
                          THEN <<writes + 1, (a - addr) % M>> ELSE View[a]]_vars
<1>1. ASSUME Base, NEW addr \in Addr, NEW len \in Sizes, layers # <<>>, ClearOfTop(addr, len),
             HeadsKept(addr, len), CachedWrite(addr, len), NEW a \in Addr
      PROVE  View'[a] = IF \E v \in Parts(addr, len) : a \in Cells(v)
                          THEN <<writes + 1, (a - addr) % M>> ELSE View[a]
  <2> DEFINE ks == layers'
             d == Abstract!Written(addr, len)
             n == Len(layers)
  <2>1. Base' /\ Abstract!Put(addr, len) /\ file' = file
    BY <1>1, PutStep DEF CachedWrite
  <2>2. Stack(ks) /\ Stack(layers)
    BY <1>1, <2>1 DEF Base
  <2>3. /\ Len(Over(layers)) = n /\ n \in DOMAIN layers
        /\ Over(layers)[n] = Overlay(layers[n])
    <3>1. n \in DOMAIN layers
      BY <1>1 DEF Base, Stack
    <3> QED BY <2>2, <3>1, OverIs
  <2>4. Over(ks) = [Over(layers) EXCEPT ![Len(Over(layers))] = Abstract!On(d, @)]
    BY <2>1 DEF Abstract!Put, Over
  <2>5. Topped(ks, layers, d)
    BY <2>3, <2>4 DEF Topped
  <2>6. View' = Seen(ks, file) /\ View = Seen(layers, file)
    BY <1>1, <2>1, <2>2, ViewIs, ViewNext
  <2>7. Seen(ks, file)[a] = IF a \in DOMAIN d THEN d[a] ELSE Seen(layers, file)[a]
    <3> HIDE DEF ks, d
    <3> QED BY <1>1, <2>2, <2>5, ToppedSeen
  <2>8. /\ a \in DOMAIN d <=> \E v \in Parts(addr, len) : a \in Cells(v)
        /\ a \in DOMAIN d => d[a] = <<writes + 1, (a - addr) % M>>
    <3>1. DOMAIN d = Covered(addr, len) /\ \A b \in DOMAIN d : d[b] = <<writes + 1, (b - addr) % M>>
      BY <1>1, CoveredIs DEF Abstract!Written, M
    <3> QED BY <1>1, <3>1, CoveredIs
  <2> HIDE DEF ks, d
  <2> QED BY <2>6, <2>7, <2>8
<1>2. Base /\ [CarefulNext]_vars =>
        [\A addr \in Addr, len \in Sizes :
           layers # <<>> /\ ClearOfTop(addr, len) /\ HeadsKept(addr, len) /\ CachedWrite(addr, len) =>
             \A a \in Addr :
               View'[a] = IF \E v \in Parts(addr, len) : a \in Cells(v)
                            THEN <<writes + 1, (a - addr) % M>> ELSE View[a]]_vars
  BY <1>1
<1> QED BY <1>2, Always, PTL DEF CarefulSpec
=============================================================================
