------------------------ MODULE IOBankWalksProofs ------------------------
(***************************************************************************)
(* That the walks of io_bank.c, node by node, do what IOBankOps says in      *)
(* closed form, for every size of the address space, every set of maps and   *)
(* every tree.  The invariant of a walk says what is left to do: the bank    *)
(* that the operation gives for what the call found is what the tree of now  *)
(* becomes when the rest of the walk is done at once.  Each step takes its   *)
(* part of the rest, and the rest of a walk that has ended is nothing.       *)
(***************************************************************************)
EXTENDS IOBankWalks, IOBankProofs

-----------------------------------------------------------------------------
(* One interval more or less.                                               *)

\* The submap of the interval m .. n, if it is one.
Part(m, n, ref) == IF m <= n THEN {[from |-> m, to |-> n, ref |-> ref]} ELSE {}

\* No addresses, no submap.
LEMMA PiecesNone ==
  ASSUME NEW ref
  PROVE  Pieces({}, ref) = {}
BY DEF Pieces, Runs

\* An interval is one submap.
LEMMA PiecesPart ==
  ASSUME NEW m \in Int, NEW n \in Int, m .. n \subseteq Addr, NEW ref
  PROVE  Pieces(m .. n, ref) = Part(m, n, ref)
<1>1. CASE m <= n
  <2>1. <<m, n>> \in Runs(m .. n)
    BY <1>1 DEF Runs
  <2>2. ASSUME NEW r \in Runs(m .. n) PROVE r = <<m, n>>
    <3>1. /\ r = <<r[1], r[2]>> /\ r[1] \in m .. n /\ r[2] \in m .. n
          /\ r[1] - 1 \notin m .. n /\ r[2] + 1 \notin m .. n
      BY <2>2, RunFacts
    <3> QED BY <3>1
  <2>3. Runs(m .. n) = {<<m, n>>}
    BY <2>1, <2>2
  <2>4. Pieces(m .. n, ref) = {[from |-> m, to |-> n, ref |-> ref]}
    <3> DEFINE P(r) == [from |-> r[1], to |-> r[2], ref |-> ref]
    <3>1. P(<<m, n>>) = [from |-> m, to |-> n, ref |-> ref]
      OBVIOUS
    <3>2. Pieces(m .. n, ref) = {P(r) : r \in Runs(m .. n)}
      BY DEF Pieces
    <3> HIDE DEF P
    <3> QED BY <2>3, <3>1, <3>2
  <2> QED BY <1>1, <2>4 DEF Part
<1>2. CASE n < m
  <2>1. m .. n = {}
    BY <1>2
  <2> QED BY <1>2, <2>1, PiecesNone DEF Part
<1> QED BY <1>1, <1>2

\* Where an address is missing, the submaps before it and behind it are apart.
LEMMA PiecesCut ==
  ASSUME NEW U \in SUBSET Addr, NEW A, NEW B, U = A \cup B, NEW c \in Int,
         \A a \in A : a < c, \A b \in B : c < b, NEW ref
  PROVE  Pieces(U, ref) = Pieces(A, ref) \cup Pieces(B, ref)
<1>0. Addr \subseteq Nat /\ A \in SUBSET Addr /\ B \in SUBSET Addr
  BY MaxAddrAssumption DEF Addr
<1>1. ASSUME NEW r \in Runs(U) PROVE r \in Runs(A) \cup Runs(B)
  <2>1. /\ r = <<r[1], r[2]>> /\ r[1] \in Nat /\ r[2] \in Nat
        /\ r[1] \in U /\ r[2] \in U /\ r[1] <= r[2]
        /\ r[1] .. r[2] \subseteq U
        /\ r[1] - 1 \notin U /\ r[2] + 1 \notin U
    BY <1>1, RunFacts
  <2>2. c \notin U
    BY <1>0
  <2>3. ~ (r[1] < c /\ c < r[2])
    BY <2>1, <2>2
  <2>4. CASE r[2] < c
    <3>1. \A a \in r[1] .. r[2] : a \in A
      BY <2>1, <2>4, <1>0
    <3> QED BY <2>1, <3>1, <1>0 DEF Runs
  <2>5. CASE c < r[1]
    <3>1. \A a \in r[1] .. r[2] : a \in B
      BY <2>1, <2>5, <1>0
    <3> QED BY <2>1, <3>1, <1>0 DEF Runs
  <2> QED BY <2>1, <2>2, <2>3, <2>4, <2>5
<1>2. ASSUME NEW r \in Runs(A) PROVE r \in Runs(U)
  <2>1. /\ r = <<r[1], r[2]>> /\ r[1] \in Nat /\ r[2] \in Nat
        /\ r[1] \in A /\ r[2] \in A /\ r[1] <= r[2]
        /\ r[1] .. r[2] \subseteq A
        /\ r[1] - 1 \notin A /\ r[2] + 1 \notin A
    BY <1>0, <1>2, RunFacts
  <2>2. r[1] - 1 \notin B /\ r[2] + 1 \notin B
    BY <2>1
  <2> QED BY <2>1, <2>2 DEF Runs
<1>3. ASSUME NEW r \in Runs(B) PROVE r \in Runs(U)
  <2>1. /\ r = <<r[1], r[2]>> /\ r[1] \in Nat /\ r[2] \in Nat
        /\ r[1] \in B /\ r[2] \in B /\ r[1] <= r[2]
        /\ r[1] .. r[2] \subseteq B
        /\ r[1] - 1 \notin B /\ r[2] + 1 \notin B
    BY <1>0, <1>3, RunFacts
  <2>2. r[1] - 1 \notin A /\ r[2] + 1 \notin A
    BY <2>1
  <2> QED BY <2>1, <2>2 DEF Runs
<1>4. Runs(U) = Runs(A) \cup Runs(B)
  BY <1>1, <1>2, <1>3
<1> QED BY <1>4 DEF Pieces

\* What r_io_submap_set_from and r_io_submap_set_to make of a submap.
LEMMA SetEnds ==
  ASSUME NEW s \in SubMap, NEW n
  PROVE  /\ s.from \in Int /\ s.to \in Int /\ s.from \in Addr /\ s.to \in Addr /\ s.ref \in MapRef
         /\ 0 <= s.from /\ s.to <= MaxAddr /\ MaxAddr \in Int
         /\ s = [from |-> s.from, to |-> s.to, ref |-> s.ref]
         /\ SetFrom(s, n) = IF s.to < n THEN s ELSE [from |-> n, to |-> s.to, ref |-> s.ref]
         /\ SetTo(s, n) = IF s.from > n THEN s ELSE [from |-> s.from, to |-> n, ref |-> s.ref]
BY MaxAddrAssumption DEF SubMap, Addr, SetFrom, SetTo

\* Two submaps have an address in common.
LEMMA OverlapEnds ==
  ASSUME NEW s \in SubMap, NEW t, t.from \in Int, t.to \in Int, s.from <= s.to, t.from <= t.to
  PROVE  /\ Overlaps(s, t) <=> s.from <= t.to /\ t.from <= s.to
         /\ Apart(s, t) <=> ~Overlaps(s, t)
         /\ Apart(s, t) <=> s.to < t.from \/ t.to < s.from
<1>0. s.from \in Int /\ s.to \in Int
  BY SetEnds
<1>1. Overlaps(s, t) <=> s.from <= t.to /\ t.from <= s.to
  <2>1. CASE s.from <= t.to /\ t.from <= s.to
    <3>1. s.from <= t.from => t.from \in Span(s) \cap Span(t)
      BY <1>0, <2>1 DEF Span
    <3>2. t.from <= s.from => s.from \in Span(s) \cap Span(t)
      BY <1>0, <2>1 DEF Span
    <3> QED BY <1>0, <2>1, <3>1, <3>2 DEF Overlaps
  <2>2. CASE ~ (s.from <= t.to /\ t.from <= s.to)
    <3>1. Span(s) \cap Span(t) = {}
      BY <1>0, <2>2 DEF Span
    <3> QED BY <2>2, <3>1 DEF Overlaps
  <2> QED BY <2>1, <2>2
<1>2. Apart(s, t) <=> ~Overlaps(s, t)
  BY DEF Apart, Overlaps
<1> QED BY <1>0, <1>1, <1>2

-----------------------------------------------------------------------------
(* Carving one submap, or several.                                          *)

LEMMA CarveUnion ==
  ASSUME NEW S, NEW T, NEW A
  PROVE  /\ Carve(S \cup T, A) = Carve(S, A) \cup Carve(T, A)
         /\ Carve({}, A) = {}
BY DEF Carve

LEMMA CarveOne ==
  ASSUME NEW s, NEW A
  PROVE  Carve({s}, A) = Pieces(Span(s) \ A, s.ref)
BY DEF Carve

\* The two ends that are left of e.
LEMMA CarveNode ==
  ASSUME NEW e \in SubMap, NEW x \in SubMap, x.from <= x.to,
         e.from <= x.to, x.from <= e.to
  PROVE  Carve({e}, Span(x)) = Part(e.from, x.from - 1, e.ref) \cup Part(x.to + 1, e.to, e.ref)
<1> DEFINE A == e.from .. x.from - 1
           B == x.to + 1 .. e.to
<1>0. /\ e.from \in Int /\ e.to \in Int /\ x.from \in Int /\ x.to \in Int
      /\ 0 <= e.from /\ e.to <= MaxAddr /\ 0 <= x.from /\ x.to <= MaxAddr /\ MaxAddr \in Int
  BY SetEnds
<1>1. Span(e) \ Span(x) = A \cup B
  BY <1>0 DEF Span
<1>2. A \subseteq Addr /\ B \subseteq Addr
  BY <1>0 DEF Addr
<1>3. (\A a \in A : a < x.from) /\ (\A b \in B : x.from < b)
  BY <1>0
<1>4. Pieces(A \cup B, e.ref) = Pieces(A, e.ref) \cup Pieces(B, e.ref)
  <2> HIDE DEF A, B
  <2>1. A \cup B \in SUBSET Addr
    BY <1>2
  <2> QED BY <2>1, <1>3, <1>0, PiecesCut
<1>5. Pieces(A, e.ref) = Part(e.from, x.from - 1, e.ref)
  <2>1. x.from - 1 \in Int /\ e.from .. x.from - 1 \subseteq Addr
    BY <1>0, <1>2
  <2> QED BY <1>0, <2>1, PiecesPart
<1>6. Pieces(B, e.ref) = Part(x.to + 1, e.to, e.ref)
  <2>1. x.to + 1 \in Int /\ x.to + 1 .. e.to \subseteq Addr
    BY <1>0, <1>2
  <2> QED BY <1>0, <2>1, PiecesPart
<1> QED BY <1>1, <1>4, <1>5, <1>6, CarveOne

\* What no submap has costs none of them anything.
LEMMA CarveAll ==
  ASSUME NEW S, Tidy(S), NEW A, \A s \in S : Span(s) \cap A = {}
  PROVE  Carve(S, A) = S
BY CarveNothing, CarveKeeps

\* Only what it takes from the submaps matters.
LEMMA CarveSame ==
  ASSUME NEW S, NEW A, NEW B, \A s \in S : Span(s) \ A = Span(s) \ B
  PROVE  Carve(S, A) = Carve(S, B)
BY DEF Carve

-----------------------------------------------------------------------------
(* The nodes of a tree in their order.                                      *)

\* Of two nodes one is before the other.
LEMMA NodeOrder ==
  ASSUME NEW S, Tidy(S), NEW s \in S, NEW t \in S, s # t
  PROVE  s.to < t.from \/ t.to < s.from
<1>1. /\ s.from \in Int /\ s.to \in Int /\ s.from <= s.to
      /\ t.from \in Int /\ t.to \in Int /\ t.from <= t.to /\ s \in SubMap
  BY NodeNumbers DEF Tidy
<1>2. Apart(s, t)
  BY DEF Tidy
<1> QED BY <1>1, <1>2, OverlapEnds

LEMMA FirstNode ==
  ASSUME NEW S, Tidy(S), NEW T \in SUBSET S
  PROVE  /\ First(T) = NoSubMap <=> T = {}
         /\ T # {} => First(T) \in T /\ \A t \in T : First(T).from <= t.from
<1>1. CASE T # {}
  <2>1. {t.from : t \in T} \in SUBSET Nat
    BY NodeNumbers
  <2>2. {t.from : t \in T} # {}
    BY <1>1
  <2>3. \E n \in {t.from : t \in T} : \A k \in {t.from : t \in T} : n <= k
    BY <2>1, <2>2, LeastExists
  <2>4. \E s \in T : \A t \in T : s.from <= t.from
    BY <2>3
  <2>5. First(T) \in T /\ \A t \in T : First(T).from <= t.from
    BY <1>1, <2>4 DEF First
  <2>6. First(T) # NoSubMap
    BY <2>5, NoSubMapAssumption DEF Tidy
  <2> QED BY <1>1, <2>5, <2>6
<1>2. CASE T = {}
  BY <1>2 DEF First
<1> QED BY <1>1, <1>2

LEMMA EntryNode ==
  ASSUME NEW S, Tidy(S), NEW x, x.from \in Int, x.to \in Int, x.from <= x.to,
         NEW e, e = Entry(S, x)
  PROVE  /\ e = NoSubMap <=> Hits(S, x) = {}
         /\ e = NoSubMap => \A s \in S : Apart(s, x)
         /\ e # NoSubMap =>
              /\ e \in S /\ e.from <= x.to /\ x.from <= e.to
              /\ \A s \in S : s.from < e.from => Apart(s, x) /\ s.to < x.from
<1>0. Hits(S, x) \in SUBSET S /\ \A s \in S : s \in SubMap /\ s.from \in Int /\ s.to \in Int /\ s.from <= s.to
  BY NodeNumbers DEF Hits, Tidy
<1>1. /\ e = NoSubMap <=> Hits(S, x) = {}
      /\ e # NoSubMap => e \in Hits(S, x) /\ \A t \in Hits(S, x) : e.from <= t.from
  BY <1>0, FirstNode DEF Entry
<1>2. \A s \in S : s \notin Hits(S, x) => Apart(s, x)
  BY DEF Hits, Apart, Overlaps
<1>3. ASSUME e # NoSubMap PROVE e \in S /\ e.from <= x.to /\ x.from <= e.to
  <2>1. e \in S /\ Overlaps(e, x)
    BY <1>1, <1>3 DEF Hits
  <2> QED BY <2>1, <1>0, OverlapEnds
<1>4. ASSUME e # NoSubMap, NEW s \in S, s.from < e.from PROVE Apart(s, x) /\ s.to < x.from
  <2>1. e \in S /\ s \notin Hits(S, x)
    BY <1>0, <1>1, <1>3, <1>4
  <2>2. Apart(s, x)
    BY <1>2, <2>1
  <2>3. s.to < x.from \/ x.to < s.from
    BY <1>0, <2>2, OverlapEnds
  <2> QED BY <1>0, <1>3, <1>4, <2>1, <2>2, <2>3
<1> QED BY <1>1, <1>2, <1>3, <1>4

LEMMA AfterNode ==
  ASSUME NEW S, Tidy(S), NEW e \in S, NEW n, n = After(S, e)
  PROVE  /\ n = NoSubMap => \A s \in S : s # e => s.to < e.from
         /\ n # NoSubMap =>
              /\ n \in S /\ e.to < n.from /\ n # e
              /\ \A s \in S : s.from < n.from => s = e \/ s.to < e.from
<1> DEFINE T == {t \in S : t.from > e.from}
<1>0. \A s \in S : s.from \in Int /\ s.to \in Int /\ s.from <= s.to
  BY NodeNumbers
<1>1. /\ n = NoSubMap <=> T = {}
      /\ n # NoSubMap => n \in T /\ \A t \in T : n.from <= t.from
  <2>1. T \in SUBSET S /\ n = First(T)
    BY DEF After
  <2> QED BY <2>1, FirstNode
<1>2. \A s \in S : s # e => s.to < e.from \/ e.to < s.from
  BY NodeOrder
<1> QED BY <1>0, <1>1, <1>2

-----------------------------------------------------------------------------
(* A map laid into a tree: over the submaps S without A, under those of A.   *)

Lay(S, A, x) == A \cup Carve(S \ A, Span(x)) \cup Pieces(Span(x) \ Covered(A), x.ref)

\* What GapFilled adds.
Gap(e, x) == IF x.from < e.from THEN {SetTo(x, e.from - 1)} ELSE {}

LEMMA LayOverAll ==
  ASSUME NEW S, NEW x \in SubMap, x.from <= x.to
  PROVE  Lay(S, {}, x) = Carve(S, Span(x)) \cup {x}
<1>1. Span(x) \ Covered({}) = x.from .. x.to /\ S \ {} = S
  BY DEF Covered, Span
<1>2. Pieces(x.from .. x.to, x.ref) = {x}
  <2>1. x.from \in Int /\ x.to \in Int /\ x.from .. x.to \subseteq Addr
    BY SetEnds, SpanInside DEF Span
  <2>2. Pieces(x.from .. x.to, x.ref) = Part(x.from, x.to, x.ref)
    BY <2>1, PiecesPart
  <2> QED BY <2>2, SetEnds DEF Part
<1> QED BY <1>1, <1>2 DEF Lay

LEMMA LayUnderAll ==
  ASSUME NEW S, NEW x
  PROVE  Lay(S, S, x) = S \cup Pieces(Span(x) \ Covered(S), x.ref)
<1>1. S \ S = {}
  OBVIOUS
<1> QED BY <1>1, CarveUnion DEF Lay

LEMMA LayTidy ==
  ASSUME NEW S, Tidy(S), NEW A \in SUBSET S, NEW x \in SubMap
  PROVE  Tidy(Lay(S, A, x))
BY UpdateTidy, SpanInside DEF Lay

LEMMA TidyAdd ==
  ASSUME NEW S, Tidy(S), NEW x \in SubMap, x.from <= x.to, \A s \in S : Apart(s, x)
  PROVE  Tidy(S \cup {x})
<1>1. Tidy({x})
  BY DEF Tidy
<1> QED BY <1>1, TidyUnion

\* One node of a tree is cut to what is left of it beside x.
CutTo(S, e, x) == (S \ {e}) \cup Carve({e}, Span(x))

\* A node to be laid over may be cut at once.
LEMMA LayCut ==
  ASSUME NEW S, Tidy(S), NEW A \in SUBSET S, NEW e \in S, e \notin A, NEW x
  PROVE  /\ Tidy(CutTo(S, e, x))
         /\ A \in SUBSET CutTo(S, e, x)
         /\ Lay(CutTo(S, e, x), A, x) = Lay(S, A, x)
<1> DEFINE R == Carve({e}, Span(x))
           T == (S \ {e}) \cup R
<1>1. Tidy({e})
  BY TidySubset
<1>2. /\ Tidy(R)
      /\ \A p \in R : Span(p) \cap Span(x) = {} /\ Span(p) \subseteq Span(e) /\ Span(p) # {}
  <2>1. Tidy(R)
    BY <1>1, CarveTidy
  <2>2. ASSUME NEW p \in R PROVE Span(p) \cap Span(x) = {} /\ Span(p) \subseteq Span(e)
    <3>1. Span(p) \cap Span(x) = {}
      BY <1>1, CarveAway
    <3>2. PICK Z : Z = {e} /\ Tidy(Z) /\ p \in Carve(Z, Span(x))
      BY <1>1
    <3>3. \E s \in Z : p.ref = s.ref /\ Span(p) \subseteq Span(s) \ Span(x)
      BY <3>2, CarveFrom
    <3> QED BY <3>1, <3>2, <3>3
  <2>3. ASSUME NEW p \in R PROVE Span(p) # {}
    BY <2>1, NodeNumbers DEF Span
  <2> QED BY <2>1, <2>2, <2>3
<1>3. Carve(R, Span(x)) = R
  BY <1>2, CarveAll
<1>4. \A s \in S \ {e} : Apart(s, e)
  BY DEF Tidy
<1>5. \A p \in R, s \in S \ {e} : Apart(s, p) /\ p # s
  BY <1>2, <1>4 DEF Apart
<1>6. Tidy(T)
  <2>1. Tidy(S \ {e})
    BY TidySubset
  <2> QED BY <2>1, <1>2, <1>5, TidyUnion
<1>7. ASSUME NEW Q, Q = (S \ A) \ {e}
      PROVE  Carve(T \ A, Span(x)) = Carve(S \ A, Span(x))
  <2>1. T \ A = Q \cup R
    BY <1>5, <1>7
  <2>2. S \ A = Q \cup {e}
    BY <1>7
  <2>3. Carve(Q \cup R, Span(x)) = Carve(Q, Span(x)) \cup Carve(R, Span(x))
    BY CarveUnion
  <2>4. Carve(Q \cup {e}, Span(x)) = Carve(Q, Span(x)) \cup Carve({e}, Span(x))
    BY CarveUnion
  <2> QED BY <1>3, <2>1, <2>2, <2>3, <2>4
<1>9. Carve(T \ A, Span(x)) = Carve(S \ A, Span(x))
  BY <1>7
<1> QED BY <1>6, <1>9 DEF Lay, CutTo

\* Where nothing is in the way the map is one submap.
LEMMA LayDone ==
  ASSUME NEW S, Tidy(S), NEW A \in SUBSET S, NEW x \in SubMap, x.from <= x.to,
         \A s \in S : Apart(s, x)
  PROVE  Lay(S, A, x) = S \cup {x} /\ Tidy(S \cup {x})
<1>1. Carve(S \ A, Span(x)) = S \ A
  <2>1. Tidy(S \ A) /\ \A s \in S \ A : Span(s) \cap Span(x) = {}
    BY TidySubset DEF Apart
  <2> QED BY <2>1, CarveAll
<1>2. Span(x) \ Covered(A) = x.from .. x.to
  BY DEF Covered, Apart, Span
<1>3. Pieces(x.from .. x.to, x.ref) = {x}
  <2>1. x.from \in Int /\ x.to \in Int /\ x.from .. x.to \subseteq Addr
    BY SetEnds, SpanInside DEF Span
  <2>2. Pieces(x.from .. x.to, x.ref) = Part(x.from, x.to, x.ref)
    BY <2>1, PiecesPart
  <2> QED BY <2>2, SetEnds DEF Part
<1> QED BY <1>1, <1>2, <1>3, TidyAdd DEF Lay

\* The gap before a node that stays is free, up to the submaps before the node.
LEMMA GapFree ==
  ASSUME NEW S, Tidy(S), NEW e \in S, NEW x \in SubMap, x.from <= x.to, e.from <= x.to,
         \A s \in S : s.from < e.from => Apart(s, x)
  PROVE  /\ \A g \in Gap(e, x) : /\ g \in SubMap /\ g.from <= g.to /\ g.ref = x.ref
                                 /\ Span(g) = x.from .. e.from - 1 /\ g \notin S
                                 /\ \A s \in S : Apart(s, g)
         /\ Tidy(S \cup Gap(e, x))
         /\ GapFilled(S, e, x) = S \cup Gap(e, x)
         /\ Gap(e, x) = Part(x.from, e.from - 1, x.ref)
<1>0. /\ x.from \in Int /\ x.to \in Int /\ x.from \in Addr /\ x.to \in Addr /\ x.ref \in MapRef
      /\ \A s \in S : s \in SubMap /\ s.from \in Int /\ s.to \in Int /\ s.from <= s.to
      /\ e.from \in Int /\ e.to \in Int
      /\ 0 <= x.from /\ x.to <= MaxAddr /\ MaxAddr \in Int
  BY SetEnds, NodeNumbers DEF Tidy
<1>1. GapFilled(S, e, x) = S \cup Gap(e, x)
  BY DEF GapFilled, Gap
<1>2. CASE x.from < e.from
  <2> DEFINE g == [from |-> x.from, to |-> e.from - 1, ref |-> x.ref]
  <2>1. Gap(e, x) = {g} /\ Gap(e, x) = Part(x.from, e.from - 1, x.ref)
    BY <1>0, <1>2, SetEnds DEF Gap, Part
  <2>2. g \in SubMap /\ g.from <= g.to /\ g.ref = x.ref /\ Span(g) = x.from .. e.from - 1
    BY <1>0, <1>2 DEF SubMap, Addr, Span
  <2>3. ASSUME NEW s \in S PROVE Apart(s, g)
    <3>1. CASE s.from < e.from
      <4>1. s.to < x.from \/ x.to < s.from
        BY <1>0, <3>1, OverlapEnds
      <4>2. s.to < x.from
        BY <1>0, <3>1, <4>1
      <4> QED BY <1>0, <2>2, <4>2 DEF Apart, Span
    <3>2. CASE ~ (s.from < e.from)
      BY <1>0, <2>2, <3>2 DEF Apart, Span
    <3> QED BY <3>1, <3>2
  <2>4. g \notin S
    <3>1. x.from \in Span(g)
      BY <1>0, <1>2, <2>2
    <3> QED BY <2>3, <3>1 DEF Apart
  <2>5. Tidy(S \cup {g})
    <3> HIDE DEF g
    <3> QED BY <2>2, <2>3, TidyAdd
  <2> QED BY <1>1, <2>1, <2>2, <2>3, <2>4, <2>5
<1>3. CASE ~ (x.from < e.from)
  <2>1. Gap(e, x) = {} /\ Gap(e, x) = Part(x.from, e.from - 1, x.ref)
    BY <1>0, <1>3 DEF Gap, Part
  <2>2. S \cup {} = S
    OBVIOUS
  <2> QED BY <1>1, <2>1, <2>2
<1> QED BY <1>2, <1>3

\* The walk passes a node that stays, and goes on with what is behind it.
LEMMA LayPass ==
  ASSUME NEW S, Tidy(S), NEW A \in SUBSET S, NEW e \in A, NEW x \in SubMap,
         e.to < x.to, x.from <= e.to + 1,
         \A s \in S : s.from < e.from => Apart(s, x),
         NEW y, y = SetFrom(x, e.to + 1)
  PROVE  /\ y \in SubMap /\ y.from = e.to + 1 /\ y.to = x.to /\ y.ref = x.ref
         /\ Lay(S \cup Gap(e, x), A \cup Gap(e, x), y) = Lay(S, A, x)
<1> DEFINE G == Gap(e, x)
           U == Span(x) \ Covered(A)
           V == Span(y) \ Covered(A \cup G)
<1>0. /\ x.from \in Int /\ x.to \in Int /\ x.from \in Addr /\ x.to \in Addr /\ x.ref \in MapRef
      /\ \A s \in S : s \in SubMap /\ s.from \in Int /\ s.to \in Int /\ s.from <= s.to
      /\ e.from \in Int /\ e.to \in Int /\ e.from <= e.to /\ e \in S
      /\ 0 <= x.from /\ x.to <= MaxAddr /\ MaxAddr \in Int /\ 0 <= e.from
  BY SetEnds, NodeNumbers DEF Tidy
<1>1. y \in SubMap /\ y.from = e.to + 1 /\ y.to = x.to /\ y.ref = x.ref
  BY <1>0, SetEnds DEF SubMap, Addr
<1>2. /\ \A g \in G : /\ g \in SubMap /\ g.from <= g.to /\ g.ref = x.ref
                      /\ Span(g) = x.from .. e.from - 1 /\ g \notin S
                      /\ \A s \in S : Apart(s, g)
      /\ G = Part(x.from, e.from - 1, x.ref)
  <2>1. x.from <= x.to /\ e.from <= x.to
    BY <1>0
  <2> QED BY <1>0, <2>1, GapFree
<1>3. (S \cup G) \ (A \cup G) = S \ A
  BY <1>2
<1>4. Carve(S \ A, Span(x)) = Carve(S \ A, Span(y))
  <2>1. ASSUME NEW s \in S \ A PROVE Span(s) \ Span(x) = Span(s) \ Span(y)
    <3>1. s.to < e.from \/ e.to < s.from
      BY NodeOrder
    <3>2. CASE s.to < e.from
      <4>1. s.to < x.from \/ x.to < s.from
        BY <1>0, <3>2, OverlapEnds
      <4> QED BY <1>0, <1>1, <3>2, <4>1 DEF Span
    <3>3. CASE e.to < s.from
      BY <1>0, <1>1, <3>3 DEF Span
    <3> QED BY <3>1, <3>2, <3>3
  <2> QED BY <2>1, CarveSame
<1>5. Pieces(U, x.ref) = G \cup Pieces(V, y.ref)
  <2>1. CASE x.from < e.from
    <3> DEFINE B == x.from .. e.from - 1
    <3>1. G = {[from |-> x.from, to |-> e.from - 1, ref |-> x.ref]}
      BY <1>0, <1>2, <2>1 DEF Part
    <3>2. \A a : a \in Covered(A \cup G) <=> a \in Covered(A) \/ a \in B
      BY <1>2, <3>1 DEF Covered
    <3>3. ASSUME NEW a \in B, a \in Covered(A) PROVE FALSE
      <4>1. PICK s \in A : a \in Span(s)
        BY <3>3 DEF Covered
      <4>2. PICK g \in G : Span(g) = B /\ Apart(s, g)
        BY <1>2, <3>1
      <4> QED BY <3>3, <4>1, <4>2 DEF Apart
    <3>4. \A a \in e.from .. e.to : a \in Covered(A)
      BY DEF Covered, Span
    <3>5. U = B \cup V
      <4>1. \A a : a \in U <=> a \in x.from .. x.to /\ a \notin Covered(A)
        BY DEF Span
      <4>2. \A a : a \in V <=> /\ a \in e.to + 1 .. x.to
                              /\ a \notin Covered(A) /\ a \notin B
        BY <1>1, <3>2 DEF Span
      <4>3. \A a \in x.from .. x.to : a \in B \/ a \in e.from .. e.to \/ a \in e.to + 1 .. x.to
        BY <1>0
      <4>4. /\ \A a \in B : a \in x.from .. x.to
            /\ \A a \in e.to + 1 .. x.to : a \in x.from .. x.to /\ a \notin B
        BY <1>0
      <4> HIDE DEF U, V, B
      <4>5. \A a : a \in U <=> a \in B \cup V
        BY <3>3, <3>4, <4>1, <4>2, <4>3, <4>4
      <4> QED BY <4>5
    <3>6. U \in SUBSET Addr /\ B \subseteq Addr
      BY <1>0 DEF Span, Addr
    <3>7. (\A a \in B : a < e.from) /\ (\A a \in V : e.from < a)
      BY <1>0, <1>1 DEF Span
    <3>8. Pieces(U, x.ref) = Pieces(B, x.ref) \cup Pieces(V, x.ref)
      <4> HIDE DEF U, B, V
      <4> QED BY <1>0, <3>5, <3>6, <3>7, PiecesCut
    <3>9. Pieces(B, x.ref) = G
      <4>1. e.from - 1 \in Int /\ x.from .. e.from - 1 \subseteq Addr
        BY <1>0, <3>6
      <4> QED BY <1>0, <1>2, <4>1, PiecesPart
    <3> QED BY <1>1, <3>8, <3>9
  <2>2. CASE ~ (x.from < e.from)
    <3>1. G = {}
      BY <2>2 DEF Gap
    <3>2. \A a \in e.from .. e.to : a \in Covered(A)
      BY DEF Covered, Span
    <3>3. U = V
      BY <1>0, <1>1, <2>2, <3>1, <3>2 DEF Span
    <3> HIDE DEF U, V
    <3> QED BY <1>1, <3>1, <3>3
  <2> QED BY <2>1, <2>2
<1> HIDE DEF G, U, V
<1>6. Lay(S \cup G, A \cup G, y) = (A \cup G) \cup Carve(S \ A, Span(y)) \cup Pieces(V, y.ref)
  BY <1>3 DEF Lay, V
<1>7. Lay(S, A, x) = A \cup Carve(S \ A, Span(x)) \cup Pieces(U, x.ref)
  BY DEF Lay, U
<1>8. Lay(S \cup G, A \cup G, y) = Lay(S, A, x)
  BY <1>4, <1>5, <1>6, <1>7
<1> QED BY <1>1, <1>8 DEF G

\* The last gap is before a node that stays.
LEMMA LayLast ==
  ASSUME NEW S, Tidy(S), NEW A \in SUBSET S, NEW e \in A, NEW x \in SubMap,
         x.from <= x.to, x.to <= e.to, e.from <= x.to,
         \A s \in S : s.from < e.from => Apart(s, x)
  PROVE  Lay(S, A, x) = S \cup Gap(e, x)
<1> DEFINE G == Gap(e, x)
           U == Span(x) \ Covered(A)
<1>0. /\ x.from \in Int /\ x.to \in Int /\ x.from \in Addr /\ x.to \in Addr /\ x.ref \in MapRef
      /\ \A s \in S : s \in SubMap /\ s.from \in Int /\ s.to \in Int /\ s.from <= s.to
      /\ e.from \in Int /\ e.to \in Int /\ e.from <= e.to /\ e \in S
      /\ 0 <= x.from /\ x.to <= MaxAddr /\ MaxAddr \in Int /\ 0 <= e.from
  BY SetEnds, NodeNumbers DEF Tidy
<1>2. /\ \A g \in G : /\ g \in SubMap /\ g.from <= g.to /\ g.ref = x.ref
                      /\ Span(g) = x.from .. e.from - 1 /\ g \notin S
                      /\ \A s \in S : Apart(s, g)
      /\ G = Part(x.from, e.from - 1, x.ref)
  BY <1>0, GapFree
<1>3. Carve(S \ A, Span(x)) = S \ A
  <2>1. ASSUME NEW s \in S \ A PROVE Span(s) \cap Span(x) = {}
    <3>1. s.to < e.from \/ e.to < s.from
      BY NodeOrder
    <3>2. CASE s.to < e.from
      BY <1>0, <3>2 DEF Apart
    <3>3. CASE e.to < s.from
      BY <1>0, <3>3 DEF Span
    <3> QED BY <3>1, <3>2, <3>3
  <2>2. Tidy(S \ A)
    BY TidySubset
  <2> QED BY <2>1, <2>2, CarveAll
<1>4. U = x.from .. e.from - 1
  <2>1. \A a \in e.from .. e.to : a \in Covered(A)
    BY DEF Covered, Span
  <2>2. ASSUME NEW a \in x.from .. e.from - 1 PROVE a \notin Covered(A)
    <3>1. [from |-> x.from, to |-> e.from - 1, ref |-> x.ref] \in G
      BY <1>0, <1>2 DEF Part
    <3>2. PICK g \in G : Span(g) = x.from .. e.from - 1 /\ \A s \in S : Apart(s, g)
      BY <1>2, <3>1
    <3> QED BY <3>2 DEF Covered, Apart
  <2> QED BY <1>0, <2>1, <2>2 DEF Span
<1>5. Pieces(U, x.ref) = G
  <2>1. e.from - 1 \in Int /\ x.from .. e.from - 1 \subseteq Addr
    BY <1>0 DEF Addr
  <2> QED BY <1>0, <1>2, <1>4, <2>1, PiecesPart
<1> QED BY <1>3, <1>5 DEF Lay

\* The node e cut to what is left of it beside x, as the code cuts it.
LEMMA CutShapes ==
  ASSUME NEW S, Tidy(S), NEW e \in S, NEW x \in SubMap, x.from <= x.to,
         e.from <= x.to, x.from <= e.to
  PROVE  /\ e.from < x.from /\ e.to <= x.to => CutBefore(S, e, x) = CutTo(S, e, x)
         /\ x.from <= e.from /\ x.to < e.to => CutBehind(S, e, x) = CutTo(S, e, x)
         /\ e.from < x.from /\ x.to < e.to => Split(S, e, x) = CutTo(S, e, x) \cup {x}
         /\ x.from <= e.from /\ e.to <= x.to => S \ {e} = CutTo(S, e, x)
<1> DEFINE T == (S \ {e}) \cup Carve({e}, Span(x))
<1>0. /\ x.from \in Int /\ x.to \in Int /\ e.from \in Int /\ e.to \in Int /\ e \in SubMap
      /\ e.from <= e.to
  BY SetEnds, NodeNumbers DEF Tidy
<1>1. Carve({e}, Span(x)) = Part(e.from, x.from - 1, e.ref) \cup Part(x.to + 1, e.to, e.ref)
  BY <1>0, CarveNode
<1>2. ASSUME e.from < x.from
      PROVE  Part(e.from, x.from - 1, e.ref) = {SetTo(e, x.from - 1)}
  BY <1>0, <1>2, SetEnds DEF Part
<1>3. ASSUME ~ (e.from < x.from) PROVE Part(e.from, x.from - 1, e.ref) = {}
  BY <1>0, <1>3 DEF Part
<1>4. ASSUME x.to < e.to PROVE Part(x.to + 1, e.to, e.ref) = {SetFrom(e, x.to + 1)}
  BY <1>0, <1>4, SetEnds DEF Part
<1>5. ASSUME ~ (x.to < e.to) PROVE Part(x.to + 1, e.to, e.ref) = {}
  BY <1>0, <1>5 DEF Part
<1>6. ASSUME e.from < x.from, e.to <= x.to PROVE CutBefore(S, e, x) = T
  <2>1. ~ (x.to < e.to)
    BY <1>0, <1>6
  <2>2. Carve({e}, Span(x)) = {SetTo(e, x.from - 1)}
    BY <1>1, <1>2, <1>5, <1>6, <2>1
  <2> QED BY <2>2 DEF CutBefore, Change
<1>7. ASSUME x.from <= e.from, x.to < e.to PROVE CutBehind(S, e, x) = T
  <2>1. ~ (e.from < x.from)
    BY <1>0, <1>7
  <2>2. Carve({e}, Span(x)) = {SetFrom(e, x.to + 1)}
    BY <1>1, <1>3, <1>4, <1>7, <2>1
  <2> QED BY <2>2 DEF CutBehind, Change
<1>8. ASSUME e.from < x.from, x.to < e.to PROVE Split(S, e, x) = T \cup {x}
  BY <1>0, <1>1, <1>2, <1>4, <1>8 DEF CutBefore, Split, Change
<1>9. ASSUME x.from <= e.from, e.to <= x.to PROVE S \ {e} = T
  <2>1. ~ (e.from < x.from) /\ ~ (x.to < e.to)
    BY <1>0, <1>9
  <2>2. Carve({e}, Span(x)) = {}
    BY <1>1, <1>3, <1>5, <2>1
  <2> QED BY <2>2
<1> QED BY <1>6, <1>7, <1>8, <1>9 DEF CutTo

\* What is left of e is beside x, and the others are as they were.
LEMMA CutLeaves ==
  ASSUME NEW S, Tidy(S), NEW e \in S, NEW x
  PROVE  \A s \in CutTo(S, e, x) : Apart(s, x) \/ s \in S \ {e}
<1>1. Tidy({e})
  BY TidySubset
<1>2. \A s \in Carve({e}, Span(x)) : Apart(s, x)
  BY <1>1, CarveAway DEF Apart
<1> QED BY <1>2 DEF CutTo

-----------------------------------------------------------------------------
(* The invariant: what each walk has left to do.                            *)

\* The bank that an operation in closed form gives.
Outcome(o, ms, bk, i, x) ==
  IF o = "AddTop" THEN AddTop(ms, bk, i)
  ELSE IF o = "AddBottom" THEN AddBottom(ms, bk, i)
  ELSE IF o = "Priorize" THEN Priorize(ms, bk, i)
  ELSE IF o = "DelMap" THEN DelMap(ms, bk, i)
  ELSE IF o = "Depriorize" THEN Depriorize(ms, bk, i)
  ELSE IF o = "Update" THEN UpdateBoundaries(ms, bk, i, x)
  ELSE Drain(bk)

\* The one the call is to leave.
Expected == Outcome(op, maps, found, id, old)

\* The node is before the one the walk is at.
Passed(s) == at = NoSubMap \/ s.from < at.from
PassedApart == \A s \in tree : Passed(s) => Apart(s, sm)

Submap(x) == x \in SubMap /\ x.from <= x.to

CutInv ==
  /\ op \in {"AddTop", "Priorize"}
  /\ Submap(sm) /\ PassedApart
  /\ at # NoSubMap => at.from >= sm.from
  /\ op = "Priorize" => prio \in DOMAIN refs
  /\ Expected = [submaps |-> Lay(tree, {}, sm),
                 maprefs |-> Append(IF op = "Priorize" THEN Without(refs, prio) ELSE refs, sm.ref),
                 lastUsed |-> used, drainMe |-> drain \/ op = "Priorize"]

BottomInv ==
  /\ op \in {"AddBottom", "Depriorize"}
  /\ Submap(sm) /\ PassedApart
  /\ at # NoSubMap => at.to >= sm.from
  /\ Expected = [submaps |-> Lay(tree, tree, sm), maprefs |-> <<sm.ref>> \o refs,
                 lastUsed |-> used, drainMe |-> drain]

\* What the maps below position k of a list put in the place of the addresses A.
Left(ms, list, A, k, i) == {a \in A : Serves(ms, list, k, i, a)}
Fill(ms, list, A, k) == UNION {Pieces(Left(ms, list, A, k, i), list[i]) : i \in 1 .. k - 1}
Fills(ms, list, S, k) == UNION {Fill(ms, list, Span(s), k) : s \in S}

Queued == {todo[n] : n \in DOMAIN todo}
Taken == {s \in tree : s.ref.id = id /\ Overlaps(s, old)}

\* Of the submaps in S, those with a higher priority than the map at position k.
AboveIn(S, list, i, k) ==
  {s \in S : s.ref.id = i \/ \E j \in k + 1 .. Len(list) : list[j].id = s.ref.id}

\* A map laid in between.
LayBetween(w, i, k, x) ==
  [w EXCEPT !.submaps = Lay(@, AboveIn(@, w.maprefs, i, k), x),
            !.drainMe = @ \/ Hits(w.submaps, x) # {}]

\* What each caller makes of the bank w that _delete_submaps_from_bank_tree leaves.
Rest(o, ms, w, i, k) ==
  IF o = "DelMap" THEN Fresh(Forget(w, k))
  ELSE IF o = "Depriorize" THEN AddBottom(ms, Forget(w, k), i)
  ELSE LayBetween(w, i, k, SubMapOf(ms, w.maprefs[k]))

\* The submaps in gone have left the tree, and those of owed are in it.
Filled(gone, owed) ==
  [submaps |-> (tree \ gone) \cup owed, maprefs |-> refs, lastUsed |-> used,
   drainMe |-> drain \/ owed # {}]

Owes(gone, owed) ==
  /\ Tidy(Filled(gone, owed).submaps)
  /\ Expected = Rest(op, maps, Filled(gone, owed), id, prio)

\* The position is the highest of the map.
Topmost(list, i, k) ==
  k \in DOMAIN list /\ list[k].id = i /\ \A n \in DOMAIN list : list[n].id = i => n <= k

Withdrawing ==
  /\ op \in {"DelMap", "Depriorize", "Update"}
  /\ maps[id] # NoMap
  /\ old # NoMap /\ old.from <= old.to
  /\ prio \in DOMAIN refs
  /\ op # "DelMap" => used = NoSubMap
  /\ op = "Update" => Topmost(refs, id, prio) /\ Live(maps, refs[prio])
  /\ \A s \in Queued : Submap(s)

EnqueueInv ==
  /\ Withdrawing
  /\ at # NoSubMap => at.to >= old.from
  /\ \A s \in tree : Passed(s) => s \notin Taken
  /\ Owes(Taken, Fills(maps, refs, Taken \cup Queued, prio))

DequeueInv ==
  /\ Withdrawing /\ at = NoSubMap
  /\ Owes({}, Fills(maps, refs, Queued, prio))

FillInv ==
  /\ Withdrawing /\ at = NoSubMap
  /\ Submap(sm)
  /\ ator \in 0 .. prio - 1
  /\ ator # 0 => \A j \in ator + 1 .. prio - 1, a \in Span(sm) : ~Covers(maps, refs[j], a)
  /\ Owes({}, Fills(maps, refs, Queued, prio) \cup Fill(maps, refs, Span(sm), ator + 1))

UpdateInv ==
  /\ op = "Update"
  /\ Submap(sm) /\ sm.ref.id = id /\ PassedApart
  /\ Topmost(refs, id, prio)
  /\ used = NoSubMap
  /\ at # NoSubMap => \/ at.from >= sm.from
                      \/ at.to + 1 = sm.from /\ at \in AboveIn(tree, refs, id, prio)
  /\ Expected = [submaps |-> Lay(tree, AboveIn(tree, refs, id, prio), sm), maprefs |-> refs,
                 lastUsed |-> used, drainMe |-> drain]

\* The longest chains of S, each as one submap.
Longest(S, c) == /\ c \in S \X S /\ Chained(S, c[1], c[2])
                 /\ \A u \in S : /\ Chained(S, u, c[1]) => u = c[1]
                                 /\ Chained(S, c[2], u) => u = c[2]
Merged(S) == {[from |-> c[1].from, to |-> c[2].to, ref |-> c[1].ref] :
                c \in {c \in S \X S : Longest(S, c)}}

DrainInv ==
  /\ op = "Drain"
  /\ used = NoSubMap
  /\ \A s, t \in tree : Passed(s) /\ Chained(tree, s, t) => s = t
  /\ Expected = [submaps |-> Merged(tree), maprefs |-> refs, lastUsed |-> used, drainMe |-> FALSE]

\* Where the asked interval is free: the places LocateFinds is about.
Places(S, q) == {p \in q.addr .. MaxAddr : /\ p % q.align = 0
                                           /\ ~Wraps(p, q.size)
                                           /\ p .. p + q.size - 1 \cap Covered(S) = {}}

\* No place before the end of the node the walk is at.
LocateInv ==
  /\ op = "Locate" /\ at # NoSubMap
  /\ ask \in [addr : Addr, size : Sizes, align : Aligns]
  /\ pc = "byte" <=> ask.align = 1
  /\ ask.align = 1 \/ Places(tree, ask) # {} => ask.addr <= at.to
  /\ \A p \in Places(tree, ask) : at.to < p

\* The kinds of what a call keeps, and of the bank.
MapRec == [from : Addr, to : Addr, ts : Nat]
CallKinds ==
  /\ maps \in [MapIds -> MapRec \cup {NoMap}] /\ SoundMaps(maps)
  /\ id \in MapIds \cup {NoMap}
  /\ old \in MapRec \cup {NoMap}
  /\ at \in SubMap \cup {NoSubMap}
  /\ sm \in SubMap \cup {NoSubMap}
  /\ todo \in Seq(SubMap)
  /\ prio \in Nat /\ ator \in Nat
BankKinds ==
  /\ Tidy(tree)
  /\ refs \in Seq(MapRef)
  /\ used \in SubMap \cup {NoSubMap}
  /\ drain \in BOOLEAN

Walking == {"cut", "bottom", "enqueue", "dequeue", "fill", "update"}

IInv ==
  /\ CallKinds /\ BankKinds
  /\ pc # "done" => at \in tree \cup {NoSubMap}
  /\ pc \in {"idle", "done", "byte", "aligned"} => SoundBank(Now)
  /\ pc # "idle" => SoundBank(found)
  /\ pc \in Walking => id \in MapIds
  /\ pc = "done" /\ op # "Locate" => Now = Expected
  /\ pc = "done" => LocateFinds
  /\ pc = "cut" => CutInv
  /\ pc = "bottom" => BottomInv
  /\ pc = "enqueue" => EnqueueInv
  /\ pc = "dequeue" => DequeueInv
  /\ pc = "fill" => FillInv
  /\ pc = "update" => UpdateInv
  /\ pc = "drain" => DrainInv
  /\ pc \in {"byte", "aligned"} => LocateInv

-----------------------------------------------------------------------------
(* The next state of a call.                                                *)

LEMMA OutcomeSound ==
  ASSUME NEW ms, SoundMaps(ms), NEW bk, SoundBank(bk), NEW o, NEW x, NEW i,
         o \in {"DelMap", "Update", "Drain"} \/ i \in MapIds
  PROVE  SoundBank(Outcome(o, ms, bk, i, x))
<1>1. o \notin {"DelMap", "Update", "Drain"} => i \in MapIds
  OBVIOUS
<1>2. SoundBank(Drain(bk)) /\ SoundBank(DelMap(ms, bk, i)) /\ SoundBank(UpdateBoundaries(ms, bk, i, x))
  BY DrainSound, DelMapSound, UpdateBoundariesSound
<1>3. i \in MapIds => /\ SoundBank(AddTop(ms, bk, i)) /\ SoundBank(AddBottom(ms, bk, i))
                      /\ SoundBank(Priorize(ms, bk, i)) /\ SoundBank(Depriorize(ms, bk, i))
  BY AddTopSound, AddBottomSound, PriorizeSound, DepriorizeSound
<1> QED BY <1>1, <1>2, <1>3 DEF Outcome

\* A bank of these kinds is sound if its cached node is in the tree.
LEMMA NowSound ==
  ASSUME BankKinds, used \in tree \cup {NoSubMap}
  PROVE  SoundBank(Now)
BY SoundRecord DEF BankKinds, Now

\* A call that has left what it was to leave.
LEMMA InvDone ==
  ASSUME CallKinds', pc' = "done", op' # "Locate", Now' = Expected', SoundBank(found'),
         op' \in {"DelMap", "Update", "Drain"} \/ id' \in MapIds
  PROVE  IInv'
<1>1. SoundMaps(maps')
  BY DEF CallKinds
<1>2. SoundBank(Expected')
  BY <1>1, OutcomeSound DEF Expected
<1>3. SoundBank(Now')
  BY <1>2
<1>4. /\ Now'.submaps = tree' /\ Now'.maprefs = refs' /\ Now'.lastUsed = used'
      /\ Now'.drainMe = drain'
  BY DEF Now
<1>5. Now' \in Bank /\ Tidy(tree')
  BY <1>3, <1>4 DEF SoundBank
<1>6. BankKinds'
  BY <1>4, <1>5, BankFields DEF BankKinds
<1>7. LocateFinds'
  BY DEF LocateFinds
<1>8. SoundBank(Now)'
  BY <1>3
<1>9. SoundBank(found)' /\ (Now = Expected)'
  OBVIOUS
<1> QED BY <1>6, <1>7, <1>8, <1>9 DEF IInv, Walking

\* A call that found nothing to do.
LEMMA InvNothing ==
  ASSUME IInv, pc = "idle", CallKinds', pc' = "done", op' # "Locate", found' = Now,
         op' \in {"DelMap", "Update", "Drain"} \/ id' \in MapIds, UNCHANGED bank, Expected' = found'
  PROVE  IInv'
<1>1. SoundBank(found') /\ Now' = Now
  BY DEF IInv, bank, Now
<1> QED BY <1>1, InvDone

\* What a walk leaves alone, it keeps of its kind.
LEMMA SameExpected ==
  ASSUME UNCHANGED maps, UNCHANGED call
  PROVE  Expected' = Expected /\ op' = op /\ id' = id /\ found' = found /\ old' = old /\ prio' = prio
BY DEF call, Expected

\* A node of the tree, in numbers.
LEMMA TreeNode ==
  ASSUME BankKinds, NEW e \in tree
  PROVE  /\ e \in SubMap /\ e # NoSubMap /\ e.from <= e.to
         /\ e.from \in Int /\ e.to \in Int /\ e.ref \in MapRef
BY SetEnds, NoSubMapAssumption DEF BankKinds, Tidy

-----------------------------------------------------------------------------
(* A map laid on top.                                                       *)

\* Both callers, once they have found a node in the way.
LEMMA LayOverStep ==
  ASSUME BankKinds, CallKinds', NEW o \in {"AddTop", "Priorize"},
         NEW k, o = "Priorize" => k \in DOMAIN refs /\ prio' = k,
         NEW x, Submap(x), NEW e, e = Entry(tree, x), e # NoSubMap,
         LayOver(o, k, e, x),
         op' = o, id' \in MapIds, SoundBank(found'),
         Expected' = [submaps |-> Lay(tree, {}, x),
                      maprefs |-> Append(IF o = "Priorize" THEN Without(refs, k) ELSE refs, x.ref),
                      lastUsed |-> NoSubMap, drainMe |-> drain \/ o = "Priorize"]
  PROVE  IInv'
<1> DEFINE T == CutTo(tree, e, x)
<1>0. Tidy(tree) /\ x \in SubMap /\ x.from <= x.to /\ x.from \in Int /\ x.to \in Int
  BY SetEnds DEF BankKinds, Submap
<1>1. /\ e \in tree /\ e.from <= x.to /\ x.from <= e.to
      /\ \A s \in tree : s.from < e.from => Apart(s, x)
  BY <1>0, EntryNode
<1>2. /\ e \in SubMap /\ e.from <= e.to /\ e.from \in Int /\ e.to \in Int
      /\ \A s \in tree : s \in SubMap /\ s.from \in Int /\ s.to \in Int /\ s.from <= s.to
  BY <1>1, TreeNode
<1>3. Tidy(T) /\ Lay(T, {}, x) = Lay(tree, {}, x)
  <2>1. {} \in SUBSET tree /\ e \notin {}
    BY <1>1
  <2> QED BY <1>0, <1>1, <2>1, LayCut
<1>4. \A s \in T : Apart(s, x) \/ s \in tree \ {e}
  BY <1>0, <1>1, CutLeaves
<1>5. /\ e.from < x.from /\ e.to <= x.to => CutBefore(tree, e, x) = T
      /\ e.from < x.from /\ x.to < e.to => Split(tree, e, x) = T \cup {x}
  BY <1>0, <1>1, <1>2, CutShapes
<1>6. CASE e.from < x.from /\ x.to < e.to
  <2>1. tree' = T \cup {x} /\ Listed(o, k, x) /\ used' = NoSubMap
    BY <1>2, <1>0, <1>5, <1>6 DEF LayOver
  <2>2. ASSUME NEW s \in T PROVE Apart(s, x)
    <3>1. CASE s \in tree \ {e}
      <4>1. s.to < e.from \/ e.to < s.from
        BY <1>0, <1>1, <3>1, NodeOrder
      <4> QED BY <1>0, <1>2, <1>6, <3>1, <4>1, OverlapEnds
    <3> QED BY <1>4, <3>1
  <2>3. Lay(T, {}, x) = T \cup {x}
    <3>1. {} \in SUBSET T
      OBVIOUS
    <3> QED BY <1>0, <1>3, <2>2, <3>1, LayDone
  <2>4. Now' = Expected' /\ pc' = "done"
    BY <1>3, <2>1, <2>3 DEF Listed, Now
  <2> QED BY <2>4, InvDone
<1>7. CASE e.from < x.from /\ e.to <= x.to
  <2>1. /\ tree' = T /\ at' = After(tree, e) /\ pc' = "cut" /\ used' = NoSubMap /\ sm' = x
        /\ UNCHANGED <<refs, drain>>
    BY <1>2, <1>0, <1>5, <1>7 DEF LayOver
  <2>2. /\ at' = NoSubMap => \A s \in tree : s # e => s.to < e.from
        /\ at' # NoSubMap => /\ at' \in tree /\ e.to < at'.from /\ at' # e
                             /\ \A s \in tree : s.from < at'.from => s = e \/ s.to < e.from
    BY <1>0, <1>1, <2>1, AfterNode
  <2>3. at' # NoSubMap => at' \in tree' /\ at'.from >= x.from
    <3>1. at' # NoSubMap => at' \in T
      BY <2>2 DEF CutTo
    <3> QED BY <1>0, <1>1, <1>2, <2>1, <2>2, <3>1
  <2>4. ASSUME NEW s \in T, at' = NoSubMap \/ s.from < at'.from PROVE Apart(s, x)
    <3>1. CASE s \in tree \ {e}
      <4>1. s.to < e.from
        BY <2>2, <2>4, <3>1
      <4> QED BY <1>1, <1>2, <3>1, <4>1
    <3> QED BY <1>4, <3>1
  <2>5. CutInv'
    BY <1>3, <2>1, <2>3, <2>4 DEF CutInv, PassedApart, Passed
  <2>6. BankKinds'
    BY <1>3, <2>1 DEF BankKinds
  <2> QED BY <2>1, <2>3, <2>5, <2>6 DEF IInv, Walking
<1>8. CASE x.from <= e.from
  <2>1. /\ at' = e /\ pc' = "cut" /\ used' = NoSubMap /\ sm' = x
        /\ UNCHANGED <<tree, refs, drain>>
    BY <1>2, <1>0, <1>8 DEF LayOver
  <2>2. CutInv'
    BY <1>1, <1>8, <2>1 DEF CutInv, PassedApart, Passed
  <2>3. BankKinds'
    BY <2>1 DEF BankKinds
  <2> QED BY <1>1, <2>1, <2>2, <2>3 DEF IInv, Walking
<1> QED BY <1>0, <1>2, <1>6, <1>7, <1>8

\* A node is deleted that is completely inside.
LEMMA CutNodeStep ==
  ASSUME IInv, CutNode
  PROVE  IInv'
<1> USE DEF CutNode
<1>0. /\ BankKinds /\ CallKinds /\ CutInv /\ at \in tree /\ SoundBank(found) /\ id \in MapIds
  BY DEF IInv, Walking
<1>1. /\ Expected' = Expected /\ op' = op /\ id' = id /\ found' = found /\ old' = old /\ prio' = prio
  BY SameExpected
<1>2. /\ Tidy(tree) /\ sm \in SubMap /\ sm.from <= sm.to /\ sm.from \in Int /\ sm.to \in Int
      /\ at.from \in Int /\ at.to \in Int /\ at.from <= at.to
      /\ \A s \in tree : s \in SubMap /\ s.from \in Int /\ s.to \in Int /\ s.from <= s.to
  BY <1>0, TreeNode, SetEnds DEF BankKinds, CutInv, Submap
<1>3. at.from >= sm.from
  BY <1>0 DEF CutInv
<1>4. Tidy(tree') /\ Lay(tree', {}, sm) = Lay(tree, {}, sm)
  <2>1. {} \in SUBSET tree /\ at \notin {}
    OBVIOUS
  <2>2. tree' = CutTo(tree, at, sm)
    BY <1>0, <1>2, <1>3, CutShapes
  <2> QED BY <1>0, <1>2, <2>1, <2>2, LayCut
<1>5. /\ at' = NoSubMap => \A s \in tree : s # at => s.to < at.from
      /\ at' # NoSubMap => /\ at' \in tree /\ at.to < at'.from /\ at' # at
                           /\ \A s \in tree : s.from < at'.from => s = at \/ s.to < at.from
  BY <1>0, <1>2, AfterNode
<1>6. at' # NoSubMap => at' \in tree' /\ at'.from >= sm.from
  BY <1>2, <1>3, <1>5
<1>7. ASSUME NEW s \in tree', at' = NoSubMap \/ s.from < at'.from PROVE Apart(s, sm)
  <2>1. s \in tree /\ s.to < at.from
    BY <1>5, <1>7
  <2>2. s.from < at.from
    BY <1>2, <2>1
  <2> QED BY <1>0, <2>1, <2>2 DEF CutInv, PassedApart, Passed
<1>8. CutInv'
  BY <1>0, <1>1, <1>4, <1>6, <1>7 DEF CutInv, PassedApart, Passed
<1>9. BankKinds'
  BY <1>0, <1>4 DEF BankKinds
<1>10. CallKinds'
  <2>1. at' \in SubMap \cup {NoSubMap}
    BY <1>2, <1>5
  <2> QED BY <1>0, <1>1, <2>1 DEF CallKinds
<1> QED BY <1>0, <1>1, <1>6, <1>8, <1>9, <1>10 DEF IInv, Walking

\* The next node is cut, and the map inserted.
LEMMA CutEndStep ==
  ASSUME IInv, CutEnd
  PROVE  IInv'
<1> USE DEF CutEnd
<1>0. /\ BankKinds /\ CallKinds /\ CutInv /\ at \in tree \cup {NoSubMap} /\ SoundBank(found)
      /\ id \in MapIds
  BY DEF IInv, Walking
<1>1. /\ Expected' = Expected /\ op' = op /\ id' = id /\ found' = found
  BY SameExpected DEF walk
<1>2. /\ Tidy(tree) /\ sm \in SubMap /\ sm.from <= sm.to /\ sm.from \in Int /\ sm.to \in Int
      /\ \A s \in tree : s \in SubMap /\ s.from \in Int /\ s.to \in Int /\ s.from <= s.to
  BY <1>0, TreeNode, SetEnds DEF BankKinds, CutInv, Submap
<1>3. ASSUME NEW T, Tidy(T), \A s \in T : Apart(s, sm), Lay(T, {}, sm) = Lay(tree, {}, sm),
             tree' = T \cup {sm}
      PROVE  IInv'
  <2>1. Lay(T, {}, sm) = T \cup {sm}
    <3>1. {} \in SUBSET T
      OBVIOUS
    <3> QED BY <1>2, <1>3, <3>1, LayDone
  <2>2. Now' = Expected' /\ pc' = "done" /\ op' # "Locate"
    BY <1>0, <1>1, <1>3, <2>1 DEF Listed, Now, CutInv
  <2>3. CallKinds'
    BY <1>0 DEF CallKinds, walk, call
  <2> QED BY <1>0, <1>1, <2>2, <2>3, InvDone
<1>4. CASE at = NoSubMap
  <2>1. \A s \in tree : Apart(s, sm)
    BY <1>0, <1>4 DEF CutInv, PassedApart, Passed
  <2> QED BY <1>2, <1>3, <1>4, <2>1
<1>5. CASE at # NoSubMap
  <2>1. /\ at \in tree /\ at.from >= sm.from /\ at.to > sm.to
        /\ \A s \in tree : s.from < at.from => Apart(s, sm)
    BY <1>0, <1>5 DEF CutInv, PassedApart, Passed
  <2>2. ASSUME NEW s \in tree \ {at} PROVE Apart(s, sm)
    <3>1. s.to < at.from \/ at.to < s.from
      BY <1>2, <2>1, NodeOrder
    <3>2. CASE s.to < at.from
      BY <1>2, <2>1, <3>2
    <3>3. CASE at.to < s.from
      BY <1>2, <2>1, <3>3, OverlapEnds
    <3> QED BY <3>1, <3>2, <3>3
  <2>3. CASE at.from <= sm.to
    <3> DEFINE T == CutTo(tree, at, sm)
    <3>1. CutBehind(tree, at, sm) = T
      BY <1>2, <2>1, <2>3, CutShapes
    <3>2. Tidy(T) /\ Lay(T, {}, sm) = Lay(tree, {}, sm)
      <4>1. {} \in SUBSET tree /\ at \notin {}
        OBVIOUS
      <4> QED BY <1>2, <2>1, <4>1, LayCut
    <3>3. \A s \in T : Apart(s, sm)
      BY <1>2, <2>1, <2>2, CutLeaves
    <3>4. tree' = T \cup {sm}
      BY <1>5, <3>1
    <3> QED BY <1>3, <3>2, <3>3, <3>4
  <2>4. CASE at.from > sm.to
    <3>1. tree' = tree \cup {sm}
      BY <1>2, <1>5, <2>1, <2>4 DEF CutBehind
    <3>2. Apart(at, sm)
      BY <1>2, <2>1, <2>4, OverlapEnds
    <3> QED BY <1>2, <1>3, <2>2, <3>1, <3>2
  <2> QED BY <1>2, <2>1, <2>3, <2>4
<1> QED BY <1>4, <1>5

\* The call itself is of these kinds.
LEMMA BeginKinds ==
  ASSUME IInv, pc = "idle", NEW i \in MapIds \cup {NoMap}, id' = i, UNCHANGED <<maps, old, todo, ator>>,
         at' \in SubMap \cup {NoSubMap}, sm' \in SubMap \cup {NoSubMap}, prio' \in Nat
  PROVE  CallKinds'
BY DEF IInv, CallKinds

LEMMA CallAddTopStep ==
  ASSUME IInv, NEW i \in MapIds, CallAddTop(i)
  PROVE  IInv'
<1> DEFINE x == SubMapOf(maps, RefOf(maps, i))
           e == Entry(tree, x)
<1>0. /\ pc = "idle" /\ BankKinds /\ CallKinds /\ SoundBank(Now) /\ op' = "AddTop" /\ id' = i
      /\ found' = Now /\ UNCHANGED <<maps, old, todo, prio, ator, ask, answer>>
  BY DEF IInv, CallAddTop, Begin
<1>1. Expected' = AddTop(maps, Now, i)
  BY <1>0 DEF Expected, Outcome
<1>2. CASE maps[i] = NoMap
  <2>1. pc' = "done" /\ UNCHANGED <<bank, at, sm>>
    BY <1>2 DEF CallAddTop
  <2>2. CallKinds'
    BY <1>0, <2>1, BeginKinds DEF CallKinds
  <2>3. Expected' = found'
    BY <1>0, <1>1, <1>2 DEF AddTop
  <2> QED BY <1>0, <2>1, <2>2, <2>3, InvNothing
<1>3. CASE maps[i] # NoMap
  <2>0. /\ x \in SubMap /\ x.from <= x.to /\ x.from \in Int /\ x.to \in Int
        /\ Submap(x) /\ x.ref = RefOf(maps, i)
    <3>1. SoundMaps(maps)
      BY <1>0 DEF CallKinds
    <3>2. x \in SubMap /\ x.from <= x.to
      BY <1>3, <3>1, RefOfType
    <3>3. x.ref = RefOf(maps, i)
      BY DEF SubMapOf
    <3> QED BY <3>2, <3>3, SetEnds DEF Submap
  <2>1. AddTop(maps, Now, i) =
          [submaps |-> Lay(tree, {}, x), maprefs |-> Append(refs, x.ref),
           lastUsed |-> IF Hits(tree, x) = {} THEN used ELSE NoSubMap, drainMe |-> drain]
    BY <1>3, <2>0, LayOverAll DEF AddTop, Now
  <2>2. /\ Tidy(tree)
        /\ e = NoSubMap <=> Hits(tree, x) = {}
        /\ e = NoSubMap => \A s \in tree : Apart(s, x)
        /\ e # NoSubMap => /\ e \in tree /\ e.from <= x.to /\ x.from <= e.to
                           /\ \A s \in tree : s.from < e.from => Apart(s, x)
    BY <1>0, <2>0, EntryNode DEF BankKinds
  <2> HIDE DEF x, e
  <2>3. CASE e = NoSubMap
    <3>1. tree' = tree \cup {x} /\ Listed("AddTop", 0, x) /\ UNCHANGED <<used, at, sm>>
      BY <1>3, <2>3, <2>0 DEF CallAddTop, LayOver, x, e
    <3>2. Lay(tree, {}, x) = tree \cup {x}
      <4>1. {} \in SUBSET tree
        OBVIOUS
      <4> QED BY <2>0, <2>2, <2>3, <4>1, LayDone
    <3>3. Now' = Expected' /\ pc' = "done"
      <4>1. refs' = Append(refs, x.ref) /\ drain' = drain /\ pc' = "done"
        BY <1>0, <3>1 DEF Listed, BankKinds
      <4> QED BY <1>1, <2>1, <2>2, <2>3, <3>1, <3>2, <4>1 DEF Now
    <3>4. CallKinds'
      BY <1>0, <3>1, BeginKinds DEF CallKinds
    <3> QED BY <1>0, <3>3, <3>4, InvDone
  <2>4. CASE e # NoSubMap /\ e.to = x.to /\ e.from >= x.from
    <3>1. /\ tree' = Change(tree, e, x) /\ Listed("AddTop", 0, x) /\ used' = NoSubMap
          /\ UNCHANGED <<at, sm>>
      BY <1>3, <2>4 DEF CallAddTop, x, e
    <3>2. /\ e \in tree /\ e.from \in Int /\ e.to \in Int /\ e.from <= e.to
          /\ \A s \in tree : s \in SubMap /\ s.from \in Int /\ s.to \in Int /\ s.from <= s.to
      BY <1>0, <2>2, <2>4, TreeNode
    <3>3. tree \ {e} = CutTo(tree, e, x)
      BY <2>0, <2>2, <2>4, <3>2, CutShapes
    <3>4. Tidy(tree \ {e}) /\ Lay(tree \ {e}, {}, x) = Lay(tree, {}, x)
      <4>1. {} \in SUBSET tree /\ e \notin {}
        OBVIOUS
      <4> QED BY <2>2, <3>2, <3>3, <4>1, LayCut
    <3>5. ASSUME NEW s \in tree \ {e} PROVE Apart(s, x)
      <4>1. s.to < e.from \/ e.to < s.from
        BY <2>2, <3>2, NodeOrder
      <4> QED BY <2>0, <2>2, <2>4, <3>2, <4>1, OverlapEnds
    <3>6. Lay(tree \ {e}, {}, x) = (tree \ {e}) \cup {x}
      <4>1. {} \in SUBSET (tree \ {e})
        OBVIOUS
      <4> QED BY <2>0, <3>4, <3>5, <4>1, LayDone
    <3>7. Now' = Expected' /\ pc' = "done"
      <4>1. refs' = Append(refs, x.ref) /\ drain' = drain /\ pc' = "done"
        BY <1>0, <3>1 DEF Listed, BankKinds
      <4>2. tree' = Lay(tree, {}, x) /\ Hits(tree, x) # {}
        BY <2>2, <2>4, <3>1, <3>4, <3>6 DEF Change
      <4> QED BY <1>1, <2>1, <3>1, <4>1, <4>2 DEF Now
    <3>8. CallKinds'
      BY <1>0, <3>1, BeginKinds DEF CallKinds
    <3> QED BY <1>0, <3>7, <3>8, InvDone
  <2>5. CASE e # NoSubMap /\ ~ (e.to = x.to /\ e.from >= x.from)
    <3>1. LayOver("AddTop", 0, e, x)
      BY <1>3, <2>5 DEF CallAddTop, x, e
    <3>2. at' \in SubMap \cup {NoSubMap} /\ sm' \in SubMap \cup {NoSubMap}
      <4>1. e \in SubMap /\ tree \subseteq SubMap
        BY <2>2, <2>5 DEF Tidy
      <4>2. After(tree, e) \in SubMap \cup {NoSubMap}
        BY <2>2, <2>5, <4>1, AfterNode
      <4> QED BY <1>0, <2>0, <3>1, <4>1, <4>2 DEF LayOver, CallKinds
    <3>3. CallKinds'
      BY <1>0, <3>2, BeginKinds DEF CallKinds
    <3>4. Expected' =
            [submaps |-> Lay(tree, {}, x),
             maprefs |-> Append(IF "AddTop" = "Priorize" THEN Without(refs, 0) ELSE refs, x.ref),
             lastUsed |-> NoSubMap, drainMe |-> drain \/ "AddTop" = "Priorize"]
      BY <1>0, <1>1, <2>1, <2>2, <2>5 DEF BankKinds
    <3>5. e = Entry(tree, x)
      BY DEF e
    <3> QED BY <1>0, <2>0, <2>5, <3>1, <3>3, <3>4, <3>5, LayOverStep
  <2> QED BY <2>3, <2>4, <2>5
<1> QED BY <1>2, <1>3

LEMMA CallPriorizeStep ==
  ASSUME IInv, NEW i \in MapIds, CallPriorize(i)
  PROVE  IInv'
<1> DEFINE k == Lowest(Positions(Now, i))
           x == SubMapOf(maps, refs[k])
           e == Entry(tree, x)
           below == HasMap(Now, i) /\ k # Len(refs) /\ Live(maps, refs[k]) /\ e # NoSubMap
           whole == e.from = x.from /\ e.to = x.to
           some == \E s \in tree : s.from = x.from /\ s.to = x.to
<1>0. /\ pc = "idle" /\ BankKinds /\ CallKinds /\ SoundBank(Now) /\ op' = "Priorize" /\ id' = i
      /\ found' = Now /\ UNCHANGED <<maps, old, todo, ator, ask, answer>>
  BY DEF IInv, CallPriorize, Begin
<1>1. Expected' = Priorize(maps, Now, i)
  BY <1>0 DEF Expected, Outcome
<1>2. /\ Now.submaps = tree /\ Now.maprefs = refs /\ Now.lastUsed = used /\ Now.drainMe = drain
      /\ Now \in Bank
  BY <1>0 DEF Now, SoundBank
<1>3. HasMap(Now, i) => k \in DOMAIN refs /\ refs[k] \in MapRef
  <2>1. HasMap(Now, i) => k \in 1 .. Len(refs)
    BY <1>2, PositionFound
  <2>2. refs \in Seq(MapRef) /\ DOMAIN refs = 1 .. Len(refs)
    BY <1>0 DEF BankKinds
  <2> QED BY <2>1, <2>2
<1>4. HasMap(Now, i) /\ Live(maps, refs[k]) =>
        /\ x \in SubMap /\ x.from <= x.to /\ x.from \in Int /\ x.to \in Int /\ Submap(x)
        /\ x.ref = refs[k]
        /\ e = NoSubMap <=> Hits(tree, x) = {}
        /\ e # NoSubMap => /\ e \in tree /\ e.from <= x.to /\ x.from <= e.to
                           /\ \A s \in tree : s.from < e.from => Apart(s, x)
  <2> SUFFICES ASSUME HasMap(Now, i), Live(maps, refs[k])
               PROVE  /\ x \in SubMap /\ x.from <= x.to /\ x.from \in Int /\ x.to \in Int
                      /\ Submap(x) /\ x.ref = refs[k]
                      /\ e = NoSubMap <=> Hits(tree, x) = {}
                      /\ e # NoSubMap => /\ e \in tree /\ e.from <= x.to /\ x.from <= e.to
                                         /\ \A s \in tree : s.from < e.from => Apart(s, x)
    OBVIOUS
  <2>1. SoundMaps(maps) /\ Tidy(tree)
    BY <1>0 DEF CallKinds, BankKinds
  <2>2. x \in SubMap /\ x.from <= x.to
    BY <1>3, <2>1, LiveType
  <2>3. x.ref = refs[k]
    BY DEF SubMapOf
  <2>4. x.from \in Int /\ x.to \in Int /\ Submap(x)
    BY <2>2, SetEnds DEF Submap
  <2> HIDE DEF x
  <2> QED BY <2>1, <2>2, <2>3, <2>4, EntryNode
<1>5. CASE ~below
  <2>1. pc' = "done" /\ UNCHANGED <<bank, at, sm, prio>>
    BY <1>5 DEF CallPriorize
  <2>2. CallKinds'
    BY <1>0, <2>1, BeginKinds DEF CallKinds
  <2>3. Expected' = found'
    BY <1>0, <1>1, <1>2, <1>4, <1>5 DEF Priorize
  <2> QED BY <1>0, <2>1, <2>2, <2>3, InvNothing
<1>6. CASE below
  <2>0. /\ x \in SubMap /\ x.from <= x.to /\ x.from \in Int /\ x.to \in Int /\ Submap(x)
        /\ x.ref = refs[k] /\ Hits(tree, x) # {} /\ e # NoSubMap
        /\ e \in tree /\ e.from <= x.to /\ x.from <= e.to
        /\ \A s \in tree : s.from < e.from => Apart(s, x)
        /\ k \in DOMAIN refs
    BY <1>3, <1>4, <1>6
  <2>1. Priorize(maps, Now, i) =
          [submaps |-> Carve(tree, Span(x)) \cup {x}, maprefs |-> Append(Without(refs, k), refs[k]),
           lastUsed |-> NoSubMap, drainMe |-> drain \/ ~some]
    BY <1>2, <1>6, <2>0 DEF Priorize
  <2>2. Carve(tree, Span(x)) \cup {x} = Lay(tree, {}, x)
    BY <2>0, LayOverAll
  <2>3. Tidy(tree)
    BY <1>0 DEF BankKinds
  <2>4. e.from \in Int /\ e.to \in Int /\ e.from <= e.to
    BY <1>0, <2>0, TreeNode
  <2>5. some <=> whole
    <3>1. ASSUME NEW s \in tree, s.from = x.from, s.to = x.to PROVE s = e
      <4>1. s # e => s.to < e.from \/ e.to < s.from
        BY <2>0, <2>3, NodeOrder
      <4> QED BY <2>0, <2>4, <3>1, <4>1
    <3> QED BY <2>0, <3>1
  <2>6. Expected' = [submaps |-> Lay(tree, {}, x), maprefs |-> Append(Without(refs, k), x.ref),
                     lastUsed |-> NoSubMap, drainMe |-> drain \/ ~whole]
    BY <1>1, <2>0, <2>1, <2>2, <2>5
  <2> HIDE DEF some
  <2>7. CASE whole
    <3>1. /\ tree' = Change(tree, e, [e EXCEPT !.ref = x.ref]) /\ used' = NoSubMap
          /\ refs' = Append(Without(refs, k), x.ref)
          /\ pc' = "done" /\ UNCHANGED <<drain, at, sm, prio>>
      BY <1>6, <2>7 DEF CallPriorize
    <3>2. [e EXCEPT !.ref = x.ref] = x
      <4>1. e \in SubMap /\ x \in SubMap
        BY <2>0, <2>3 DEF Tidy
      <4> HIDE DEF x, e
      <4> QED BY <2>7, <4>1 DEF SubMap
    <3> HIDE DEF x, e, k
    <3>3. tree \ {e} = CutTo(tree, e, x)
      BY <2>0, <2>3, <2>4, <2>7, CutShapes
    <3>4. Tidy(tree \ {e}) /\ Lay(tree \ {e}, {}, x) = Lay(tree, {}, x)
      <4>1. {} \in SUBSET tree /\ e \notin {}
        OBVIOUS
      <4> QED BY <2>0, <2>3, <3>3, <4>1, LayCut
    <3>5. ASSUME NEW s \in tree \ {e} PROVE Apart(s, x)
      <4>1. s.to < e.from \/ e.to < s.from
        BY <2>0, <2>3, NodeOrder
      <4>2. s \in SubMap /\ s.from \in Int /\ s.to \in Int /\ s.from <= s.to
        BY <1>0, TreeNode
      <4> QED BY <2>0, <2>4, <2>7, <4>1, <4>2, OverlapEnds
    <3>6. Lay(tree \ {e}, {}, x) = (tree \ {e}) \cup {x}
      <4>1. {} \in SUBSET (tree \ {e})
        OBVIOUS
      <4> QED BY <2>0, <3>4, <3>5, <4>1, LayDone
    <3>7. tree' = Lay(tree, {}, x)
      BY <3>1, <3>2, <3>4, <3>6 DEF Change
    <3>8. drain' = (drain \/ ~whole)
      BY <1>0, <2>7, <3>1 DEF BankKinds
    <3>9. Now' = Expected' /\ pc' = "done"
      BY <2>6, <3>1, <3>7, <3>8 DEF Now
    <3>10. CallKinds'
      BY <1>0, <3>1, BeginKinds DEF CallKinds
    <3> QED BY <1>0, <3>9, <3>10, InvDone
  <2>8. CASE ~whole
    <3>1. prio' = k /\ LayOver("Priorize", k, e, x)
      BY <1>6, <2>8 DEF CallPriorize
    <3>2. prio' \in Nat
      BY <1>0, <2>0, <3>1 DEF BankKinds
    <3>3. Expected' =
            [submaps |-> Lay(tree, {}, x),
             maprefs |-> Append(IF "Priorize" = "Priorize" THEN Without(refs, k) ELSE refs, x.ref),
             lastUsed |-> NoSubMap, drainMe |-> drain \/ "Priorize" = "Priorize"]
      BY <2>6, <2>8
    <3>4. e = Entry(tree, x)
      OBVIOUS
    <3> HIDE DEF x, e, k
    <3>5. at' \in SubMap \cup {NoSubMap} /\ sm' \in SubMap \cup {NoSubMap}
      <4>1. e \in SubMap /\ tree \subseteq SubMap
        BY <2>0, <2>3 DEF Tidy
      <4>2. After(tree, e) \in SubMap \cup {NoSubMap}
        BY <2>0, <2>3, <4>1, AfterNode
      <4> QED BY <1>0, <2>0, <3>1, <4>1, <4>2 DEF LayOver, CallKinds
    <3>6. CallKinds'
      BY <1>0, <3>2, <3>5, BeginKinds
    <3> QED BY <1>0, <2>0, <3>1, <3>3, <3>4, <3>6, LayOverStep
  <2> QED BY <2>7, <2>8
<1> QED BY <1>5, <1>6

-----------------------------------------------------------------------------
(* A map laid underneath.                                                   *)

\* The walk of r_io_bank_map_add_bottom begins, for itself or at the end of
\* r_io_bank_map_depriorize.
LEMMA BottomStart ==
  ASSUME BankKinds', CallKinds', Submap(sm'), at' = Entry(tree', sm'), pc' = "bottom",
         op' \in {"AddBottom", "Depriorize"}, id' \in MapIds, SoundBank(found'),
         Expected' = [submaps |-> Lay(tree', tree', sm'), maprefs |-> <<sm'.ref>> \o refs',
                      lastUsed |-> used', drainMe |-> drain']
  PROVE  IInv'
<1>1. /\ Tidy(tree') /\ sm'.from \in Int /\ sm'.to \in Int /\ sm'.from <= sm'.to
  BY SetEnds DEF BankKinds, Submap
<1>2. /\ at' = NoSubMap => \A s \in tree' : Apart(s, sm')
      /\ at' # NoSubMap =>
           /\ at' \in tree' /\ sm'.from <= at'.to
           /\ \A s \in tree' : s.from < at'.from => Apart(s, sm')
  BY <1>1, EntryNode
<1>3. at' # NoSubMap => at'.to \in Int
  BY <1>1, <1>2, NodeNumbers
<1>4. BottomInv'
  BY <1>1, <1>2, <1>3 DEF BottomInv, PassedApart, Passed
<1> QED BY <1>2, <1>4 DEF IInv, Walking

LEMMA CallAddBottomStep ==
  ASSUME IInv, NEW i \in MapIds, CallAddBottom(i)
  PROVE  IInv'
<1> DEFINE x == SubMapOf(maps, RefOf(maps, i))
<1>0. /\ pc = "idle" /\ BankKinds /\ CallKinds /\ SoundBank(Now) /\ op' = "AddBottom" /\ id' = i
      /\ found' = Now /\ UNCHANGED <<maps, bank, old, todo, prio, ator, ask, answer>>
  BY DEF IInv, CallAddBottom, Begin
<1>1. Expected' = AddBottom(maps, Now, i)
  BY <1>0 DEF Expected, Outcome
<1>2. CASE maps[i] = NoMap
  <2>1. pc' = "done" /\ UNCHANGED <<at, sm>>
    BY <1>2 DEF CallAddBottom
  <2>2. CallKinds'
    BY <1>0, <2>1, BeginKinds DEF CallKinds
  <2>3. Expected' = found'
    BY <1>0, <1>1, <1>2 DEF AddBottom
  <2> QED BY <1>0, <2>1, <2>2, <2>3, InvNothing
<1>3. CASE maps[i] # NoMap
  <2>1. x \in SubMap /\ x.from <= x.to /\ x.ref = RefOf(maps, i)
    <3>1. SoundMaps(maps)
      BY <1>0 DEF CallKinds
    <3>2. x \in SubMap /\ x.from <= x.to
      BY <1>3, <3>1, RefOfType
    <3> QED BY <3>2 DEF SubMapOf
  <2>2. AddBottom(maps, Now, i) =
          [submaps |-> Lay(tree, tree, x), maprefs |-> <<x.ref>> \o refs,
           lastUsed |-> used, drainMe |-> drain]
    BY <1>3, <2>1, LayUnderAll DEF AddBottom, Now
  <2>3. sm' = x /\ at' = Entry(tree, x) /\ pc' = "bottom"
    BY <1>3 DEF CallAddBottom
  <2>4. UNCHANGED <<tree, refs, used, drain>>
    BY <1>0 DEF bank
  <2> HIDE DEF x
  <2>5. Tidy(tree) /\ x.from \in Int /\ x.to \in Int
    BY <1>0, <2>1, SetEnds DEF BankKinds
  <2>6. at' \in SubMap \cup {NoSubMap}
    <3>1. at' # NoSubMap => at' \in tree
      BY <2>1, <2>3, <2>5, EntryNode
    <3> QED BY <2>5, <3>1 DEF Tidy
  <2>7. CallKinds'
    BY <1>0, <2>1, <2>3, <2>6, BeginKinds DEF CallKinds
  <2>8. BankKinds'
    BY <1>0, <2>4 DEF BankKinds
  <2>9. Submap(sm')
    BY <2>1, <2>3 DEF Submap
  <2> QED BY <1>0, <1>1, <2>2, <2>3, <2>4, <2>7, <2>8, <2>9, BottomStart
<1> QED BY <1>2, <1>3

\* The gap before a node is filled, and the walk goes on behind it.
LEMMA BottomNodeStep ==
  ASSUME IInv, BottomNode
  PROVE  IInv'
<1> DEFINE S == tree \cup Gap(at, sm)
<1>0. /\ BankKinds /\ CallKinds /\ BottomInv /\ at \in tree /\ at # NoSubMap /\ at.from <= sm.to
      /\ SoundBank(found) /\ id \in MapIds /\ tree' = GapFilled(tree, at, sm)
      /\ UNCHANGED <<maps, used, drain, todo, ator, answer>> /\ UNCHANGED call
  BY DEF IInv, Walking, BottomNode
<1>1. /\ Expected' = Expected /\ op' = op /\ id' = id /\ found' = found /\ old' = old /\ prio' = prio
  BY <1>0, SameExpected
<1>2. /\ Tidy(tree) /\ sm \in SubMap /\ sm.from <= sm.to /\ sm.from \in Int /\ sm.to \in Int
      /\ at.from \in Int /\ at.to \in Int /\ at.from <= at.to /\ at.to >= sm.from
      /\ \A s \in tree : s \in SubMap /\ s.from \in Int /\ s.to \in Int /\ s.from <= s.to
      /\ \A s \in tree : s.from < at.from => Apart(s, sm)
  BY <1>0, TreeNode, SetEnds DEF BankKinds, BottomInv, Submap, PassedApart, Passed
<1>3. tree' = S /\ Tidy(S) /\ \A g \in Gap(at, sm) : g \in SubMap /\ Span(g) = sm.from .. at.from - 1
  <2>1. /\ \A g \in Gap(at, sm) : /\ g \in SubMap /\ g.from <= g.to /\ g.ref = sm.ref
                                /\ Span(g) = sm.from .. at.from - 1 /\ g \notin tree
                                /\ \A s \in tree : Apart(s, g)
        /\ Tidy(tree \cup Gap(at, sm))
        /\ GapFilled(tree, at, sm) = tree \cup Gap(at, sm)
    BY <1>0, <1>2, GapFree
  <2> QED BY <1>0, <2>1
<1>4. CASE sm.to <= at.to
  <2>1. refs' = <<sm.ref>> \o refs /\ pc' = "done" /\ UNCHANGED <<at, sm>>
    BY <1>2, <1>4 DEF BottomNode
  <2>2. Lay(tree, tree, sm) = S
    <3>1. tree \in SUBSET tree
      OBVIOUS
    <3> QED BY <1>0, <1>2, <1>4, <3>1, LayLast
  <2>3. Now' = Expected' /\ op' # "Locate"
    BY <1>0, <1>1, <1>3, <2>1, <2>2 DEF BottomInv, Now
  <2>4. CallKinds'
    BY <1>0, <1>1, <2>1 DEF CallKinds
  <2> QED BY <1>0, <1>1, <2>1, <2>3, <2>4, InvDone
<1>5. CASE sm.to > at.to
  <2>1. sm' = SetFrom(sm, at.to + 1) /\ at' = After(tree, at) /\ UNCHANGED <<refs, pc>> /\ pc = "bottom"
    BY <1>2, <1>5 DEF BottomNode
  <2>2. /\ sm' \in SubMap /\ sm'.from = at.to + 1 /\ sm'.to = sm.to /\ sm'.ref = sm.ref
        /\ Lay(S, S, sm') = Lay(tree, tree, sm)
    <3>1. tree \in SUBSET tree /\ at.to < sm.to /\ sm.from <= at.to + 1
      BY <1>2, <1>5
    <3> QED BY <1>0, <1>2, <2>1, <3>1, LayPass
  <2>3. /\ at' = NoSubMap => \A s \in tree : s # at => s.to < at.from
        /\ at' # NoSubMap => /\ at' \in tree /\ at.to < at'.from /\ at' # at
                             /\ \A s \in tree : s.from < at'.from => s = at \/ s.to < at.from
    BY <1>0, <1>2, <2>1, AfterNode
  <2>4. at' # NoSubMap => at' \in S /\ at'.to >= sm'.from
    BY <1>2, <2>2, <2>3
  <2>5. ASSUME NEW s \in S, at' = NoSubMap \/ s.from < at'.from PROVE Apart(s, sm')
    <3>1. sm'.from \in Int /\ sm'.to \in Int /\ sm'.from <= sm'.to
      BY <1>2, <1>5, <2>2
    <3>2. CASE s \in tree
      <4>1. s = at \/ s.to < at.from
        BY <2>3, <2>5, <3>2
      <4>2. s.to < sm'.from
        BY <1>2, <2>2, <3>2, <4>1
      <4> QED BY <1>2, <2>2, <3>1, <3>2, <4>2, OverlapEnds
    <3>3. CASE s \in Gap(at, sm)
      <4>1. Span(s) = sm.from .. at.from - 1
        BY <1>3, <3>3
      <4>2. Span(sm') = at.to + 1 .. sm.to
        BY <2>2 DEF Span
      <4> QED BY <1>2, <4>1, <4>2 DEF Apart
    <3> QED BY <2>5, <3>2, <3>3
  <2>6. Submap(sm')
    BY <1>2, <1>5, <2>2 DEF Submap
  <2>7. BottomInv'
    BY <1>0, <1>1, <1>3, <2>1, <2>2, <2>4, <2>5, <2>6 DEF BottomInv, PassedApart, Passed
  <2>8. BankKinds'
    BY <1>0, <1>3, <2>1 DEF BankKinds
  <2>9. CallKinds'
    BY <1>0, <1>1, <1>2, <2>2, <2>3 DEF CallKinds
  <2> QED BY <1>0, <1>1, <1>3, <2>1, <2>4, <2>7, <2>8, <2>9 DEF IInv, Walking
<1> QED BY <1>2, <1>4, <1>5

\* No node is in the way of what is left.
LEMMA BottomEndStep ==
  ASSUME IInv, BottomEnd
  PROVE  IInv'
<1>0. /\ BankKinds /\ CallKinds /\ BottomInv /\ at \in tree \cup {NoSubMap} /\ SoundBank(found)
      /\ id \in MapIds /\ tree' = tree \cup {sm} /\ refs' = <<sm.ref>> \o refs /\ pc' = "done"
      /\ at # NoSubMap => at.from > sm.to
      /\ UNCHANGED <<maps, used, drain>> /\ UNCHANGED walk
  BY DEF IInv, Walking, BottomEnd
<1>1. /\ Expected' = Expected /\ op' = op /\ id' = id /\ found' = found
  BY <1>0, SameExpected DEF walk
<1>2. /\ Tidy(tree) /\ sm \in SubMap /\ sm.from <= sm.to /\ sm.from \in Int /\ sm.to \in Int
      /\ \A s \in tree : s \in SubMap /\ s.from \in Int /\ s.to \in Int /\ s.from <= s.to
  BY <1>0, TreeNode, SetEnds DEF BankKinds, BottomInv, Submap
<1>3. ASSUME NEW s \in tree PROVE Apart(s, sm)
  <2>1. CASE Passed(s)
    BY <1>0, <2>1 DEF BottomInv, PassedApart
  <2>2. CASE ~Passed(s)
    <3>1. at \in tree /\ at.from \in Int /\ at.from > sm.to /\ ~ (s.from < at.from)
      BY <1>0, <1>2, <2>2 DEF Passed
    <3> QED BY <1>2, <3>1, OverlapEnds
  <2> QED BY <2>1, <2>2
<1>4. Lay(tree, tree, sm) = tree \cup {sm}
  <2>1. tree \in SUBSET tree
    OBVIOUS
  <2> QED BY <1>2, <1>3, <2>1, LayDone
<1>5. Now' = Expected' /\ op' # "Locate"
  BY <1>0, <1>1, <1>4 DEF BottomInv, Now
<1>6. CallKinds'
  BY <1>0 DEF CallKinds, walk, call
<1> QED BY <1>0, <1>1, <1>5, <1>6, InvDone

-----------------------------------------------------------------------------
(* What the maps below a position serve.                                    *)

\* Nothing is served in no addresses, or below the first position.
LEMMA FillNone ==
  ASSUME NEW ms, NEW list, NEW A
  PROVE  /\ Fill(ms, list, A, 1) = {}
         /\ \A k : Fill(ms, list, {}, k) = {}
<1>1. 1 .. 1 - 1 = {}
  OBVIOUS
<1>2. \A k, i : Pieces(Left(ms, list, {}, k, i), list[i]) = {}
  BY PiecesNone DEF Left
<1> QED BY <1>1, <1>2 DEF Fill

\* References that meet none of the addresses can be passed over.
LEMMA FillShorter ==
  ASSUME NEW ms, NEW list, NEW A, NEW k \in Nat, NEW m \in Nat, m <= k,
         \A j \in m .. k - 1, a \in A : ~Covers(ms, list[j], a)
  PROVE  Fill(ms, list, A, k) = Fill(ms, list, A, m)
<1>1. ASSUME NEW i \in 1 .. m - 1
      PROVE  i \in 1 .. k - 1 /\ Left(ms, list, A, k, i) = Left(ms, list, A, m, i)
  <2>1. ASSUME NEW a \in A PROVE Serves(ms, list, k, i, a) <=> Serves(ms, list, m, i, a)
    BY <1>1 DEF Serves
  <2> QED BY <1>1, <2>1 DEF Left
<1>2. ASSUME NEW i \in 1 .. k - 1, i \notin 1 .. m - 1
      PROVE  Pieces(Left(ms, list, A, k, i), list[i]) = {}
  <2>1. i \in m .. k - 1
    BY <1>2
  <2>2. Left(ms, list, A, k, i) = {}
    BY <2>1 DEF Left, Serves
  <2> QED BY <2>2, PiecesNone
<1>3. ASSUME NEW p PROVE p \in Fill(ms, list, A, k) <=> p \in Fill(ms, list, A, m)
  <2>1. p \in Fill(ms, list, A, k) <=>
          \E i \in 1 .. k - 1 : p \in Pieces(Left(ms, list, A, k, i), list[i])
    BY DEF Fill
  <2>2. p \in Fill(ms, list, A, m) <=>
          \E i \in 1 .. m - 1 : p \in Pieces(Left(ms, list, A, m, i), list[i])
    BY DEF Fill
  <2> QED BY <1>1, <1>2, <2>1, <2>2
<1> QED BY <1>3

\* The highest map of them serves what it meets, those below it the two sides.
LEMMA FillParts ==
  ASSUME NEW ms, NEW list, NEW s \in SubMap, NEW k \in Nat \ {0}, NEW y \in SubMap,
         s.from <= s.to, y.from <= y.to, y.from <= s.to, s.from <= y.to,
         \A a \in Span(s) : Covers(ms, list[k], a) <=> a \in Span(y),
         NEW mid \in SubMap, mid.ref = list[k],
         mid.from = IF s.from < y.from THEN y.from ELSE s.from,
         mid.to = IF y.to < s.to THEN y.to ELSE s.to
  PROVE  Fill(ms, list, Span(s), k + 1) =
           {mid} \cup Fill(ms, list, s.from .. y.from - 1, k) \cup Fill(ms, list, y.to + 1 .. s.to, k)
<1> DEFINE lo == s.from .. y.from - 1
           hi == y.to + 1 .. s.to
<1>0. /\ s.from \in Int /\ s.to \in Int /\ y.from \in Int /\ y.to \in Int
      /\ Span(s) \in SUBSET Addr /\ Addr \subseteq Int /\ k \in Int
      /\ mid.from \in Int /\ mid.to \in Int
  BY SetEnds, SpanInside, MaxAddrAssumption DEF Addr
<1>1. Pieces(Left(ms, list, Span(s), k + 1, k), list[k]) = {mid}
  <2>1. Left(ms, list, Span(s), k + 1, k) = {a \in Span(s) : a \in Span(y)}
    <3>1. ASSUME NEW a \in Span(s)
          PROVE  Serves(ms, list, k + 1, k, a) <=> a \in Span(y)
      <4>1. k + 1 .. (k + 1) - 1 = {} /\ k \in 1 .. (k + 1) - 1
        BY <1>0
      <4> QED BY <4>1 DEF Serves
    <3> QED BY <3>1 DEF Left
  <2>2. {a \in Span(s) : a \in Span(y)} = mid.from .. mid.to
    BY <1>0 DEF Span
  <2>3. mid.from .. mid.to \subseteq Addr /\ mid.from <= mid.to
    BY <1>0 DEF Span
  <2>4. Pieces(mid.from .. mid.to, list[k]) = Part(mid.from, mid.to, list[k])
    BY <1>0, <2>3, PiecesPart
  <2>5. mid = [from |-> mid.from, to |-> mid.to, ref |-> mid.ref]
    BY SetEnds
  <2> QED BY <2>1, <2>2, <2>3, <2>4, <2>5 DEF Part
<1>2. ASSUME NEW i \in 1 .. k - 1
      PROVE  Pieces(Left(ms, list, Span(s), k + 1, i), list[i]) =
               Pieces(Left(ms, list, lo, k, i), list[i]) \cup Pieces(Left(ms, list, hi, k, i), list[i])
  <2> DEFINE L == Left(ms, list, lo, k, i)
             H == Left(ms, list, hi, k, i)
             U == Left(ms, list, Span(s), k + 1, i)
  <2>1. ASSUME NEW a \in Span(s)
        PROVE  Serves(ms, list, k + 1, i, a) <=> Serves(ms, list, k, i, a) /\ a \notin Span(y)
    <3>1. i \in Int /\ i \in 1 .. (k + 1) - 1 /\ k \in i + 1 .. (k + 1) - 1
      BY <1>0, <1>2
    <3>2. \A j : j \in i + 1 .. (k + 1) - 1 <=> j \in i + 1 .. k - 1 \/ j = k
      BY <1>0, <1>2
    <3> QED BY <1>2, <3>1, <3>2 DEF Serves
  <2>2. \A a : a \in Span(s) /\ a \notin Span(y) <=> a \in lo \/ a \in hi
    BY <1>0 DEF Span
  <2>3. \A a \in lo \cup hi : a \in Span(s)
    BY <2>2
  <2>4. U = L \cup H
    <3> HIDE DEF lo, hi
    <3> QED BY <2>1, <2>2, <2>3 DEF Left
  <2>5. U \in SUBSET Addr
    BY <1>0 DEF Left
  <2>6. (\A a \in L : a < y.from) /\ (\A a \in H : y.from < a)
    BY <1>0 DEF Left
  <2> DEFINE ref == list[i]
  <2> HIDE DEF U, L, H, ref
  <2>7. Pieces(U, ref) = Pieces(L, ref) \cup Pieces(H, ref)
    <3>1. PICK c : c \in Int /\ (\A a \in L : a < c) /\ (\A a \in H : c < a)
      BY <1>0, <2>6
    <3> QED BY <2>4, <2>5, <3>1, PiecesCut
  <2> QED BY <2>7 DEF U, L, H, ref
<1> HIDE DEF lo, hi
<1>3. ASSUME NEW p
      PROVE  p \in Fill(ms, list, Span(s), k + 1) <=>
               p \in {mid} \cup Fill(ms, list, lo, k) \cup Fill(ms, list, hi, k)
  <2>1. p \in Fill(ms, list, Span(s), k + 1) <=>
          \E i \in 1 .. (k + 1) - 1 : p \in Pieces(Left(ms, list, Span(s), k + 1, i), list[i])
    BY DEF Fill
  <2>2. /\ p \in Fill(ms, list, lo, k) <=>
             \E i \in 1 .. k - 1 : p \in Pieces(Left(ms, list, lo, k, i), list[i])
        /\ p \in Fill(ms, list, hi, k) <=>
             \E i \in 1 .. k - 1 : p \in Pieces(Left(ms, list, hi, k, i), list[i])
    BY DEF Fill
  <2>3. \A i : i \in 1 .. (k + 1) - 1 <=> i \in 1 .. k - 1 \/ i = k
    BY <1>0
  <2> QED BY <1>1, <1>2, <2>1, <2>2, <2>3
<1> QED BY <1>3 DEF lo, hi

\* The operator of IOBankOps in these words.
Gone(S, i, x) == {s \in S : s.ref.id = i /\ Overlaps(s, x)}
Replaced(bk, gone, owed) ==
  [bk EXCEPT !.submaps = (@ \ gone) \cup owed, !.drainMe = @ \/ owed # {}]

LEMMA WithdrawFills ==
  ASSUME NEW ms, NEW bk, NEW k, NEW i, NEW x,
         NEW gone, gone = Gone(bk.submaps, i, x),
         NEW owed, owed = Fills(ms, bk.maprefs, gone, k)
  PROVE  Withdraw(ms, bk, k, i, x) = Replaced(bk, gone, owed)
<1> DEFINE W(s, j) == Pieces({a \in Span(s) : Serves(ms, bk.maprefs, k, j, a)}, bk.maprefs[j])
           fill == UNION {W(s, j) : s \in gone, j \in 1 .. k - 1}
<1>1. ASSUME NEW p PROVE p \in fill <=> p \in owed
  <2>2. p \in owed <=> \E s \in gone : p \in Fill(ms, bk.maprefs, Span(s), k)
    BY DEF Fills
  <2>3. \A s : p \in Fill(ms, bk.maprefs, Span(s), k) <=> \E j \in 1 .. k - 1 : p \in W(s, j)
    BY DEF Fill, Left
  <2> HIDE DEF W
  <2>1. p \in fill <=> \E s \in gone : \E j \in 1 .. k - 1 : p \in W(s, j)
    OBVIOUS
  <2> HIDE DEF fill
  <2> QED BY <2>1, <2>2, <2>3
<1>2. fill = owed
  <2> HIDE DEF fill
  <2> QED BY <1>1
<1>3. Withdraw(ms, bk, k, i, x) =
        [bk EXCEPT !.submaps = (@ \ gone) \cup fill, !.drainMe = @ \/ fill # {}]
  BY DEF Withdraw, Gone
<1> HIDE DEF fill
<1> QED BY <1>2, <1>3 DEF Replaced

\* Sets of submaps fill one after the other.
LEMMA FillsUnion ==
  ASSUME NEW ms, NEW list, NEW S, NEW T, NEW k
  PROVE  /\ Fills(ms, list, S \cup T, k) = Fills(ms, list, S, k) \cup Fills(ms, list, T, k)
         /\ Fills(ms, list, {}, k) = {}
         /\ \A s : Fills(ms, list, {s}, k) = Fill(ms, list, Span(s), k)
BY DEF Fills

\* The submaps of a queue.
LEMMA QueueAppend ==
  ASSUME NEW q \in Seq(SubMap), NEW x \in SubMap
  PROVE  /\ Append(q, x) \in Seq(SubMap)
         /\ {Append(q, x)[n] : n \in DOMAIN Append(q, x)} = {q[n] : n \in DOMAIN q} \cup {x}
<1> DEFINE r == Append(q, x)
<1>1. /\ r \in Seq(SubMap) /\ Len(q) \in Nat /\ DOMAIN q = 1 .. Len(q)
      /\ DOMAIN r = 1 .. Len(q) + 1 /\ r[Len(q) + 1] = x
      /\ \A n \in 1 .. Len(q) : r[n] = q[n]
  OBVIOUS
<1> HIDE DEF r
<1>2. \A n : n \in 1 .. Len(q) + 1 <=> n \in 1 .. Len(q) \/ n = Len(q) + 1
  BY <1>1
<1>3. {r[n] : n \in DOMAIN r} = {q[n] : n \in DOMAIN q} \cup {x}
  BY <1>1, <1>2
<1> QED BY <1>1, <1>3 DEF r

LEMMA QueueHead ==
  ASSUME NEW q \in Seq(SubMap), q # <<>>
  PROVE  /\ Head(q) \in SubMap /\ Tail(q) \in Seq(SubMap)
         /\ {q[n] : n \in DOMAIN q} = {Head(q)} \cup {Tail(q)[n] : n \in DOMAIN Tail(q)}
<1>1. /\ Head(q) \in SubMap /\ Tail(q) \in Seq(SubMap) /\ Len(q) \in Nat \ {0} /\ Head(q) = q[1]
      /\ DOMAIN q = 1 .. Len(q) /\ DOMAIN Tail(q) = 1 .. Len(q) - 1
      /\ \A n \in 1 .. Len(q) - 1 : Tail(q)[n] = q[n + 1]
  OBVIOUS
<1>2. \A n \in 1 .. Len(q) : n = 1 \/ n - 1 \in 1 .. Len(q) - 1
  BY <1>1
<1>3. ASSUME NEW n \in 1 .. Len(q)
      PROVE  q[n] \in {Head(q)} \cup {Tail(q)[j] : j \in DOMAIN Tail(q)}
  <2>1. CASE n = 1
    BY <1>1, <2>1
  <2>2. CASE n # 1
    <3>1. n - 1 \in 1 .. Len(q) - 1 /\ (n - 1) + 1 = n
      BY <1>2, <2>2
    <3>2. Tail(q)[n - 1] = q[n]
      BY <1>1, <3>1
    <3> QED BY <1>1, <3>1, <3>2
  <2> QED BY <2>1, <2>2
<1>4. ASSUME NEW j \in 1 .. Len(q) - 1 PROVE Tail(q)[j] \in {q[n] : n \in DOMAIN q}
  <2>1. j + 1 \in 1 .. Len(q)
    BY <1>1
  <2> QED BY <1>1, <2>1
<1>5. Head(q) \in {q[n] : n \in DOMAIN q}
  <2>1. 1 \in 1 .. Len(q)
    BY <1>1
  <2> QED BY <1>1, <2>1
<1> QED BY <1>1, <1>3, <1>4, <1>5

-----------------------------------------------------------------------------
(* The two loops of _delete_submaps_from_bank_tree.                         *)

\* What a step takes out of the debt it has paid into the tree.
LEMMA OwesStep ==
  ASSUME BankKinds, NEW gone, NEW owed, Owes(gone, owed),
         Expected' = Expected, op' = op, id' = id, prio' = prio, UNCHANGED <<maps, refs, used>>,
         NEW more, NEW left,
         (tree' \ more) \cup left = (tree \ gone) \cup owed,
         (drain' \/ left # {}) = (drain \/ owed # {})
  PROVE  /\ Tidy((tree' \ more) \cup left)
         /\ Expected' = Rest(op', maps', [submaps |-> (tree' \ more) \cup left, maprefs |-> refs',
                                          lastUsed |-> used', drainMe |-> drain' \/ left # {}],
                             id', prio')
BY DEF Owes, Filled

LEMMA StillWithdrawing ==
  ASSUME Withdrawing, UNCHANGED <<maps, refs, used>>, op' = op, id' = id, old' = old, prio' = prio,
         \A s \in Queued' : Submap(s)
  PROVE  Withdrawing'
BY DEF Withdrawing, Topmost, Live

\* In numbers.
LEMMA OldNumbers ==
  ASSUME CallKinds, old # NoMap
  PROVE  old.from \in Int /\ old.to \in Int
BY MaxAddrAssumption DEF CallKinds, MapRec, Addr

LEMMA EnqueueNodeStep ==
  ASSUME IInv, EnqueueNode
  PROVE  IInv'
<1>0. /\ BankKinds /\ CallKinds /\ EnqueueInv /\ Withdrawing /\ at \in tree /\ at # NoSubMap
      /\ Overlaps(at, old) /\ SoundBank(found) /\ id \in MapIds /\ at' = After(tree, at)
      /\ UNCHANGED <<maps, refs, used, drain, pc, sm, ator, answer>> /\ UNCHANGED call
      /\ pc = "enqueue"
  BY DEF IInv, Walking, EnqueueNode, EnqueueInv
<1>1. /\ Expected' = Expected /\ op' = op /\ id' = id /\ found' = found /\ old' = old /\ prio' = prio
  BY <1>0, SameExpected
<1>2. /\ Tidy(tree) /\ old.from \in Int /\ old.to \in Int /\ old.from <= old.to
      /\ at.from \in Int /\ at.to \in Int /\ at.from <= at.to /\ at.to >= old.from /\ at \in SubMap
      /\ \A s \in tree : s \in SubMap /\ s.from \in Int /\ s.to \in Int /\ s.from <= s.to
  BY <1>0, TreeNode, OldNumbers DEF BankKinds, EnqueueInv, Withdrawing
<1>3. /\ at' = NoSubMap => \A s \in tree : s # at => s.to < at.from
      /\ at' # NoSubMap => /\ at' \in tree /\ at.to < at'.from /\ at' # at
                           /\ \A s \in tree : s.from < at'.from => s = at \/ s.to < at.from
  BY <1>0, <1>2, AfterNode
<1>4. /\ todo \in Seq(SubMap) /\ \A s \in Queued : Submap(s)
  BY <1>0 DEF CallKinds, Withdrawing
<1>5. /\ at.ref.id = id => /\ tree' = tree \ {at} /\ Queued' = Queued \cup {at}
                           /\ todo' \in Seq(SubMap)
      /\ at.ref.id # id => tree' = tree /\ Queued' = Queued /\ todo' = todo
  <2>1. at.ref.id = id => tree' = tree \ {at} /\ todo' = Append(todo, at)
    BY DEF EnqueueNode
  <2>2. at.ref.id # id => tree' = tree /\ todo' = todo
    BY DEF EnqueueNode
  <2>3. at.ref.id = id => Queued' = Queued \cup {at} /\ todo' \in Seq(SubMap)
    <3> SUFFICES ASSUME at.ref.id = id PROVE Queued' = Queued \cup {at} /\ todo' \in Seq(SubMap)
      OBVIOUS
    <3>1. todo' = Append(todo, at)
      BY <2>1
    <3>2. /\ Append(todo, at) \in Seq(SubMap)
          /\ {Append(todo, at)[n] : n \in DOMAIN Append(todo, at)} = {todo[n] : n \in DOMAIN todo} \cup {at}
      BY <1>2, <1>4, QueueAppend
    <3>3. Queued' = {Append(todo, at)[n] : n \in DOMAIN Append(todo, at)}
      BY <3>1 DEF Queued
    <3> QED BY <3>1, <3>2, <3>3 DEF Queued
  <2> QED BY <2>1, <2>2, <2>3 DEF Queued
<1>6. tree' \in SUBSET tree /\ Tidy(tree') /\ todo' \in Seq(SubMap)
  BY <1>2, <1>4, <1>5, TidySubset
<1>7. Taken' = {s \in tree' : s.ref.id = id /\ Overlaps(s, old)}
  BY <1>1 DEF Taken, Overlaps, Span
<1>8. tree' \ Taken' = tree \ Taken /\ Taken' \cup Queued' = Taken \cup Queued
  BY <1>0, <1>5, <1>7 DEF Taken
<1>9. Owes(Taken, Fills(maps, refs, Taken \cup Queued, prio))
  BY <1>0 DEF EnqueueInv
<1>10. Owes(Taken, Fills(maps, refs, Taken \cup Queued, prio))'
  <2> DEFINE owed == Fills(maps, refs, Taken \cup Queued, prio)
             left == Fills(maps', refs', Taken' \cup Queued', prio')
  <2>1. left = owed
    BY <1>0, <1>1, <1>8
  <2> HIDE DEF left, owed
  <2>2. (tree' \ Taken') \cup left = (tree \ Taken) \cup owed
    BY <1>8, <2>1
  <2>3. (drain' \/ left # {}) = (drain \/ owed # {})
    BY <1>0, <2>1
  <2>4. Owes(Taken, owed)
    BY <1>9 DEF owed
  <2>5. /\ Tidy((tree' \ Taken') \cup left)
        /\ Expected' = Rest(op', maps', [submaps |-> (tree' \ Taken') \cup left, maprefs |-> refs',
                                         lastUsed |-> used', drainMe |-> drain' \/ left # {}],
                            id', prio')
    BY <1>0, <1>1, <2>2, <2>3, <2>4, OwesStep
  <2> QED BY <2>5 DEF Owes, Filled, left
<1>11. \A s \in Queued' : Submap(s)
  BY <1>2, <1>4, <1>5 DEF Submap
<1>12. Withdrawing'
  BY <1>0, <1>1, <1>11, StillWithdrawing
<1>13. at' # NoSubMap => at' \in tree' /\ at'.to >= old'.from
  BY <1>1, <1>2, <1>3, <1>5
<1>14. ASSUME NEW s \in tree', at' = NoSubMap \/ s.from < at'.from PROVE s \notin Taken'
  <2>1. s \in tree /\ (s = at \/ s.to < at.from)
    BY <1>3, <1>6, <1>14
  <2>2. CASE s = at
    BY <1>5, <1>7, <1>14, <2>2
  <2>3. CASE s.to < at.from
    <3>1. s.from < at.from
      BY <1>2, <2>1, <2>3
    <3>2. s \notin Taken
      BY <1>0, <2>1, <3>1 DEF EnqueueInv, Passed
    <3> QED BY <1>7, <2>1, <3>2 DEF Taken
  <2> QED BY <2>1, <2>2, <2>3
<1>15. EnqueueInv'
  BY <1>10, <1>12, <1>13, <1>14 DEF EnqueueInv, Passed
<1>16. BankKinds' /\ CallKinds'
  BY <1>0, <1>1, <1>2, <1>3, <1>6 DEF BankKinds, CallKinds
<1> QED BY <1>0, <1>1, <1>13, <1>15, <1>16 DEF IInv, Walking

LEMMA EnqueueEndStep ==
  ASSUME IInv, EnqueueEnd
  PROVE  IInv'
<1>0. /\ BankKinds /\ CallKinds /\ EnqueueInv /\ Withdrawing /\ at \in tree \cup {NoSubMap}
      /\ at # NoSubMap => ~Overlaps(at, old)
      /\ SoundBank(found) /\ id \in MapIds /\ at' = NoSubMap /\ pc' = "dequeue"
      /\ UNCHANGED <<maps, tree, refs, used, drain, sm, todo, ator, answer>> /\ UNCHANGED call
  BY DEF IInv, Walking, EnqueueEnd, EnqueueInv, bank
<1>1. /\ Expected' = Expected /\ op' = op /\ id' = id /\ found' = found /\ old' = old /\ prio' = prio
  BY <1>0, SameExpected
<1>2. /\ Tidy(tree) /\ old.from \in Int /\ old.to \in Int /\ old.from <= old.to
      /\ at # NoSubMap => /\ at \in SubMap /\ at.from \in Int /\ at.to \in Int /\ at.from <= at.to
                          /\ at.to >= old.from
      /\ \A s \in tree : s \in SubMap /\ s.from \in Int /\ s.to \in Int /\ s.from <= s.to
  BY <1>0, TreeNode, OldNumbers DEF BankKinds, EnqueueInv, Withdrawing
<1>3. Taken = {}
  <2> SUFFICES ASSUME NEW s \in tree, s.ref.id = id, Overlaps(s, old) PROVE FALSE
    BY DEF Taken
  <2>1. ~Passed(s)
    BY <1>0 DEF EnqueueInv, Taken
  <2>2. at # NoSubMap /\ s.from >= at.from
    BY <1>0, <1>2, <2>1 DEF Passed
  <2>3. at.from > old.to
    BY <1>0, <1>2, <2>2, OverlapEnds
  <2>4. s.from <= old.to
    BY <1>2, OverlapEnds
  <2> QED BY <1>2, <2>2, <2>3, <2>4
<1>4. Queued' = Queued /\ \A s \in Queued : Submap(s)
  BY <1>0 DEF Queued, Withdrawing
<1>5. Owes({}, Fills(maps, refs, Queued, prio))
  <2>1. {} \cup Queued = Queued
    OBVIOUS
  <2> QED BY <1>0, <1>3, <2>1 DEF EnqueueInv
<1>6. Owes({}, Fills(maps, refs, Queued, prio))'
  BY <1>0, <1>1, <1>4, <1>5 DEF Owes, Filled
<1>7. Withdrawing'
  BY <1>0, <1>1, <1>4, StillWithdrawing
<1>8. DequeueInv'
  BY <1>0, <1>6, <1>7 DEF DequeueInv
<1>9. BankKinds' /\ CallKinds'
  BY <1>0, <1>1 DEF BankKinds, CallKinds
<1> QED BY <1>0, <1>1, <1>8, <1>9 DEF IInv, Walking

LEMMA DequeueStep ==
  ASSUME IInv, Dequeue
  PROVE  IInv'
<1>0. /\ BankKinds /\ CallKinds /\ DequeueInv /\ Withdrawing /\ at = NoSubMap
      /\ SoundBank(found) /\ id \in MapIds
      /\ todo # <<>> /\ sm' = Head(todo) /\ todo' = Tail(todo) /\ ator' = prio - 1 /\ pc' = "fill"
      /\ UNCHANGED <<maps, tree, refs, used, drain, at, answer>> /\ UNCHANGED call
  BY DEF IInv, Walking, Dequeue, DequeueInv, bank
<1>1. /\ Expected' = Expected /\ op' = op /\ id' = id /\ found' = found /\ old' = old /\ prio' = prio
  BY <1>0, SameExpected
<1>2. prio \in Nat /\ 1 <= prio /\ ator' \in Nat /\ ator' + 1 = prio /\ ator' \in 0 .. prio - 1
  BY <1>0 DEF Withdrawing, BankKinds
<1>3. /\ sm' \in SubMap /\ todo' \in Seq(SubMap) /\ Queued = {sm'} \cup Queued'
  BY <1>0, QueueHead DEF Queued, CallKinds
<1>4. Submap(sm') /\ \A s \in Queued' : Submap(s)
  BY <1>0, <1>3 DEF Withdrawing
<1>5. Fills(maps, refs, Queued, prio) = Fills(maps, refs, Queued', prio) \cup Fill(maps, refs, Span(sm'), prio)
  <2>1. PICK Q, s : Q = Queued' /\ s = sm'
    OBVIOUS
  <2>2. Queued = Q \cup {s}
    BY <1>3, <2>1
  <2>3. Fills(maps, refs, Q \cup {s}, prio) = Fills(maps, refs, Q, prio) \cup Fills(maps, refs, {s}, prio)
    BY FillsUnion
  <2>4. Fills(maps, refs, {s}, prio) = Fill(maps, refs, Span(s), prio)
    BY FillsUnion
  <2> QED BY <2>1, <2>2, <2>3, <2>4
<1>6. Owes({}, Fills(maps, refs, Queued, prio) \cup Fill(maps, refs, Span(sm), ator + 1))'
  BY <1>0, <1>1, <1>2, <1>5 DEF Owes, Filled, DequeueInv
<1>7. Withdrawing'
  BY <1>0, <1>1, <1>4, StillWithdrawing
<1>8. ator' + 1 .. prio' - 1 = {}
  <2>1. ator' + 1 .. prio' - 1 = prio .. prio - 1
    BY <1>1, <1>2
  <2>2. prio .. prio - 1 = {}
    BY <1>2
  <2> QED BY <2>1, <2>2
<1>9. FillInv'
  BY <1>0, <1>1, <1>2, <1>4, <1>6, <1>7, <1>8 DEF FillInv
<1>10. BankKinds' /\ CallKinds'
  BY <1>0, <1>1, <1>2, <1>3 DEF BankKinds, CallKinds
<1> QED BY <1>0, <1>1, <1>9, <1>10 DEF IInv, Walking

LEMMA FillEndStep ==
  ASSUME IInv, FillEnd
  PROVE  IInv'
<1>0. /\ BankKinds /\ CallKinds /\ FillInv /\ Withdrawing /\ at = NoSubMap
      /\ SoundBank(found) /\ id \in MapIds /\ ator = 0 /\ pc' = "dequeue"
      /\ UNCHANGED <<maps, tree, refs, used, drain, at, sm, todo, ator, answer>> /\ UNCHANGED call
  BY DEF IInv, Walking, FillEnd, FillInv, bank, walk
<1>1. /\ Expected' = Expected /\ op' = op /\ id' = id /\ found' = found /\ old' = old /\ prio' = prio
  BY <1>0, SameExpected
<1>2. Fill(maps, refs, Span(sm), ator + 1) = {}
  <2>1. ator + 1 = 1
    BY <1>0
  <2> QED BY <2>1, FillNone
<1>3. Owes({}, Fills(maps, refs, Queued, prio))
  <2>1. Fills(maps, refs, Queued, prio) \cup {} = Fills(maps, refs, Queued, prio)
    OBVIOUS
  <2> QED BY <1>0, <1>2, <2>1 DEF FillInv
<1>4. Queued' = Queued /\ \A s \in Queued : Submap(s)
  BY <1>0 DEF Queued, Withdrawing
<1>5. Owes({}, Fills(maps, refs, Queued, prio))'
  BY <1>0, <1>1, <1>3, <1>4 DEF Owes, Filled
<1>6. Withdrawing'
  BY <1>0, <1>1, <1>4, StillWithdrawing
<1>7. DequeueInv'
  BY <1>0, <1>5, <1>6 DEF DequeueInv
<1>8. BankKinds' /\ CallKinds'
  BY <1>0, <1>1 DEF BankKinds, CallKinds
<1> QED BY <1>0, <1>1, <1>7, <1>8 DEF IInv, Walking

\* A reference that is not over the submap is passed.
LEMMA FillPassStep ==
  ASSUME IInv, FillNode,
         ~ (/\ Live(maps, refs[ator]) /\ SubMapOf(maps, refs[ator]).from <= sm.to
            /\ sm.from <= SubMapOf(maps, refs[ator]).to)
  PROVE  IInv'
<1>0. /\ BankKinds /\ CallKinds /\ FillInv /\ Withdrawing /\ at = NoSubMap
      /\ SoundBank(found) /\ id \in MapIds /\ ator # 0 /\ ator' = ator - 1 /\ pc = "fill" /\ pc' = pc
      /\ UNCHANGED <<maps, tree, refs, used, drain, at, sm, todo, answer>> /\ UNCHANGED call
  BY DEF IInv, Walking, FillNode, FillInv
<1>1. /\ Expected' = Expected /\ op' = op /\ id' = id /\ found' = found /\ old' = old /\ prio' = prio
  BY <1>0, SameExpected
<1>2. /\ Submap(sm) /\ ator \in 0 .. prio - 1 /\ prio \in Nat
      /\ \A j \in ator + 1 .. prio - 1, a \in Span(sm) : ~Covers(maps, refs[j], a)
  BY <1>0 DEF FillInv, CallKinds
<1>3. /\ ator \in Nat /\ ator' \in Nat /\ ator' + 1 = ator /\ ator' \in 0 .. prio - 1
      /\ ator \in DOMAIN refs /\ refs[ator] \in MapRef
  BY <1>0, <1>2 DEF Withdrawing, BankKinds
<1>4. ASSUME NEW a \in Span(sm) PROVE ~Covers(maps, refs[ator], a)
  <2> SUFFICES ASSUME Covers(maps, refs[ator], a) PROVE FALSE
    OBVIOUS
  <2> DEFINE y == SubMapOf(maps, refs[ator])
  <2>1. Live(maps, refs[ator]) /\ a \in y.from .. y.to
    BY DEF Covers, Span, SubMapOf
  <2>2. y \in SubMap
    BY <1>0, <1>3, <2>1, LiveType DEF CallKinds
  <2>3. y.from \in Int /\ y.to \in Int /\ sm.from \in Int /\ sm.to \in Int
    BY <1>2, <2>2, SetEnds DEF Submap
  <2>4. a \in sm.from .. sm.to
    BY DEF Span
  <2> HIDE DEF y
  <2>5. y.from <= sm.to /\ sm.from <= y.to
    BY <2>1, <2>3, <2>4
  <2> QED BY <2>1, <2>5 DEF y
<1>5. Fill(maps, refs, Span(sm), ator + 1) = Fill(maps, refs, Span(sm), ator)
  <2>1. \A j \in ator .. (ator + 1) - 1, a \in Span(sm) : ~Covers(maps, refs[j], a)
    BY <1>3, <1>4
  <2>2. ator + 1 \in Nat /\ ator <= ator + 1
    BY <1>3
  <2> QED BY <1>3, <2>1, <2>2, FillShorter
<1>6. Owes({}, Fills(maps, refs, Queued, prio) \cup Fill(maps, refs, Span(sm), ator + 1))
  BY <1>0 DEF FillInv
<1>7. Queued' = Queued /\ \A s \in Queued : Submap(s)
  BY <1>0 DEF Queued, Withdrawing
<1>8. Owes({}, Fills(maps, refs, Queued, prio) \cup Fill(maps, refs, Span(sm), ator + 1))'
  BY <1>0, <1>1, <1>3, <1>5, <1>6, <1>7 DEF Owes, Filled
<1>9. Withdrawing'
  BY <1>0, <1>1, <1>7, StillWithdrawing
<1>10. \A j \in ator' + 1 .. prio' - 1, a \in Span(sm') : ~Covers(maps', refs'[j], a)
  <2>1. \A j : j \in ator .. prio - 1 => j = ator \/ j \in ator + 1 .. prio - 1
    BY <1>2, <1>3
  <2>2. ator' + 1 .. prio' - 1 = ator .. prio - 1
    BY <1>1, <1>3
  <2> QED BY <1>0, <1>2, <1>4, <2>1, <2>2
<1>11. FillInv'
  BY <1>0, <1>1, <1>2, <1>3, <1>8, <1>9, <1>10 DEF FillInv
<1>12. BankKinds' /\ CallKinds'
  BY <1>0, <1>1, <1>3 DEF BankKinds, CallKinds
<1> QED BY <1>0, <1>1, <1>11, <1>12 DEF IInv, Walking

\* A reference that is over a part of the submap serves it.
LEMMA FillMeetStep ==
  ASSUME IInv, FillNode,
         Live(maps, refs[ator]), SubMapOf(maps, refs[ator]).from <= sm.to,
         sm.from <= SubMapOf(maps, refs[ator]).to
  PROVE  IInv'
<1> DEFINE y == SubMapOf(maps, refs[ator])
           mid == [from |-> IF sm.from < y.from THEN y.from ELSE sm.from,
                   to |-> IF y.to < sm.to THEN y.to ELSE sm.to, ref |-> refs[ator]]
           lo == sm.from .. y.from - 1
           hi == y.to + 1 .. sm.to
           Lo == Fill(maps, refs, lo, ator)
           Hi == Fill(maps, refs, hi, ator)
           more == Fills(maps, refs, Queued, prio)
           rest == Fills(maps', refs', Queued', prio')
                     \cup Fill(maps', refs', Span(sm'), ator' + 1)
<1>0. /\ BankKinds /\ CallKinds /\ FillInv /\ Withdrawing /\ at = NoSubMap
      /\ SoundBank(found) /\ id \in MapIds /\ ator # 0 /\ pc = "fill" /\ pc' = pc
      /\ UNCHANGED <<maps, refs, used, at, answer>> /\ UNCHANGED call
      /\ FillWith(y)
  BY DEF IInv, Walking, FillNode, FillInv
<1>1. /\ Expected' = Expected /\ op' = op /\ id' = id /\ found' = found /\ old' = old /\ prio' = prio
  BY <1>0, SameExpected
<1>2. /\ Submap(sm) /\ ator \in 0 .. prio - 1 /\ prio \in Nat
      /\ \A j \in ator + 1 .. prio - 1, a \in Span(sm) : ~Covers(maps, refs[j], a)
  BY <1>0 DEF FillInv, CallKinds
<1>3. /\ ator \in Nat \ {0} /\ ator - 1 \in Nat /\ (ator - 1) + 1 = ator /\ ator - 1 \in 0 .. prio - 1
      /\ ator \in DOMAIN refs /\ refs[ator] \in MapRef
  BY <1>0, <1>2 DEF Withdrawing, BankKinds
<1>4. y \in SubMap /\ y.from <= y.to /\ y.ref = refs[ator]
  <2>1. SoundMaps(maps)
    BY <1>0 DEF CallKinds
  <2>2. y \in SubMap /\ y.from <= y.to
    BY <1>3, <2>1, LiveType
  <2> QED BY <2>2 DEF SubMapOf
<1>5. /\ sm \in SubMap /\ sm.from \in Int /\ sm.to \in Int /\ sm.from <= sm.to
      /\ y.from \in Int /\ y.to \in Int /\ y.from <= sm.to /\ sm.from <= y.to
      /\ sm.from \in Addr /\ sm.to \in Addr /\ y.from \in Addr /\ y.to \in Addr
  BY <1>2, <1>4, SetEnds DEF Submap
<1>6. \A a : Covers(maps, refs[ator], a) <=> a \in Span(y)
  BY DEF Covers, Span, SubMapOf
<1>7. mid \in SubMap
  BY <1>3, <1>5 DEF SubMap
<1> HIDE DEF y
<1>8. Fill(maps, refs, Span(sm), ator + 1) = {mid} \cup Lo \cup Hi
  <2>1. /\ mid.ref = refs[ator]
        /\ mid.from = IF sm.from < y.from THEN y.from ELSE sm.from
        /\ mid.to = IF y.to < sm.to THEN y.to ELSE sm.to
    OBVIOUS
  <2> HIDE DEF mid
  <2> QED BY <1>3, <1>4, <1>5, <1>6, <1>7, <2>1, FillParts
\* What the four cases have in common.
<1>9. ASSUME tree' = tree \cup {mid}, drain' = TRUE, ator' \in 0 .. prio - 1, Submap(sm'),
             todo' \in Seq(SubMap), \A s \in Queued' : Submap(s),
             ator' # 0 => ator' = ator - 1,
             ator' # 0 => \A a \in Span(sm') : a \in Span(sm) /\ a \notin Span(y),
             rest = more \cup Lo \cup Hi
      PROVE  IInv'
  <2> HIDE DEF mid, Lo, Hi, more, rest
  <2>1. Owes({}, more \cup {mid} \cup Lo \cup Hi)
    <3>1. more \cup ({mid} \cup Lo \cup Hi) = more \cup {mid} \cup Lo \cup Hi
      OBVIOUS
    <3> QED BY <1>0, <1>8, <3>1 DEF FillInv, more
  <2>2. (tree' \ {}) \cup rest = (tree \ {}) \cup (more \cup {mid} \cup Lo \cup Hi)
    BY <1>9
  <2>3. (drain' \/ rest # {}) = (drain \/ (more \cup {mid} \cup Lo \cup Hi) # {})
    BY <1>9
  <2>4. /\ Tidy((tree' \ {}) \cup rest)
        /\ Expected' = Rest(op', maps', [submaps |-> (tree' \ {}) \cup rest, maprefs |-> refs',
                                         lastUsed |-> used', drainMe |-> drain' \/ rest # {}],
                            id', prio')
    <3>1. PICK owed, paid, none : owed = more \cup {mid} \cup Lo \cup Hi /\ paid = rest /\ none = {}
      OBVIOUS
    <3>2. /\ Owes(none, owed)
          /\ (tree' \ none) \cup paid = (tree \ none) \cup owed
          /\ (drain' \/ paid # {}) = (drain \/ owed # {})
      BY <2>1, <2>2, <2>3, <3>1
    <3>3. /\ Tidy((tree' \ none) \cup paid)
          /\ Expected' = Rest(op', maps', [submaps |-> (tree' \ none) \cup paid, maprefs |-> refs',
                                           lastUsed |-> used', drainMe |-> drain' \/ paid # {}],
                              id', prio')
      BY <1>0, <1>1, <3>2, OwesStep
    <3> QED BY <3>1, <3>3
  <2>5. Owes({}, Fills(maps, refs, Queued, prio) \cup Fill(maps, refs, Span(sm), ator + 1))'
    BY <2>4 DEF Owes, Filled, rest
  <2>6. Withdrawing'
    BY <1>0, <1>1, <1>9, StillWithdrawing
  <2>7. ator' # 0 => \A j \in ator' + 1 .. prio' - 1, a \in Span(sm') : ~Covers(maps', refs'[j], a)
    <3> SUFFICES ASSUME ator' # 0, NEW j \in ator' + 1 .. prio' - 1, NEW a \in Span(sm')
                 PROVE  ~Covers(maps, refs[j], a)
      BY <1>0
    <3>1. j = ator \/ j \in ator + 1 .. prio - 1
      BY <1>1, <1>2, <1>3, <1>9
    <3> QED BY <1>2, <1>6, <1>9, <3>1
  <2>8. FillInv'
    BY <1>0, <1>1, <1>9, <2>5, <2>6, <2>7 DEF FillInv
  <2>9. Tidy(tree')
    BY <2>4, TidySubset
  <2>10. BankKinds' /\ CallKinds'
    BY <1>0, <1>1, <1>9, <2>9 DEF BankKinds, CallKinds, Submap
  <2> QED BY <1>0, <1>1, <2>8, <2>10 DEF IInv, Walking
<1>10. /\ todo \in Seq(SubMap) /\ \A s \in Queued : Submap(s)
  BY <1>0 DEF CallKinds, Withdrawing
<1>11. ASSUME UNCHANGED todo PROVE Queued' = Queued
  BY <1>11 DEF Queued
<1>12. ASSUME ~ (sm.from < y.from) PROVE Lo = {}
  <2>1. lo = {}
    BY <1>5, <1>12
  <2> QED BY <2>1, FillNone
<1>13. ASSUME ~ (y.to < sm.to) PROVE Hi = {}
  <2>1. hi = {}
    BY <1>5, <1>13
  <2> QED BY <2>1, FillNone
<1>14. Span(sm) = sm.from .. sm.to /\ Span(y) = y.from .. y.to
  BY DEF Span
<1>15. CASE y.from <= sm.from /\ sm.to <= y.to
  <2>1. /\ tree' = tree \cup {SetTo(SetFrom(y, sm.from), sm.to)} /\ drain' = TRUE
        /\ ator' = 0 /\ UNCHANGED <<sm, todo>>
    BY <1>0, <1>5, <1>15 DEF FillWith
  <2>2. SetTo(SetFrom(y, sm.from), sm.to) = mid
    <3>1. SetFrom(y, sm.from) = [from |-> sm.from, to |-> y.to, ref |-> y.ref]
      BY <1>4, <1>5, SetEnds
    <3> QED BY <1>4, <1>5, <1>15, <3>1 DEF SetTo
  <2>3. rest = more \cup Lo \cup Hi
    <3>1. Lo = {} /\ Hi = {}
      BY <1>5, <1>12, <1>13, <1>15
    <3>2. Fill(maps', refs', Span(sm'), ator' + 1) = {}
      <4>1. ator' + 1 = 1
        BY <2>1
      <4> QED BY <4>1, FillNone
    <3> QED BY <1>0, <1>1, <1>11, <2>1, <3>1, <3>2
  <2> HIDE DEF mid, Lo, Hi, more, rest
  <2> QED BY <1>2, <1>3, <1>9, <1>10, <1>11, <2>1, <2>2, <2>3
<1>16. CASE y.from <= sm.from /\ y.to < sm.to
  <2>1. /\ tree' = tree \cup {SetFrom(y, sm.from)} /\ drain' = TRUE
        /\ sm' = SetFrom(sm, y.to + 1) /\ ator' = ator - 1 /\ UNCHANGED todo
    BY <1>0, <1>5, <1>16 DEF FillWith
  <2>2. SetFrom(y, sm.from) = mid
    BY <1>4, <1>5, <1>16, SetEnds
  <2>3. /\ sm' = [from |-> y.to + 1, to |-> sm.to, ref |-> sm.ref]
        /\ Submap(sm') /\ Span(sm') = hi
    <3>1. sm' = [from |-> y.to + 1, to |-> sm.to, ref |-> sm.ref]
      BY <1>5, <1>16, <2>1, SetEnds
    <3>2. y.to + 1 \in Addr /\ sm.ref \in MapRef
      BY <1>5, <1>16, MaxAddrAssumption, SetEnds DEF Addr
    <3> QED BY <1>5, <1>16, <3>1, <3>2 DEF Submap, SubMap, Span
  <2>4. rest = more \cup Lo \cup Hi
    <3>1. Lo = {}
      BY <1>5, <1>12, <1>16
    <3>2. Fill(maps', refs', Span(sm'), ator' + 1) = Hi
      BY <1>0, <1>3, <2>1, <2>3
    <3> QED BY <1>0, <1>1, <1>11, <2>1, <3>1, <3>2
  <2>5. \A a \in Span(sm') : a \in Span(sm) /\ a \notin Span(y)
    BY <1>5, <1>14, <2>3
  <2> HIDE DEF mid, Lo, Hi, more, rest
  <2> QED BY <1>3, <1>9, <1>10, <1>11, <2>1, <2>2, <2>3, <2>4, <2>5
<1>17. CASE sm.from < y.from /\ sm.to <= y.to
  <2>1. /\ tree' = tree \cup {SetTo(y, sm.to)} /\ drain' = TRUE
        /\ sm' = SetTo(sm, y.from - 1) /\ ator' = ator - 1 /\ UNCHANGED todo
    BY <1>0, <1>5, <1>17 DEF FillWith
  <2>2. SetTo(y, sm.to) = mid
    BY <1>4, <1>5, <1>17, SetEnds
  <2>3. /\ sm' = [from |-> sm.from, to |-> y.from - 1, ref |-> sm.ref]
        /\ Submap(sm') /\ Span(sm') = lo
    <3>1. sm' = [from |-> sm.from, to |-> y.from - 1, ref |-> sm.ref]
      BY <1>5, <1>17, <2>1, SetEnds
    <3>2. y.from - 1 \in Addr /\ sm.ref \in MapRef
      BY <1>5, <1>17, MaxAddrAssumption, SetEnds DEF Addr
    <3> QED BY <1>5, <1>17, <3>1, <3>2 DEF Submap, SubMap, Span
  <2>4. rest = more \cup Lo \cup Hi
    <3>1. Hi = {}
      BY <1>5, <1>13, <1>17
    <3>2. Fill(maps', refs', Span(sm'), ator' + 1) = Lo
      BY <1>0, <1>3, <2>1, <2>3
    <3> QED BY <1>0, <1>1, <1>11, <2>1, <3>1, <3>2
  <2>5. \A a \in Span(sm') : a \in Span(sm) /\ a \notin Span(y)
    BY <1>5, <1>14, <2>3
  <2> HIDE DEF mid, Lo, Hi, more, rest
  <2> QED BY <1>3, <1>9, <1>10, <1>11, <2>1, <2>2, <2>3, <2>4, <2>5
<1>18. CASE sm.from < y.from /\ y.to < sm.to
  <2> DEFINE h == SetFrom(sm, y.to + 1)
  <2>1. /\ tree' = tree \cup {y} /\ drain' = TRUE
        /\ sm' = SetTo(sm, y.from - 1) /\ ator' = ator - 1 /\ todo' = Append(todo, h)
    BY <1>0, <1>5, <1>18 DEF FillWith
  <2>2. y = mid
    BY <1>4, <1>5, <1>18, SetEnds
  <2>3. /\ sm' = [from |-> sm.from, to |-> y.from - 1, ref |-> sm.ref]
        /\ Submap(sm') /\ Span(sm') = lo
    <3>1. sm' = [from |-> sm.from, to |-> y.from - 1, ref |-> sm.ref]
      BY <1>5, <1>18, <2>1, SetEnds
    <3>2. y.from - 1 \in Addr /\ sm.ref \in MapRef
      BY <1>5, <1>18, MaxAddrAssumption, SetEnds DEF Addr
    <3> QED BY <1>5, <1>18, <3>1, <3>2 DEF Submap, SubMap, Span
  <2>4. h \in SubMap /\ Submap(h) /\ Span(h) = hi
    <3>1. h = [from |-> y.to + 1, to |-> sm.to, ref |-> sm.ref]
      BY <1>5, <1>18, SetEnds
    <3>2. y.to + 1 \in Addr /\ sm.ref \in MapRef
      BY <1>5, <1>18, MaxAddrAssumption, SetEnds DEF Addr
    <3> QED BY <1>5, <1>18, <3>1, <3>2 DEF Submap, SubMap, Span
  <2> HIDE DEF h
  <2>5. todo' \in Seq(SubMap) /\ Queued' = Queued \cup {h}
    <3>1. /\ Append(todo, h) \in Seq(SubMap)
          /\ {Append(todo, h)[n] : n \in DOMAIN Append(todo, h)} = {todo[n] : n \in DOMAIN todo} \cup {h}
      BY <1>10, <2>4, QueueAppend
    <3>2. Queued' = {Append(todo, h)[n] : n \in DOMAIN Append(todo, h)}
      BY <2>1 DEF Queued
    <3> QED BY <2>1, <3>1, <3>2 DEF Queued
  <2>6. Fill(maps, refs, hi, prio) = Hi
    <3>1. ASSUME NEW j \in ator .. prio - 1, NEW a \in hi PROVE ~Covers(maps, refs[j], a)
      <4>1. a \in Span(sm) /\ a \notin Span(y)
        BY <1>5, <1>14, <3>1
      <4>2. j = ator \/ j \in ator + 1 .. prio - 1
        BY <1>2, <1>3
      <4> QED BY <1>2, <1>6, <4>1, <4>2
    <3>2. ator \in Nat /\ ator <= prio
      BY <1>2, <1>3
    <3> HIDE DEF hi
    <3> QED BY <1>2, <3>1, <3>2, FillShorter
  <2>7. rest = more \cup Lo \cup Hi
    <3>1. Fill(maps', refs', Span(sm'), ator' + 1) = Lo
      BY <1>0, <1>3, <2>1, <2>3
    <3>2. Fills(maps, refs, Queued \cup {h}, prio) = more \cup Fills(maps, refs, {h}, prio)
      BY FillsUnion
    <3>3. Fills(maps, refs, {h}, prio) = Fill(maps, refs, Span(h), prio)
      BY FillsUnion
    <3>4. Fills(maps', refs', Queued', prio') = more \cup Hi
      BY <1>0, <1>1, <2>4, <2>5, <2>6, <3>2, <3>3
    <3> HIDE DEF more, Lo, Hi
    <3> QED BY <3>1, <3>4
  <2>8. \A a \in Span(sm') : a \in Span(sm) /\ a \notin Span(y)
    BY <1>5, <1>14, <2>3
  <2>9. \A s \in Queued' : Submap(s)
    BY <1>10, <2>4, <2>5
  <2> HIDE DEF mid, Lo, Hi, more, rest
  <2> QED BY <1>3, <1>9, <2>1, <2>2, <2>3, <2>5, <2>7, <2>8, <2>9
<1> QED BY <1>5, <1>15, <1>16, <1>17, <1>18

-----------------------------------------------------------------------------
(* The callers of _delete_submaps_from_bank_tree.                           *)

\* The highest position of a map that a list has.
LEMMA HighestPosition ==
  ASSUME NEW bk \in Bank, NEW i, HasMap(bk, i), NEW k, k = Highest(Positions(bk, i))
  PROVE  k \in DOMAIN bk.maprefs /\ Topmost(bk.maprefs, i, k)
<1> DEFINE P == Positions(bk, i)
           n == Len(bk.maprefs)
<1>1. /\ P \subseteq 1 .. n /\ P # {} /\ n \in Nat
      /\ P = {j \in DOMAIN bk.maprefs : bk.maprefs[j].id = i}
  BY DEF Positions, HasMap, Bank
<1>2. k = Highest(P)
  OBVIOUS
<1> HIDE DEF P, n
<1>3. P \in SUBSET (0 .. n)
  BY <1>1
<1>4. PICK m \in P : \A h \in P : h <= m
  BY <1>1, <1>3, GreatestExists
<1>5. \E j \in P : \A h \in P : j >= h
  BY <1>3, <1>4
<1>6. k \in P /\ \A h \in P : k >= h
  BY <1>2, <1>5 DEF Highest
<1>7. \A h \in P : h <= k
  BY <1>3, <1>6
<1> QED BY <1>1, <1>6, <1>7 DEF Topmost

\* What the callers ask for, in the terms of the two loops.
Emptied(gone, owed) ==
  [submaps |-> (tree \ gone) \cup owed, maprefs |-> refs, lastUsed |-> NoSubMap,
   drainMe |-> drain \/ owed # {}]

LEMMA WithdrawNow ==
  ASSUME BankKinds, NEW ms, NEW k \in DOMAIN refs, NEW i, NEW x,
         NEW gone, gone = Gone(tree, i, x), NEW owed, owed = Fills(ms, refs, gone, k)
  PROVE  /\ Withdraw(ms, Fresh(Now), k, i, x) = Emptied(gone, owed)
         /\ Tidy((tree \ gone) \cup owed)
<1> DEFINE bk == [submaps |-> tree, maprefs |-> refs, lastUsed |-> NoSubMap, drainMe |-> drain]
<1>1. Fresh(Now) = bk
  BY DEF Fresh, Now
<1>2. SoundBank(bk)
  BY SoundRecord DEF BankKinds
<1>3. bk.submaps = tree /\ bk.maprefs = refs /\ bk.lastUsed = NoSubMap /\ bk.drainMe = drain
  OBVIOUS
<1>4. Withdraw(ms, bk, k, i, x) = Replaced(bk, gone, owed)
  <2>1. gone = Gone(bk.submaps, i, x) /\ owed = Fills(ms, bk.maprefs, gone, k)
    BY <1>3
  <2> HIDE DEF bk
  <2> QED BY <2>1, WithdrawFills
<1>5. SoundBank(Withdraw(ms, bk, k, i, x))
  <2>1. k \in 1 .. Len(bk.maprefs)
    BY <1>3 DEF BankKinds
  <2> HIDE DEF bk
  <2> QED BY <1>2, <1>3, <2>1, WithdrawSound
<1>6. Replaced(bk, gone, owed) =
        [submaps |-> (tree \ gone) \cup owed, maprefs |-> refs, lastUsed |-> NoSubMap,
         drainMe |-> drain \/ owed # {}]
  <2>1. Replaced(bk, gone, owed) =
          [bk EXCEPT !.submaps = (@ \ gone) \cup owed, !.drainMe = @ \/ owed # {}]
    BY DEF Replaced
  <2> QED BY <2>1
<1>7. Tidy(Withdraw(ms, bk, k, i, x).submaps)
  BY <1>5 DEF SoundBank
<1> HIDE DEF bk
<1>8. Tidy((tree \ gone) \cup owed)
  BY <1>4, <1>6, <1>7
<1> QED BY <1>1, <1>4, <1>6, <1>8 DEF Emptied

\* The first loop begins.
LEMMA EnqueueStart ==
  ASSUME BankKinds', CallKinds', SoundBank(found'), id' \in MapIds, pc' = "enqueue",
         at' = Entry(tree', old'), todo' = <<>>, old' # NoMap, old'.from <= old'.to,
         op' \in {"DelMap", "Depriorize", "Update"}, maps'[id'] # NoMap, prio' \in DOMAIN refs',
         op' # "DelMap" => used' = NoSubMap,
         op' = "Update" => Topmost(refs', id', prio') /\ Live(maps', refs'[prio']),
         Tidy((tree' \ Taken') \cup Fills(maps', refs', Taken', prio')),
         Expected' = Rest(op', maps', [submaps |-> (tree' \ Taken') \cup Fills(maps', refs', Taken', prio'),
                                       maprefs |-> refs', lastUsed |-> used',
                                       drainMe |-> drain' \/ Fills(maps', refs', Taken', prio') # {}],
                          id', prio')
  PROVE  IInv'
<1>1. /\ Tidy(tree') /\ old'.from \in Int /\ old'.to \in Int
      /\ \A s \in tree' : s.from \in Int /\ s.to \in Int
  BY MaxAddrAssumption, NodeNumbers DEF BankKinds, CallKinds, MapRec, Addr
<1>2. /\ at' = NoSubMap => \A s \in tree' : Apart(s, old')
      /\ at' # NoSubMap => /\ at' \in tree' /\ old'.from <= at'.to
                           /\ \A s \in tree' : s.from < at'.from => Apart(s, old')
  BY <1>1, EntryNode
<1>3. Queued' = {}
  BY DEF Queued
<1>4. Withdrawing'
  BY <1>3 DEF Withdrawing
<1>5. Taken' \cup Queued' = Taken'
  BY <1>3
<1>6. Owes(Taken, Fills(maps, refs, Taken \cup Queued, prio))'
  BY <1>5 DEF Owes, Filled
<1>7. ASSUME NEW s \in tree', at' = NoSubMap \/ s.from < at'.from PROVE s \notin Taken'
  BY <1>2, <1>7 DEF Taken, Apart, Overlaps
<1>8. at' # NoSubMap => at'.to >= old'.from
  BY <1>1, <1>2
<1>9. EnqueueInv'
  BY <1>4, <1>6, <1>7, <1>8 DEF EnqueueInv, Passed
<1> QED BY <1>2, <1>9 DEF IInv, Walking

LEMMA CallDelMapStep ==
  ASSUME IInv, NEW i \in MapIds, CallDelMap(i)
  PROVE  IInv'
<1> DEFINE k == Highest(Positions(Now, i))
<1>0. /\ pc = "idle" /\ BankKinds /\ CallKinds /\ SoundBank(Now) /\ op' = "DelMap" /\ id' = i
      /\ found' = Now /\ UNCHANGED <<maps, tree, refs, drain, sm, ator, ask, answer>>
  BY DEF IInv, CallDelMap, Begin
<1>1. Expected' = DelMap(maps, Now, i)
  BY <1>0 DEF Expected, Outcome
<1>2. /\ Now.submaps = tree /\ Now.maprefs = refs /\ Now.lastUsed = used /\ Now.drainMe = drain
      /\ Now \in Bank
  BY <1>0 DEF Now, SoundBank
<1>3. CASE maps[i] = NoMap
  <2>1. pc' = "done" /\ UNCHANGED <<at, todo, prio, used, old>>
    BY <1>3 DEF CallDelMap, NoWithdraw
  <2>2. CallKinds'
    BY <1>0, <2>1, BeginKinds DEF CallKinds
  <2>3. Expected' = found' /\ UNCHANGED bank
    BY <1>0, <1>1, <1>3, <2>1 DEF DelMap, bank
  <2> QED BY <1>0, <2>1, <2>2, <2>3, InvNothing
<1>4. CASE maps[i] # NoMap /\ ~HasMap(Now, i)
  <2>1. pc' = "done" /\ UNCHANGED <<at, todo, prio, old>> /\ used' = NoSubMap
    BY <1>4 DEF CallDelMap, NoWithdraw
  <2>2. CallKinds'
    BY <1>0, <2>1, BeginKinds DEF CallKinds
  <2>3. Expected' = Fresh(Now)
    BY <1>1, <1>4 DEF DelMap
  <2>4. Now' = Expected'
    BY <1>0, <2>1, <2>3 DEF Fresh, Now
  <2> QED BY <1>0, <2>1, <2>2, <2>4, InvDone
<1>5. CASE maps[i] # NoMap /\ HasMap(Now, i)
  <2>1. /\ prio' = k /\ old' = maps[i] /\ at' = Entry(tree, old') /\ todo' = <<>> /\ pc' = "enqueue"
        /\ used' = used
    BY <1>5 DEF CallDelMap, StartWithdraw
  <2>2. k \in 1 .. Len(refs) /\ k \in DOMAIN refs /\ k \in Nat
    BY <1>2, <1>5, PositionFound DEF Bank
  <2> DEFINE gone == Gone(tree, i, maps[i])
             owed == Fills(maps, refs, gone, k)
  <2>3. /\ Withdraw(maps, Fresh(Now), k, i, maps[i]) =
             [submaps |-> (tree \ gone) \cup owed, maprefs |-> refs, lastUsed |-> NoSubMap,
              drainMe |-> drain \/ owed # {}]
        /\ Tidy((tree \ gone) \cup owed)
    <3>1. PICK x : x = maps[i]
      OBVIOUS
    <3>2. gone = Gone(tree, i, x) /\ owed = Fills(maps, refs, gone, k)
      BY <3>1
    <3> HIDE DEF k, gone, owed
    <3>3. BankKinds /\ k \in DOMAIN refs
      BY <1>0, <2>2
    <3>4. /\ Withdraw(maps, Fresh(Now), k, i, x) = Emptied(gone, owed)
          /\ Tidy((tree \ gone) \cup owed)
      BY <3>2, <3>3, WithdrawNow
    <3> QED BY <3>1, <3>4 DEF Emptied
  <2>4. Taken' = gone /\ Fills(maps', refs', Taken', prio') = owed
    BY <1>0, <2>1 DEF Taken, Gone, Overlaps, Span
  <2>5. DelMap(maps, Now, i) = Forget(Withdraw(maps, Fresh(Now), k, i, maps[i]), k)
    BY <1>5 DEF DelMap
  <2> HIDE DEF k, gone, owed
  <2>6. Expected' = Rest(op', maps', [submaps |-> (tree' \ Taken') \cup Fills(maps', refs', Taken', prio'),
                                       maprefs |-> refs', lastUsed |-> used',
                                       drainMe |-> drain' \/ Fills(maps', refs', Taken', prio') # {}],
                          id', prio')
    <3>1. Expected' = [submaps |-> (tree \ gone) \cup owed, maprefs |-> Without(refs, k),
                       lastUsed |-> NoSubMap, drainMe |-> drain \/ owed # {}]
      BY <1>1, <2>3, <2>5 DEF Forget
    <3>2. Rest("DelMap", maps, [submaps |-> (tree \ gone) \cup owed, maprefs |-> refs,
                                lastUsed |-> used, drainMe |-> drain \/ owed # {}], i, k) =
            [submaps |-> (tree \ gone) \cup owed, maprefs |-> Without(refs, k),
             lastUsed |-> NoSubMap, drainMe |-> drain \/ owed # {}]
      BY DEF Rest, Fresh, Forget
    <3> QED BY <1>0, <2>1, <2>4, <3>1, <3>2
  <2>7. maps[i] \in MapRec /\ old'.from <= old'.to
    BY <1>0, <1>5, <2>1 DEF CallKinds, SoundMaps
  <2>8. Tidy(tree) /\ \A s \in tree : s \in SubMap
    BY <1>0 DEF BankKinds, Tidy
  <2>9. at' \in SubMap \cup {NoSubMap}
    <3>1. maps[i].from \in Int /\ maps[i].to \in Int /\ maps[i].from <= maps[i].to
      BY <2>1, <2>7, MaxAddrAssumption DEF MapRec, Addr
    <3>2. at' # NoSubMap => at' \in tree
      BY <2>1, <2>8, <3>1, EntryNode
    <3> QED BY <2>8, <3>2
  <2>10. CallKinds'
    BY <1>0, <2>1, <2>2, <2>7, <2>9 DEF CallKinds
  <2>11. BankKinds'
    BY <1>0, <2>1 DEF BankKinds
  <2> QED BY <1>0, <1>5, <2>1, <2>2, <2>3, <2>4, <2>6, <2>7, <2>10, <2>11, EnqueueStart
<1> QED BY <1>3, <1>4, <1>5

LEMMA CallDepriorizeStep ==
  ASSUME IInv, NEW i \in MapIds, CallDepriorize(i)
  PROVE  IInv'
<1> DEFINE k == Lowest(Positions(Now, i))
           above == maps[i] # NoMap /\ HasMap(Now, i) /\ k # 1
<1>0. /\ pc = "idle" /\ BankKinds /\ CallKinds /\ SoundBank(Now) /\ op' = "Depriorize" /\ id' = i
      /\ found' = Now /\ UNCHANGED <<maps, tree, refs, drain, sm, ator, ask, answer>>
  BY DEF IInv, CallDepriorize, Begin
<1>1. Expected' = Depriorize(maps, Now, i)
  BY <1>0 DEF Expected, Outcome
<1>2. /\ Now.submaps = tree /\ Now.maprefs = refs /\ Now.lastUsed = used /\ Now.drainMe = drain
      /\ Now \in Bank
  BY <1>0 DEF Now, SoundBank
<1>3. CASE ~above
  <2>1. pc' = "done" /\ UNCHANGED <<at, todo, prio, used, old>>
    BY <1>3 DEF CallDepriorize, NoWithdraw
  <2>2. CallKinds'
    BY <1>0, <2>1, BeginKinds DEF CallKinds
  <2>3. Expected' = found' /\ UNCHANGED bank
    BY <1>0, <1>1, <1>3, <2>1 DEF Depriorize, bank
  <2> QED BY <1>0, <2>1, <2>2, <2>3, InvNothing
<1>4. CASE above
  <2>1. /\ prio' = k /\ old' = maps[i] /\ at' = Entry(tree, old') /\ todo' = <<>> /\ pc' = "enqueue"
        /\ used' = NoSubMap
    BY <1>4 DEF CallDepriorize, StartWithdraw
  <2>2. k \in DOMAIN refs /\ k \in Nat
    BY <1>2, <1>4, PositionFound DEF Bank
  <2> DEFINE gone == Gone(tree, i, maps[i])
             owed == Fills(maps, refs, gone, k)
  <2>3. /\ Withdraw(maps, Fresh(Now), k, i, maps[i]) = Emptied(gone, owed)
        /\ Tidy((tree \ gone) \cup owed)
    <3>1. PICK x : x = maps[i]
      OBVIOUS
    <3>2. gone = Gone(tree, i, x) /\ owed = Fills(maps, refs, gone, k)
      BY <3>1
    <3> HIDE DEF k, gone, owed
    <3>3. BankKinds /\ k \in DOMAIN refs
      BY <1>0, <2>2
    <3>4. /\ Withdraw(maps, Fresh(Now), k, i, x) = Emptied(gone, owed)
          /\ Tidy((tree \ gone) \cup owed)
      BY <3>2, <3>3, WithdrawNow
    <3> QED BY <3>1, <3>4
  <2>4. Taken' = gone /\ Fills(maps', refs', Taken', prio') = owed
    BY <1>0, <2>1 DEF Taken, Gone, Overlaps, Span
  <2>5. Depriorize(maps, Now, i) =
          AddBottom(maps, Forget(Withdraw(maps, Fresh(Now), k, i, maps[i]), k), i)
    BY <1>4 DEF Depriorize
  <2> HIDE DEF k, gone, owed
  <2>6. Expected' = Rest(op', maps', [submaps |-> (tree' \ Taken') \cup Fills(maps', refs', Taken', prio'),
                                       maprefs |-> refs', lastUsed |-> used',
                                       drainMe |-> drain' \/ Fills(maps', refs', Taken', prio') # {}],
                          id', prio')
    BY <1>0, <1>1, <2>1, <2>3, <2>4, <2>5 DEF Rest, Emptied
  <2>7. maps[i] \in MapRec /\ maps[i] # NoMap /\ old'.from <= old'.to
    BY <1>0, <1>4, <2>1 DEF CallKinds, SoundMaps
  <2>8. Tidy(tree) /\ \A s \in tree : s \in SubMap
    BY <1>0 DEF BankKinds, Tidy
  <2>9. at' \in SubMap \cup {NoSubMap}
    <3>1. maps[i].from \in Int /\ maps[i].to \in Int /\ maps[i].from <= maps[i].to
      BY <2>1, <2>7, MaxAddrAssumption DEF MapRec, Addr
    <3>2. at' # NoSubMap => at' \in tree
      BY <2>1, <2>8, <3>1, EntryNode
    <3> QED BY <2>8, <3>2
  <2>10. CallKinds'
    BY <1>0, <2>1, <2>2, <2>7, <2>9 DEF CallKinds
  <2>11. BankKinds'
    BY <1>0, <2>1 DEF BankKinds
  <2> HIDE DEF above
  <2> QED BY <1>0, <2>1, <2>2, <2>3, <2>4, <2>6, <2>7, <2>10, <2>11, EnqueueStart
<1> QED BY <1>3, <1>4

\* The table of maps once a map has another interval.
LEMMA MovedMaps ==
  ASSUME CallKinds, NEW i \in MapIds, maps[i] # NoMap, NEW from \in Addr, NEW to \in from .. MaxAddr,
         maps' = [maps EXCEPT ![i].from = from, ![i].to = to]
  PROVE  /\ maps' \in [MapIds -> MapRec \cup {NoMap}] /\ SoundMaps(maps')
         /\ maps'[i].from = from /\ maps'[i].to = to /\ maps'[i] # NoMap
         /\ maps[i] \in MapRec /\ maps[i].from <= maps[i].to
         /\ \A ref \in MapRef : Live(maps', ref) <=> Live(maps, ref)
<1>1. /\ maps \in [MapIds -> MapRec \cup {NoMap}] /\ SoundMaps(maps) /\ maps[i] \in MapRec
      /\ maps[i].from <= maps[i].to
  BY DEF CallKinds, SoundMaps
<1>2. to \in Addr /\ from \in Int /\ to \in Int /\ from <= to
  BY MaxAddrAssumption DEF Addr
<1> DEFINE m == [maps[i] EXCEPT !.from = from, !.to = to]
<1>3. maps' = [maps EXCEPT ![i] = m]
  OBVIOUS
<1>4. m \in MapRec /\ m # NoMap /\ m.ts = maps[i].ts /\ m.from = from /\ m.to = to
  <2>1. m \in MapRec /\ m.ts = maps[i].ts /\ m.from = from /\ m.to = to
    BY <1>1, <1>2 DEF MapRec
  <2> HIDE DEF m
  <2> QED BY <2>1, NoMapAssumption DEF MapRec
<1> HIDE DEF m
<1>5. /\ maps' \in [MapIds -> MapRec \cup {NoMap}] /\ maps'[i] = m
      /\ \A j \in MapIds : j # i => maps'[j] = maps[j]
  BY <1>1, <1>3, <1>4
<1>6. SoundMaps(maps')
  <2> SUFFICES ASSUME NEW j \in MapIds, maps'[j] # NoMap
               PROVE  /\ maps'[j].from \in Addr /\ maps'[j].to \in Addr
                      /\ maps'[j].from <= maps'[j].to /\ maps'[j].ts \in Nat
    BY DEF SoundMaps
  <2>1. CASE j = i
    BY <1>2, <1>4, <1>5, <2>1 DEF MapRec
  <2>2. CASE j # i
    BY <1>1, <1>5, <2>2 DEF SoundMaps
  <2> QED BY <2>1, <2>2
<1>7. \A ref \in MapRef : Live(maps', ref) <=> Live(maps, ref)
  <2> SUFFICES ASSUME NEW ref \in MapRef PROVE Live(maps', ref) <=> Live(maps, ref)
    OBVIOUS
  <2>1. ref.id \in MapIds
    BY DEF MapRef
  <2> QED BY <1>4, <1>5, <2>1 DEF Live
<1> QED BY <1>1, <1>4, <1>5, <1>6, <1>7

LEMMA CallUpdateStep ==
  ASSUME IInv, NEW i \in MapIds, NEW from \in Addr, NEW to \in from .. MaxAddr, CallUpdate(i, from, to)
  PROVE  IInv'
<1> DEFINE k == Highest(Positions(Now, i))
           x == SubMapOf(maps', refs[k])
           moved == /\ HasMap(Now, i) /\ Live(maps, refs[k])
                    /\ ~(maps[i].from = from /\ maps[i].to = to)
<1>0. /\ pc = "idle" /\ BankKinds /\ CallKinds /\ SoundBank(Now) /\ op' = "Update" /\ id' = i
      /\ found' = Now /\ UNCHANGED <<tree, refs, drain, sm, ator, ask, answer>>
      /\ maps[i] # NoMap /\ maps' = [maps EXCEPT ![i].from = from, ![i].to = to]
      /\ old' = maps[i]
  BY DEF IInv, CallUpdate, Begin, StartWithdraw
<1>1. Expected' = UpdateBoundaries(maps', Now, i, maps[i])
  BY <1>0 DEF Expected, Outcome
<1>2. /\ Now.submaps = tree /\ Now.maprefs = refs /\ Now.lastUsed = used /\ Now.drainMe = drain
      /\ Now \in Bank
  BY <1>0 DEF Now, SoundBank
<1>3. /\ maps' \in [MapIds -> MapRec \cup {NoMap}] /\ SoundMaps(maps')
      /\ maps'[i].from = from /\ maps'[i].to = to /\ maps'[i] # NoMap
      /\ maps[i] \in MapRec /\ maps[i].from <= maps[i].to
      /\ \A ref \in MapRef : Live(maps', ref) <=> Live(maps, ref)
  BY <1>0, MovedMaps
<1>4. HasMap(Now, i) => /\ k \in DOMAIN refs /\ k \in Nat /\ refs[k] \in MapRef /\ refs[k].id = i
                        /\ Topmost(refs, i, k)
  <2>1. HasMap(Now, i) => k \in DOMAIN refs /\ Topmost(refs, i, k)
    BY <1>2, HighestPosition
  <2> QED BY <1>0, <2>1 DEF Topmost, BankKinds
<1>5. HasMap(Now, i) => (Span(x) = Span(maps[i]) <=> maps[i].from = from /\ maps[i].to = to)
  <2> SUFFICES ASSUME HasMap(Now, i)
               PROVE  Span(x) = Span(maps[i]) <=> maps[i].from = from /\ maps[i].to = to
    OBVIOUS
  <2>1. x.from = from /\ x.to = to
    BY <1>3, <1>4 DEF SubMapOf
  <2>2. Span(x) = from .. to
    BY <2>1 DEF Span
  <2>3. /\ from \in Int /\ to \in Int /\ from <= to
        /\ maps[i].from \in Int /\ maps[i].to \in Int /\ maps[i].from <= maps[i].to
    BY <1>3, MaxAddrAssumption DEF Addr, MapRec
  <2> QED BY <2>2, <2>3 DEF Span
<1>6. CASE ~moved
  <2>1. pc' = "done" /\ UNCHANGED <<at, todo, prio, used>>
    BY <1>6 DEF CallUpdate, NoWithdraw
  <2>2. CallKinds'
    BY <1>0, <1>3, <2>1 DEF CallKinds
  <2>3. Expected' = found' /\ UNCHANGED bank
    BY <1>0, <1>1, <1>2, <1>3, <1>4, <1>5, <1>6, <2>1 DEF UpdateBoundaries, bank
  <2> QED BY <1>0, <2>1, <2>2, <2>3, InvNothing
<1>7. CASE moved
  <2>1. prio' = k /\ at' = Entry(tree, old') /\ todo' = <<>> /\ pc' = "enqueue" /\ used' = NoSubMap
    BY <1>7 DEF CallUpdate, StartWithdraw
  <2>2. k \in DOMAIN refs /\ k \in Nat /\ refs[k] \in MapRef /\ Topmost(refs, i, k)
        /\ Live(maps', refs[k])
    BY <1>3, <1>4, <1>7
  <2> DEFINE gone == Gone(tree, i, maps[i])
             owed == Fills(maps', refs, gone, k)
  <2>3. /\ Withdraw(maps', Fresh(Now), k, i, maps[i]) = Emptied(gone, owed)
        /\ Tidy((tree \ gone) \cup owed)
    <3>1. PICK z, ms : z = maps[i] /\ ms = maps'
      OBVIOUS
    <3>2. gone = Gone(tree, i, z) /\ owed = Fills(ms, refs, gone, k)
      BY <3>1
    <3> HIDE DEF k, gone, owed
    <3>3. BankKinds /\ k \in DOMAIN refs
      BY <1>0, <2>2
    <3>4. /\ Withdraw(ms, Fresh(Now), k, i, z) = Emptied(gone, owed)
          /\ Tidy((tree \ gone) \cup owed)
      BY <3>2, <3>3, WithdrawNow
    <3> QED BY <3>1, <3>4
  <2>4. Taken' = gone /\ Fills(maps', refs', Taken', prio') = owed
    BY <1>0, <2>1 DEF Taken, Gone, Overlaps, Span
  <2> DEFINE w == Emptied(gone, owed)
  <2>5. UpdateBoundaries(maps', Now, i, maps[i]) =
          [w EXCEPT !.submaps = AboveIn(w.submaps, refs, i, k)
                                  \cup Carve(w.submaps \ AboveIn(w.submaps, refs, i, k), Span(x))
                                  \cup Pieces(Span(x) \ Covered(AboveIn(w.submaps, refs, i, k)), refs[k]),
                    !.drainMe = w.drainMe \/ Hits(w.submaps, x) # {}]
    <3>1. HasMap(Now, i) /\ Live(maps', refs[k]) /\ Span(x) # Span(maps[i])
      BY <1>3, <1>4, <1>5, <1>7
    <3>2. w = Withdraw(maps', Fresh(Now), k, i, maps[i])
      BY <2>3
    <3> HIDE DEF w, gone, owed
    <3> QED BY <1>2, <3>1, <3>2 DEF UpdateBoundaries, AboveIn
  <2> HIDE DEF gone, owed
  <2>6. Expected' = Rest(op', maps', [submaps |-> (tree' \ Taken') \cup Fills(maps', refs', Taken', prio'),
                                       maprefs |-> refs', lastUsed |-> used',
                                       drainMe |-> drain' \/ Fills(maps', refs', Taken', prio') # {}],
                          id', prio')
    <3>1. w.maprefs = refs /\ x.ref = refs[k]
      BY DEF Emptied, SubMapOf
    <3>2. w = [submaps |-> (tree' \ Taken') \cup Fills(maps', refs', Taken', prio'),
               maprefs |-> refs', lastUsed |-> used',
               drainMe |-> drain' \/ Fills(maps', refs', Taken', prio') # {}]
      BY <1>0, <2>1, <2>4 DEF Emptied
    <3> HIDE DEF w
    <3>3. Rest("Update", maps', w, i, k) = LayBetween(w, i, k, x)
      BY <3>1 DEF Rest
    <3>4. Expected' = LayBetween(w, i, k, x)
      BY <1>1, <2>5, <3>1 DEF LayBetween, Lay
    <3> QED BY <1>0, <2>1, <3>2, <3>3, <3>4
  <2>7. Tidy(tree) /\ \A s \in tree : s \in SubMap
    BY <1>0 DEF BankKinds, Tidy
  <2>8. at' \in SubMap \cup {NoSubMap}
    <3>1. maps[i].from \in Int /\ maps[i].to \in Int /\ maps[i].from <= maps[i].to
      BY <1>3, MaxAddrAssumption DEF MapRec, Addr
    <3>2. at' # NoSubMap => at' \in tree
      BY <1>0, <2>1, <2>7, <3>1, EntryNode
    <3> QED BY <2>7, <3>2
  <2> HIDE DEF k, x, moved, w
  <2>9. CallKinds'
    BY <1>0, <1>3, <2>1, <2>2, <2>8 DEF CallKinds
  <2>10. BankKinds'
    BY <1>0, <2>1 DEF BankKinds
  <2> QED BY <1>0, <1>3, <2>1, <2>2, <2>3, <2>4, <2>6, <2>9, <2>10, EnqueueStart
<1> QED BY <1>6, <1>7

\* The queue is empty: the debt is paid.
LEMMA OwesNothing ==
  ASSUME BankKinds, DequeueInv, todo = <<>>
  PROVE  Expected = Rest(op, maps, Now, id, prio)
<1>1. Fills(maps, refs, Queued, prio) = {}
  BY FillsUnion DEF Queued
<1>2. Expected = Rest(op, maps, Filled({}, {}), id, prio)
  BY <1>1 DEF DequeueInv, Owes
<1>3. Filled({}, {}) = Now
  <2>1. (tree \ {}) \cup {} = tree /\ (drain \/ {} # {}) = drain
    BY DEF BankKinds
  <2> QED BY <2>1 DEF Filled, Now
<1> QED BY <1>2, <1>3

LEMMA DelMapEndStep ==
  ASSUME IInv, DelMapEnd
  PROVE  IInv'
<1>0. /\ BankKinds /\ CallKinds /\ DequeueInv /\ SoundBank(found) /\ op = "DelMap" /\ todo = <<>>
      /\ refs' = Without(refs, prio) /\ used' = NoSubMap /\ pc' = "done"
      /\ UNCHANGED <<maps, tree, drain>> /\ UNCHANGED walk
  BY DEF IInv, DelMapEnd, Withdrawn
<1>1. /\ Expected' = Expected /\ op' = op /\ id' = id /\ found' = found
  BY <1>0, SameExpected DEF walk
<1>2. Expected = Fresh(Forget(Now, prio))
  BY <1>0, OwesNothing DEF Rest
<1>3. Now' = Expected'
  BY <1>0, <1>1, <1>2 DEF Now, Fresh, Forget
<1>4. CallKinds'
  BY <1>0 DEF CallKinds, walk, call
<1> QED BY <1>0, <1>1, <1>3, <1>4, InvDone

LEMMA DepriorizeNextStep ==
  ASSUME IInv, DepriorizeNext
  PROVE  IInv'
<1> DEFINE x == SubMapOf(maps, RefOf(maps, id))
<1>0. /\ BankKinds /\ CallKinds /\ DequeueInv /\ Withdrawing /\ SoundBank(found)
      /\ op = "Depriorize" /\ todo = <<>> /\ id \in MapIds
      /\ refs' = Without(refs, prio) /\ sm' = x /\ at' = Entry(tree, x) /\ pc' = "bottom"
      /\ UNCHANGED <<maps, tree, used, drain, todo, ator, answer>> /\ UNCHANGED call
  BY DEF IInv, Walking, DepriorizeNext, Withdrawn, DequeueInv
<1>1. /\ Expected' = Expected /\ op' = op /\ id' = id /\ found' = found /\ old' = old /\ prio' = prio
  BY <1>0, SameExpected
<1>2. Expected = AddBottom(maps, Forget(Now, prio), id)
  BY <1>0, OwesNothing DEF Rest
<1>3. maps[id] # NoMap /\ prio \in DOMAIN refs
  BY <1>0 DEF Withdrawing
<1>4. x \in SubMap /\ x.from <= x.to /\ x.ref = RefOf(maps, id)
  <2>1. SoundMaps(maps)
    BY <1>0 DEF CallKinds
  <2>2. x \in SubMap /\ x.from <= x.to
    BY <1>0, <1>3, <2>1, RefOfType
  <2> QED BY <2>2 DEF SubMapOf
<1>5. Expected = [submaps |-> Lay(tree, tree, x), maprefs |-> <<x.ref>> \o Without(refs, prio),
                  lastUsed |-> used, drainMe |-> drain]
  <2>1. Forget(Now, prio) = [submaps |-> tree, maprefs |-> Without(refs, prio), lastUsed |-> used,
                             drainMe |-> drain]
    BY DEF Forget, Now
  <2>2. AddBottom(maps, Forget(Now, prio), id) =
          [submaps |-> tree \cup Pieces(Span(x) \ Covered(tree), RefOf(maps, id)),
           maprefs |-> <<RefOf(maps, id)>> \o Without(refs, prio), lastUsed |-> used, drainMe |-> drain]
    <3>1. PICK bk : bk = Forget(Now, prio)
      OBVIOUS
    <3>2. PICK new : new = AddBottom(maps, bk, id)
      OBVIOUS
    <3>3. new \in Bank
      BY <1>0, <1>2, <3>1, <3>2, OutcomeSound DEF Expected, SoundBank, CallKinds
    <3>4. /\ new.submaps = bk.submaps \cup Pieces(Span(x) \ Covered(bk.submaps), RefOf(maps, id))
          /\ new.maprefs = <<RefOf(maps, id)>> \o bk.maprefs
          /\ new.lastUsed = bk.lastUsed /\ new.drainMe = bk.drainMe
      BY <1>3, <2>1, <3>1, <3>2 DEF AddBottom
    <3>5. new = [submaps |-> new.submaps, maprefs |-> new.maprefs, lastUsed |-> new.lastUsed,
                 drainMe |-> new.drainMe]
      BY <3>3, BankFields
    <3>6. /\ bk.submaps = tree /\ bk.maprefs = Without(refs, prio) /\ bk.lastUsed = used
          /\ bk.drainMe = drain
      BY <2>1, <3>1
    <3> HIDE DEF x
    <3>7. PICK S, l : /\ S = tree \cup Pieces(Span(x) \ Covered(tree), RefOf(maps, id))
                      /\ l = <<RefOf(maps, id)>> \o Without(refs, prio)
      OBVIOUS
    <3>8. new.submaps = S /\ new.maprefs = l /\ new.lastUsed = used /\ new.drainMe = drain
      BY <3>4, <3>6, <3>7
    <3>9. new = [submaps |-> S, maprefs |-> l, lastUsed |-> used, drainMe |-> drain]
      BY <3>5, <3>8
    <3> QED BY <3>1, <3>2, <3>7, <3>9
  <2>3. Lay(tree, tree, x) = tree \cup Pieces(Span(x) \ Covered(tree), x.ref)
    <3> HIDE DEF x
    <3> QED BY LayUnderAll
  <2> QED BY <1>2, <1>4, <2>2, <2>3
<1>6. BankKinds'
  <2>1. refs # <<>> /\ refs \in Seq(MapRef)
    BY <1>0, <1>3 DEF BankKinds
  <2>2. Without(refs, prio) \in Seq(MapRef)
    BY <2>1, WithoutType
  <2> QED BY <1>0, <2>2 DEF BankKinds
<1> HIDE DEF x
<1>7. Tidy(tree) /\ x.from \in Int /\ x.to \in Int
  BY <1>0, <1>4, SetEnds DEF BankKinds
<1>8. at' \in SubMap \cup {NoSubMap}
  <2>1. at' # NoSubMap => at' \in tree
    BY <1>0, <1>4, <1>7, EntryNode
  <2> QED BY <1>7, <2>1 DEF Tidy
<1>9. CallKinds'
  BY <1>0, <1>1, <1>4, <1>8 DEF CallKinds
<1>10. Submap(sm')
  BY <1>0, <1>4 DEF Submap
<1> QED BY <1>0, <1>1, <1>5, <1>6, <1>9, <1>10, BottomStart

-----------------------------------------------------------------------------
(* A map laid in between.                                                   *)

\* _mapref_priority_cmp tells the nodes that stay.
LEMMA OutranksAbove ==
  ASSUME NEW list \in Seq(MapRef), NEW i, NEW k, Topmost(list, i, k),
         NEW S, NEW s \in S, NEW x, x.ref.id = i
  PROVE  Outranks(list, x, s) <=> s \notin AboveIn(S, list, i, k)
<1> DEFINE other == s.ref.id
<1>0. /\ k \in Nat /\ Len(list) \in Nat /\ DOMAIN list = 1 .. Len(list) /\ k \in DOMAIN list
      /\ list[k].id = i /\ \A n \in DOMAIN list : list[n].id = i => n <= k
  BY DEF Topmost
<1>1. Outranks(list, x, s) <=>
        /\ i # other
        /\ \E n \in DOMAIN list : /\ list[n].id = i
                                  /\ \A m \in n + 1 .. Len(list) : list[m].id # other
  BY DEF Outranks, MetFirst
<1>2. s \in AboveIn(S, list, i, k) <=> other = i \/ \E j \in k + 1 .. Len(list) : list[j].id = other
  BY DEF AboveIn
<1>3. ASSUME NEW n \in DOMAIN list, list[n].id = i, \A m \in n + 1 .. Len(list) : list[m].id # other,
             NEW j \in k + 1 .. Len(list)
      PROVE  list[j].id # other
  <2>1. n <= k /\ n \in Nat
    BY <1>0, <1>3
  <2>2. j \in n + 1 .. Len(list)
    BY <1>0, <2>1
  <2> QED BY <1>3, <2>2
<1> HIDE DEF other
<1> QED BY <1>0, <1>1, <1>2, <1>3

\* Cutting a node that does not stay changes none that does.
LEMMA AboveCut ==
  ASSUME NEW S, Tidy(S), NEW list, NEW i, NEW k, NEW e \in S, e \notin AboveIn(S, list, i, k), NEW x
  PROVE  AboveIn(CutTo(S, e, x), list, i, k) = AboveIn(S, list, i, k)
<1> DEFINE R == Carve({e}, Span(x))
           T == CutTo(S, e, x)
           Up(s) == s.ref.id = i \/ \E j \in k + 1 .. Len(list) : list[j].id = s.ref.id
<1>1. \A p \in R : p.ref = e.ref
  <2> TAKE p \in R
  <2>1. PICK Z : Z = {e} /\ Tidy(Z) /\ p \in Carve(Z, Span(x))
    BY TidySubset
  <2>2. \E s \in Z : p.ref = s.ref /\ Span(p) \subseteq Span(s) \ Span(x)
    BY <2>1, CarveFrom
  <2> QED BY <2>1, <2>2
<1>2. ~Up(e)
  BY DEF AboveIn
<1>3. \A p \in R : ~Up(p)
  BY <1>1, <1>2
<1>4. T = (S \ {e}) \cup R
  BY DEF CutTo
<1>5. AboveIn(T, list, i, k) = {s \in T : Up(s)} /\ AboveIn(S, list, i, k) = {s \in S : Up(s)}
  BY DEF AboveIn
<1> HIDE DEF R, T, Up
<1> QED BY <1>2, <1>3, <1>4, <1>5 DEF T

\* A gap is filled with a submap of the map itself.
LEMMA AboveGap ==
  ASSUME NEW S, NEW list, NEW i, NEW k, NEW G, \A g \in G : g.ref.id = i
  PROVE  AboveIn(S \cup G, list, i, k) = AboveIn(S, list, i, k) \cup G
BY DEF AboveIn

\* The node that ends where x does, or behind it, is the last one in the way.
LEMMA CutApart ==
  ASSUME NEW S, Tidy(S), NEW e \in S, NEW x \in SubMap, x.from <= x.to,
         e.from <= x.to, x.to <= e.to, \A s \in S : s.from < e.from => Apart(s, x)
  PROVE  \A s \in CutTo(S, e, x) : Apart(s, x)
<1>0. /\ x.from \in Int /\ x.to \in Int /\ e.from \in Int /\ e.to \in Int
      /\ \A s \in S : s \in SubMap /\ s.from \in Int /\ s.to \in Int /\ s.from <= s.to
  BY SetEnds, NodeNumbers DEF Tidy
<1>1. ASSUME NEW s \in S \ {e} PROVE Apart(s, x)
  <2>1. s.to < e.from \/ e.to < s.from
    BY NodeOrder
  <2>2. CASE s.to < e.from
    <3>1. s.from < e.from
      BY <1>0, <2>2
    <3> QED BY <3>1
  <2>3. CASE e.to < s.from
    <3>1. x.to < s.from
      BY <1>0, <2>3
    <3> QED BY <1>0, <3>1, OverlapEnds
  <2> QED BY <2>1, <2>2, <2>3
<1> QED BY <1>1, CutLeaves

\* A bank with another tree and another mark.
LEMMA OtherBank ==
  ASSUME NEW S, NEW list, NEW last, NEW mark, NEW T, NEW other
  PROVE  [[submaps |-> S, maprefs |-> list, lastUsed |-> last, drainMe |-> mark]
            EXCEPT !.submaps = T, !.drainMe = other] =
           [submaps |-> T, maprefs |-> list, lastUsed |-> last, drainMe |-> other]
<1> DEFINE u == [[submaps |-> S, maprefs |-> list, lastUsed |-> last, drainMe |-> mark]
                   EXCEPT !.submaps = T, !.drainMe = other]
           v == [submaps |-> T, maprefs |-> list, lastUsed |-> last, drainMe |-> other]
<1>1. DOMAIN u = DOMAIN v /\ u = [x \in DOMAIN u |-> u[x]] /\ v = [x \in DOMAIN v |-> v[x]]
  OBVIOUS
<1>2. /\ u.submaps = v.submaps /\ u.maprefs = v.maprefs /\ u.lastUsed = v.lastUsed
      /\ u.drainMe = v.drainMe
  OBVIOUS
<1>3. DOMAIN v = {"submaps", "maprefs", "lastUsed", "drainMe"}
  OBVIOUS
<1> HIDE DEF u, v
<1>4. \A x \in DOMAIN v : u[x] = v[x]
  BY <1>2, <1>3
<1>5. u = v
  BY <1>1, <1>4
<1> QED BY <1>5 DEF u, v

\* What the three branches behind the second loop know.
LEMMA UpdateFacts ==
  ASSUME IInv, Withdrawn("Update"), NEW x, x = SubMapOf(maps, refs[prio]), NEW e, e = Entry(tree, x)
  PROVE  /\ BankKinds /\ CallKinds /\ SoundBank(found) /\ id \in MapIds /\ op = "Update" /\ at = NoSubMap
         /\ used = NoSubMap /\ Topmost(refs, id, prio)
         /\ x \in SubMap /\ x.from <= x.to /\ x.from \in Int /\ x.to \in Int /\ x.ref.id = id
         /\ Expected = [submaps |-> Lay(tree, AboveIn(tree, refs, id, prio), x), maprefs |-> refs,
                        lastUsed |-> used, drainMe |-> drain \/ e # NoSubMap]
         /\ e = NoSubMap => \A s \in tree : Apart(s, x)
         /\ e # NoSubMap => /\ e \in tree /\ e.from <= x.to /\ x.from <= e.to
                            /\ \A s \in tree : s.from < e.from => Apart(s, x)
<1>0. /\ BankKinds /\ CallKinds /\ DequeueInv /\ Withdrawing /\ SoundBank(found) /\ id \in MapIds
      /\ op = "Update" /\ todo = <<>> /\ at = NoSubMap
  BY DEF IInv, Walking, Withdrawn, DequeueInv
<1>1. used = NoSubMap /\ Topmost(refs, id, prio) /\ Live(maps, refs[prio])
  BY <1>0 DEF Withdrawing
<1>2. refs[prio] \in MapRef /\ refs[prio].id = id
  BY <1>0, <1>1 DEF Topmost, BankKinds
<1>3. x \in SubMap /\ x.from <= x.to /\ x.from \in Int /\ x.to \in Int /\ x.ref.id = id
  <2>1. SoundMaps(maps)
    BY <1>0 DEF CallKinds
  <2>2. SubMapOf(maps, refs[prio]) \in SubMap
        /\ SubMapOf(maps, refs[prio]).from <= SubMapOf(maps, refs[prio]).to
    BY <1>1, <1>2, <2>1, LiveType
  <2>3. x \in SubMap /\ x.from <= x.to
    BY <2>2
  <2>4. x.ref.id = id
    BY <1>2 DEF SubMapOf
  <2> QED BY <2>3, <2>4, SetEnds
<1>4. Tidy(tree)
  BY <1>0 DEF BankKinds
<1>5. /\ e = NoSubMap <=> Hits(tree, x) = {}
      /\ e = NoSubMap => \A s \in tree : Apart(s, x)
      /\ e # NoSubMap => /\ e \in tree /\ e.from <= x.to /\ x.from <= e.to
                         /\ \A s \in tree : s.from < e.from => Apart(s, x)
  BY <1>3, <1>4, EntryNode
<1>6. Expected = LayBetween(Now, id, prio, x)
  <2>1. Expected = Rest("Update", maps, Now, id, prio)
    BY <1>0, OwesNothing
  <2>2. Now.maprefs = refs
    BY DEF Now
  <2> QED BY <2>1, <2>2 DEF Rest
<1>7. LayBetween(Now, id, prio, x) =
        [submaps |-> Lay(tree, AboveIn(tree, refs, id, prio), x), maprefs |-> refs,
         lastUsed |-> used, drainMe |-> drain \/ Hits(tree, x) # {}]
  <2> DEFINE T == Lay(tree, AboveIn(tree, refs, id, prio), x)
             other == drain \/ Hits(tree, x) # {}
  <2>1. LayBetween(Now, id, prio, x) =
          [[submaps |-> tree, maprefs |-> refs, lastUsed |-> used, drainMe |-> drain]
             EXCEPT !.submaps = T, !.drainMe = other]
    BY DEF LayBetween, Now
  <2> HIDE DEF T, other
  <2>2. LayBetween(Now, id, prio, x) =
          [submaps |-> T, maprefs |-> refs, lastUsed |-> used, drainMe |-> other]
    BY <2>1, OtherBank
  <2> QED BY <2>2 DEF T, other
<1> QED BY <1>0, <1>1, <1>3, <1>5, <1>6, <1>7

LEMMA UpdateAloneStep ==
  ASSUME IInv, UpdateAlone
  PROVE  IInv'
<1>0. PICK x, e : /\ x = SubMapOf(maps, refs[prio]) /\ e = Entry(tree, x)
                  /\ Withdrawn("Update") /\ e = NoSubMap
                  /\ tree' = tree \cup {x} /\ pc' = "done"
                  /\ UNCHANGED <<maps, refs, used, drain>> /\ UNCHANGED walk
  BY DEF UpdateAlone
<1>1. /\ BankKinds /\ CallKinds /\ SoundBank(found) /\ id \in MapIds /\ op = "Update"
      /\ x \in SubMap /\ x.from <= x.to
      /\ Expected = [submaps |-> Lay(tree, AboveIn(tree, refs, id, prio), x), maprefs |-> refs,
                     lastUsed |-> used, drainMe |-> drain \/ e # NoSubMap]
      /\ e = NoSubMap => \A s \in tree : Apart(s, x)
  BY <1>0, UpdateFacts
<1>2. /\ Expected' = Expected /\ op' = op /\ id' = id /\ found' = found
  BY <1>0, SameExpected DEF walk
<1>3. Lay(tree, AboveIn(tree, refs, id, prio), x) = tree \cup {x}
  <2>1. PICK A : A = AboveIn(tree, refs, id, prio)
    OBVIOUS
  <2>2. A \in SUBSET tree /\ Tidy(tree)
    BY <1>1, <2>1 DEF AboveIn, BankKinds
  <2> QED BY <1>0, <1>1, <2>1, <2>2, LayDone
<1>4. (drain \/ e # NoSubMap) = drain
  BY <1>0, <1>1 DEF BankKinds
<1>5. Now' = Expected'
  BY <1>0, <1>1, <1>2, <1>3, <1>4 DEF Now
<1>6. CallKinds'
  BY <1>0, <1>1 DEF CallKinds, walk, call
<1> QED BY <1>0, <1>1, <1>2, <1>5, <1>6, InvDone

\* The node in the way is cut, and with it all there was in the way.
LEMMA UpdateCutDone ==
  ASSUME BankKinds, CallKinds', SoundBank(found'), op' = "Update", pc' = "done",
         NEW A, A = AboveIn(tree, refs, id, prio), NEW x \in SubMap, x.from <= x.to,
         NEW e \in tree, e \notin A,
         e.from <= x.to, x.to <= e.to, \A s \in tree : s.from < e.from => Apart(s, x),
         tree' = CutTo(tree, e, x) \cup {x},
         Expected' = [submaps |-> Lay(tree, A, x), maprefs |-> refs', lastUsed |-> used', drainMe |-> drain']
  PROVE  IInv'
<1>1. Tidy(tree) /\ A \in SUBSET tree
  BY DEF BankKinds, AboveIn
<1>2. \A s \in CutTo(tree, e, x) : Apart(s, x)
  BY <1>1, CutApart
<1>3. PICK T : T = CutTo(tree, e, x)
  OBVIOUS
<1>4. Tidy(T) /\ A \in SUBSET T /\ Lay(T, A, x) = Lay(tree, A, x)
  BY <1>1, <1>3, LayCut
<1>5. Lay(T, A, x) = T \cup {x}
  BY <1>2, <1>3, <1>4, LayDone
<1>6. Now' = Expected'
  BY <1>3, <1>4, <1>5 DEF Now
<1> QED BY <1>6, InvDone

\* The node in the way is cut, and the walk goes on.
LEMMA UpdateCutOn ==
  ASSUME BankKinds, CallKinds', SoundBank(found'), op' = "Update", pc' = "update", id' \in MapIds,
         used' = NoSubMap, Topmost(refs', id', prio'), UNCHANGED <<refs, id, prio>>,
         NEW A, A = AboveIn(tree, refs, id, prio), NEW x \in SubMap, x.from <= x.to, x.ref.id = id,
         NEW e \in tree, e \notin A,
         e.to <= x.to, x.from <= e.to, \A s \in tree : s.from < e.from => Apart(s, x),
         tree' = CutTo(tree, e, x), sm' = x, at' = After(tree, e),
         Expected' = [submaps |-> Lay(tree, A, x), maprefs |-> refs', lastUsed |-> used', drainMe |-> drain'],
         used' \in SubMap \cup {NoSubMap}, drain' \in BOOLEAN
  PROVE  IInv'
<1>1. /\ Tidy(tree) /\ A \in SUBSET tree /\ x.from \in Int /\ x.to \in Int
      /\ e.from \in Int /\ e.to \in Int
      /\ \A s \in tree : s \in SubMap /\ s.from \in Int /\ s.to \in Int /\ s.from <= s.to
  BY TreeNode, SetEnds DEF BankKinds, AboveIn
<1>2. PICK T : T = CutTo(tree, e, x)
  OBVIOUS
<1>3. Tidy(T) /\ Lay(T, A, x) = Lay(tree, A, x)
  BY <1>1, <1>2, LayCut
<1>4. AboveIn(tree', refs', id', prio') = A
  BY <1>1, AboveCut
<1>5. \A s \in T : Apart(s, x) \/ s \in tree \ {e}
  BY <1>1, <1>2, CutLeaves
<1>6. /\ at' = NoSubMap => \A s \in tree : s # e => s.to < e.from
      /\ at' # NoSubMap => /\ at' \in tree /\ e.to < at'.from /\ at' # e
                           /\ \A s \in tree : s.from < at'.from => s = e \/ s.to < e.from
  BY <1>1, AfterNode
<1>7. at' # NoSubMap => at' \in tree' /\ at'.from >= x.from
  <2>1. at' # NoSubMap => at' \in T
    BY <1>2, <1>6 DEF CutTo
  <2> QED BY <1>1, <1>2, <1>6, <2>1
<1>8. ASSUME NEW s \in T, at' = NoSubMap \/ s.from < at'.from PROVE Apart(s, x)
  <2>1. CASE s \in tree \ {e}
    <3>1. s.to < e.from
      BY <1>6, <1>8, <2>1
    <3>2. s.from < e.from
      BY <1>1, <2>1, <3>1
    <3> QED BY <2>1, <3>2
  <2> QED BY <1>5, <2>1
<1>9. PassedApart' /\ Submap(sm')
  BY <1>2, <1>8 DEF PassedApart, Passed, Submap
<1>10. UpdateInv'
  BY <1>2, <1>3, <1>4, <1>7, <1>9 DEF UpdateInv
<1>11. BankKinds'
  BY <1>2, <1>3 DEF BankKinds
<1> QED BY <1>7, <1>10, <1>11 DEF IInv, Walking

\* A node that stays is passed, and the walk goes on with what is behind it.
LEMMA UpdatePass ==
  ASSUME BankKinds, CallKinds', SoundBank(found'), op' = "Update", pc' = "update", id' \in MapIds,
         used' = NoSubMap, Topmost(refs', id', prio'), UNCHANGED <<refs, id, prio>>,
         NEW A, A = AboveIn(tree, refs, id, prio), NEW x \in SubMap, x.from <= x.to, x.ref.id = id,
         NEW e \in A, e.to < x.to, x.from <= e.to + 1, \A s \in tree : s.from < e.from => Apart(s, x),
         tree' = GapFilled(tree, e, x), sm' = SetFrom(x, e.to + 1),
         at' = e \/ at' = After(tree, e),
         Expected' = [submaps |-> Lay(tree, A, x), maprefs |-> refs', lastUsed |-> used', drainMe |-> drain'],
         used' \in SubMap \cup {NoSubMap}, drain' \in BOOLEAN
  PROVE  IInv'
<1> DEFINE G == Gap(e, x)
<1>1. /\ Tidy(tree) /\ A \in SUBSET tree /\ e \in tree /\ x.from \in Int /\ x.to \in Int
      /\ e.from \in Int /\ e.to \in Int /\ e.from <= e.to /\ e # NoSubMap /\ e.from <= x.to
      /\ \A s \in tree : s \in SubMap /\ s.from \in Int /\ s.to \in Int /\ s.from <= s.to
  <2>1. Tidy(tree) /\ A \in SUBSET tree /\ e \in tree
    BY DEF BankKinds, AboveIn
  <2>2. /\ x.from \in Int /\ x.to \in Int
        /\ e.from \in Int /\ e.to \in Int /\ e.from <= e.to /\ e # NoSubMap
        /\ \A s \in tree : s \in SubMap /\ s.from \in Int /\ s.to \in Int /\ s.from <= s.to
    BY <2>1, TreeNode, SetEnds
  <2> QED BY <2>1, <2>2
<1>2. /\ \A g \in G : /\ g \in SubMap /\ g.from <= g.to /\ g.ref = x.ref
                      /\ Span(g) = x.from .. e.from - 1 /\ g \notin tree
                      /\ \A s \in tree : Apart(s, g)
      /\ Tidy(tree \cup G)
      /\ GapFilled(tree, e, x) = tree \cup G
  BY <1>1, GapFree
<1> HIDE DEF G
<1>3. /\ sm' \in SubMap /\ sm'.from = e.to + 1 /\ sm'.to = x.to /\ sm'.ref = x.ref
      /\ Lay(tree \cup G, A \cup G, sm') = Lay(tree, A, x)
  <2>1. PICK y : y = sm'
    OBVIOUS
  <2>2. /\ y \in SubMap /\ y.from = e.to + 1 /\ y.to = x.to /\ y.ref = x.ref
        /\ Lay(tree \cup Gap(e, x), A \cup Gap(e, x), y) = Lay(tree, A, x)
    <3>1. y = SetFrom(x, e.to + 1)
      BY <2>1
    <3>2. Tidy(tree) /\ A \in SUBSET tree /\ e.to < x.to /\ x.from <= e.to + 1
      BY <1>1
    <3>3. \A S, B, z : (S = tree /\ B = A /\ z = e) =>
            /\ Tidy(S) /\ B \in SUBSET S /\ z \in B /\ z.to < x.to /\ x.from <= z.to + 1
            /\ (\A s \in S : s.from < z.from => Apart(s, x)) /\ y = SetFrom(x, z.to + 1)
      BY <3>1, <3>2
    <3>4. PICK S, B, z : S = tree /\ B = A /\ z = e
      OBVIOUS
    <3>5. /\ y \in SubMap /\ y.from = z.to + 1 /\ y.to = x.to /\ y.ref = x.ref
          /\ Lay(S \cup Gap(z, x), B \cup Gap(z, x), y) = Lay(S, B, x)
      BY <3>3, <3>4, LayPass
    <3> QED BY <3>4, <3>5
  <2> QED BY <2>1, <2>2 DEF G
<1>4. AboveIn(tree', refs', id', prio') = A \cup G
  <2>1. \A g \in G : g.ref.id = id
    BY <1>2
  <2>2. AboveIn(tree \cup G, refs, id, prio) = AboveIn(tree, refs, id, prio) \cup G
    BY <2>1, AboveGap
  <2> QED BY <1>2, <2>2
<1>5. /\ at' = NoSubMap => \A s \in tree : s # e => s.to < e.from
      /\ at' # NoSubMap => /\ at' \in tree /\ (at' = e \/ e.to < at'.from)
                           /\ \A s \in tree : s.from < at'.from => s = e \/ s.to < e.from
  <2>1. PICK n : n = After(tree, e)
    OBVIOUS
  <2>2. /\ n = NoSubMap => \A s \in tree : s # e => s.to < e.from
        /\ n # NoSubMap => /\ n \in tree /\ e.to < n.from /\ n # e
                           /\ \A s \in tree : s.from < n.from => s = e \/ s.to < e.from
    BY <1>1, <2>1, AfterNode
  <2>3. ASSUME NEW s \in tree, s.from < e.from PROVE s.to < e.from
    <3>1. s # e /\ (s.to < e.from \/ e.to < s.from)
      BY <1>1, <2>3, NodeOrder
    <3> QED BY <1>1, <2>3, <3>1
  <2> QED BY <1>1, <2>1, <2>2, <2>3
<1>6. at' # NoSubMap => /\ at' \in tree'
                        /\ \/ at'.from >= sm'.from
                           \/ at'.to + 1 = sm'.from /\ at' \in A \cup G
  <2>1. at' # NoSubMap => at' \in tree' /\ at'.from \in Int /\ (at' = e \/ e.to < at'.from)
    BY <1>1, <1>2, <1>5
  <2> QED BY <1>1, <1>3, <2>1
<1>7. sm'.from \in Int /\ sm'.to \in Int /\ sm'.from <= sm'.to
  BY <1>1, <1>3
<1>8. ASSUME NEW s \in tree \cup G, at' = NoSubMap \/ s.from < at'.from PROVE Apart(s, sm')
  <2>1. CASE s \in tree
    <3>1. s = e \/ s.to < e.from
      BY <1>5, <1>8, <2>1
    <3>2. s.to < sm'.from
      BY <1>1, <1>3, <2>1, <3>1
    <3> QED BY <1>1, <1>7, <2>1, <3>2, OverlapEnds
  <2>2. CASE s \in G
    <3>1. Span(s) = x.from .. e.from - 1
      BY <1>2, <2>2
    <3>2. Span(sm') = e.to + 1 .. x.to
      BY <1>3 DEF Span
    <3> QED BY <1>1, <3>1, <3>2 DEF Apart
  <2> QED BY <1>8, <2>1, <2>2
<1>9. PassedApart' /\ Submap(sm')
  BY <1>2, <1>3, <1>7, <1>8 DEF PassedApart, Passed, Submap
<1>10. UpdateInv'
  BY <1>2, <1>3, <1>4, <1>6, <1>9 DEF UpdateInv
<1>11. BankKinds'
  BY <1>2 DEF BankKinds
<1> QED BY <1>6, <1>10, <1>11 DEF IInv, Walking

LEMMA UpdateOverStep ==
  ASSUME IInv, UpdateOver
  PROVE  IInv'
<1>0. PICK x, e : /\ x = SubMapOf(maps, refs[prio]) /\ e = Entry(tree, x)
                  /\ Withdrawn("Update") /\ e # NoSubMap /\ Outranks(refs, x, e)
                  /\ drain' = TRUE /\ sm' = x
                  /\ \/ /\ e.to = x.to /\ x.from <= e.from
                        /\ tree' = Change(tree, e, x) /\ pc' = "done" /\ UNCHANGED at
                     \/ /\ e.to = x.to /\ e.from < x.from
                        /\ tree' = CutBefore(tree, e, x) \cup {x} /\ pc' = "done" /\ UNCHANGED at
                     \/ /\ e.from < x.from /\ x.to < e.to
                        /\ tree' = Split(tree, e, x) /\ pc' = "done" /\ UNCHANGED at
                     \/ /\ e.from < x.from /\ e.to < x.to
                        /\ tree' = CutBefore(tree, e, x) /\ at' = After(tree, e) /\ pc' = "update"
                     \/ /\ e.to # x.to /\ x.from <= e.from
                        /\ at' = e /\ pc' = "update" /\ UNCHANGED tree
                  /\ UNCHANGED <<maps, refs, used, todo, ator, answer>> /\ UNCHANGED call
  BY DEF UpdateOver
<1>1. /\ BankKinds /\ CallKinds /\ SoundBank(found) /\ id \in MapIds /\ op = "Update" /\ at = NoSubMap
      /\ used = NoSubMap /\ Topmost(refs, id, prio)
      /\ x \in SubMap /\ x.from <= x.to /\ x.from \in Int /\ x.to \in Int /\ x.ref.id = id
      /\ Expected = [submaps |-> Lay(tree, AboveIn(tree, refs, id, prio), x), maprefs |-> refs,
                     lastUsed |-> used, drainMe |-> drain \/ e # NoSubMap]
      /\ e # NoSubMap => /\ e \in tree /\ e.from <= x.to /\ x.from <= e.to
                         /\ \A s \in tree : s.from < e.from => Apart(s, x)
  BY <1>0, UpdateFacts
<1>2. /\ Expected' = Expected /\ op' = op /\ id' = id /\ found' = found /\ old' = old /\ prio' = prio
  BY <1>0, SameExpected
<1>3. /\ e \in tree /\ e.from <= x.to /\ x.from <= e.to
      /\ \A s \in tree : s.from < e.from => Apart(s, x)
  BY <1>0, <1>1
<1>4. /\ Tidy(tree) /\ e \in SubMap /\ e.from \in Int /\ e.to \in Int /\ e.from <= e.to
      /\ \A s \in tree : s \in SubMap
  BY <1>1, <1>3, TreeNode DEF BankKinds, Tidy
<1>5. PICK A : A = AboveIn(tree, refs, id, prio)
  OBVIOUS
<1>6. e \notin A
  <2>1. refs \in Seq(MapRef)
    BY <1>1 DEF BankKinds
  <2> QED BY <1>0, <1>1, <1>3, <1>5, <2>1, OutranksAbove
<1>7. Expected' = [submaps |-> Lay(tree, A, x), maprefs |-> refs', lastUsed |-> used', drainMe |-> drain']
  BY <1>0, <1>1, <1>2, <1>5
<1>8. CallKinds'
  <2>1. at' \in SubMap \cup {NoSubMap}
    <3>1. After(tree, e) \in SubMap \cup {NoSubMap}
      BY <1>3, <1>4, AfterNode
    <3> QED BY <1>0, <1>1, <1>4, <3>1
  <2> QED BY <1>0, <1>1, <1>2, <2>1 DEF CallKinds
<1>9. /\ e.from < x.from /\ e.to <= x.to => CutBefore(tree, e, x) = CutTo(tree, e, x)
      /\ e.from < x.from /\ x.to < e.to => Split(tree, e, x) = CutTo(tree, e, x) \cup {x}
      /\ x.from <= e.from /\ e.to <= x.to => tree \ {e} = CutTo(tree, e, x)
  BY <1>1, <1>3, <1>4, CutShapes
<1>10. ASSUME tree' = CutTo(tree, e, x) \cup {x}, x.to <= e.to, pc' = "done"
       PROVE  IInv'
  BY <1>1, <1>2, <1>3, <1>5, <1>6, <1>7, <1>8, <1>10, UpdateCutDone
<1>11. CASE e.to = x.to /\ x.from <= e.from
  <2>1. tree' = Change(tree, e, x) /\ pc' = "done"
    BY <1>0, <1>1, <1>4, <1>11
  <2> QED BY <1>1, <1>4, <1>9, <1>10, <1>11, <2>1 DEF Change
<1>12. CASE e.to = x.to /\ e.from < x.from
  <2>1. tree' = CutBefore(tree, e, x) \cup {x} /\ pc' = "done"
    BY <1>0, <1>1, <1>4, <1>12
  <2> QED BY <1>1, <1>4, <1>9, <1>10, <1>12, <2>1
<1>13. CASE e.from < x.from /\ x.to < e.to
  <2>1. tree' = Split(tree, e, x) /\ pc' = "done"
    BY <1>0, <1>1, <1>4, <1>13
  <2> QED BY <1>1, <1>4, <1>9, <1>10, <1>13, <2>1
<1>14. CASE e.from < x.from /\ e.to < x.to
  <2>1. tree' = CutBefore(tree, e, x) /\ at' = After(tree, e) /\ pc' = "update"
    BY <1>0, <1>1, <1>4, <1>14
  <2>2. tree' = CutTo(tree, e, x) /\ e.to <= x.to
    BY <1>1, <1>4, <1>9, <1>14, <2>1
  <2>3. used' = NoSubMap /\ drain' \in BOOLEAN /\ sm' = x /\ UNCHANGED <<refs, id, prio>>
    BY <1>0, <1>1, <1>2
  <2> QED BY <1>1, <1>2, <1>3, <1>5, <1>6, <1>7, <1>8, <2>1, <2>2, <2>3, UpdateCutOn
<1>15. CASE e.to # x.to /\ x.from <= e.from
  <2>1. at' = e /\ pc' = "update" /\ UNCHANGED tree
    BY <1>0, <1>1, <1>4, <1>15
  <2>2. Submap(sm') /\ sm' = x /\ PassedApart'
    BY <1>0, <1>1, <1>3, <2>1 DEF Submap, PassedApart, Passed
  <2>3. AboveIn(tree', refs', id', prio') = A
    BY <1>0, <1>2, <1>5, <2>1
  <2>4. UpdateInv'
    BY <1>0, <1>1, <1>2, <1>7, <1>15, <2>1, <2>2, <2>3 DEF UpdateInv
  <2>5. BankKinds'
    BY <1>0, <1>1, <2>1 DEF BankKinds
  <2> QED BY <1>0, <1>1, <1>2, <1>3, <1>8, <2>1, <2>4, <2>5 DEF IInv, Walking
<1> QED BY <1>1, <1>4, <1>11, <1>12, <1>13, <1>14, <1>15

LEMMA UpdateUnderStep ==
  ASSUME IInv, UpdateUnder
  PROVE  IInv'
<1>0. PICK x, e : /\ x = SubMapOf(maps, refs[prio]) /\ e = Entry(tree, x)
                  /\ Withdrawn("Update") /\ e # NoSubMap /\ ~Outranks(refs, x, e)
                  /\ drain' = TRUE /\ tree' = GapFilled(tree, e, x)
                  /\ \/ x.to <= e.to /\ pc' = "done" /\ UNCHANGED <<at, sm>>
                     \/ /\ e.to < x.to
                        /\ sm' = SetFrom(x, e.to + 1) /\ pc' = "update"
                        /\ at' = IF e.from <= x.from THEN e ELSE After(tree, e)
                  /\ UNCHANGED <<maps, refs, used, todo, ator, answer>> /\ UNCHANGED call
  BY DEF UpdateUnder
<1>1. /\ BankKinds /\ CallKinds /\ SoundBank(found) /\ id \in MapIds /\ op = "Update" /\ at = NoSubMap
      /\ used = NoSubMap /\ Topmost(refs, id, prio)
      /\ x \in SubMap /\ x.from <= x.to /\ x.from \in Int /\ x.to \in Int /\ x.ref.id = id
      /\ Expected = [submaps |-> Lay(tree, AboveIn(tree, refs, id, prio), x), maprefs |-> refs,
                     lastUsed |-> used, drainMe |-> drain \/ e # NoSubMap]
      /\ e # NoSubMap => /\ e \in tree /\ e.from <= x.to /\ x.from <= e.to
                         /\ \A s \in tree : s.from < e.from => Apart(s, x)
  BY <1>0, UpdateFacts
<1>2. /\ Expected' = Expected /\ op' = op /\ id' = id /\ found' = found /\ old' = old /\ prio' = prio
  BY <1>0, SameExpected
<1>3. /\ e \in tree /\ e.from <= x.to /\ x.from <= e.to
      /\ \A s \in tree : s.from < e.from => Apart(s, x)
  BY <1>0, <1>1
<1>4. /\ Tidy(tree) /\ e \in SubMap /\ e.from \in Int /\ e.to \in Int /\ e.from <= e.to
      /\ \A s \in tree : s \in SubMap
  BY <1>1, <1>3, TreeNode DEF BankKinds, Tidy
<1>5. PICK A : A = AboveIn(tree, refs, id, prio)
  OBVIOUS
<1>6. e \in A /\ A \in SUBSET tree
  <2>1. refs \in Seq(MapRef)
    BY <1>1 DEF BankKinds
  <2>2. e \in A
    BY <1>0, <1>1, <1>3, <1>5, <2>1, OutranksAbove
  <2> QED BY <1>5, <2>2 DEF AboveIn
<1>7. Expected' = [submaps |-> Lay(tree, A, x), maprefs |-> refs', lastUsed |-> used', drainMe |-> drain']
  BY <1>0, <1>1, <1>2, <1>5
<1>8. CASE x.to <= e.to
  <2>1. pc' = "done" /\ UNCHANGED <<at, sm>> /\ tree' = GapFilled(tree, e, x)
    BY <1>0, <1>1, <1>4, <1>8
  <2>2. Lay(tree, A, x) = tree \cup Gap(e, x)
    BY <1>1, <1>3, <1>4, <1>6, <1>8, LayLast
  <2>3. GapFilled(tree, e, x) = tree \cup Gap(e, x)
    BY DEF GapFilled, Gap
  <2>4. Now' = Expected'
    BY <1>7, <2>1, <2>2, <2>3 DEF Now
  <2>5. CallKinds'
    BY <1>0, <1>1, <1>2, <2>1 DEF CallKinds
  <2> QED BY <1>1, <1>2, <2>1, <2>4, <2>5, InvDone
<1>9. CASE e.to < x.to
  <2>1. /\ sm' = SetFrom(x, e.to + 1) /\ pc' = "update" /\ tree' = GapFilled(tree, e, x)
        /\ at' = e \/ at' = After(tree, e)
    BY <1>0, <1>1, <1>4, <1>9
  <2>2. CallKinds'
    <3>1. at' \in SubMap \cup {NoSubMap}
      <4>1. After(tree, e) \in SubMap \cup {NoSubMap}
        BY <1>3, <1>4, AfterNode
      <4> QED BY <1>4, <2>1, <4>1
    <3>2. sm' \in SubMap
      <4>1. e.to + 1 \in Addr /\ x.from \in Addr /\ x.to \in Addr /\ x.ref \in MapRef
        BY <1>1, <1>4, <1>9, SetEnds DEF Addr
      <4>2. sm' = [from |-> e.to + 1, to |-> x.to, ref |-> x.ref]
        BY <1>1, <1>4, <1>9, <2>1, SetEnds
      <4> QED BY <4>1, <4>2 DEF SubMap
    <3> QED BY <1>0, <1>1, <1>2, <3>1, <3>2 DEF CallKinds
  <2>3. used' = NoSubMap /\ drain' \in BOOLEAN /\ UNCHANGED <<refs, id, prio>> /\ x.from <= e.to + 1
    BY <1>0, <1>1, <1>2, <1>3, <1>4
  <2> QED BY <1>1, <1>2, <1>3, <1>5, <1>6, <1>7, <1>9, <2>1, <2>2, <2>3, UpdatePass
<1> QED BY <1>1, <1>4, <1>8, <1>9

LEMMA UpdateNodeStep ==
  ASSUME IInv, UpdateNode
  PROVE  IInv'
<1>0. /\ BankKinds /\ CallKinds /\ UpdateInv /\ SoundBank(found) /\ id \in MapIds
      /\ pc = "update" /\ at \in tree /\ at # NoSubMap /\ at.to <= sm.to
      /\ UNCHANGED <<maps, refs, used, drain, todo, ator, answer>> /\ UNCHANGED call
      /\ \/ /\ Outranks(refs, sm, at)
            /\ tree' = tree \ {at} /\ at' = After(tree, at) /\ UNCHANGED <<sm, pc>>
         \/ /\ ~Outranks(refs, sm, at)
            /\ tree' = GapFilled(tree, at, sm)
            /\ \/ at.to = sm.to /\ pc' = "done" /\ UNCHANGED <<at, sm>>
               \/ /\ at.to # sm.to
                  /\ sm' = SetFrom(sm, at.to + 1) /\ at' = After(tree, at) /\ UNCHANGED pc
  BY DEF IInv, Walking, UpdateNode
<1>1. PICK A, x, e : A = AboveIn(tree, refs, id, prio) /\ x = sm /\ e = at
  OBVIOUS
<1>2. /\ Expected' = Expected /\ op' = op /\ id' = id /\ found' = found /\ old' = old /\ prio' = prio
  BY <1>0, SameExpected
<1>3. /\ op = "Update" /\ used = NoSubMap /\ Topmost(refs, id, prio)
      /\ x \in SubMap /\ x.from <= x.to /\ x.ref.id = id /\ x.from \in Int /\ x.to \in Int
      /\ \A s \in tree : s.from < e.from => Apart(s, x)
      /\ e.from >= x.from \/ (e.to + 1 = x.from /\ e \in A)
      /\ Expected = [submaps |-> Lay(tree, A, x), maprefs |-> refs, lastUsed |-> used, drainMe |-> drain]
  BY <1>0, <1>1, SetEnds DEF UpdateInv, Submap, PassedApart, Passed
<1>4. /\ Tidy(tree) /\ e \in tree /\ e \in SubMap /\ e.from \in Int /\ e.to \in Int /\ e.from <= e.to
      /\ e.to <= x.to /\ A \in SUBSET tree /\ \A s \in tree : s \in SubMap
  BY <1>0, <1>1, TreeNode DEF BankKinds, AboveIn, Tidy
<1>5. Outranks(refs, x, e) <=> e \notin A
  <2>1. refs \in Seq(MapRef)
    BY <1>0 DEF BankKinds
  <2> QED BY <1>1, <1>3, <1>4, <2>1, OutranksAbove
<1>6. Expected' = [submaps |-> Lay(tree, A, x), maprefs |-> refs', lastUsed |-> used', drainMe |-> drain']
  BY <1>0, <1>2, <1>3
<1>7. After(tree, e) \in SubMap \cup {NoSubMap}
  BY <1>4, AfterNode
<1>8. CASE e \notin A
  <2>1. tree' = tree \ {e} /\ at' = After(tree, e) /\ sm' = x /\ pc' = "update"
    BY <1>0, <1>1, <1>5, <1>8
  <2>2. tree' = CutTo(tree, e, x)
    <3>1. e.from <= x.to /\ x.from <= e.to /\ x.from <= e.from
      BY <1>3, <1>4, <1>8
    <3> QED BY <1>3, <1>4, <2>1, <3>1, CutShapes
  <2>3. CallKinds'
    BY <1>0, <1>2, <1>3, <1>7, <2>1 DEF CallKinds
  <2>4. /\ used' = NoSubMap /\ drain' \in BOOLEAN /\ UNCHANGED <<refs, id, prio>>
        /\ x.from <= e.to
    BY <1>0, <1>2, <1>3, <1>4, <1>8 DEF BankKinds
  <2> QED BY <1>0, <1>1, <1>2, <1>3, <1>4, <1>6, <1>8, <2>1, <2>2, <2>3, <2>4, UpdateCutOn
<1>9. CASE e \in A /\ e.to = x.to
  <2>1. tree' = GapFilled(tree, e, x) /\ pc' = "done" /\ UNCHANGED <<at, sm>>
    BY <1>0, <1>1, <1>5, <1>9
  <2>2. Lay(tree, A, x) = tree \cup Gap(e, x)
    <3>1. x.to <= e.to /\ e.from <= x.to
      BY <1>3, <1>4, <1>9
    <3>2. PICK S : S = tree
      OBVIOUS
    <3>3. Tidy(S) /\ A \in SUBSET S /\ e \in A /\ \A s \in S : s.from < e.from => Apart(s, x)
      BY <1>3, <1>4, <1>9, <3>2
    <3>4. x \in SubMap /\ x.from <= x.to
      BY <1>3
    <3>5. Lay(S, A, x) = S \cup Gap(e, x)
      BY <3>1, <3>3, <3>4, LayLast
    <3> QED BY <3>2, <3>5
  <2>3. GapFilled(tree, e, x) = tree \cup Gap(e, x)
    BY DEF GapFilled, Gap
  <2>4. Now' = Expected'
    BY <1>6, <2>1, <2>2, <2>3 DEF Now
  <2>5. CallKinds'
    BY <1>0, <1>2, <2>1 DEF CallKinds
  <2> QED BY <1>0, <1>2, <1>3, <2>1, <2>4, <2>5, InvDone
<1>10. CASE e \in A /\ e.to # x.to
  <2>1. /\ sm' = SetFrom(x, e.to + 1) /\ pc' = "update" /\ tree' = GapFilled(tree, e, x)
        /\ at' = After(tree, e)
    BY <1>0, <1>1, <1>5, <1>10
  <2>2. e.to < x.to /\ x.from <= e.to + 1
    BY <1>3, <1>4, <1>10
  <2>3. CallKinds'
    <3>1. sm' \in SubMap
      <4>1. e.to + 1 \in Addr /\ x.from \in Addr /\ x.to \in Addr /\ x.ref \in MapRef
        BY <1>3, <1>4, <2>2, SetEnds DEF Addr
      <4>2. sm' = [from |-> e.to + 1, to |-> x.to, ref |-> x.ref]
        BY <1>3, <1>4, <2>1, <2>2, SetEnds
      <4> QED BY <4>1, <4>2 DEF SubMap
    <3> QED BY <1>0, <1>2, <1>7, <2>1, <3>1 DEF CallKinds
  <2>4. used' = NoSubMap /\ drain' \in BOOLEAN /\ UNCHANGED <<refs, id, prio>>
    BY <1>0, <1>2, <1>3 DEF BankKinds
  <2> QED BY <1>0, <1>1, <1>2, <1>3, <1>4, <1>6, <1>10, <2>1, <2>2, <2>3, <2>4, UpdatePass
<1> QED BY <1>8, <1>9, <1>10

LEMMA UpdateEndStep ==
  ASSUME IInv, UpdateEnd
  PROVE  IInv'
<1>0. /\ BankKinds /\ CallKinds /\ UpdateInv /\ SoundBank(found) /\ id \in MapIds
      /\ at \in tree \cup {NoSubMap} /\ (at # NoSubMap => at.to > sm.to) /\ pc' = "done"
      /\ UNCHANGED <<maps, refs, used, drain>> /\ UNCHANGED walk
      /\ \/ at = NoSubMap /\ tree' = tree \cup {sm}
         \/ at # NoSubMap /\ Outranks(refs, sm, at) /\ tree' = CutBehind(tree, at, sm) \cup {sm}
         \/ /\ at # NoSubMap /\ ~Outranks(refs, sm, at)
            /\ tree' = IF sm.from >= at.from THEN tree
                       ELSE tree \cup {IF at.from <= sm.to THEN SetTo(sm, at.from - 1) ELSE sm}
  BY DEF IInv, Walking, UpdateEnd
<1>1. PICK A, x, e : A = AboveIn(tree, refs, id, prio) /\ x = sm /\ e = at
  OBVIOUS
<1>2. /\ Expected' = Expected /\ op' = op /\ id' = id /\ found' = found
  BY <1>0, SameExpected DEF walk
<1>3. /\ op = "Update" /\ used = NoSubMap /\ Topmost(refs, id, prio)
      /\ x \in SubMap /\ x.from <= x.to /\ x.ref.id = id /\ x.from \in Int /\ x.to \in Int
      /\ \A s \in tree : e = NoSubMap \/ s.from < e.from => Apart(s, x)
      /\ e # NoSubMap => e.from >= x.from \/ (e.to + 1 = x.from /\ e \in A)
      /\ Expected = [submaps |-> Lay(tree, A, x), maprefs |-> refs, lastUsed |-> used, drainMe |-> drain]
  BY <1>0, <1>1, SetEnds DEF UpdateInv, Submap, PassedApart, Passed
<1>4. Tidy(tree) /\ A \in SUBSET tree
  BY <1>0, <1>1 DEF BankKinds, AboveIn
<1>5. Expected' = [submaps |-> Lay(tree, A, x), maprefs |-> refs', lastUsed |-> used', drainMe |-> drain']
  BY <1>0, <1>2, <1>3
<1>6. CallKinds'
  BY <1>0 DEF CallKinds, walk, call
<1>7. ASSUME tree' = Lay(tree, A, x) PROVE IInv'
  <2>1. Now' = Expected'
    BY <1>5, <1>7 DEF Now
  <2> QED BY <1>0, <1>2, <1>3, <1>6, <2>1, InvDone
<1>8. ASSUME \A s \in tree : Apart(s, x), tree' = tree \cup {x} PROVE IInv'
  <2>1. Lay(tree, A, x) = tree \cup {x}
    BY <1>3, <1>4, <1>8, LayDone
  <2> QED BY <1>7, <1>8, <2>1
<1>9. CASE e = NoSubMap
  BY <1>0, <1>1, <1>3, <1>8, <1>9
<1>10. CASE e # NoSubMap
  <2>1. /\ e \in tree /\ e.to > x.to /\ e \in SubMap /\ e.from \in Int /\ e.to \in Int /\ e.from <= e.to
        /\ \A s \in tree : s.from < e.from => Apart(s, x)
        /\ \A s \in tree : s \in SubMap /\ s.from \in Int /\ s.to \in Int /\ s.from <= s.to
    BY <1>0, <1>1, <1>3, <1>10, TreeNode
  <2>2. e.from >= x.from
    BY <1>3, <1>10, <2>1
  <2>3. Outranks(refs, x, e) <=> e \notin A
    <3>1. refs \in Seq(MapRef)
      BY <1>0 DEF BankKinds
    <3> QED BY <1>1, <1>3, <2>1, <3>1, OutranksAbove
  <2>4. ASSUME e.from > x.to, NEW s \in tree PROVE Apart(s, x)
    <3>1. CASE s.from < e.from
      BY <2>1, <3>1
    <3>2. CASE ~ (s.from < e.from)
      <4>1. x.to < s.from
        BY <1>3, <2>1, <2>4, <3>2
      <4> QED BY <1>3, <2>1, <4>1, OverlapEnds
    <3> QED BY <3>1, <3>2
  <2>5. CASE e \notin A
    <3>1. tree' = CutBehind(tree, e, x) \cup {x}
      BY <1>0, <1>1, <1>10, <2>3, <2>5
    <3>2. CASE e.from <= x.to
      <4>1. x.from <= e.to /\ x.to <= e.to
        BY <1>3, <2>1, <2>2, <3>2
      <4>2. PICK T : T = CutTo(tree, e, x)
        OBVIOUS
      <4>3. CutBehind(tree, e, x) = CutTo(tree, e, x)
        BY <1>3, <1>4, <2>1, <2>2, <3>2, <4>1, CutShapes
      <4>4. \A s \in CutTo(tree, e, x) : Apart(s, x)
        BY <1>3, <1>4, <2>1, <3>2, <4>1, CutApart
      <4>5. Tidy(T) /\ A \in SUBSET T /\ Lay(T, A, x) = Lay(tree, A, x)
        BY <1>4, <2>1, <2>5, <4>2, LayCut
      <4>6. Lay(T, A, x) = T \cup {x}
        BY <1>3, <4>2, <4>4, <4>5, LayDone
      <4> QED BY <1>7, <3>1, <4>2, <4>3, <4>5, <4>6
    <3>3. CASE e.from > x.to
      <4>1. CutBehind(tree, e, x) = tree
        BY <1>3, <2>1, <3>3 DEF CutBehind
      <4> QED BY <1>8, <2>4, <3>1, <3>3, <4>1
    <3> QED BY <1>3, <2>1, <3>2, <3>3
  <2>6. CASE e \in A
    <3>1. tree' = IF x.from >= e.from THEN tree
                  ELSE tree \cup {IF e.from <= x.to THEN SetTo(x, e.from - 1) ELSE x}
      BY <1>0, <1>1, <1>10, <2>3, <2>6
    <3>2. CASE e.from <= x.to
      <4>1. Lay(tree, A, x) = tree \cup Gap(e, x)
        <5>1. x.to <= e.to
          BY <1>3, <2>1
        <5> QED BY <1>3, <1>4, <2>1, <2>6, <3>2, <5>1, LayLast
      <4>2. tree' = tree \cup Gap(e, x)
        <5>1. CASE x.from >= e.from
          <6>1. ~ (x.from < e.from)
            BY <1>3, <2>1, <5>1
          <6> QED BY <3>1, <5>1, <6>1 DEF Gap
        <5>2. CASE x.from < e.from
          <6>1. ~ (x.from >= e.from)
            BY <1>3, <2>1, <5>2
          <6> QED BY <3>1, <3>2, <5>2, <6>1 DEF Gap
        <5> QED BY <1>3, <2>1, <5>1, <5>2
      <4> QED BY <1>7, <4>1, <4>2
    <3>3. CASE e.from > x.to
      <4>1. ~ (x.from >= e.from) /\ ~ (e.from <= x.to)
        BY <1>3, <2>1, <3>3
      <4>2. tree' = tree \cup {x}
        BY <3>1, <4>1
      <4> QED BY <1>8, <2>4, <3>3, <4>2
    <3> QED BY <1>3, <2>1, <3>2, <3>3
  <2> QED BY <2>5, <2>6
<1> QED BY <1>9, <1>10

-----------------------------------------------------------------------------
(* Merging neighbours.                                                      *)

\* The chain from x to y is a longest one.
Ends(S, x, y) == /\ Chained(S, x, y)
                 /\ \A u \in S : (Chained(S, u, x) => u = x) /\ (Chained(S, y, u) => u = y)

LEMMA MergedChains ==
  ASSUME NEW S
  PROVE  /\ \A x, y \in S : Ends(S, x, y) => [from |-> x.from, to |-> y.to, ref |-> x.ref] \in Merged(S)
         /\ \A r \in Merged(S) : \E x, y \in S :
              Ends(S, x, y) /\ r = [from |-> x.from, to |-> y.to, ref |-> x.ref]
<1>1. ASSUME NEW x \in S, NEW y \in S, Ends(S, x, y)
      PROVE  [from |-> x.from, to |-> y.to, ref |-> x.ref] \in Merged(S)
  <2>1. PICK c \in S \X S : c = <<x, y>>
    OBVIOUS
  <2>2. c[1] = x /\ c[2] = y
    BY <2>1
  <2>3. Longest(S, c)
    BY <1>1, <2>2 DEF Ends, Longest
  <2> QED BY <2>2, <2>3 DEF Merged
<1>2. ASSUME NEW r \in Merged(S)
      PROVE  \E x, y \in S : Ends(S, x, y) /\ r = [from |-> x.from, to |-> y.to, ref |-> x.ref]
  <2>1. PICK c \in S \X S : Longest(S, c) /\ r = [from |-> c[1].from, to |-> c[2].to, ref |-> c[1].ref]
    BY DEF Merged
  <2>2. c[1] \in S /\ c[2] \in S /\ Ends(S, c[1], c[2])
    BY <2>1 DEF Longest, Ends
  <2> QED BY <2>1, <2>2
<1> QED BY <1>1, <1>2

\* A node is a chain of its own.
LEMMA ChainOne ==
  ASSUME NEW S, Tidy(S), NEW s \in S
  PROVE  Chained(S, s, s)
<1>1. \A u \in S : u.from \in Nat /\ (u.from = s.from => u = s)
  BY NodeNumbers
<1> QED BY <1>1 DEF Chained

\* What is merged when no two nodes are chained.
LEMMA MergedAlone ==
  ASSUME NEW S, Tidy(S), \A s, t \in S : Chained(S, s, t) => s = t
  PROVE  Merged(S) = S
<1>1. \A s \in S : s = [from |-> s.from, to |-> s.to, ref |-> s.ref]
  BY SetEnds DEF Tidy
<1>2. ASSUME NEW r \in Merged(S) PROVE r \in S
  <2>1. PICK x, y \in S : Ends(S, x, y) /\ r = [from |-> x.from, to |-> y.to, ref |-> x.ref]
    BY MergedChains
  <2>2. x = y
    BY <2>1 DEF Ends
  <2> QED BY <1>1, <2>1, <2>2
<1>3. ASSUME NEW s \in S PROVE s \in Merged(S)
  <2>1. Ends(S, s, s)
    BY ChainOne DEF Ends
  <2>2. [from |-> s.from, to |-> s.to, ref |-> s.ref] \in Merged(S)
    BY <2>1, MergedChains
  <2> QED BY <1>1, <2>2
<1> QED BY <1>2, <1>3

\* The nodes a and n merged to m.
Joined(S, a, n, m) == (S \ {a, n}) \cup {m}
Front(a, m, p) == IF p = m THEN a ELSE p
Back(n, m, p) == IF p = m THEN n ELSE p

Neighbours(S, a, n, m) ==
  /\ Tidy(S) /\ a \in S /\ n \in S /\ a.from < n.from /\ a.ref = n.ref
  /\ \A s \in S : s.from < n.from => s.from <= a.from
  /\ m = [from |-> a.from, to |-> n.to, ref |-> a.ref]

\* Their numbers.
LEMMA JoinedNodes ==
  ASSUME NEW S, NEW a, NEW n, NEW m, Neighbours(S, a, n, m)
  PROVE  /\ \A s \in S : s.from \in Nat /\ s.to \in Nat /\ s.from <= s.to
         /\ \A s, t \in S : s.from = t.from => s = t
         /\ m.from = a.from /\ m.to = n.to /\ m.ref = a.ref /\ m.ref = n.ref
         /\ m \notin S \ {a, n} /\ a \in S /\ n \in S /\ a # n
         /\ Tidy(Joined(S, a, n, m))
<1>1. /\ \A s \in S : s.from \in Nat /\ s.to \in Nat /\ s.from <= s.to /\ s \in SubMap
      /\ \A s, t \in S : s.from = t.from => s = t
      /\ \A s, t \in S : s.from < t.from => s.to < t.from
  BY NodeNumbers DEF Neighbours, Tidy
<1>2. m.from = a.from /\ m.to = n.to /\ m.ref = a.ref /\ m.ref = n.ref
  BY DEF Neighbours
<1>3. a \in S /\ n \in S /\ a # n /\ a.from < n.from /\ \A s \in S : s.from < n.from => s.from <= a.from
  BY <1>1 DEF Neighbours
<1>4. m \notin S \ {a, n}
  BY <1>1, <1>2, <1>3
<1>5. m \in SubMap /\ m.from <= m.to
  <2>1. a \in SubMap /\ n \in SubMap
    BY <1>1, <1>3
  <2>2. m \in SubMap
    BY <2>1 DEF Neighbours, SubMap
  <2> QED BY <1>1, <1>2, <1>3, <2>2
<1>6. ASSUME NEW s \in S \ {a, n} PROVE Apart(s, m)
  <2>1. s.to < a.from \/ n.to < s.from
    <3>1. s.from < a.from \/ s.from > n.from
      <4>1. s.from # a.from /\ s.from # n.from
        BY <1>1, <1>3
      <4> QED BY <1>1, <1>3, <4>1
    <3> QED BY <1>1, <1>3, <3>1
  <2>2. /\ s.from \in Int /\ s.to \in Int /\ m.from \in Int /\ m.to \in Int
        /\ s.to < m.from \/ m.to < s.from
    BY <1>1, <1>2, <1>3, <2>1
  <2> QED BY <2>2 DEF Apart, Span
<1>7. Tidy(S \ {a, n})
  BY TidySubset DEF Neighbours
<1>8. Tidy(Joined(S, a, n, m))
  <2>1. PICK R : R = S \ {a, n}
    OBVIOUS
  <2>2. Tidy(R) /\ \A s \in R : Apart(s, m)
    BY <1>6, <1>7, <2>1
  <2>3. Tidy(R \cup {m})
    BY <1>5, <2>2, TidyAdd
  <2> QED BY <2>1, <2>3 DEF Joined
<1> QED BY <1>1, <1>2, <1>3, <1>4, <1>8

\* The chains are the same, from the first of the two or to the second.
LEMMA JoinedChain ==
  ASSUME NEW S, NEW a, NEW n, NEW m, Neighbours(S, a, n, m),
         NEW p \in Joined(S, a, n, m), NEW q \in Joined(S, a, n, m)
  PROVE  Chained(Joined(S, a, n, m), p, q) <=> Chained(S, Front(a, m, p), Back(n, m, q))
<1> DEFINE T == Joined(S, a, n, m)
           b == Front(a, m, p)
           d == Back(n, m, q)
<1>1. /\ \A s \in S : s.from \in Nat
      /\ \A s, t \in S : s.from = t.from => s = t
      /\ m.from = a.from /\ m.ref = a.ref /\ m.ref = n.ref
      /\ a \in S /\ n \in S /\ a.from < n.from
      /\ \A s \in S : s.from < n.from => s.from <= a.from
  BY JoinedNodes DEF Neighbours
<1>2. \A u \in T : u = m \/ (u \in S /\ u # a /\ u # n)
  BY DEF Joined
<1>3. \A u \in S : u = a \/ u = n \/ u \in T
  BY DEF Joined
<1>4. m \in T
  BY DEF Joined
<1>5. p \in T /\ q \in T
  OBVIOUS
<1> HIDE DEF T
<1>6. \A u \in T : u.from \in Nat /\ (u.from <= n.from <=> u.from <= a.from)
  <2>1. ASSUME NEW u \in T PROVE u.from \in Nat /\ (u.from <= n.from <=> u.from <= a.from)
    <3>1. CASE u = m
      BY <1>1, <3>1
    <3>2. CASE u \in S /\ u # n
      <4>1. u.from # n.from
        BY <1>1, <3>2
      <4> QED BY <1>1, <3>2, <4>1
    <3> QED BY <1>2, <3>1, <3>2
  <2> QED BY <2>1
<1>7. b.from = p.from /\ b.ref = p.ref /\ b \in S /\ d \in S /\ d.ref = q.ref /\ d.from \in Nat
  BY <1>1, <1>2, <1>5 DEF Front, Back
<1>8. /\ \A u \in T : u.from <= q.from <=> u.from <= d.from
      /\ a.from <= q.from <=> a.from <= d.from
      /\ n.from <= d.from => a.from <= d.from
  <2>1. CASE q = m
    BY <1>1, <1>6, <2>1 DEF Back
  <2>2. CASE q # m
    BY <1>1, <1>2, <1>5, <2>2 DEF Back
  <2> QED BY <2>1, <2>2
<1>9. p.from <= n.from => p.from <= a.from
  BY <1>5, <1>6
<1> HIDE DEF b, d
<1>10. ASSUME Chained(T, p, q) PROVE Chained(S, b, d)
  <2>1. p.from <= q.from /\ p.from <= d.from
    BY <1>5, <1>8, <1>10 DEF Chained
  <2>2. ASSUME NEW u \in S, b.from <= u.from, u.from <= d.from PROVE u.ref = b.ref /\ u.ref = d.ref
    <3>1. CASE u \in T
      BY <1>7, <1>8, <1>10, <2>2, <3>1 DEF Chained
    <3>2. CASE u = a \/ u = n
      <4>1. p.from <= m.from /\ m.from <= q.from
        BY <1>1, <1>7, <1>8, <1>9, <2>2, <3>2
      <4>2. m.ref = p.ref /\ m.ref = q.ref
        BY <1>4, <1>10, <4>1 DEF Chained
      <4> QED BY <1>1, <1>7, <3>2, <4>2
    <3> QED BY <1>3, <3>1, <3>2
  <2> QED BY <1>7, <2>1, <2>2 DEF Chained
<1>11. ASSUME Chained(S, b, d) PROVE Chained(T, p, q)
  <2>1. p.from <= d.from /\ p.from <= q.from
    BY <1>5, <1>7, <1>8, <1>11 DEF Chained
  <2>2. ASSUME NEW u \in T, p.from <= u.from, u.from <= q.from PROVE u.ref = p.ref /\ u.ref = q.ref
    <3>1. b.from <= u.from /\ u.from <= d.from
      BY <1>7, <1>8, <2>2
    <3>2. CASE u = m
      <4>1. b.from <= a.from /\ a.from <= d.from
        BY <1>1, <3>1, <3>2
      <4>2. a.ref = b.ref /\ a.ref = d.ref
        BY <1>1, <1>11, <4>1 DEF Chained
      <4> QED BY <1>1, <1>7, <3>2, <4>2
    <3>3. CASE u \in S
      BY <1>7, <1>11, <3>1, <3>3 DEF Chained
    <3> QED BY <1>2, <3>2, <3>3
  <2> QED BY <2>1, <2>2 DEF Chained
<1> QED BY <1>10, <1>11 DEF T, b, d

\* So are the ends of the longest chains, and what they are merged to.
LEMMA JoinedEnds ==
  ASSUME NEW S, NEW a, NEW n, NEW m, Neighbours(S, a, n, m), Chained(S, a, n),
         NEW p \in Joined(S, a, n, m), NEW q \in Joined(S, a, n, m)
  PROVE  Ends(Joined(S, a, n, m), p, q) <=> Ends(S, Front(a, m, p), Back(n, m, q))
<1> DEFINE T == Joined(S, a, n, m)
           f(u) == Front(a, m, u)
           g(u) == Back(n, m, u)
           h(u) == IF u = a \/ u = n THEN m ELSE u
<1>0. /\ Tidy(S) /\ a \in S /\ n \in S /\ a.from < n.from /\ a # n
      /\ \A s \in S : s.from \in Nat
      /\ \A s, t \in S : s.from = t.from => s = t
      /\ \A s \in S : s.from < n.from => s.from <= a.from
      /\ m \notin S \ {a, n}
  BY JoinedNodes DEF Neighbours
<1>1. /\ \A u \in T : f(u) \in S /\ g(u) \in S /\ f(u) # n /\ g(u) # a
      /\ \A u \in S : h(u) \in T
      /\ \A u \in S : (u # n => f(h(u)) = u) /\ (u # a => g(h(u)) = u)
      /\ \A u, v \in T : (f(u) = f(v) => u = v) /\ (g(u) = g(v) => u = v)
      /\ f(h(n)) = a /\ g(h(a)) = n
      /\ \A u \in T : f(u) = g(u) \/ (f(u) = a /\ g(u) = n)
  BY <1>0 DEF Joined, Front, Back
<1>2. \A u, v \in T : Chained(T, u, v) <=> Chained(S, f(u), g(v))
  BY JoinedChain
<1>3. p \in T /\ q \in T
  OBVIOUS
<1>4. ~Chained(S, n, a)
  BY <1>0 DEF Chained
<1> HIDE DEF T, f, g, h
<1>5. \A u \in T : Chained(S, f(u), g(u))
  BY <1>0, <1>1, ChainOne
<1>6. ASSUME NEW u \in S, NEW v \in S, NEW w \in S, Chained(S, u, v), Chained(S, v, w)
      PROVE  Chained(S, u, w)
  BY <1>0, <1>6, ChainJoin
<1>7. ASSUME Ends(T, p, q) PROVE Ends(S, f(p), g(q))
  <2>1. Chained(S, f(p), g(q))
    BY <1>2, <1>3, <1>7 DEF Ends
  <2>2. ASSUME NEW u \in S, Chained(S, u, f(p)) PROVE u = f(p)
    <3>1. Chained(S, f(h(u)), u)
      <4>1. CASE u = n
        BY <1>1, <4>1
      <4>2. CASE u # n
        BY <1>0, <1>1, <4>2, ChainOne
      <4> QED BY <4>1, <4>2
    <3>2. Chained(S, f(h(u)), g(p))
      <4>1. f(h(u)) \in S /\ f(p) \in S /\ g(p) \in S
        BY <1>1, <1>3
      <4>2. Chained(S, f(h(u)), f(p))
        BY <1>6, <2>2, <3>1, <4>1
      <4> QED BY <1>3, <1>5, <1>6, <4>1, <4>2
    <3>3. h(u) = p
      BY <1>1, <1>2, <1>3, <1>7, <3>2 DEF Ends
    <3>4. u = n => f(p) = a
      BY <1>1, <3>3
    <3> QED BY <1>1, <1>4, <2>2, <3>3, <3>4
  <2>3. ASSUME NEW u \in S, Chained(S, g(q), u) PROVE u = g(q)
    <3>1. Chained(S, u, g(h(u)))
      <4>1. CASE u = a
        BY <1>1, <4>1
      <4>2. CASE u # a
        BY <1>0, <1>1, <4>2, ChainOne
      <4> QED BY <4>1, <4>2
    <3>2. Chained(S, f(q), g(h(u)))
      <4>1. g(h(u)) \in S /\ f(q) \in S /\ g(q) \in S
        BY <1>1, <1>3
      <4>2. Chained(S, g(q), g(h(u)))
        BY <1>6, <2>3, <3>1, <4>1
      <4> QED BY <1>3, <1>5, <1>6, <4>1, <4>2
    <3>3. h(u) = q
      BY <1>1, <1>2, <1>3, <1>7, <3>2 DEF Ends
    <3>4. u = a => g(q) = n
      BY <1>1, <3>3
    <3> QED BY <1>1, <1>4, <2>3, <3>3, <3>4
  <2> QED BY <2>1, <2>2, <2>3 DEF Ends
<1>8. ASSUME Ends(S, f(p), g(q)) PROVE Ends(T, p, q)
  <2>1. Chained(T, p, q)
    BY <1>2, <1>3, <1>8 DEF Ends
  <2>2. ASSUME NEW u \in T, Chained(T, u, p) PROVE u = p
    <3>1. Chained(S, f(u), g(p)) /\ f(u) \in S /\ g(p) \in S /\ f(p) \in S
      BY <1>1, <1>2, <1>3, <2>2
    <3>2. CASE f(p) = g(p)
      BY <1>1, <1>3, <1>8, <3>1, <3>2 DEF Ends
    <3>3. CASE f(p) = a /\ g(p) = n
      <4>1. f(u) # n
        BY <1>1
      <4>2. Chained(S, f(u), a)
        <5>1. f(u).from <= a.from
          <6>1. f(u).from <= n.from /\ f(u).from # n.from
            BY <1>0, <3>1, <3>3, <4>1 DEF Chained
          <6> QED BY <1>0, <3>1, <6>1
        <5> QED BY <1>0, <3>1, <3>3, <5>1 DEF Chained, Neighbours
      <4> QED BY <1>1, <1>3, <1>8, <3>1, <3>3, <4>2 DEF Ends
    <3> QED BY <1>1, <1>3, <3>2, <3>3
  <2>3. ASSUME NEW u \in T, Chained(T, q, u) PROVE u = q
    <3>1. Chained(S, f(q), g(u)) /\ g(u) \in S /\ g(q) \in S /\ f(q) \in S
      BY <1>1, <1>2, <1>3, <2>3
    <3>2. CASE f(q) = g(q)
      BY <1>1, <1>3, <1>8, <3>1, <3>2 DEF Ends
    <3>3. CASE f(q) = a /\ g(q) = n
      <4>1. g(u) # a
        BY <1>1
      <4>2. Chained(S, n, g(u))
        <5>1. n.from <= g(u).from
          <6>1. a.from <= g(u).from /\ g(u).from # a.from
            BY <1>0, <3>1, <3>3, <4>1 DEF Chained
          <6> QED BY <1>0, <3>1, <6>1
        <5> QED BY <1>0, <3>1, <3>3, <5>1 DEF Chained, Neighbours
      <4> QED BY <1>1, <1>3, <1>8, <3>1, <3>3, <4>2 DEF Ends
    <3> QED BY <1>1, <1>3, <3>2, <3>3
  <2> QED BY <2>1, <2>2, <2>3 DEF Ends
<1> QED BY <1>7, <1>8 DEF T, f, g

LEMMA JoinedMerged ==
  ASSUME NEW S, NEW a, NEW n, NEW m, Neighbours(S, a, n, m), Chained(S, a, n)
  PROVE  Merged(Joined(S, a, n, m)) = Merged(S)
<1> DEFINE T == Joined(S, a, n, m)
           f(u) == Front(a, m, u)
           g(u) == Back(n, m, u)
           h(u) == IF u = a \/ u = n THEN m ELSE u
           M(x, y) == [from |-> x.from, to |-> y.to, ref |-> x.ref]
<1>0. /\ a \in S /\ n \in S /\ a # n
      /\ m.from = a.from /\ m.to = n.to /\ m.ref = a.ref /\ m \notin S \ {a, n}
  BY JoinedNodes
<1>1. /\ \A u \in T : f(u) \in S /\ g(u) \in S
      /\ \A u \in S : h(u) \in T
      /\ \A u \in S : (u # n => f(h(u)) = u) /\ (u # a => g(h(u)) = u)
      /\ \A u \in T : f(u).from = u.from /\ f(u).ref = u.ref /\ g(u).to = u.to
  BY <1>0 DEF Joined, Front, Back
<1>2. \A u, v \in T : Ends(T, u, v) <=> Ends(S, f(u), g(v))
  BY JoinedEnds
<1>3. \A u, v \in T : M(f(u), g(v)) = M(u, v)
  BY <1>1
<1> HIDE DEF T, f, g, h
<1>4. /\ \A x, y \in S : Ends(S, x, y) => M(x, y) \in Merged(S)
      /\ \A r \in Merged(S) : \E x, y \in S : Ends(S, x, y) /\ r = M(x, y)
      /\ \A x, y \in T : Ends(T, x, y) => M(x, y) \in Merged(T)
      /\ \A r \in Merged(T) : \E x, y \in T : Ends(T, x, y) /\ r = M(x, y)
  BY MergedChains
<1> HIDE DEF M
<1>5. ASSUME NEW r \in Merged(T) PROVE r \in Merged(S)
  <2>1. PICK u, v \in T : Ends(T, u, v) /\ r = M(u, v)
    BY <1>4
  <2>2. Ends(S, f(u), g(v)) /\ f(u) \in S /\ g(v) \in S /\ M(f(u), g(v)) = r
    BY <1>1, <1>2, <1>3, <2>1
  <2> QED BY <1>4, <2>2
<1>6. ASSUME NEW r \in Merged(S) PROVE r \in Merged(T)
  <2>1. PICK x, y \in S : Ends(S, x, y) /\ r = M(x, y)
    BY <1>4
  <2>2. x # n /\ y # a
    BY <1>0, <2>1 DEF Ends
  <2>3. h(x) \in T /\ h(y) \in T /\ f(h(x)) = x /\ g(h(y)) = y
    BY <1>1, <2>2
  <2>4. Ends(T, h(x), h(y)) /\ M(h(x), h(y)) = r
    BY <1>2, <1>3, <2>1, <2>3
  <2> QED BY <1>4, <2>3, <2>4
<1> QED BY <1>5, <1>6 DEF T

LEMMA CallDrainStep ==
  ASSUME IInv, CallDrain
  PROVE  IInv'
<1>0. /\ pc = "idle" /\ BankKinds /\ CallKinds /\ SoundBank(Now) /\ op' = "Drain" /\ id' = NoMap
      /\ found' = Now /\ UNCHANGED <<maps, tree, refs, drain, old, sm, todo, prio, ator, ask, answer>>
      /\ \/ ~drain /\ pc' = "done" /\ UNCHANGED <<used, at>>
         \/ drain /\ used' = NoSubMap /\ at' = First(tree) /\ pc' = "drain"
  BY DEF IInv, CallDrain, Begin
<1>1. Expected' = Drain(Now)
  BY <1>0 DEF Expected, Outcome
<1>2. Now.submaps = tree /\ Now.maprefs = refs /\ Now.lastUsed = used /\ Now.drainMe = drain
  BY DEF Now
<1>3. Tidy(tree) /\ drain \in BOOLEAN
  BY <1>0 DEF BankKinds
<1>4. /\ First(tree) = NoSubMap <=> tree = {}
      /\ First(tree) # NoSubMap => First(tree) \in tree /\ \A t \in tree : First(tree).from <= t.from
  BY <1>3, FirstNode
<1>5. CASE ~drain
  <2>1. pc' = "done" /\ UNCHANGED <<used, at>>
    BY <1>0, <1>5
  <2>2. Expected' = found' /\ UNCHANGED bank
    BY <1>0, <1>1, <1>2, <1>5, <2>1 DEF Drain, bank
  <2>3. CallKinds'
    BY <1>0, <2>1 DEF CallKinds
  <2> QED BY <1>0, <2>1, <2>2, <2>3, InvNothing
<1>6. CASE drain
  <2>1. used' = NoSubMap /\ at' = First(tree) /\ pc' = "drain"
    BY <1>0, <1>6
  <2>2. at' \in tree' \cup {NoSubMap} /\ at' \in SubMap \cup {NoSubMap}
    BY <1>0, <1>3, <1>4, <2>1 DEF Tidy
  <2>3. CallKinds' /\ BankKinds'
    BY <1>0, <2>1, <2>2 DEF CallKinds, BankKinds
  <2>4. Drain(Now) = [submaps |-> Merged(tree), maprefs |-> refs, lastUsed |-> NoSubMap, drainMe |-> FALSE]
    BY <1>2, <1>6 DEF Drain, Merged, Longest, Now
  <2>5. ASSUME NEW s \in tree', at' = NoSubMap \/ s.from < at'.from PROVE FALSE
    <3>1. s.from \in Nat /\ \A t \in tree : t.from \in Nat
      BY <1>0, <1>3, <2>5, NodeNumbers
    <3> QED BY <1>0, <1>4, <2>1, <2>5, <3>1
  <2>6. DrainInv'
    BY <1>0, <1>1, <2>1, <2>4, <2>5 DEF DrainInv, Passed
  <2> QED BY <1>0, <2>1, <2>2, <2>3, <2>6 DEF IInv, Walking
<1> QED BY <1>3, <1>5, <1>6

LEMMA DrainNodeStep ==
  ASSUME IInv, DrainNode
  PROVE  IInv'
<1>0. PICK S, e, n :
         /\ S = tree /\ e = at /\ n = After(tree, at)
         /\ pc = "drain" /\ e \in S /\ e # NoSubMap
         /\ \/ n # NoSubMap /\ e.ref = n.ref /\ at' = SetTo(e, n.to) /\ tree' = (S \ {e, n}) \cup {at'}
            \/ ~(n # NoSubMap /\ e.ref = n.ref) /\ at' = n /\ tree' = S
         /\ UNCHANGED <<maps, refs, used, drain, pc, sm, todo, ator, answer>> /\ UNCHANGED call
         /\ BankKinds /\ CallKinds /\ DrainInv /\ SoundBank(found)
  BY DEF IInv, DrainNode
<1>1. /\ Expected' = Expected /\ op' = op /\ id' = id /\ found' = found /\ old' = old /\ prio' = prio
  BY <1>0, SameExpected
<1>2. /\ op = "Drain" /\ used = NoSubMap
      /\ \A s, t \in S : s.from < e.from /\ Chained(S, s, t) => s = t
      /\ Expected = [submaps |-> Merged(S), maprefs |-> refs, lastUsed |-> used, drainMe |-> FALSE]
  BY <1>0 DEF DrainInv, Passed
<1>3. /\ Tidy(S) /\ refs \in Seq(MapRef) /\ used \in SubMap \cup {NoSubMap} /\ drain \in BOOLEAN
      /\ \A s \in S : s.from \in Nat /\ s.to \in Nat /\ s.from <= s.to /\ s \in SubMap
      /\ \A s, t \in S : s.from = t.from => s = t
  BY <1>0, NodeNumbers DEF BankKinds, Tidy
<1>4. /\ n = NoSubMap => \A s \in S : s # e => s.to < e.from
      /\ n # NoSubMap => /\ n \in S /\ e.to < n.from /\ n # e
                         /\ \A s \in S : s.from < n.from => s = e \/ s.to < e.from
  BY <1>0, <1>3, AfterNode
<1>5. ASSUME tree' \in SUBSET SubMap, Tidy(tree'), at' \in tree' \cup {NoSubMap}, Merged(tree') = Merged(S),
             \A s, t \in tree' : (at' = NoSubMap \/ s.from < at'.from) /\ Chained(tree', s, t) => s = t
      PROVE  IInv'
  <2>1. BankKinds'
    BY <1>0, <1>3, <1>5 DEF BankKinds
  <2>2. CallKinds'
    BY <1>0, <1>1, <1>5 DEF CallKinds
  <2>3. DrainInv'
    BY <1>0, <1>1, <1>2, <1>5 DEF DrainInv, Passed
  <2>4. pc' = "drain" /\ SoundBank(found)'
    BY <1>0, <1>1
  <2> QED BY <1>5, <2>1, <2>2, <2>3, <2>4 DEF IInv, Walking
<1>6. CASE n # NoSubMap /\ e.ref = n.ref
  <2>1. PICK m : m = at'
    OBVIOUS
  <2>2. e.from < n.from /\ \A s \in S : s.from < n.from => s.from <= e.from
    BY <1>0, <1>3, <1>4, <1>6
  <2>3. m = [from |-> e.from, to |-> n.to, ref |-> e.ref]
    <3>1. m = SetTo(e, n.to)
      BY <1>0, <1>6, <2>1
    <3>2. ~ (e.from > n.to)
      BY <1>0, <1>3, <1>4, <1>6, <2>2
    <3> QED BY <1>0, <1>3, <3>1, <3>2, SetEnds
  <2>4. Neighbours(S, e, n, m)
    BY <1>0, <1>3, <1>4, <1>6, <2>2, <2>3 DEF Neighbours
  <2>5. Chained(S, e, n)
    <3>1. ASSUME NEW u \in S, e.from <= u.from, u.from <= n.from PROVE u = e \/ u = n
      <4>1. CASE u.from < n.from
        <5>1. u.from <= e.from
          BY <2>2, <4>1
        <5> QED BY <1>0, <1>3, <3>1, <5>1
      <4>2. CASE u.from = n.from
        BY <1>3, <1>4, <1>6, <4>2
      <4> QED BY <1>0, <1>3, <1>4, <1>6, <3>1, <4>1, <4>2
    <3>2. e.from <= n.from
      BY <1>0, <1>3, <1>4, <1>6, <2>2
    <3> QED BY <1>6, <3>1, <3>2 DEF Chained
  <2>6. tree' = Joined(S, e, n, m) /\ m \in tree'
    BY <1>0, <1>6, <2>1 DEF Joined
  <2>7. Merged(tree') = Merged(S)
    BY <2>4, <2>5, <2>6, JoinedMerged
  <2>8. Tidy(tree') /\ tree' \in SUBSET SubMap
    <3>1. Tidy(Joined(S, e, n, m))
      BY <2>4, JoinedNodes
    <3> QED BY <2>6, <3>1 DEF Tidy
  <2>9. ASSUME NEW s \in tree', NEW t \in tree', s.from < m.from, Chained(tree', s, t) PROVE s = t
    <3>1. s \in Joined(S, e, n, m) /\ t \in Joined(S, e, n, m)
      BY <2>6
    <3>2. Chained(S, Front(e, m, s), Back(n, m, t))
      BY <2>4, <2>6, <2>9, <3>1, JoinedChain
    <3>3. s.from < e.from /\ s # m /\ s \in S /\ Front(e, m, s) = s
      BY <1>0, <1>3, <2>3, <2>9, <3>1 DEF Joined, Front
    <3>4. Back(n, m, t) \in S
      BY <1>4, <1>6, <3>1 DEF Joined, Back
    <3>5. s = Back(n, m, t)
      BY <1>2, <3>2, <3>3, <3>4
    <3>6. s # n
      BY <1>0, <1>3, <1>4, <1>6, <2>2, <3>3
    <3> QED BY <3>5, <3>6 DEF Back
  <2>10. m # NoSubMap
    BY <2>6, <2>8, NoSubMapAssumption
  <2> QED BY <1>5, <2>1, <2>6, <2>7, <2>8, <2>9, <2>10
<1>7. CASE ~ (n # NoSubMap /\ e.ref = n.ref)
  <2>1. at' = n /\ tree' = S
    BY <1>0, <1>7
  <2>2. ASSUME NEW s \in S, NEW t \in S, n = NoSubMap \/ s.from < n.from, Chained(S, s, t) PROVE s = t
    <3>1. CASE s # e
      <4>1. s.from < e.from
        <5>1. s.to < e.from
          BY <1>4, <2>2, <3>1
        <5> QED BY <1>0, <1>3, <5>1
      <4> QED BY <1>2, <2>2, <4>1
    <3>2. CASE s = e
      <4>1. e.from <= t.from
        BY <2>2, <3>2 DEF Chained
      <4>2. CASE n = NoSubMap
        <5>1. t # e => t.to < e.from
          BY <1>4, <4>2
        <5> QED BY <1>0, <1>3, <3>2, <4>1, <5>1
      <4>3. CASE n # NoSubMap
        <5>1. ASSUME n.from <= t.from PROVE FALSE
          <6>1. n \in S /\ e.from <= n.from
            BY <1>0, <1>3, <1>4, <4>3
          <6>2. n.ref = e.ref
            BY <2>2, <3>2, <5>1, <6>1 DEF Chained
          <6> QED BY <1>7, <4>3, <6>2
        <5>2. t.from < n.from
          BY <1>3, <1>4, <4>3, <5>1
        <5>3. t # e => t.to < e.from
          BY <1>4, <4>3, <5>2
        <5> QED BY <1>0, <1>3, <3>2, <4>1, <5>3
      <4> QED BY <4>2, <4>3
    <3> QED BY <3>1, <3>2
  <2>3. S \in SUBSET SubMap /\ n \in S \cup {NoSubMap}
    BY <1>3, <1>4
  <2> QED BY <1>3, <1>5, <2>1, <2>2, <2>3
<1> QED BY <1>6, <1>7

LEMMA DrainEndStep ==
  ASSUME IInv, DrainEnd
  PROVE  IInv'
<1>0. /\ BankKinds /\ CallKinds /\ DrainInv /\ SoundBank(found) /\ at = NoSubMap
      /\ drain' = FALSE /\ pc' = "done" /\ UNCHANGED <<maps, tree, refs, used>> /\ UNCHANGED walk
  BY DEF IInv, DrainEnd
<1>1. /\ Expected' = Expected /\ op' = op /\ found' = found
  BY <1>0, SameExpected DEF walk
<1>2. /\ op = "Drain" /\ \A s, t \in tree : Chained(tree, s, t) => s = t
      /\ Expected = [submaps |-> Merged(tree), maprefs |-> refs, lastUsed |-> used, drainMe |-> FALSE]
  BY <1>0 DEF DrainInv, Passed
<1>3. Merged(tree) = tree
  BY <1>0, <1>2, MergedAlone DEF BankKinds
<1>4. Now' = Expected'
  BY <1>0, <1>1, <1>2, <1>3 DEF Now
<1>5. CallKinds'
  BY <1>0 DEF CallKinds, walk, call
<1> QED BY <1>0, <1>1, <1>2, <1>4, <1>5, InvDone

-----------------------------------------------------------------------------
(* Looking for a free place.                                                *)

\* The next multiple of n, where nothing wraps.
UpTo(a, n) == a + ((n - (a % n)) % n)

LEMMA Multiples ==
  ASSUME NEW a \in Nat, NEW n \in Nat, n > 0
  PROVE  /\ a % n \in Nat /\ a % n < n
         /\ \E k \in Nat : a = n * k + (a % n)
         /\ (n * a) % n = 0
<1>1. a % n \in 0 .. n - 1
  OBVIOUS
<1>2. a = n * (a \div n) + (a % n) /\ a \div n \in Nat
  OBVIOUS
<1>3. (n * a) % n = 0
  OBVIOUS
<1> QED BY <1>1, <1>2, <1>3

LEMMA NextMultiple ==
  ASSUME NEW a \in Nat, NEW n \in Nat, n > 0
  PROVE  /\ UpTo(a, n) \in Nat /\ a <= UpTo(a, n) /\ UpTo(a, n) % n = 0
         /\ \A p \in Nat : a <= p /\ p % n = 0 => UpTo(a, n) <= p
         /\ n = 1 => UpTo(a, n) = a
<1> DEFINE r == a % n
<1>1. r \in Nat /\ r < n
  BY Multiples
<1>2. PICK k \in Nat : a = n * k + r
  BY Multiples
<1> HIDE DEF r
<1>3. CASE r = 0
  <2>1. (n - r) % n = 0
    BY <1>3
  <2>2. UpTo(a, n) = a
    BY <2>1 DEF UpTo, r
  <2>3. a % n = 0
    BY <1>3 DEF r
  <2> QED BY <2>2, <2>3
<1>4. CASE r # 0
  <2>1. n - r \in Nat /\ n - r < n /\ n - r > 0
    BY <1>1, <1>4
  <2>2. (n - r) % n = n - r
    BY <2>1
  <2>3. UpTo(a, n) = a + (n - r)
    BY <2>2 DEF UpTo, r
  <2>4. UpTo(a, n) = n * (k + 1)
    BY <1>1, <1>2, <2>3
  <2>5. (n * (k + 1)) % n = 0
    <3>1. k + 1 \in Nat
      OBVIOUS
    <3> QED BY <3>1, Multiples
  <2>6. ASSUME NEW p \in Nat, a <= p, p % n = 0 PROVE n * (k + 1) <= p
    <3>1. PICK h \in Nat : p = n * h
      <4>1. PICK h \in Nat : p = n * h + (p % n)
        BY Multiples
      <4> QED BY <2>6, <4>1
    <3>2. n * k < n * h
      BY <1>1, <1>2, <1>4, <2>6, <3>1
    <3>3. k + 1 <= h
      BY <3>2
    <3>4. n * (k + 1) <= n * h
      BY <3>3
    <3> QED BY <3>1, <3>4
  <2>7. n # 1
    BY <1>1, <1>4
  <2> QED BY <1>1, <2>1, <2>3, <2>4, <2>5, <2>6, <2>7
<1> QED BY <1>3, <1>4

\* What is below 2^64 does not wrap.
LEMMA NoCycle ==
  ASSUME NEW a \in Nat
  PROVE  /\ Cyclic(a) \in Nat /\ Cyclic(a) <= MaxAddr /\ MaxAddr \in Nat
         /\ a <= MaxAddr => Cyclic(a) = a
         /\ Cyclic(MaxAddr + 1) = 0
<1>1. MaxAddr \in Nat /\ MaxAddr + 1 \in Nat /\ MaxAddr + 1 > 0
  BY MaxAddrAssumption
<1>2. a % (MaxAddr + 1) \in 0 .. MaxAddr + 1 - 1
  BY <1>1
<1>3. a <= MaxAddr => a % (MaxAddr + 1) = a
  BY <1>1
<1>4. (MaxAddr + 1) % (MaxAddr + 1) = 0
  BY <1>1
<1> QED BY <1>1, <1>2, <1>3, <1>4 DEF Cyclic

\* The place tried first is not behind any that is free.
LEMMA AlignedPlace ==
  ASSUME NEW c \in Addr, NEW n \in Nat, n > 0
  PROVE  /\ AlignUp(c, n) \in Nat /\ AlignUp(c, n) <= MaxAddr
         /\ \A p \in Addr : c <= p /\ p % n = 0 =>
              c <= AlignUp(c, n) /\ AlignUp(c, n) <= p /\ AlignUp(c, n) % n = 0
         /\ n = 1 => AlignUp(c, n) = c
<1>1. AlignUp(c, n) = Cyclic(UpTo(c, n)) /\ c \in Nat /\ c <= MaxAddr /\ MaxAddr \in Nat
  BY MaxAddrAssumption DEF AlignUp, UpTo, Addr
<1>2. /\ UpTo(c, n) \in Nat /\ c <= UpTo(c, n) /\ UpTo(c, n) % n = 0
      /\ \A p \in Nat : c <= p /\ p % n = 0 => UpTo(c, n) <= p
      /\ n = 1 => UpTo(c, n) = c
  BY <1>1, NextMultiple
<1>3. /\ Cyclic(UpTo(c, n)) \in Nat /\ Cyclic(UpTo(c, n)) <= MaxAddr
      /\ UpTo(c, n) <= MaxAddr => Cyclic(UpTo(c, n)) = UpTo(c, n)
  BY <1>2, NoCycle
<1>4. ASSUME NEW p \in Addr, c <= p, p % n = 0
      PROVE  c <= AlignUp(c, n) /\ AlignUp(c, n) <= p /\ AlignUp(c, n) % n = 0
  <2>1. p \in Nat /\ p <= MaxAddr
    BY <1>1 DEF Addr
  <2>2. UpTo(c, n) <= p
    BY <1>2, <1>4, <2>1
  <2>3. UpTo(c, n) <= MaxAddr
    BY <1>1, <1>2, <2>1, <2>2
  <2> QED BY <1>1, <1>2, <1>3, <2>2, <2>3
<1> QED BY <1>1, <1>2, <1>3, <1>4

Asked(q) == q.addr \in Addr /\ q.size \in Nat /\ q.size > 0 /\ q.align \in Nat /\ q.align > 0

\* A place is free if every node ends before it or begins behind it.
LEMMA PlaceFree ==
  ASSUME NEW S, Tidy(S), NEW q, Asked(q)
  PROVE  \A p \in Addr :
           p \in Places(S, q) <=>
             /\ q.addr <= p /\ p % q.align = 0 /\ p + q.size <= MaxAddr + 1
             /\ \A s \in S : s.to < p \/ p + q.size <= s.from
<1>0. MaxAddr \in Nat /\ Addr = 0 .. MaxAddr
  BY MaxAddrAssumption DEF Addr
<1>1. \A s \in S : s.from \in Nat /\ s.to \in Nat /\ s.from <= s.to
  BY NodeNumbers
<1>2. ASSUME NEW p \in Addr
      PROVE  p .. p + q.size - 1 \cap Covered(S) = {} <=> \A s \in S : s.to < p \/ p + q.size <= s.from
  <2>0. p \in Nat /\ q.size \in Nat /\ q.size > 0
    BY <1>0 DEF Asked
  <2>1. ASSUME NEW s \in S, ~ (s.to < p \/ p + q.size <= s.from)
        PROVE  \E a \in p .. p + q.size - 1 : a \in Covered(S)
    <3>1. CASE p <= s.from
      <4>1. s.from \in p .. p + q.size - 1 /\ s.from \in Span(s)
        BY <1>1, <2>0, <2>1, <3>1 DEF Span
      <4> QED BY <4>1 DEF Covered
    <3>2. CASE s.from < p
      <4>1. p \in p .. p + q.size - 1 /\ p \in Span(s)
        BY <1>1, <2>0, <2>1, <3>2 DEF Span
      <4> QED BY <4>1 DEF Covered
    <3> QED BY <1>1, <2>0, <3>1, <3>2
  <2>2. ASSUME NEW a \in p .. p + q.size - 1, a \in Covered(S)
        PROVE  \E s \in S : ~ (s.to < p \/ p + q.size <= s.from)
    <3>1. PICK s \in S : a \in Span(s)
      BY <2>2 DEF Covered
    <3>2. a \in Nat /\ p <= a /\ a <= p + q.size - 1 /\ s.from <= a /\ a <= s.to
      BY <2>0, <3>1 DEF Span
    <3>3. ~ (s.to < p \/ p + q.size <= s.from)
      BY <1>1, <2>0, <3>2
    <3> QED BY <3>3
  <2> QED BY <2>1, <2>2
<1>3. ASSUME NEW p \in Addr PROVE ~Wraps(p, q.size) <=> p + q.size <= MaxAddr + 1
  BY <1>0 DEF Wraps, Asked
<1>4. \A p \in Addr : p \in q.addr .. MaxAddr <=> q.addr <= p
  BY <1>0 DEF Asked
<1> QED BY <1>2, <1>3, <1>4 DEF Places

LEMMA PlaceAddr ==
  ASSUME NEW S, NEW q, Asked(q)
  PROVE  /\ \A p \in Places(S, q) : p \in Addr
         /\ Addr = 0 .. MaxAddr /\ MaxAddr \in Nat
BY MaxAddrAssumption DEF Places, Asked, Addr

\* A node a search may stop at is before the free places that are not before the
\* place it was asked for; where there is none, that place is free.
LEMMA MetNodes ==
  ASSUME NEW S, Tidy(S), NEW q, Asked(q), NEW c \in Addr
  PROVE  /\ \A s \in Met(S, c, q.size) : s \in S /\ c <= s.to
         /\ \A s \in Met(S, c, q.size), p \in Places(S, q) : c <= p => s.to < p
         /\ Met(S, c, q.size) = {} /\ c + q.size <= MaxAddr + 1 =>
              \A s \in S : s.to < c \/ c + q.size <= s.from
<1>0. /\ MaxAddr \in Nat /\ Addr = 0 .. MaxAddr /\ c \in Nat /\ c <= MaxAddr
      /\ q.size \in Nat /\ q.size > 0
  BY MaxAddrAssumption DEF Addr, Asked
<1>1. \A s \in S : s.from \in Nat /\ s.to \in Nat /\ s.from <= s.to /\ s.from \in Addr
  BY NodeNumbers
<1>2. \A s \in Met(S, c, q.size) :
        s \in S /\ c <= s.to /\ (Cyclic(c + q.size) = 0 \/ s.from < Cyclic(c + q.size))
  BY DEF Met
<1>3. /\ c + q.size \in Nat
      /\ c + q.size <= MaxAddr => Cyclic(c + q.size) = c + q.size
      /\ c + q.size = MaxAddr + 1 => Cyclic(c + q.size) = 0
  <2>1. c + q.size \in Nat
    BY <1>0
  <2> QED BY <2>1, NoCycle
<1>4. ASSUME NEW s \in Met(S, c, q.size), NEW p \in Places(S, q), c <= p PROVE s.to < p
  <2>1. p \in Addr /\ p \in Nat
    BY <1>0, PlaceAddr
  <2>2. p + q.size <= MaxAddr + 1 /\ (s.to < p \/ p + q.size <= s.from)
    BY <1>2, <2>1, PlaceFree
  <2>3. s \in S /\ s.from \in Nat /\ s.to \in Nat /\ s.from <= MaxAddr
    BY <1>0, <1>1, <1>2
  <2>4. CASE c + q.size <= MaxAddr
    BY <1>0, <1>2, <1>3, <1>4, <2>1, <2>2, <2>3, <2>4
  <2>5. CASE c + q.size = MaxAddr + 1
    BY <1>0, <1>4, <2>1, <2>2, <2>3, <2>5
  <2>6. c + q.size <= MaxAddr \/ c + q.size = MaxAddr + 1
    BY <1>0, <1>4, <2>1, <2>2
  <2> QED BY <2>4, <2>5, <2>6
<1>5. ASSUME Met(S, c, q.size) = {}, c + q.size <= MaxAddr + 1, NEW s \in S
      PROVE  s.to < c \/ c + q.size <= s.from
  <2>1. ~ (c <= s.to /\ (Cyclic(c + q.size) = 0 \/ s.from < Cyclic(c + q.size)))
    BY <1>5 DEF Met
  <2>2. s.from \in Nat /\ s.to \in Nat
    BY <1>1
  <2>3. c + q.size <= MaxAddr \/ c + q.size = MaxAddr + 1
    BY <1>0, <1>5
  <2> QED BY <1>0, <1>3, <2>1, <2>2, <2>3
<1> QED BY <1>2, <1>4, <1>5

\* A search that ends.
LEMMA LocateEnds ==
  ASSUME BankKinds', CallKinds', SoundBank(Now)', SoundBank(found)', pc' = "done", op' = "Locate",
         NEW q, q = ask', Asked(q), NEW P, P = Places(tree', q),
         \A p \in P : (\A r \in P : p <= r) /\ p + q.size <= MaxAddr => answer' = p,
         P = {} /\ q.align = 1 /\ ~Wraps(q.addr, q.size) => answer' = NoPlace
  PROVE  IInv'
<1>1. ASSUME P # {} PROVE Lowest(P) \in P /\ \A r \in P : Lowest(P) <= r
  <2>1. P \in SUBSET Nat
    BY PlaceAddr
  <2>2. \E x \in P : \A y \in P : x <= y
    BY <1>1, <2>1, LeastExists
  <2> QED BY <2>2 DEF Lowest
<1>2. P # {} /\ Lowest(P) + q.size <= MaxAddr => answer' = Lowest(P)
  BY <1>1
<1>3. P = {p \in q.addr .. MaxAddr : /\ p % q.align = 0
                                     /\ ~Wraps(p, q.size)
                                     /\ p .. p + q.size - 1 \cap Covered(tree') = {}}
  BY DEF Places
<1>4. LocateFinds'
  BY <1>2, <1>3 DEF LocateFinds
<1> QED BY <1>4 DEF IInv, Walking

\* A search that goes on.
LEMMA LocateOn ==
  ASSUME BankKinds', CallKinds', SoundBank(Now)', SoundBank(found)', pc' \in {"byte", "aligned"},
         LocateInv', at' \in tree'
  PROVE  IInv'
BY DEF IInv, Walking

LEMMA AskedFor ==
  ASSUME NEW q \in [addr : Addr, size : Sizes, align : Aligns]
  PROVE  Asked(q)
<1>1. q.addr \in Addr /\ q.size \in Sizes /\ q.align \in Aligns
  OBVIOUS
<1>2. q.size \in 1 .. MaxAddr /\ q.align \in Nat \ {0} /\ MaxAddr \in Nat
  BY <1>1, AskedAssumption, MaxAddrAssumption
<1>3. q.size \in Nat /\ q.size > 0 /\ q.align \in Nat /\ q.align > 0
  BY <1>2
<1> QED BY <1>1, <1>3 DEF Asked

\* The place that is tried, if the nodes are not in its way.
LEMMA PlaceTried ==
  ASSUME NEW S, Tidy(S), NEW q, Asked(q), NEW P, P = Places(S, q), NEW c \in Addr,
         \A s \in S : s.to < c \/ c + q.size <= s.from, q.addr <= c, c + q.size <= MaxAddr + 1,
         c % q.align = 0
  PROVE  c \in P
BY PlaceFree

LEMMA CallLocateStep ==
  ASSUME IInv, NEW a \in Addr, NEW size \in Sizes, NEW align \in Aligns, CallLocate(a, size, align)
  PROVE  IInv'
<1>0. PICK S, q, c :
         /\ S = tree /\ q = [addr |-> a, size |-> size, align |-> align] /\ c = AlignUp(a, align)
         /\ pc = "idle" /\ op' = "Locate" /\ id' = NoMap /\ found' = Now
         /\ UNCHANGED <<maps, old, sm, todo, prio, ator>> /\ UNCHANGED bank /\ ask' = q
         /\ \/ Met(S, c, size) = {} /\ answer' = c /\ pc' = "done" /\ UNCHANGED at
            \/ at' \in Met(S, c, size) /\ pc' = IF align = 1 THEN "byte" ELSE "aligned"
         /\ BankKinds /\ CallKinds /\ SoundBank(Now)
  BY DEF IInv, CallLocate, Begin, Answered
<1>1. /\ BankKinds' /\ SoundBank(Now)' /\ SoundBank(found)' /\ tree' = S /\ Tidy(S)
  BY <1>0 DEF BankKinds, bank, Now
<1>2. /\ q \in [addr : Addr, size : Sizes, align : Aligns]
      /\ q.addr = a /\ q.size = size /\ q.align = align
  BY <1>0
<1>3. Asked(q) /\ size \in Nat /\ size > 0 /\ align \in Nat /\ align > 0 /\ a \in Nat /\ MaxAddr \in Nat
  <2>1. Asked(q)
    BY <1>2, AskedFor
  <2> QED BY <1>2, <2>1, MaxAddrAssumption DEF Asked, Addr
<1>4. PICK P : P = Places(S, q)
  OBVIOUS
<1>5. /\ c \in Nat /\ c <= MaxAddr
      /\ \A p \in Addr : a <= p /\ p % align = 0 => a <= c /\ c <= p /\ c % align = 0
      /\ align = 1 => c = a
  BY <1>0, <1>3, AlignedPlace
<1>6. c \in Addr
  BY <1>3, <1>5 DEF Addr
<1>7. \A p \in P : p \in Addr /\ p \in Nat /\ p + size <= MaxAddr + 1 /\ a <= c /\ c <= p /\ c % align = 0
  <2>1. \A p \in P : p \in Addr
    BY <1>3, <1>4, PlaceAddr
  <2>2. \A p \in P : a <= p /\ p % align = 0 /\ p + size <= MaxAddr + 1
    BY <1>1, <1>2, <1>3, <1>4, <2>1, PlaceFree
  <2>3. \A p \in P : p \in Nat
    BY <1>3, <2>1 DEF Addr
  <2> QED BY <1>5, <2>1, <2>2, <2>3
<1>8. /\ \A s \in Met(S, c, size) : s \in S /\ c <= s.to
      /\ \A s \in Met(S, c, size), p \in P : c <= p => s.to < p
      /\ Met(S, c, size) = {} /\ c + size <= MaxAddr + 1 => \A s \in S : s.to < c \/ c + size <= s.from
  <2>1. Met(S, c, size) = Met(S, c, q.size)
    BY <1>2
  <2>2. Tidy(S) /\ Asked(q) /\ c \in Addr
    BY <1>1, <1>2, <1>3, <1>6
  <2>3. /\ \A s \in Met(S, c, q.size) : s \in S /\ c <= s.to
        /\ \A s \in Met(S, c, q.size), p \in Places(S, q) : c <= p => s.to < p
        /\ Met(S, c, q.size) = {} /\ c + q.size <= MaxAddr + 1 =>
             \A s \in S : s.to < c \/ c + q.size <= s.from
    BY <2>2, MetNodes
  <2> QED BY <1>2, <1>4, <2>1, <2>3
<1>9. CASE Met(S, c, size) = {} /\ answer' = c /\ pc' = "done" /\ UNCHANGED at
  <2>1. CallKinds'
    BY <1>0, <1>9 DEF CallKinds
  <2>2. ASSUME a <= c, c % align = 0, c + size <= MaxAddr + 1 PROVE c \in P
    BY <1>1, <1>2, <1>3, <1>4, <1>6, <1>8, <1>9, <2>2, PlaceTried
  <2>3. ASSUME NEW p \in P, \A r \in P : p <= r, p + size <= MaxAddr PROVE answer' = p
    <3>1. c <= p /\ a <= c /\ c % align = 0 /\ p \in Nat
      BY <1>7
    <3>2. c + size <= MaxAddr + 1
      BY <1>3, <1>5, <2>3, <3>1
    <3>3. p <= c
      BY <2>2, <2>3, <3>1, <3>2
    <3> QED BY <1>5, <1>9, <3>1, <3>3
  <2>4. ASSUME P = {}, align = 1, ~Wraps(a, size) PROVE FALSE
    <3>1. c = a /\ c % align = 0
      BY <1>3, <1>5, <2>4
    <3>2. c + size <= MaxAddr + 1
      BY <1>3, <2>4, <3>1 DEF Wraps
    <3> QED BY <1>5, <2>2, <2>4, <3>1, <3>2
  <2> QED BY <1>0, <1>1, <1>2, <1>3, <1>4, <1>9, <2>1, <2>3, <2>4, LocateEnds
<1>10. CASE at' \in Met(S, c, size) /\ pc' = IF align = 1 THEN "byte" ELSE "aligned"
  <2>1. at' \in S /\ at' \in SubMap /\ at' # NoSubMap /\ at'.to \in Nat
    BY <1>1, <1>8, <1>10, NoSubMapAssumption, NodeNumbers DEF Tidy
  <2>2. CallKinds'
    BY <1>0, <2>1 DEF CallKinds
  <2>3. \A p \in P : at'.to < p
    BY <1>7, <1>8, <1>10
  <2>4. align = 1 \/ P # {} => a <= at'.to
    <3>1. align = 1 \/ P # {} => a <= c
      BY <1>3, <1>5, <1>7
    <3> QED BY <1>3, <1>5, <1>8, <1>10, <2>1, <3>1
  <2>5. LocateInv'
    BY <1>0, <1>1, <1>2, <1>4, <1>10, <2>1, <2>3, <2>4 DEF LocateInv
  <2> QED BY <1>1, <1>10, <2>1, <2>2, <2>5, LocateOn
<1> QED BY <1>0, <1>9, <1>10

\* What the two loops have in common.
LEMMA LocateFacts ==
  ASSUME IInv, pc \in {"byte", "aligned"}, UNCHANGED <<maps, sm, todo, ator>>, UNCHANGED bank,
         UNCHANGED call, NEW S, S = tree, NEW q, q = ask, NEW P, P = Places(S, q), NEW e, e = at,
         NEW c, c = Cyclic(e.to + 1)
  PROVE  /\ BankKinds' /\ SoundBank(Now)' /\ SoundBank(found)' /\ tree' = S /\ Tidy(S)
         /\ at' \in SubMap \cup {NoSubMap} => CallKinds'
         /\ op' = "Locate" /\ ask' = q
         /\ q \in [addr : Addr, size : Sizes, align : Aligns] /\ Asked(q)
         /\ q.addr \in Nat /\ q.size \in Nat /\ q.size > 0 /\ q.align \in Nat /\ q.align > 0 /\ MaxAddr \in Nat
         /\ e \in S /\ e.from \in Nat /\ e.to \in Nat
         /\ q.align = 1 \/ P # {} => q.addr <= e.to
         /\ pc = "byte" <=> q.align = 1
         /\ c \in Addr /\ c \in Nat /\ c <= MaxAddr
         /\ c # 0 => c = e.to + 1
         /\ e.to < MaxAddr => c = e.to + 1
         /\ \A p \in P : /\ p \in Addr /\ p \in Nat /\ p + q.size <= MaxAddr + 1 /\ p % q.align = 0
                         /\ c = e.to + 1 /\ c <= p /\ q.addr <= e.to
<1>0. /\ BankKinds /\ CallKinds /\ SoundBank(Now) /\ SoundBank(found) /\ LocateInv /\ e \in S
      /\ Tidy(S)
  BY DEF IInv, LocateInv, BankKinds
<1>1. /\ BankKinds' /\ SoundBank(Now)' /\ SoundBank(found)' /\ tree' = S
      /\ at' \in SubMap \cup {NoSubMap} => CallKinds'
  BY <1>0 DEF BankKinds, CallKinds, bank, call, Now
<1>2. /\ op' = "Locate" /\ ask' = q /\ q \in [addr : Addr, size : Sizes, align : Aligns]
      /\ q.align = 1 \/ P # {} => q.addr <= e.to
      /\ pc = "byte" <=> q.align = 1
      /\ \A p \in P : e.to < p
  BY <1>0 DEF LocateInv, call
<1>3. Asked(q)
  BY <1>2, AskedFor
<1>4. /\ q.addr \in Nat /\ q.size \in Nat /\ q.size > 0 /\ q.align \in Nat /\ q.align > 0
      /\ MaxAddr \in Nat /\ Addr = 0 .. MaxAddr
  BY <1>3, MaxAddrAssumption DEF Asked, Addr
<1>5. e.from \in Nat /\ e.to \in Nat /\ e.to <= MaxAddr
  <2>1. e \in SubMap
    BY <1>0 DEF Tidy
  <2> QED BY <1>0, <1>4, <2>1, NodeNumbers, SetEnds
<1>6. /\ c \in Nat /\ c <= MaxAddr
      /\ e.to + 1 <= MaxAddr => c = e.to + 1
      /\ e.to = MaxAddr => c = 0
  <2>1. e.to + 1 \in Nat
    BY <1>5
  <2> QED BY <2>1, NoCycle
<1>7. \A p \in P : p \in Addr
  BY <1>3, PlaceAddr
<1>8. \A p \in P : p + q.size <= MaxAddr + 1 /\ p % q.align = 0
  BY <1>0, <1>3, <1>7, PlaceFree
<1> QED BY <1>0, <1>1, <1>2, <1>3, <1>4, <1>5, <1>6, <1>7, <1>8

\* The checks at the end let a place pass that is not the last one.
LEMMA CheckedPlace ==
  ASSUME NEW a \in Nat, NEW c \in Nat, NEW size \in Nat, a <= c
  PROVE  /\ c # 0 /\ c + size <= MaxAddr => Checked(a, c, size) = c
         /\ c = 0 \/ c + size > MaxAddr + 1 => Checked(a, c, size) = NoPlace
<1>1. MaxAddr \in Nat /\ c + size \in Nat
  BY MaxAddrAssumption
<1>2. c + size <= MaxAddr => Cyclic(c + size) = c + size
  BY <1>1, NoCycle
<1>3. c + size <= MaxAddr => ~Wraps(c, size)
  BY <1>1 DEF Wraps
<1>4. c + size > MaxAddr + 1 => Wraps(c, size)
  BY <1>1 DEF Wraps
<1> QED BY <1>1, <1>2, <1>3, <1>4 DEF Checked

LEMMA AlignedNodeStep ==
  ASSUME IInv, AlignedNode
  PROVE  IInv'
<1>0. PICK S, q, P, e, d, c :
         /\ S = tree /\ q = ask /\ P = Places(S, q) /\ e = at /\ d = Cyclic(e.to + 1)
         /\ c = AlignUp(d, q.align)
         /\ pc = "aligned" /\ UNCHANGED <<maps, sm, todo, ator>> /\ UNCHANGED bank /\ UNCHANGED call
         /\ \/ Met(S, c, q.size) = {} /\ answer' = Checked(q.addr, c, q.size) /\ pc' = "done" /\ at' = at
            \/ at' \in Met(S, c, q.size) /\ pc' = pc
  BY DEF AlignedNode, Answered
<1>1. /\ BankKinds' /\ SoundBank(Now)' /\ SoundBank(found)' /\ tree' = S /\ Tidy(S)
      /\ at' \in SubMap \cup {NoSubMap} => CallKinds'
      /\ op' = "Locate" /\ ask' = q
      /\ q \in [addr : Addr, size : Sizes, align : Aligns] /\ Asked(q)
      /\ q.addr \in Nat /\ q.size \in Nat /\ q.size > 0 /\ q.align \in Nat /\ q.align > 0 /\ MaxAddr \in Nat
      /\ e \in S /\ e.from \in Nat /\ e.to \in Nat
      /\ q.align # 1
      /\ d \in Addr /\ d \in Nat
      /\ \A p \in P : /\ p \in Addr /\ p \in Nat /\ p + q.size <= MaxAddr + 1 /\ p % q.align = 0
                      /\ d = e.to + 1 /\ d <= p /\ q.addr <= e.to
  BY <1>0, LocateFacts
<1>2. /\ c \in Nat /\ c <= MaxAddr
      /\ \A p \in Addr : d <= p /\ p % q.align = 0 => d <= c /\ c <= p /\ c % q.align = 0
  BY <1>0, <1>1, AlignedPlace
<1>3. c \in Addr
  BY <1>1, <1>2 DEF Addr
<1>4. \A p \in P : /\ p \in Nat /\ p + q.size <= MaxAddr + 1
                   /\ q.addr <= c /\ c <= p /\ c % q.align = 0 /\ c # 0
  BY <1>1, <1>2
<1>5. /\ \A s \in Met(S, c, q.size) : s \in S /\ c <= s.to
      /\ \A s \in Met(S, c, q.size), p \in P : c <= p => s.to < p
      /\ Met(S, c, q.size) = {} /\ c + q.size <= MaxAddr + 1 =>
           \A s \in S : s.to < c \/ c + q.size <= s.from
  <2>1. Tidy(S) /\ Asked(q) /\ c \in Addr
    BY <1>1, <1>3
  <2>2. P = Places(S, q)
    BY <1>0
  <2>3. /\ \A s \in Met(S, c, q.size) : s \in S /\ c <= s.to
        /\ \A s \in Met(S, c, q.size), p \in Places(S, q) : c <= p => s.to < p
        /\ Met(S, c, q.size) = {} /\ c + q.size <= MaxAddr + 1 =>
             \A s \in S : s.to < c \/ c + q.size <= s.from
    BY <2>1, MetNodes
  <2> QED BY <2>2, <2>3
<1>6. CASE Met(S, c, q.size) = {} /\ answer' = Checked(q.addr, c, q.size) /\ pc' = "done" /\ at' = at
  <2>1. CallKinds'
    <3>1. at' \in SubMap
      BY <1>0, <1>1, <1>6 DEF Tidy
    <3> QED BY <1>1, <3>1
  <2>2. ASSUME NEW p \in P, \A r \in P : p <= r, p + q.size <= MaxAddr PROVE answer' = p
    <3>1. p \in Nat /\ q.addr <= c /\ c <= p /\ c % q.align = 0 /\ c # 0
      BY <1>4
    <3>2. c + q.size <= MaxAddr /\ c + q.size <= MaxAddr + 1
      BY <1>1, <1>2, <2>2, <3>1
    <3>3. c \in P
      BY <1>0, <1>1, <1>3, <1>5, <1>6, <3>1, <3>2, PlaceTried
    <3>4. p = c
      BY <1>2, <2>2, <3>1, <3>3
    <3>5. Checked(q.addr, c, q.size) = c
      BY <1>1, <1>2, <3>1, <3>2, CheckedPlace
    <3> QED BY <1>6, <3>4, <3>5
  <2> QED BY <1>0, <1>1, <1>6, <2>1, <2>2, LocateEnds
<1>7. CASE at' \in Met(S, c, q.size) /\ pc' = pc
  <2>1. at' \in S /\ at' \in SubMap /\ at' # NoSubMap /\ at'.to \in Nat
    BY <1>1, <1>5, <1>7, NoSubMapAssumption, NodeNumbers DEF Tidy
  <2>2. CallKinds'
    BY <1>1, <2>1
  <2>3. \A p \in P : at'.to < p
    BY <1>4, <1>5, <1>7
  <2>4. P # {} => q.addr <= at'.to
    BY <1>1, <1>2, <1>4, <1>5, <1>7, <2>1
  <2>5. LocateInv'
    BY <1>0, <1>1, <1>7, <2>1, <2>3, <2>4 DEF LocateInv
  <2> QED BY <1>0, <1>1, <1>7, <2>1, <2>2, <2>5, LocateOn
<1> QED BY <1>0, <1>6, <1>7

LEMMA ByteNodeStep ==
  ASSUME IInv, ByteNode
  PROVE  IInv'
<1>0. PICK S, q, P, e, n, c :
         /\ S = tree /\ q = ask /\ P = Places(S, q) /\ e = at /\ n = After(tree, at)
         /\ c = Cyclic(e.to + 1)
         /\ pc = "byte" /\ UNCHANGED <<maps, sm, todo, ator>> /\ UNCHANGED bank /\ UNCHANGED call
         /\ \/ n = NoSubMap /\ answer' = Checked(q.addr, c, q.size) /\ pc' = "done" /\ at' = at
            \/ n # NoSubMap /\ q.size <= n.from - c /\ answer' = c /\ pc' = "done" /\ at' = at
            \/ n # NoSubMap /\ ~ (q.size <= n.from - c) /\ at' = n /\ pc' = pc
  BY DEF ByteNode, Answered
<1>1. /\ BankKinds' /\ SoundBank(Now)' /\ SoundBank(found)' /\ tree' = S /\ Tidy(S)
      /\ at' \in SubMap \cup {NoSubMap} => CallKinds'
      /\ op' = "Locate" /\ ask' = q
      /\ q \in [addr : Addr, size : Sizes, align : Aligns] /\ Asked(q)
      /\ q.addr \in Nat /\ q.size \in Nat /\ q.size > 0 /\ MaxAddr \in Nat
      /\ e \in S /\ e.from \in Nat /\ e.to \in Nat
      /\ q.align = 1 /\ q.addr <= e.to
      /\ c \in Addr /\ c \in Nat /\ c <= MaxAddr
      /\ c # 0 => c = e.to + 1
      /\ e.to < MaxAddr => c = e.to + 1
      /\ \A p \in P : /\ p \in Addr /\ p \in Nat /\ p + q.size <= MaxAddr + 1
                      /\ c = e.to + 1 /\ c <= p
  BY <1>0, LocateFacts
<1>2. /\ n = NoSubMap => \A s \in S : s # e => s.to < e.from
      /\ n # NoSubMap => /\ n \in S /\ e.to < n.from /\ n # e
                         /\ \A s \in S : s.from < n.from => s = e \/ s.to < e.from
  BY <1>0, <1>1, AfterNode
<1>3. \A s \in S : s.from \in Nat /\ s.to \in Nat /\ s.from <= s.to /\ s \in SubMap
  BY <1>1, NodeNumbers DEF Tidy
<1>4. n # NoSubMap => n.from \in Nat /\ n.to \in Nat /\ n.from <= MaxAddr /\ c = e.to + 1 /\ n.from <= n.to
  <2>1. n # NoSubMap => n.from <= MaxAddr
    BY <1>1, <1>2, NodeNumbers, PlaceAddr DEF Addr
  <2> QED BY <1>1, <1>2, <1>3, <2>1
<1>5. ASSUME c = e.to + 1, c + q.size <= MaxAddr + 1, n = NoSubMap \/ c + q.size <= n.from
      PROVE  c \in P
  <2>1. ASSUME NEW s \in S PROVE s.to < c \/ c + q.size <= s.from
    <3>1. CASE s = e
      BY <1>1, <1>5, <3>1
    <3>2. CASE s # e /\ s.to < e.from
      BY <1>1, <1>3, <1>5, <3>2
    <3>3. CASE s # e /\ ~ (s.to < e.from)
      <4>1. n # NoSubMap /\ ~ (s.from < n.from)
        BY <1>2, <3>3
      <4> QED BY <1>1, <1>3, <1>4, <1>5, <4>1
    <3> QED BY <3>1, <3>2, <3>3
  <2>2. q.addr <= c /\ c % q.align = 0
    BY <1>1, <1>5
  <2> QED BY <1>0, <1>1, <1>5, <2>1, <2>2, PlaceTried
<1>6. at' = at => CallKinds'
  BY <1>0, <1>1, <1>3
<1>7. CASE n = NoSubMap /\ answer' = Checked(q.addr, c, q.size) /\ pc' = "done" /\ at' = at
  <2>1. ASSUME NEW p \in P, \A r \in P : p <= r, p + q.size <= MaxAddr PROVE answer' = p
    <3>1. p \in Nat /\ c = e.to + 1 /\ c <= p /\ c + q.size <= MaxAddr /\ c + q.size <= MaxAddr + 1
      BY <1>1, <2>1
    <3>2. c \in P
      BY <1>5, <1>7, <3>1
    <3>3. p = c
      BY <1>1, <2>1, <3>1, <3>2
    <3>4. q.addr <= c /\ c # 0
      BY <1>1, <3>1
    <3>5. Checked(q.addr, c, q.size) = c
      BY <1>1, <3>1, <3>4, CheckedPlace
    <3> QED BY <1>7, <3>3, <3>5
  <2>2. ASSUME P = {} PROVE answer' = NoPlace
    <3>1. CASE c = 0
      BY <1>7, <3>1 DEF Checked
    <3>2. CASE c # 0
      <4>1. c = e.to + 1 /\ q.addr <= c
        BY <1>1, <3>2
      <4>2. ~ (c + q.size <= MaxAddr + 1)
        BY <1>5, <1>7, <2>2, <4>1
      <4>3. c + q.size > MaxAddr + 1
        BY <1>1, <4>2
      <4>4. Checked(q.addr, c, q.size) = NoPlace
        BY <1>1, <4>1, <4>3, CheckedPlace
      <4> QED BY <1>7, <4>4
    <3> QED BY <3>1, <3>2
  <2> QED BY <1>0, <1>1, <1>6, <1>7, <2>1, <2>2, LocateEnds
<1>8. CASE n # NoSubMap /\ q.size <= n.from - c /\ answer' = c /\ pc' = "done" /\ at' = at
  <2>1. c = e.to + 1 /\ c + q.size <= n.from /\ c + q.size <= MaxAddr + 1
    BY <1>1, <1>4, <1>8
  <2>2. c \in P
    BY <1>5, <2>1
  <2>3. ASSUME NEW p \in P, \A r \in P : p <= r PROVE answer' = p
    <3>1. p <= c /\ c <= p /\ p \in Nat
      BY <1>1, <2>2, <2>3
    <3> QED BY <1>1, <1>8, <3>1
  <2> QED BY <1>0, <1>1, <1>6, <1>8, <2>2, <2>3, LocateEnds
<1>9. CASE n # NoSubMap /\ ~ (q.size <= n.from - c) /\ at' = n /\ pc' = pc
  <2>1. n \in S /\ n \in SubMap /\ n # NoSubMap
    BY <1>2, <1>3, <1>9
  <2>2. CallKinds'
    BY <1>1, <1>9, <2>1
  <2>3. ASSUME NEW p \in P PROVE n.to < p
    <3>1. n.to < p \/ p + q.size <= n.from
      BY <1>0, <1>1, <2>1, <2>3, PlaceFree
    <3>2. ~ (p + q.size <= n.from)
      BY <1>1, <1>4, <1>9, <2>3
    <3> QED BY <3>1, <3>2
  <2>4. q.addr <= n.to
    BY <1>1, <1>2, <1>4, <1>9
  <2>5. LocateInv'
    BY <1>0, <1>1, <1>9, <2>1, <2>3, <2>4 DEF LocateInv
  <2> QED BY <1>0, <1>1, <1>9, <2>1, <2>2, <2>5, LocateOn
<1> QED BY <1>0, <1>7, <1>8, <1>9

-----------------------------------------------------------------------------
(* Between the calls.                                                       *)

LEMMA InvIdle ==
  ASSUME BankKinds', CallKinds', SoundBank(Now)', pc' = "idle", at' \in tree' \cup {NoSubMap}
  PROVE  IInv'
BY DEF IInv, Walking

LEMMA MapNewStep ==
  ASSUME IInv, NEW i \in MapIds, NEW from \in Addr, NEW ts \in Stamps, NEW to \in from .. MaxAddr,
         MapNew(i, from, to, ts)
  PROVE  IInv'
<1>0. /\ BankKinds /\ CallKinds /\ SoundBank(Now) /\ pc' = "idle" /\ at \in tree \cup {NoSubMap}
      /\ maps' = [maps EXCEPT ![i] = [from |-> from, to |-> to, ts |-> ts]]
      /\ UNCHANGED walk /\ UNCHANGED bank
  BY DEF IInv, MapNew
<1>1. from \in Addr /\ to \in Addr /\ from <= to /\ ts \in Nat
  BY StampsAssumption, MaxAddrAssumption DEF Addr
<1>2. /\ maps' \in [MapIds -> MapRec \cup {NoMap}]
      /\ maps'[i] = [from |-> from, to |-> to, ts |-> ts]
      /\ \A j \in MapIds : j # i => maps'[j] = maps[j]
  BY <1>0, <1>1 DEF CallKinds, MapRec
<1>3. SoundMaps(maps')
  <2>1. ASSUME NEW j \in MapIds, maps'[j] # NoMap
        PROVE  /\ maps'[j].from \in Addr /\ maps'[j].to \in Addr
               /\ maps'[j].from <= maps'[j].to /\ maps'[j].ts \in Nat
    <3>1. CASE j = i
      <4>1. maps'[j].from = from /\ maps'[j].to = to /\ maps'[j].ts = ts
        BY <1>2, <3>1
      <4> QED BY <1>1, <4>1
    <3>2. CASE j # i
      BY <1>0, <1>2, <2>1, <3>2 DEF CallKinds, SoundMaps
    <3> QED BY <3>1, <3>2
  <2> QED BY <2>1 DEF SoundMaps
<1>4. CallKinds'
  BY <1>0, <1>2, <1>3 DEF CallKinds, walk, call
<1>5. BankKinds' /\ SoundBank(Now)' /\ at' \in tree' \cup {NoSubMap}
  BY <1>0 DEF BankKinds, bank, Now, walk
<1> QED BY <1>0, <1>4, <1>5, InvIdle

LEMMA MapFreeStep ==
  ASSUME IInv, NEW i \in MapIds, MapFree(i)
  PROVE  IInv'
<1>0. /\ BankKinds /\ CallKinds /\ SoundBank(Now) /\ pc' = "idle" /\ at \in tree \cup {NoSubMap}
      /\ maps' = [maps EXCEPT ![i] = NoMap] /\ UNCHANGED walk /\ UNCHANGED bank
  BY DEF IInv, MapFree
<1>1. maps' \in [MapIds -> MapRec \cup {NoMap}] /\ SoundMaps(maps')
  BY <1>0 DEF CallKinds, SoundMaps
<1>2. CallKinds'
  BY <1>0, <1>1 DEF CallKinds, walk, call
<1>3. BankKinds' /\ SoundBank(Now)' /\ at' \in tree' \cup {NoSubMap}
  BY <1>0 DEF BankKinds, bank, Now, walk
<1> QED BY <1>0, <1>2, <1>3, InvIdle

LEMMA AccessStep ==
  ASSUME IInv, NEW s \in tree, Access(s)
  PROVE  IInv'
<1>0. /\ BankKinds /\ CallKinds /\ pc' = "idle" /\ at \in tree \cup {NoSubMap}
      /\ used' = s /\ UNCHANGED <<maps, tree, refs, drain>> /\ UNCHANGED walk
  BY DEF IInv, Access
<1>1. BankKinds'
  BY <1>0 DEF BankKinds, Tidy
<1>2. CallKinds' /\ at' \in tree' \cup {NoSubMap}
  BY <1>0 DEF CallKinds, walk, call
<1>3. SoundBank(Now)'
  <2>1. Now' = [submaps |-> tree, maprefs |-> refs, lastUsed |-> s, drainMe |-> drain]
    BY <1>0 DEF Now
  <2>2. SoundBank([submaps |-> tree, maprefs |-> refs, lastUsed |-> s, drainMe |-> drain])
    BY <1>0, SoundRecord DEF BankKinds
  <2> QED BY <2>1, <2>2
<1> QED BY <1>0, <1>1, <1>2, <1>3, InvIdle

LEMMA ReturnStep ==
  ASSUME IInv, Return
  PROVE  IInv'
<1>0. /\ BankKinds /\ CallKinds /\ SoundBank(Now) /\ pc' = "idle" /\ at' = NoSubMap
      /\ id' = NoMap /\ old' = NoMap /\ sm' = NoSubMap /\ todo' = <<>> /\ prio' = 0 /\ ator' = 0
      /\ UNCHANGED maps /\ UNCHANGED bank
  BY DEF IInv, Return
<1>1. BankKinds' /\ SoundBank(Now)'
  BY <1>0 DEF BankKinds, bank, Now
<1>2. CallKinds'
  BY <1>0 DEF CallKinds
<1> QED BY <1>0, <1>1, <1>2, InvIdle

LEMMA InitInv ==
  ASSUME Init
  PROVE  IInv
<1>1. Now = EmptyBank
  BY DEF Init, Now, EmptyBank
<1>2. SoundBank(Now) /\ Tidy(tree)
  BY <1>1, EmptyBankSound DEF SoundBank, Now
<1>3. BankKinds
  <2>1. refs = <<>> /\ used = NoSubMap /\ drain = FALSE
    BY DEF Init
  <2>2. refs \in Seq(MapRef)
    BY <2>1
  <2> QED BY <1>2, <2>1, <2>2 DEF BankKinds
<1>4. CallKinds
  BY DEF Init, CallKinds, SoundMaps
<1>5. pc = "idle" /\ at = NoSubMap
  BY DEF Init
<1> QED BY <1>2, <1>3, <1>4, <1>5 DEF IInv, Walking

LEMMA StutterStep ==
  ASSUME IInv, UNCHANGED vars
  PROVE  IInv'
<1>1. /\ UNCHANGED <<maps, tree, refs, used, drain, pc, op, id, found, old, at, sm, todo, prio, ator>>
      /\ UNCHANGED <<ask, answer>>
  BY DEF vars, bank, walk, call
<1>2. /\ CallKinds' <=> CallKinds
      /\ BankKinds' <=> BankKinds
      /\ Now' = Now /\ Expected' = Expected
      /\ LocateFinds' <=> LocateFinds
      /\ LocateInv' <=> LocateInv
  BY <1>1 DEF CallKinds, BankKinds, Now, Expected, LocateFinds, LocateInv
<1>3. /\ CutInv' <=> CutInv
      /\ BottomInv' <=> BottomInv
      /\ UpdateInv' <=> UpdateInv
      /\ DrainInv' <=> DrainInv
  BY <1>1, <1>2 DEF CutInv, BottomInv, UpdateInv, DrainInv, PassedApart, Passed
<1>4. /\ Withdrawing' <=> Withdrawing
      /\ Queued' = Queued /\ Taken' = Taken
  BY <1>1 DEF Withdrawing, Queued, Taken
<1>5. \A gone, owed : Owes(gone, owed)' <=> Owes(gone, owed)
  BY <1>1, <1>2 DEF Owes, Filled
<1>6. EnqueueInv' <=> EnqueueInv
  BY <1>1, <1>2, <1>4 DEF EnqueueInv, Passed, Owes, Filled
<1>7. DequeueInv' <=> DequeueInv
  BY <1>1, <1>2, <1>4 DEF DequeueInv, Owes, Filled
<1>8. FillInv' <=> FillInv
  BY <1>1, <1>2, <1>4 DEF FillInv, Owes, Filled
<1> QED BY <1>1, <1>2, <1>3, <1>6, <1>7, <1>8 DEF IInv

-----------------------------------------------------------------------------
(* The theorems.                                                            *)

LEMMA CallStep ==
  ASSUME IInv, Call
  PROVE  IInv'
<1>1. ASSUME NEW i \in MapIds, CallAddTop(i) PROVE IInv'
  BY <1>1, CallAddTopStep
<1>2. ASSUME NEW i \in MapIds, CallAddBottom(i) PROVE IInv'
  BY <1>2, CallAddBottomStep
<1>3. ASSUME NEW i \in MapIds, CallPriorize(i) PROVE IInv'
  BY <1>3, CallPriorizeStep
<1>4. ASSUME NEW i \in MapIds, CallDepriorize(i) PROVE IInv'
  BY <1>4, CallDepriorizeStep
<1>5. ASSUME NEW i \in MapIds, CallDelMap(i) PROVE IInv'
  BY <1>5, CallDelMapStep
<1>6. ASSUME NEW i \in MapIds, NEW from \in Addr, NEW to \in from .. MaxAddr, CallUpdate(i, from, to)
      PROVE  IInv'
  BY <1>6, CallUpdateStep
<1>7. CASE CallDrain
  BY <1>7, CallDrainStep
<1>8. ASSUME NEW a \in Addr, NEW size \in Sizes, NEW align \in Aligns, CallLocate(a, size, align)
      PROVE  IInv'
  BY <1>8, CallLocateStep
<1> QED BY <1>1, <1>2, <1>3, <1>4, <1>5, <1>6, <1>7, <1>8 DEF Call

LEMMA FillNodeStep ==
  ASSUME IInv, FillNode
  PROVE  IInv'
BY FillPassStep, FillMeetStep

LEMMA WalkStep ==
  ASSUME IInv, Walk
  PROVE  IInv'
<1>1. CASE CutNode \/ CutEnd \/ BottomNode \/ BottomEnd
  BY <1>1, CutNodeStep, CutEndStep, BottomNodeStep, BottomEndStep
<1>2. CASE EnqueueNode \/ EnqueueEnd \/ Dequeue \/ FillNode \/ FillEnd
  BY <1>2, EnqueueNodeStep, EnqueueEndStep, DequeueStep, FillNodeStep, FillEndStep
<1>3. CASE DelMapEnd \/ DepriorizeNext
  BY <1>3, DelMapEndStep, DepriorizeNextStep
<1>4. CASE UpdateAlone \/ UpdateOver \/ UpdateUnder \/ UpdateNode \/ UpdateEnd
  BY <1>4, UpdateAloneStep, UpdateOverStep, UpdateUnderStep, UpdateNodeStep, UpdateEndStep
<1>5. CASE DrainNode \/ DrainEnd \/ ByteNode \/ AlignedNode
  BY <1>5, DrainNodeStep, DrainEndStep, ByteNodeStep, AlignedNodeStep
<1> QED BY <1>1, <1>2, <1>3, <1>4, <1>5 DEF Walk

LEMMA NextStep ==
  ASSUME IInv, [Next]_vars
  PROVE  IInv'
<1>1. ASSUME NEW i \in MapIds, NEW from \in Addr, NEW ts \in Stamps, NEW to \in from .. MaxAddr,
             MapNew(i, from, to, ts)
      PROVE  IInv'
  BY <1>1, MapNewStep
<1>2. ASSUME NEW i \in MapIds, MapFree(i) PROVE IInv'
  BY <1>2, MapFreeStep
<1>3. ASSUME NEW s \in tree, Access(s) PROVE IInv'
  BY <1>3, AccessStep
<1>4. CASE Call
  BY <1>4, CallStep
<1>5. CASE Walk
  BY <1>5, WalkStep
<1>6. CASE Return
  BY <1>6, ReturnStep
<1>7. CASE UNCHANGED vars
  BY <1>7, StutterStep
<1> QED BY <1>1, <1>2, <1>3, <1>4, <1>5, <1>6, <1>7 DEF Next

(* In every reachable state the rest of the walk that is going on, done at   *)
(* once, gives the bank that the operation gives in closed form (IInv): no   *)
(* node of r_io_bank_map_add_top, _add_bottom, _priorize, _depriorize,       *)
(* r_io_bank_del_map, r_io_bank_update_map_boundaries, r_io_bank_drain or    *)
(* r_io_bank_locate is where that is lost.                                   *)
THEOREM WalksInvariant == Spec => []IInv
<1>1. Init => IInv
  BY InitInv
<1>2. IInv /\ [Next]_vars => IInv'
  BY NextStep
<1> QED BY <1>1, <1>2, PTL DEF Spec

\* What a call that is done has left.
LEMMA DoneExpected ==
  ASSUME IInv, pc = "done", op # "Locate"
  PROVE  Now = Outcome(op, maps, found, id, old)
BY DEF IInv, Expected

(* Adding a map on top or at the bottom, and priorizing one, cut node by     *)
(* node exactly what is in the way, for every address space and every bank.  *)
THEOREM AddWalksAgreeAlways == Spec => []AddWalksAgree
<1>1. IInv => AddWalksAgree
  BY DoneExpected DEF AddWalksAgree, Outcome
<1> QED BY <1>1, WalksInvariant, PTL

(* Deleting and depriorizing a map leave, through the queue of submaps and   *)
(* its five cases (_delete_submaps_from_bank_tree), what the maps below show. *)
THEOREM WithdrawWalksAgreeAlways == Spec => []WithdrawWalksAgree
<1>1. IInv => WithdrawWalksAgree
  BY DoneExpected DEF WithdrawWalksAgree, Outcome
<1> QED BY <1>1, WalksInvariant, PTL

(* r_io_bank_update_map_boundaries lays the moved map between those above    *)
(* and those below it, whichever nodes its walk meets.                       *)
THEOREM UpdateWalkAgreesAlways == Spec => []UpdateWalkAgrees
<1>1. IInv => UpdateWalkAgrees
  BY DoneExpected DEF UpdateWalkAgrees, Outcome
<1> QED BY <1>1, WalksInvariant, PTL

(* r_io_bank_drain, which merges one pair of neighbours at a time, merges    *)
(* every longest chain of them.                                              *)
THEOREM DrainWalkAgreesAlways == Spec => []DrainWalkAgrees
<1>1. IInv => DrainWalkAgrees
  BY DoneExpected DEF DrainWalkAgrees, Outcome
<1> QED BY <1>1, WalksInvariant, PTL

(* No two nodes of the tree overlap in the middle of a walk either, and no   *)
(* walk goes on from a node that has left the tree.                          *)
THEOREM WalksInTreeAlways == Spec => []WalksInTree
<1>1. IInv => WalksInTree
  BY DEF IInv, WalksInTree, BankKinds, Tidy, Apart, Overlaps
<1> QED BY <1>1, WalksInvariant, PTL

(* r_io_bank_locate finds the lowest free aligned place, unless it is the    *)
(* one that ends with the last address, for every size and alignment.        *)
THEOREM LocateFindsAlways == Spec => []LocateFinds
<1>1. IInv => LocateFinds
  BY DEF IInv, LocateFinds
<1> QED BY <1>1, WalksInvariant, PTL
=============================================================================
