--------------------------- MODULE IOBankProofs ---------------------------
(***************************************************************************)
(* Facts about the operations of a bank, for every size of the address      *)
(* space and every set of maps.  A sound bank keeps disjoint submaps, and    *)
(* its cached node is one of them; each operation of IOBankOps, applied to   *)
(* a sound bank, gives a sound bank.  The second part is about what a tree   *)
(* shows, and when it must be drained, operation by operation.              *)
(***************************************************************************)
EXTENDS IOBankOps, NatFacts, SequenceTheorems, TLAPS

-----------------------------------------------------------------------------
(* Runs and pieces.                                                         *)

\* A run is an interval of the set that cannot be made longer.
LEMMA RunFacts ==
  ASSUME NEW A \in SUBSET Addr, NEW r \in Runs(A)
  PROVE  /\ r = <<r[1], r[2]>> /\ r[1] \in Nat /\ r[2] \in Nat
         /\ r[1] \in A /\ r[2] \in A /\ r[1] <= r[2]
         /\ r[1] .. r[2] \subseteq A
         /\ r[1] - 1 \notin A /\ r[2] + 1 \notin A
<1>1. /\ r \in A \X A /\ r[1] <= r[2] /\ r[1] .. r[2] \subseteq A
      /\ r[1] - 1 \notin A /\ r[2] + 1 \notin A
  BY DEF Runs
<1>2. /\ r = <<r[1], r[2]>> /\ r[1] \in A /\ r[2] \in A
  BY <1>1
<1>3. A \subseteq Nat
  BY MaxAddrAssumption DEF Addr
<1> QED BY <1>1, <1>2, <1>3

\* Two runs of a set that share an address are the same run.
LEMMA RunsDisjoint ==
  ASSUME NEW A \in SUBSET Addr, NEW r \in Runs(A), NEW q \in Runs(A),
         NEW x, x \in r[1] .. r[2], x \in q[1] .. q[2]
  PROVE  r = q
<1>1. /\ r = <<r[1], r[2]>> /\ r[1] \in Nat /\ r[2] \in Nat /\ r[1] .. r[2] \subseteq A
      /\ r[1] - 1 \notin A /\ r[2] + 1 \notin A
  BY RunFacts
<1>2. /\ q = <<q[1], q[2]>> /\ q[1] \in Nat /\ q[2] \in Nat /\ q[1] .. q[2] \subseteq A
      /\ q[1] - 1 \notin A /\ q[2] + 1 \notin A
  BY RunFacts
<1>3. ~ r[1] < q[1]
  <2> SUFFICES ASSUME r[1] < q[1] PROVE FALSE
    OBVIOUS
  <2>1. q[1] - 1 \in r[1] .. r[2]
    BY <1>1, <1>2
  <2> QED BY <2>1, <1>1, <1>2
<1>4. ~ q[1] < r[1]
  <2> SUFFICES ASSUME q[1] < r[1] PROVE FALSE
    OBVIOUS
  <2>1. r[1] - 1 \in q[1] .. q[2]
    BY <1>1, <1>2
  <2> QED BY <2>1, <1>1, <1>2
<1>5. ~ r[2] < q[2]
  <2> SUFFICES ASSUME r[2] < q[2] PROVE FALSE
    OBVIOUS
  <2>1. r[2] + 1 \in q[1] .. q[2]
    BY <1>1, <1>2
  <2> QED BY <2>1, <1>1, <1>2
<1>6. ~ q[2] < r[2]
  <2> SUFFICES ASSUME q[2] < r[2] PROVE FALSE
    OBVIOUS
  <2>1. q[2] + 1 \in r[1] .. r[2]
    BY <1>1, <1>2
  <2> QED BY <2>1, <1>1, <1>2
<1>7. r[1] = q[1] /\ r[2] = q[2]
  BY <1>1, <1>2, <1>3, <1>4, <1>5, <1>6
<1> QED BY <1>1, <1>2, <1>7

\* What a tree of submaps must be: no node is empty and no two overlap.
Apart(s, t) == Span(s) \cap Span(t) = {}
Tidy(S) ==
  /\ S \subseteq SubMap
  /\ \A s \in S : s.from <= s.to
  /\ \A s, t \in S : s # t => Apart(s, t)

\* A submap spans addresses and refers to a map by id and timestamp.
LEMMA SpanInside ==
  ASSUME NEW s \in SubMap
  PROVE  Span(s) \in SUBSET Addr /\ s.ref \in MapRef
BY MaxAddrAssumption DEF SubMap, Span, Addr

\* Every piece is a non-empty submap inside the set it was cut from.
LEMMA PiecesInside ==
  ASSUME NEW A \in SUBSET Addr, NEW ref \in MapRef, NEW p \in Pieces(A, ref)
  PROVE  p \in SubMap /\ p.from <= p.to /\ p.ref = ref /\ Span(p) \subseteq A
<1>1. PICK r \in Runs(A) : p = [from |-> r[1], to |-> r[2], ref |-> ref]
  BY DEF Pieces
<1>2. r[1] \in A /\ r[2] \in A /\ r[1] <= r[2] /\ r[1] .. r[2] \subseteq A
  BY RunFacts
<1> QED BY <1>1, <1>2 DEF SubMap, Span

\* The pieces of a set do not overlap.
LEMMA PiecesTidy ==
  ASSUME NEW A \in SUBSET Addr, NEW ref \in MapRef
  PROVE  Tidy(Pieces(A, ref))
<1>1. ASSUME NEW p \in Pieces(A, ref), NEW q \in Pieces(A, ref), ~ Apart(p, q)
      PROVE  p = q
  <2>1. PICK r \in Runs(A) : p = [from |-> r[1], to |-> r[2], ref |-> ref]
    BY DEF Pieces
  <2>2. PICK t \in Runs(A) : q = [from |-> t[1], to |-> t[2], ref |-> ref]
    BY DEF Pieces
  <2>3. PICK x : x \in r[1] .. r[2] /\ x \in t[1] .. t[2]
    BY <1>1, <2>1, <2>2 DEF Apart, Span
  <2>4. r = t
    BY <2>3, RunsDisjoint
  <2> QED BY <2>1, <2>2, <2>4
<1> QED BY <1>1, PiecesInside DEF Tidy

\* A submap that is not cut comes back whole.
LEMMA PieceWhole ==
  ASSUME NEW s \in SubMap, s.from <= s.to
  PROVE  s \in Pieces(Span(s), s.ref)
<1> DEFINE r == <<s.from, s.to>>
<1>1. s.from \in Nat /\ s.to \in Nat /\ s = [from |-> s.from, to |-> s.to, ref |-> s.ref]
  BY DEF SubMap, Addr
<1>2. r \in Runs(Span(s))
  BY <1>1 DEF Runs, Span
<1>3. s = [from |-> r[1], to |-> r[2], ref |-> s.ref]
  BY <1>1
<1> QED BY <1>2, <1>3 DEF Pieces

\* What a cut leaves is a piece of one of the submaps, outside the cut.
LEMMA CarveInside ==
  ASSUME NEW S, Tidy(S), NEW A, NEW p \in Carve(S, A)
  PROVE  \E s \in S : /\ p \in Pieces(Span(s) \ A, s.ref)
                      /\ p \in SubMap /\ p.from <= p.to
                      /\ Span(p) \subseteq Span(s) \ A
<1>1. PICK s \in S : p \in Pieces(Span(s) \ A, s.ref)
  BY DEF Carve
<1>2. Span(s) \ A \in SUBSET Addr /\ s.ref \in MapRef
  BY SpanInside DEF Tidy
<1> QED BY <1>1, <1>2, PiecesInside

\* A cut leaves disjoint submaps.
LEMMA CarveTidy ==
  ASSUME NEW S, Tidy(S), NEW A
  PROVE  Tidy(Carve(S, A))
<1>1. ASSUME NEW p \in Carve(S, A), NEW q \in Carve(S, A), p # q
      PROVE  Apart(p, q)
  <2>1. PICK s \in S : p \in Pieces(Span(s) \ A, s.ref) /\ Span(p) \subseteq Span(s) \ A
    BY CarveInside
  <2>2. PICK t \in S : q \in Pieces(Span(t) \ A, t.ref) /\ Span(q) \subseteq Span(t) \ A
    BY CarveInside
  <2>3. CASE s = t
    <3>1. Span(s) \ A \in SUBSET Addr /\ s.ref \in MapRef
      BY SpanInside DEF Tidy
    <3> QED BY <1>1, <2>1, <2>2, <2>3, <3>1, PiecesTidy DEF Tidy
  <2>4. CASE s # t
    BY <2>1, <2>2, <2>4 DEF Tidy, Apart
  <2> QED BY <2>3, <2>4
<1> QED BY <1>1, CarveInside DEF Tidy

\* A cut leaves nothing inside the range that was cut (io_bank.c:276).
LEMMA CarveAway ==
  \A S, A : Tidy(S) => \A p \in Carve(S, A) : Span(p) \cap A = {}
<1> SUFFICES ASSUME NEW S, NEW A, Tidy(S), NEW p \in Carve(S, A)
             PROVE  Span(p) \cap A = {}
  OBVIOUS
<1>1. PICK s \in S : p \in Pieces(Span(s) \ A, s.ref) /\ Span(p) \subseteq Span(s) \ A
  BY CarveInside
<1> QED BY <1>1

\* Two trees that share no address make one.
LEMMA TidyUnion ==
  ASSUME NEW S, NEW T, Tidy(S), Tidy(T), \A s \in S, t \in T : Apart(s, t)
  PROVE  Tidy(S \cup T)
BY DEF Tidy, Apart

\* A part of a tidy set is tidy.
LEMMA TidySubset ==
  ASSUME NEW S, Tidy(S), NEW T \in SUBSET S
  PROVE  Tidy(T)
BY DEF Tidy

-----------------------------------------------------------------------------
(* Sound maps and banks, and the references of a bank.                      *)

SoundMaps(maps) ==
  \A id \in MapIds : maps[id] # NoMap =>
    /\ maps[id].from \in Addr /\ maps[id].to \in Addr
    /\ maps[id].from <= maps[id].to
    /\ maps[id].ts \in Nat

SoundBank(bank) ==
  /\ bank \in Bank
  /\ Tidy(bank.submaps)
  /\ bank.lastUsed \in bank.submaps \cup {NoSubMap}

\* What makes a record of the four fields a sound bank.
LEMMA SoundRecord ==
  ASSUME NEW S, Tidy(S), NEW refs \in Seq(MapRef), NEW last \in S \cup {NoSubMap},
         NEW drain \in BOOLEAN
  PROVE  SoundBank([submaps |-> S, maprefs |-> refs, lastUsed |-> last, drainMe |-> drain])
BY DEF SoundBank, Bank, Tidy

\* A bank is the record of its four fields.
LEMMA BankFields ==
  ASSUME NEW bank \in Bank
  PROVE  /\ bank.submaps \in SUBSET SubMap
         /\ bank.maprefs \in Seq(MapRef)
         /\ bank.lastUsed \in SubMap \cup {NoSubMap}
         /\ bank.drainMe \in BOOLEAN
         /\ bank = [submaps |-> bank.submaps, maprefs |-> bank.maprefs,
                    lastUsed |-> bank.lastUsed, drainMe |-> bank.drainMe]
BY DEF Bank

\* A bank that r_io_bank_new or r_io_bank_clear leaves is sound.
LEMMA EmptyBankSound == SoundBank(EmptyBank)
<1>1. Tidy({})
  BY DEF Tidy
<1>2. <<>> \in Seq(MapRef)
  OBVIOUS
<1> QED BY <1>1, <1>2 DEF EmptyBank, SoundBank, Bank

\* Resetting the cached node keeps a bank sound, and keeps its list.
LEMMA FreshSound ==
  ASSUME NEW bank, SoundBank(bank)
  PROVE  SoundBank(Fresh(bank)) /\ Fresh(bank).maprefs = bank.maprefs
BY DEF SoundBank, Fresh, Bank

\* A reference to an existing map is well formed, and so is its submap.
LEMMA RefOfType ==
  ASSUME NEW maps, SoundMaps(maps), NEW id \in MapIds, maps[id] # NoMap
  PROVE  /\ RefOf(maps, id) \in MapRef
         /\ SubMapOf(maps, RefOf(maps, id)) \in SubMap
         /\ SubMapOf(maps, RefOf(maps, id)).from <= SubMapOf(maps, RefOf(maps, id)).to
BY DEF SoundMaps, RefOf, SubMapOf, MapRef, SubMap

\* The submap of a reference that resolves is well formed and not empty.
LEMMA LiveType ==
  ASSUME NEW maps, SoundMaps(maps), NEW ref \in MapRef, Live(maps, ref)
  PROVE  /\ SubMapOf(maps, ref) \in SubMap
         /\ SubMapOf(maps, ref).from <= SubMapOf(maps, ref).to
BY DEF SoundMaps, Live, SubMapOf, MapRef, SubMap

\* A map the bank has is found, from the head of the list and from its tail.
LEMMA PositionFound ==
  ASSUME NEW bank \in Bank, NEW id, HasMap(bank, id)
  PROVE  /\ Lowest(Positions(bank, id)) \in 1 .. Len(bank.maprefs)
         /\ Highest(Positions(bank, id)) \in 1 .. Len(bank.maprefs)
<1> DEFINE K == Positions(bank, id)
           n == Len(bank.maprefs)
<1>1. n \in Nat /\ K \subseteq 1 .. n /\ K # {}
  BY DEF Positions, HasMap, Bank
<1> HIDE DEF K, n
<1>2. K \in SUBSET Nat /\ K \in SUBSET (0 .. n)
  BY <1>1
<1>3. \E x \in K : \A y \in K : x <= y
  BY <1>1, <1>2, LeastExists
<1>4. \E x \in K : \A y \in K : x >= y
  <2>1. PICK x \in K : \A y \in K : y <= x
    BY <1>1, <1>2, GreatestExists
  <2>2. \A y \in K : x >= y
    BY <1>2, <2>1
  <2> QED BY <2>2
<1>5. Lowest(K) \in K
  BY <1>3 DEF Lowest
<1>6. Highest(K) \in K
  BY <1>4 DEF Highest
<1> QED BY <1>1, <1>5, <1>6 DEF K, n

\* Removing a reference leaves a list of references.
LEMMA WithoutType ==
  ASSUME NEW refs \in Seq(MapRef), refs # <<>>, NEW k
  PROVE  Without(refs, k) \in Seq(MapRef)
<1>1. Len(refs) - 1 \in Nat
  BY LenProperties, EmptySeq
<1>2. \A j \in 1 .. Len(refs) - 1 :
        (IF j < k THEN refs[j] ELSE refs[j + 1]) \in MapRef
  BY ElementOfSeq
<1>3. Without(refs, k) \in [1 .. Len(refs) - 1 -> MapRef]
  BY <1>2 DEF Without
<1> QED BY <1>1, <1>3, SeqDef

-----------------------------------------------------------------------------
(* Putting a map into a bank.                                               *)

\* A new submap fits exactly where the others are carved away.
LEMMA CarveAdd ==
  ASSUME NEW S, Tidy(S), NEW sm \in SubMap, sm.from <= sm.to
  PROVE  Tidy(Carve(S, Span(sm)) \cup {sm})
<1>1. Tidy(Carve(S, Span(sm)))
  BY CarveTidy
<1>2. Tidy({sm})
  BY DEF Tidy
<1>3. ASSUME NEW p \in Carve(S, Span(sm)) PROVE Apart(p, sm)
  BY <1>3, CarveAway DEF Apart
<1> QED BY <1>1, <1>2, <1>3, TidyUnion

\* The submaps that a set of addresses does not touch survive the carving.
LEMMA CarveKeeps ==
  ASSUME NEW S, Tidy(S), NEW A, NEW s \in S, Span(s) \cap A = {}
  PROVE  s \in Carve(S, A)
<1>1. s \in Pieces(Span(s), s.ref)
  BY PieceWhole DEF Tidy
<1>2. Span(s) \ A = Span(s)
  OBVIOUS
<1> QED BY <1>1, <1>2 DEF Carve

\* Filling the addresses no submap covers.
LEMMA FillAdd ==
  ASSUME NEW S, Tidy(S), NEW A \in SUBSET Addr, NEW ref \in MapRef
  PROVE  Tidy(S \cup Pieces(A \ Covered(S), ref))
<1>1. Tidy(Pieces(A \ Covered(S), ref))
  BY PiecesTidy
<1>2. ASSUME NEW s \in S, NEW p \in Pieces(A \ Covered(S), ref)
      PROVE  Apart(s, p)
  <2>1. Span(p) \subseteq A \ Covered(S)
    BY PiecesInside
  <2> QED BY <2>1 DEF Apart, Covered
<1> QED BY <1>1, <1>2, TidyUnion

\* r_io_bank_map_add_top keeps the bank sound.
LEMMA AddTopSound ==
  ASSUME NEW maps, SoundMaps(maps), NEW id \in MapIds, NEW bank, SoundBank(bank)
  PROVE  SoundBank(AddTop(maps, bank, id))
<1>1. CASE maps[id] = NoMap
  BY <1>1 DEF AddTop
<1>2. CASE maps[id] # NoMap
  <2> DEFINE ref == RefOf(maps, id)
             sm == SubMapOf(maps, ref)
             S == Carve(bank.submaps, Span(sm)) \cup {sm}
             last == IF Hits(bank.submaps, sm) = {} THEN bank.lastUsed ELSE NoSubMap
  <2>1. ref \in MapRef /\ sm \in SubMap /\ sm.from <= sm.to
    BY <1>2, RefOfType
  <2>2. bank \in Bank /\ Tidy(bank.submaps)
    BY DEF SoundBank
  <2>3. Tidy(S)
    BY <2>1, <2>2, CarveAdd
  <2>4. last \in S \cup {NoSubMap}
    <3>1. CASE Hits(bank.submaps, sm) = {} /\ bank.lastUsed \in bank.submaps
      <4>1. Span(bank.lastUsed) \cap Span(sm) = {}
        BY <3>1 DEF Hits, Overlaps
      <4> QED BY <2>2, <3>1, <4>1, CarveKeeps
    <3> QED BY <3>1 DEF SoundBank
  <2>5. Append(bank.maprefs, ref) \in Seq(MapRef)
    BY <2>1, <2>2, BankFields, AppendProperties
  <2>6. AddTop(maps, bank, id)
          = [submaps |-> S, maprefs |-> Append(bank.maprefs, ref),
             lastUsed |-> last, drainMe |-> bank.drainMe]
    BY <1>2, <2>2 DEF AddTop, Bank
  <2>7. bank.drainMe \in BOOLEAN
    BY <2>2, BankFields
  <2> HIDE DEF S, last, ref, sm
  <2> QED BY <2>3, <2>4, <2>5, <2>6, <2>7, SoundRecord
<1> QED BY <1>1, <1>2

\* r_io_bank_map_add_bottom keeps the bank sound.
LEMMA AddBottomSound ==
  ASSUME NEW maps, SoundMaps(maps), NEW id \in MapIds, NEW bank, SoundBank(bank)
  PROVE  SoundBank(AddBottom(maps, bank, id))
<1>1. CASE maps[id] = NoMap
  BY <1>1 DEF AddBottom
<1>2. CASE maps[id] # NoMap
  <2> DEFINE ref == RefOf(maps, id)
             sm == SubMapOf(maps, ref)
             S == bank.submaps \cup Pieces(Span(sm) \ Covered(bank.submaps), ref)
  <2>1. ref \in MapRef /\ sm \in SubMap
    BY <1>2, RefOfType
  <2>2. bank \in Bank /\ Tidy(bank.submaps)
    BY DEF SoundBank
  <2>3. Tidy(S)
    BY <2>1, <2>2, SpanInside, FillAdd
  <2>4. bank.lastUsed \in S \cup {NoSubMap}
    BY DEF SoundBank
  <2>5. <<ref>> \o bank.maprefs \in Seq(MapRef)
    BY <2>1, <2>2, BankFields, ConcatProperties
  <2>6. AddBottom(maps, bank, id)
          = [submaps |-> S, maprefs |-> <<ref>> \o bank.maprefs,
             lastUsed |-> bank.lastUsed, drainMe |-> bank.drainMe]
    BY <1>2, <2>2 DEF AddBottom, Bank
  <2>7. bank.drainMe \in BOOLEAN
    BY <2>2, BankFields
  <2> HIDE DEF S, ref, sm
  <2> QED BY <2>3, <2>4, <2>5, <2>6, <2>7, SoundRecord
<1> QED BY <1>1, <1>2

\* r_io_bank_map_priorize keeps the bank sound.
LEMMA PriorizeSound ==
  ASSUME NEW maps, SoundMaps(maps), NEW id \in MapIds, NEW bank, SoundBank(bank)
  PROVE  SoundBank(Priorize(maps, bank, id))
<1> DEFINE k == Lowest(Positions(bank, id))
           ref == bank.maprefs[k]
           sm == SubMapOf(maps, ref)
<1>1. CASE /\ HasMap(bank, id) /\ k # Len(bank.maprefs)
           /\ Live(maps, ref) /\ Hits(bank.submaps, sm) # {}
  <2> DEFINE S == Carve(bank.submaps, Span(sm)) \cup {sm}
             refs == Append(Without(bank.maprefs, k), ref)
             drain == bank.drainMe \/ ~ \E s \in bank.submaps :
                                          s.from = sm.from /\ s.to = sm.to
  <2>1. bank \in Bank /\ Tidy(bank.submaps)
    BY DEF SoundBank
  <2>2. k \in 1 .. Len(bank.maprefs)
    BY <1>1, <2>1, PositionFound
  <2>3. ref \in MapRef /\ bank.maprefs # <<>>
    BY <2>1, <2>2, BankFields, ElementOfSeq
  <2>4. sm \in SubMap /\ sm.from <= sm.to
    BY <1>1, <2>3, LiveType
  <2>5. Tidy(S)
    BY <2>1, <2>4, CarveAdd
  <2>6. refs \in Seq(MapRef)
    <3>1. Without(bank.maprefs, k) \in Seq(MapRef)
      BY <2>1, <2>3, BankFields, WithoutType
    <3> QED BY <2>3, <3>1, AppendProperties
  <2>7. drain \in BOOLEAN
    BY <2>1, BankFields
  <2>8. Priorize(maps, bank, id)
          = [submaps |-> S, maprefs |-> refs, lastUsed |-> NoSubMap, drainMe |-> drain]
    BY <1>1 DEF Priorize
  <2> HIDE DEF S, refs, drain
  <2> QED BY <2>5, <2>6, <2>7, <2>8, SoundRecord
<1>2. CASE ~ (/\ HasMap(bank, id) /\ k # Len(bank.maprefs)
              /\ Live(maps, ref) /\ Hits(bank.submaps, sm) # {})
  BY <1>2 DEF Priorize
<1> QED BY <1>1, <1>2

-----------------------------------------------------------------------------
(* Taking a map out of a bank.                                              *)

\* At most one reference serves an address.
LEMMA ServesOnce ==
  ASSUME NEW maps, NEW refs, NEW k \in Nat, NEW a, NEW i, NEW j,
         Serves(maps, refs, k, i, a), Serves(maps, refs, k, j, a)
  PROVE  i = j
BY DEF Serves

\* _delete_submaps_from_bank_tree keeps the bank sound and its list as it is.
LEMMA WithdrawSound ==
  ASSUME NEW maps, NEW bank, SoundBank(bank), bank.lastUsed = NoSubMap,
         NEW k \in 1 .. Len(bank.maprefs), NEW id, NEW x
  PROVE  LET left == Withdraw(maps, bank, k, id, x)
         IN /\ SoundBank(left)
            /\ left.maprefs = bank.maprefs
            /\ left.lastUsed = NoSubMap
<1> DEFINE S == bank.submaps
           refs == bank.maprefs
           gone == {s \in S : s.ref.id = id /\ Overlaps(s, x)}
           Left(s, i) == {a \in Span(s) : Serves(maps, refs, k, i, a)}
           fill == UNION {Pieces(Left(s, i), refs[i]) : s \in gone, i \in 1 .. k - 1}
<1>1. bank \in Bank /\ Tidy(S) /\ k \in Nat /\ gone \subseteq S
  BY BankFields DEF SoundBank
<1>2. ASSUME NEW s \in S, NEW i \in 1 .. k - 1
      PROVE  /\ Left(s, i) \in SUBSET Addr
             /\ Left(s, i) \subseteq Span(s)
             /\ refs[i] \in MapRef
  <2>1. s \in SubMap
    BY <1>1 DEF Tidy
  <2>2. refs \in Seq(MapRef) /\ i \in 1 .. Len(refs)
    BY <1>1, BankFields
  <2> QED BY <2>1, <2>2, SpanInside, ElementOfSeq
<1>3. ASSUME NEW p \in fill
      PROVE  \E s \in gone, i \in 1 .. k - 1 :
               /\ p \in Pieces(Left(s, i), refs[i])
               /\ p \in SubMap /\ p.from <= p.to /\ Span(p) \subseteq Left(s, i)
  <2>1. PICK s \in gone, i \in 1 .. k - 1 : p \in Pieces(Left(s, i), refs[i])
    OBVIOUS
  <2> HIDE DEF Left, gone, S, refs
  <2> QED BY <1>1, <1>2, <2>1, PiecesInside
<1>4. ASSUME NEW p \in fill, NEW q \in fill, p # q
      PROVE  Apart(p, q)
  <2>1. PICK s \in gone, i \in 1 .. k - 1 :
          p \in Pieces(Left(s, i), refs[i]) /\ Span(p) \subseteq Left(s, i)
    <3> HIDE DEF Left, gone, fill, refs
    <3> QED BY <1>3
  <2>2. PICK t \in gone, j \in 1 .. k - 1 :
          q \in Pieces(Left(t, j), refs[j]) /\ Span(q) \subseteq Left(t, j)
    <3> HIDE DEF Left, gone, fill, refs
    <3> QED BY <1>3
  <2>3. CASE s # t
    <3>1. Apart(s, t)
      BY <1>1, <2>3 DEF Tidy
    <3>2. Left(s, i) \subseteq Span(s) /\ Left(t, j) \subseteq Span(t)
      OBVIOUS
    <3> HIDE DEF Left
    <3> QED BY <2>1, <2>2, <3>1, <3>2 DEF Apart
  <2>4. CASE i # j
    <3>1. Left(s, i) \cap Left(t, j) = {}
      BY <1>1, <2>4, ServesOnce
    <3> HIDE DEF Left
    <3> QED BY <2>1, <2>2, <3>1 DEF Apart
  <2>5. CASE s = t /\ i = j
    <3>1. Left(s, i) \in SUBSET Addr /\ refs[i] \in MapRef
      BY <1>1, <1>2
    <3> HIDE DEF Left, gone, refs
    <3> QED BY <1>4, <2>1, <2>2, <2>5, <3>1, PiecesTidy DEF Tidy
  <2> QED BY <2>3, <2>4, <2>5
<1>5. Tidy(fill)
  <2> HIDE DEF fill, Left, gone
  <2> QED BY <1>3, <1>4 DEF Tidy
<1>6. ASSUME NEW t \in S \ gone, NEW p \in fill
      PROVE  Apart(t, p)
  <2>1. PICK s \in gone, i \in 1 .. k - 1 : Span(p) \subseteq Left(s, i)
    <3> HIDE DEF Left, gone, fill, refs
    <3> QED BY <1>3
  <2>2. Apart(t, s)
    BY <1>1 DEF Tidy
  <2>3. Left(s, i) \subseteq Span(s)
    OBVIOUS
  <2> HIDE DEF Left
  <2> QED BY <2>1, <2>2, <2>3 DEF Apart
<1>7. Tidy((S \ gone) \cup fill)
  <2>1. Tidy(S \ gone)
    BY <1>1, TidySubset
  <2> HIDE DEF fill, gone, S
  <2> QED BY <1>5, <1>6, <2>1, TidyUnion
<1> DEFINE left == Withdraw(maps, bank, k, id, x)
<1>8. left = [submaps |-> (S \ gone) \cup fill, maprefs |-> refs,
              lastUsed |-> NoSubMap, drainMe |-> bank.drainMe \/ fill # {}]
  <2>1. left = [bank EXCEPT !.submaps = (bank.submaps \ gone) \cup fill,
                            !.drainMe = bank.drainMe \/ fill # {}]
    BY DEF Withdraw
  <2> HIDE DEF left, gone, fill
  <2> QED BY <1>1, <2>1 DEF Bank
<1>9. refs \in Seq(MapRef) /\ (bank.drainMe \/ fill # {}) \in BOOLEAN
  BY <1>1, BankFields
<1>10. SoundBank(left)
  <2> HIDE DEF fill, gone, S, refs, left
  <2> QED BY <1>7, <1>8, <1>9, SoundRecord
<1>11. left.maprefs = refs /\ left.lastUsed = NoSubMap
  BY <1>8
<1> QED BY <1>10, <1>11

\* Removing a reference from the list keeps the bank sound.
LEMMA ForgetSound ==
  ASSUME NEW bank, SoundBank(bank), bank.maprefs # <<>>, NEW k
  PROVE  SoundBank(Forget(bank, k))
<1>1. bank \in Bank /\ Without(bank.maprefs, k) \in Seq(MapRef)
  BY BankFields, WithoutType DEF SoundBank
<1> QED BY <1>1 DEF Forget, SoundBank, Bank

\* Withdrawing the submaps of a map and then its reference keeps the bank sound.
LEMMA WithdrawForgetSound ==
  ASSUME NEW maps, NEW bank, SoundBank(bank),
         NEW k \in 1 .. Len(bank.maprefs), NEW id, NEW x
  PROVE  SoundBank(Forget(Withdraw(maps, Fresh(bank), k, id, x), k))
<1> DEFINE fresh == Fresh(bank)
           left == Withdraw(maps, fresh, k, id, x)
<1>1. SoundBank(fresh) /\ fresh.maprefs = bank.maprefs
  BY FreshSound
<1>2. fresh.lastUsed = NoSubMap
  BY DEF SoundBank, Bank, Fresh
<1>3. SoundBank(left) /\ left.maprefs = bank.maprefs
  <2> HIDE DEF fresh
  <2> QED BY <1>1, <1>2, WithdrawSound
<1>4. bank.maprefs # <<>>
  BY BankFields DEF SoundBank
<1> HIDE DEF left
<1> QED BY <1>3, <1>4, ForgetSound DEF left

\* r_io_bank_del_map keeps the bank sound.
LEMMA DelMapSound ==
  ASSUME NEW maps, NEW id, NEW bank, SoundBank(bank)
  PROVE  SoundBank(DelMap(maps, bank, id))
<1>1. CASE maps[id] # NoMap /\ HasMap(bank, id)
  <2> DEFINE k == Highest(Positions(bank, id))
  <2>1. k \in 1 .. Len(bank.maprefs)
    BY <1>1, PositionFound DEF SoundBank
  <2>2. DelMap(maps, bank, id)
          = Forget(Withdraw(maps, Fresh(bank), k, id, maps[id]), k)
    BY <1>1 DEF DelMap
  <2> HIDE DEF k
  <2> QED BY <2>1, <2>2, WithdrawForgetSound
<1>2. CASE maps[id] = NoMap \/ ~ HasMap(bank, id)
  BY <1>2, FreshSound DEF DelMap
<1> QED BY <1>1, <1>2

\* r_io_bank_map_depriorize keeps the bank sound.
LEMMA DepriorizeSound ==
  ASSUME NEW maps, SoundMaps(maps), NEW id \in MapIds, NEW bank, SoundBank(bank)
  PROVE  SoundBank(Depriorize(maps, bank, id))
<1> DEFINE k == Lowest(Positions(bank, id))
<1>1. CASE maps[id] # NoMap /\ HasMap(bank, id) /\ k # 1
  <2>1. k \in 1 .. Len(bank.maprefs)
    BY <1>1, PositionFound DEF SoundBank
  <2>2. Depriorize(maps, bank, id)
          = AddBottom(maps, Forget(Withdraw(maps, Fresh(bank), k, id, maps[id]), k), id)
    BY <1>1 DEF Depriorize
  <2> HIDE DEF k
  <2> QED BY <2>1, <2>2, WithdrawForgetSound, AddBottomSound
<1>2. CASE maps[id] = NoMap \/ ~ HasMap(bank, id) \/ k = 1
  BY <1>2 DEF Depriorize
<1> QED BY <1>1, <1>2

-----------------------------------------------------------------------------
(* Moving a map, merging neighbours, and using the tree.                    *)

\* The submaps above keep their addresses; the rest makes room for sm.
LEMMA UpdateTidy ==
  ASSUME NEW S, Tidy(S), NEW above \in SUBSET S, NEW ref \in MapRef,
         NEW A \in SUBSET Addr
  PROVE  Tidy(above \cup Carve(S \ above, A) \cup Pieces(A \ Covered(above), ref))
<1> DEFINE below == Carve(S \ above, A)
           pieces == Pieces(A \ Covered(above), ref)
<1>1. Tidy(above) /\ Tidy(S \ above)
  BY TidySubset
<1>2. Tidy(below)
  BY <1>1, CarveTidy
<1>3. Tidy(pieces)
  BY PiecesTidy
<1>4. ASSUME NEW s \in above, NEW p \in below
      PROVE  Apart(s, p)
  <2>1. PICK t \in S \ above : p \in Pieces(Span(t) \ A, t.ref) /\ Span(p) \subseteq Span(t) \ A
    BY <1>1, CarveInside
  <2>2. Apart(s, t)
    BY DEF Tidy
  <2> QED BY <2>1, <2>2 DEF Apart
<1>5. Tidy(above \cup below)
  <2> HIDE DEF below
  <2> QED BY <1>1, <1>2, <1>4, TidyUnion
<1>6. ASSUME NEW p \in pieces
      PROVE  Span(p) \subseteq A \ Covered(above)
  BY PiecesInside
<1>7. ASSUME NEW s \in above \cup below, NEW p \in pieces
      PROVE  Apart(s, p)
  <2>1. CASE s \in above
    BY <1>6, <2>1 DEF Covered, Apart
  <2>2. CASE s \in below
    <3>1. Span(s) \cap A = {}
      BY <1>1, <2>2, CarveAway
    <3> QED BY <1>6, <3>1 DEF Apart
  <2> QED BY <2>1, <2>2
<1>8. Tidy((above \cup below) \cup pieces)
  <2> HIDE DEF below, pieces
  <2> QED BY <1>3, <1>5, <1>7, TidyUnion
<1> QED BY <1>8

\* Refilling the tree, with the fragments announced, keeps the bank sound.
LEMMA RefillSound ==
  ASSUME NEW bank, SoundBank(bank), bank.lastUsed = NoSubMap, NEW S, Tidy(S), NEW hits
  PROVE  SoundBank([bank EXCEPT !.submaps = S, !.drainMe = bank.drainMe \/ hits # {}])
<1>1. bank \in Bank /\ S \in SUBSET SubMap
  BY DEF SoundBank, Tidy
<1> QED BY <1>1 DEF SoundBank, Bank

\* r_io_bank_update_map_boundaries keeps the bank sound.
LEMMA UpdateBoundariesSound ==
  ASSUME NEW maps, SoundMaps(maps), NEW id, NEW bank, SoundBank(bank), NEW old
  PROVE  SoundBank(UpdateBoundaries(maps, bank, id, old))
<1> DEFINE k == Highest(Positions(bank, id))
           ref == bank.maprefs[k]
           sm == SubMapOf(maps, ref)
           left == Withdraw(maps, Fresh(bank), k, id, old)
           above == {s \in left.submaps :
                       \/ s.ref.id = id
                       \/ \E j \in k + 1 .. Len(bank.maprefs) :
                            bank.maprefs[j].id = s.ref.id}
           S == above \cup Carve(left.submaps \ above, Span(sm))
                      \cup Pieces(Span(sm) \ Covered(above), ref)
<1>1. CASE HasMap(bank, id) /\ Live(maps, ref) /\ Span(sm) # Span(old)
  <2>1. k \in 1 .. Len(bank.maprefs)
    BY <1>1, PositionFound DEF SoundBank
  <2>2. ref \in MapRef
    BY <2>1, BankFields, ElementOfSeq DEF SoundBank
  <2>3. sm \in SubMap
    BY <1>1, <2>2, LiveType
  <2>4. /\ SoundBank(Fresh(bank)) /\ Fresh(bank).lastUsed = NoSubMap
        /\ Fresh(bank).maprefs = bank.maprefs
    BY FreshSound DEF SoundBank, Bank, Fresh
  <2>5. SoundBank(left) /\ left.lastUsed = NoSubMap
    <3> DEFINE fresh == Fresh(bank)
    <3>1. SoundBank(fresh) /\ fresh.lastUsed = NoSubMap /\ k \in 1 .. Len(fresh.maprefs)
      BY <2>1, <2>4
    <3> HIDE DEF fresh, k
    <3>2. SoundBank(Withdraw(maps, fresh, k, id, old))
          /\ Withdraw(maps, fresh, k, id, old).lastUsed = NoSubMap
      BY <3>1, WithdrawSound
    <3> QED BY <3>2 DEF fresh
  <2>6. left \in Bank /\ Tidy(left.submaps)
    BY <2>5 DEF SoundBank
  <2>7. Tidy(S)
    <3> DEFINE A == Span(sm)
    <3>1. above \in SUBSET left.submaps /\ A \in SUBSET Addr
      BY <2>3, SpanInside
    <3> HIDE DEF above, left, A, ref
    <3>2. Tidy(above \cup Carve(left.submaps \ above, A) \cup Pieces(A \ Covered(above), ref))
      BY <2>2, <2>6, <3>1, UpdateTidy
    <3> QED BY <3>2 DEF A
  <2>8. UpdateBoundaries(maps, bank, id, old)
          = [left EXCEPT !.submaps = S,
                         !.drainMe = left.drainMe \/ Hits(left.submaps, sm) # {}]
    BY <1>1 DEF UpdateBoundaries
  <2> DEFINE hits == Hits(left.submaps, sm)
  <2>9. SoundBank([left EXCEPT !.submaps = S, !.drainMe = left.drainMe \/ hits # {}])
    <3> HIDE DEF S, left, hits
    <3> QED BY <2>5, <2>7, RefillSound, Zenon
  <2> HIDE DEF S, left, sm
  <2> QED BY <2>8, <2>9, Zenon
<1>2. CASE ~ (HasMap(bank, id) /\ Live(maps, ref) /\ Span(sm) # Span(old))
  BY <1>2 DEF UpdateBoundaries
<1> QED BY <1>1, <1>2

\* Two chains that cannot be extended share no address.
LEMMA LongestApart ==
  ASSUME NEW S, Tidy(S), NEW a \in S, NEW b \in S, NEW c \in S, NEW d \in S,
         Chained(S, a, b), Chained(S, c, d),
         \A u \in S : Chained(S, u, c) => u = c,
         \A u \in S : Chained(S, b, u) => u = b,
         a.from <= c.from, a # c
  PROVE  b.to < c.from
<1>1. \A s \in S : s.from \in Nat /\ s.to \in Nat /\ s.from <= s.to
  BY MaxAddrAssumption DEF Tidy, SubMap, Addr
<1>2. ASSUME c.from <= b.from PROVE FALSE
  <2>1. Chained(S, a, c)
    BY <1>1, <1>2 DEF Chained
  <2> QED BY <2>1
<1>3. b.from < c.from
  BY <1>1, <1>2
<1>4. Apart(b, c)
  BY <1>1, <1>3 DEF Tidy
<1> QED BY <1>1, <1>3, <1>4 DEF Apart, Span

\* A longest chain of neighbours is determined by where it starts.
LEMMA LongestUnique ==
  ASSUME NEW S, Tidy(S), NEW a \in S, NEW b \in S, NEW d \in S,
         Chained(S, a, b), Chained(S, a, d), b.from <= d.from,
         \A u \in S : Chained(S, b, u) => u = b
  PROVE  b = d
<1>1. \A s \in S : s.from \in Nat
  BY MaxAddrAssumption DEF Tidy, SubMap, Addr
<1>2. a.from <= b.from /\ b.ref = a.ref
  BY <1>1 DEF Chained
<1>3. Chained(S, b, d)
  BY <1>1, <1>2 DEF Chained
<1> QED BY <1>3

\* r_io_bank_drain keeps the bank sound: merged submaps do not overlap.
LEMMA DrainSound ==
  ASSUME NEW bank, SoundBank(bank)
  PROVE  SoundBank(Drain(bank))
<1> DEFINE S == bank.submaps
           longest == {c \in S \X S :
                         /\ Chained(S, c[1], c[2])
                         /\ \A u \in S : /\ Chained(S, u, c[1]) => u = c[1]
                                         /\ Chained(S, c[2], u) => u = c[2]}
           merged(c) == [from |-> c[1].from, to |-> c[2].to, ref |-> c[1].ref]
           T == {merged(c) : c \in longest}
<1>1. CASE bank.drainMe
  <2>1. bank \in Bank /\ Tidy(S)
    BY DEF SoundBank
  <2>2. \A s \in S : /\ s \in SubMap /\ s.from <= s.to
                     /\ s.from \in Nat /\ s.to \in Nat
    BY <2>1, MaxAddrAssumption DEF Tidy, SubMap, Addr
  <2>3. ASSUME NEW c \in longest
        PROVE  /\ c[1] \in S /\ c[2] \in S /\ c = <<c[1], c[2]>>
               /\ Chained(S, c[1], c[2])
               /\ \A u \in S : /\ Chained(S, u, c[1]) => u = c[1]
                               /\ Chained(S, c[2], u) => u = c[2]
    OBVIOUS
  <2>4. ASSUME NEW c \in longest
        PROVE  merged(c) \in SubMap /\ merged(c).from <= merged(c).to
    <3>1. c[1] \in SubMap /\ c[2] \in SubMap /\ c[1].from <= c[2].from
      BY <2>2, <2>3 DEF Chained
    <3>2. c[1].from <= c[2].to
      BY <2>2, <2>3, <3>1
    <3> QED BY <3>1, <3>2 DEF SubMap
  <2>5. ASSUME NEW c \in longest, NEW d \in longest, c[1].from <= d[1].from, c # d
        PROVE  Apart(merged(c), merged(d))
    <3>1. CASE c[1] # d[1]
      <4>1. c[2].to < d[1].from
        BY <2>1, <2>3, <2>5, <3>1, LongestApart
      <4> QED BY <2>2, <2>3, <4>1 DEF Apart, Span
    <3>2. CASE c[1] = d[1]
      <4>1. c[2].from <= d[2].from \/ d[2].from <= c[2].from
        BY <2>2, <2>3
      <4>2. c[2] = d[2]
        BY <2>1, <2>3, <3>2, <4>1, LongestUnique
      <4> QED BY <2>3, <2>5, <3>2, <4>2
    <3> QED BY <3>1, <3>2
  <2>6. ASSUME NEW s \in T, NEW t \in T, s # t
        PROVE  Apart(s, t)
    <3>1. PICK c \in longest : s = merged(c)
      OBVIOUS
    <3>2. PICK d \in longest : t = merged(d)
      OBVIOUS
    <3>3. c # d
      BY <2>6, <3>1, <3>2
    <3>4. c[1].from <= d[1].from \/ d[1].from <= c[1].from
      BY <2>2, <2>3
    <3> HIDE DEF longest, merged, T
    <3>5. Apart(s, t) \/ Apart(t, s)
      BY <2>5, <3>1, <3>2, <3>3, <3>4
    <3> QED BY <3>5 DEF Apart
  <2>7. Tidy(T)
    <3>1. \A t \in T : t \in SubMap /\ t.from <= t.to
      <4> HIDE DEF longest, merged
      <4> QED BY <2>4
    <3> HIDE DEF T
    <3> QED BY <2>6, <3>1 DEF Tidy
  <2>8. Drain(bank) = [submaps |-> T, maprefs |-> bank.maprefs,
                       lastUsed |-> NoSubMap, drainMe |-> FALSE]
    <3>1. Drain(bank) = [bank EXCEPT !.submaps = T, !.lastUsed = NoSubMap,
                                     !.drainMe = FALSE]
      BY <1>1 DEF Drain
    <3> HIDE DEF T
    <3> QED BY <2>1, <3>1 DEF Bank
  <2>9. bank.maprefs \in Seq(MapRef)
    BY <2>1, BankFields
  <2> HIDE DEF T
  <2> QED BY <2>7, <2>8, <2>9, SoundRecord
<1>2. CASE ~ bank.drainMe
  BY <1>2 DEF Drain
<1> QED BY <1>1, <1>2

\* An access leaves a cached node that is in the tree.
LEMMA TouchSound ==
  ASSUME NEW maps, NEW bank, SoundBank(bank), NEW x
  PROVE  SoundBank(Touch(maps, bank, x))
<1> DEFINE hit == Hits(bank.submaps, x)
           dead == {s \in hit : ~ Live(maps, s.ref)}
           walked == {s \in hit : \A d \in dead : s.from <= d.from}
           last == CHOOSE s \in walked : \A u \in walked : u.from <= s.from
<1>1. CASE hit # {}
  <2>1. bank \in Bank /\ hit \subseteq bank.submaps
    BY DEF SoundBank, Hits
  <2>2. \A s \in hit : s.from \in Addr
    BY <2>1, BankFields DEF SubMap
  <2>3. walked # {}
    <3>1. CASE dead # {}
      <4> DEFINE F == {d.from : d \in dead}
      <4>1. F \in SUBSET Nat /\ F # {}
        BY <2>2, <3>1, MaxAddrAssumption DEF Addr
      <4>2. PICK f \in F : \A g \in F : f <= g
        <5> HIDE DEF F
        <5> QED BY <4>1, LeastExists
      <4>3. PICK d \in dead : f = d.from
        OBVIOUS
      <4>4. \A e \in dead : d.from <= e.from
        BY <4>2, <4>3
      <4> QED BY <4>4
    <3> QED BY <1>1, <3>1
  <2>4. \E s \in walked : \A u \in walked : u.from <= s.from
    <3> DEFINE F == {s.from : s \in walked}
    <3>1. F \in SUBSET (0 .. MaxAddr) /\ F # {}
      BY <2>2, <2>3 DEF Addr
    <3>2. PICK f \in F : \A g \in F : g <= f
      <4> HIDE DEF F
      <4> QED BY <3>1, GreatestExists, MaxAddrAssumption
    <3>3. PICK s \in walked : f = s.from
      OBVIOUS
    <3>4. \A u \in walked : u.from <= s.from
      BY <3>2, <3>3
    <3> QED BY <3>4
  <2>5. last \in bank.submaps
    <3>1. last \in walked
      <4> HIDE DEF walked
      <4> QED BY <2>4
    <3> QED BY <2>1, <3>1
  <2>6. Touch(maps, bank, x) = [bank EXCEPT !.lastUsed = last]
    BY <1>1 DEF Touch
  <2> HIDE DEF last
  <2>7. bank.submaps \subseteq SubMap
    BY <2>1, BankFields
  <2> QED BY <2>1, <2>5, <2>6, <2>7 DEF SoundBank, Bank
<1>2. CASE hit = {}
  BY <1>2 DEF Touch
<1> QED BY <1>1, <1>2

-----------------------------------------------------------------------------
(***************************************************************************)
(* That the tree of a bank shows what the list of the bank promises, for    *)
(* each operation of IOBankOps: the submap at an address names the highest  *)
(* map of the list there, and where no map of the list is there is none.    *)
(* Then, on such a bank, that two neighbours which could be merged are never *)
(* there without drain_me.                                                   *)
(***************************************************************************)

\* Of the list without its k-th reference, the i-th is the highest at address a.
\* (With 0 for k it is the whole list.)
TopBut(maps, refs, k, i, a) ==
  /\ i \in DOMAIN refs \ {k}
  /\ Covers(maps, refs[i], a)
  /\ \A j \in DOMAIN refs \ {k} : i < j => ~ Covers(maps, refs[j], a)

\* The nodes S show that list: each the highest map, and none is missing.
ShowsBut(maps, S, refs, k) ==
  \A s \in S : \A a \in Span(s) : \E i \in DOMAIN refs :
    refs[i] = s.ref /\ TopBut(maps, refs, k, i, a)
ReachesBut(maps, S, refs, k) ==
  \A a \in Addr : \A i \in DOMAIN refs \ {k} :
    Covers(maps, refs[i], a) => a \in Covered(S)
RightBut(maps, S, refs, k) ==
  ShowsBut(maps, S, refs, k) /\ ReachesBut(maps, S, refs, k)

Once(refs) == \A i, j \in DOMAIN refs : refs[i].id = refs[j].id => i = j
AllLive(maps, refs) == \A i \in DOMAIN refs : Live(maps, refs[i])

\* What a bank must be: each map listed once, none that is gone, and the tree right.
Exact(maps, bank) ==
  /\ Once(bank.maprefs)
  /\ AllLive(maps, bank.maprefs)
  /\ RightBut(maps, bank.submaps, bank.maprefs, 0)

\* Two tables of maps that agree on the references of a list but the k-th.
AgreeBut(maps, other, refs, k) ==
  \A i \in DOMAIN refs \ {k} : other[refs[i].id] = maps[refs[i].id]

-----------------------------------------------------------------------------
(* What pieces and cuts cover.                                              *)

\* The pieces of a set cover it: around each address of the set there is a run.
LEMMA PiecesCover ==
  ASSUME NEW A \in SUBSET Addr, NEW ref, NEW a \in A
  PROVE  \E p \in Pieces(A, ref) : a \in Span(p)
<1> DEFINE Down == {x \in 0 .. a : x .. a \subseteq A}
           Up == {y \in a .. MaxAddr : a .. y \subseteq A}
<1>1. a \in Nat /\ a <= MaxAddr /\ MaxAddr \in Nat /\ A \subseteq 0 .. MaxAddr
  BY MaxAddrAssumption DEF Addr
<1>2. PICK x \in Down : \A z \in Down : x <= z
  <2>1. a \in Down /\ Down \in SUBSET Nat
    BY <1>1
  <2> QED BY <2>1, LeastExists
<1>3. PICK y \in Up : \A z \in Up : z <= y
  <2>1. a \in Up /\ Up \in SUBSET (0 .. MaxAddr)
    BY <1>1
  <2> HIDE DEF Up
  <2> QED BY <1>1, <2>1, GreatestExists
<1>4. x \in Nat /\ y \in Nat /\ x <= a /\ a <= y /\ x .. a \subseteq A /\ a .. y \subseteq A
  BY <1>1, <1>2, <1>3
<1>5. x - 1 \notin A
  <2> SUFFICES ASSUME x - 1 \in A PROVE FALSE
    OBVIOUS
  <2>1. x - 1 \in 0 .. a /\ (x - 1) .. a \subseteq A
    BY <1>1, <1>4
  <2> QED BY <1>2, <1>4, <2>1
<1>6. y + 1 \notin A
  <2> SUFFICES ASSUME y + 1 \in A PROVE FALSE
    OBVIOUS
  <2>1. y + 1 \in a .. MaxAddr /\ a .. (y + 1) \subseteq A
    BY <1>1, <1>4
  <2> QED BY <1>3, <1>4, <2>1
<1>7. x .. y \subseteq A /\ x \in A /\ y \in A /\ x <= y
  <2>1. \A z \in x .. y : z \in x .. a \/ z \in a .. y
    BY <1>1, <1>4
  <2>2. x \in x .. a /\ y \in a .. y /\ x <= y
    BY <1>1, <1>4
  <2> QED BY <1>4, <2>1, <2>2
<1>8. <<x, y>> \in Runs(A)
  BY <1>5, <1>6, <1>7 DEF Runs
<1> DEFINE p == [from |-> x, to |-> y, ref |-> ref]
<1>9. p \in Pieces(A, ref)
  BY <1>8 DEF Pieces
<1>10. a \in Span(p)
  BY <1>1, <1>4 DEF Span
<1> QED BY <1>9, <1>10

\* A cut keeps every address outside it, under the same reference.
LEMMA CarveCovers ==
  ASSUME NEW S, Tidy(S), NEW A, NEW s \in S, NEW a \in Span(s), a \notin A
  PROVE  \E p \in Carve(S, A) : a \in Span(p)
<1>1. Span(s) \ A \in SUBSET Addr /\ a \in Span(s) \ A
  BY SpanInside DEF Tidy
<1>2. PICK p \in Pieces(Span(s) \ A, s.ref) : a \in Span(p)
  BY <1>1, PiecesCover
<1> QED BY <1>2 DEF Carve

\* What a cut leaves shows the reference that was there.
LEMMA CarveFrom ==
  ASSUME NEW S, Tidy(S), NEW A, NEW p \in Carve(S, A)
  PROVE  \E s \in S : p.ref = s.ref /\ Span(p) \subseteq Span(s) \ A
<1>1. PICK s \in S : p \in Pieces(Span(s) \ A, s.ref)
  BY DEF Carve
<1>2. Span(s) \ A \in SUBSET Addr /\ s.ref \in MapRef
  BY SpanInside DEF Tidy
<1> QED BY <1>1, <1>2, PiecesInside

-----------------------------------------------------------------------------
(* Lists.                                                                   *)

\* Where some map of a list is, one is the highest.
LEMMA SomeTop ==
  ASSUME NEW maps, NEW refs \in Seq(MapRef), NEW k, NEW a,
         NEW i \in DOMAIN refs \ {k}, Covers(maps, refs[i], a)
  PROVE  \E j \in DOMAIN refs : TopBut(maps, refs, k, j, a)
<1> DEFINE K == {j \in DOMAIN refs \ {k} : Covers(maps, refs[j], a)}
<1>1. K \in SUBSET (0 .. Len(refs)) /\ i \in K /\ Len(refs) \in Nat
  OBVIOUS
<1>2. PICK j \in K : \A h \in K : h <= j
  <2> HIDE DEF K
  <2> QED BY <1>1, GreatestExists
<1> QED BY <1>2 DEF TopBut

\* At one address one map is the highest.
LEMMA OneTop ==
  ASSUME NEW maps, NEW refs \in Seq(MapRef), NEW k, NEW a, NEW i, NEW j,
         TopBut(maps, refs, k, i, a), TopBut(maps, refs, k, j, a)
  PROVE  i = j
BY DEF TopBut

\* The tables of maps matter only at the references of the list.
LEMMA RightAgree ==
  ASSUME NEW maps, NEW other, NEW S, NEW refs, NEW k,
         AgreeBut(maps, other, refs, k), RightBut(maps, S, refs, k)
  PROVE  RightBut(other, S, refs, k)
<1>1. \A i \in DOMAIN refs \ {k} : \A a : Covers(other, refs[i], a) <=> Covers(maps, refs[i], a)
  BY DEF AgreeBut, Covers, Live
<1>2. \A i, a : TopBut(maps, refs, k, i, a) => TopBut(other, refs, k, i, a)
  BY <1>1 DEF TopBut
<1> QED BY <1>1, <1>2 DEF RightBut, ShowsBut, ReachesBut

\* So does the whole of what a bank must be.
LEMMA ExactAgree ==
  ASSUME NEW maps, NEW other, NEW bank, Exact(maps, bank), bank.maprefs \in Seq(MapRef),
         AgreeBut(maps, other, bank.maprefs, 0)
  PROVE  Exact(other, bank)
<1>1. RightBut(other, bank.submaps, bank.maprefs, 0)
  BY RightAgree DEF Exact
<1>2. AllLive(other, bank.maprefs)
  BY DEF Exact, AllLive, AgreeBut, Live
<1> QED BY <1>1, <1>2 DEF Exact

\* Taking the k-th reference out of a list moves the later ones down.
LEMMA WithoutFacts ==
  ASSUME NEW refs \in Seq(MapRef), NEW k \in DOMAIN refs
  PROVE  /\ Without(refs, k) \in Seq(MapRef)
         /\ DOMAIN Without(refs, k) = 1 .. Len(refs) - 1
         /\ \A j \in 1 .. Len(refs) - 1 :
              /\ j < k => Without(refs, k)[j] = refs[j]
              /\ ~ j < k => Without(refs, k)[j] = refs[j + 1]
         /\ Len(refs) \in Nat /\ k \in 1 .. Len(refs) /\ DOMAIN refs = 1 .. Len(refs)
<1>1. refs # <<>> /\ Len(refs) \in Nat /\ k \in 1 .. Len(refs) /\ DOMAIN refs = 1 .. Len(refs)
  OBVIOUS
<1>2. Without(refs, k) \in Seq(MapRef)
  BY <1>1, WithoutType
<1> QED BY <1>1, <1>2 DEF Without

\* The list without a reference has the highest map of the rest on top.
LEMMA WithoutTop ==
  ASSUME NEW refs \in Seq(MapRef), NEW k \in DOMAIN refs, NEW maps, NEW a, NEW i,
         TopBut(maps, refs, k, i, a)
  PROVE  \E j \in DOMAIN Without(refs, k) :
           Without(refs, k)[j] = refs[i] /\ TopBut(maps, Without(refs, k), 0, j, a)
<1> DEFINE less == Without(refs, k)
           n == Len(refs)
<1>1. /\ DOMAIN less = 1 .. n - 1
      /\ \A h \in 1 .. n - 1 : h < k => less[h] = refs[h]
      /\ \A h \in 1 .. n - 1 : ~ h < k => less[h] = refs[h + 1]
      /\ n \in Nat /\ k \in 1 .. n /\ DOMAIN refs = 1 .. n
  BY WithoutFacts
<1> HIDE DEF less, n
<1>2. /\ i \in 1 .. n /\ i # k /\ Covers(maps, refs[i], a)
      /\ \A h \in 1 .. n : h # k /\ i < h => ~ Covers(maps, refs[h], a)
  BY <1>1 DEF TopBut
<1>3. \E j \in 1 .. n - 1 : less[j] = refs[i] /\ j = IF i < k THEN i ELSE i - 1
  <2>1. CASE i < k
    BY <1>1, <1>2, <2>1
  <2>2. CASE ~ i < k
    <3>1. i - 1 \in 1 .. n - 1 /\ ~ i - 1 < k /\ (i - 1) + 1 = i
      BY <1>1, <1>2, <2>2
    <3> QED BY <1>1, <2>2, <3>1
  <2> QED BY <2>1, <2>2
<1>4. PICK j \in 1 .. n - 1 : less[j] = refs[i] /\ j = IF i < k THEN i ELSE i - 1
  BY <1>3
<1>5. ASSUME NEW h \in 1 .. n - 1, j < h
      PROVE  ~ Covers(maps, less[h], a)
  <2>1. CASE h < k
    <3>1. h \in 1 .. n /\ h # k /\ i < h
      BY <1>1, <1>2, <1>4, <1>5, <2>1
    <3> QED BY <1>1, <1>2, <2>1, <3>1
  <2>2. CASE ~ h < k
    <3>1. h + 1 \in 1 .. n /\ h + 1 # k /\ i < h + 1
      BY <1>1, <1>2, <1>4, <1>5, <2>2
    <3> QED BY <1>1, <1>2, <2>2, <3>1
  <2> QED BY <2>1, <2>2
<1>6. TopBut(maps, less, 0, j, a)
  <2>1. j \in DOMAIN less \ {0}
    BY <1>1, <1>4
  <2>2. Covers(maps, less[j], a)
    BY <1>2, <1>4
  <2>3. \A h \in DOMAIN less \ {0} : j < h => ~ Covers(maps, less[h], a)
    BY <1>1, <1>5
  <2> QED BY <2>1, <2>2, <2>3 DEF TopBut
<1> QED BY <1>1, <1>4, <1>6 DEF less

\* The references of the shorter list are those of the longer one but the k-th.
LEMMA WithoutFrom ==
  ASSUME NEW refs \in Seq(MapRef), NEW k \in DOMAIN refs, NEW j \in DOMAIN Without(refs, k)
  PROVE  \E i \in DOMAIN refs \ {k} : Without(refs, k)[j] = refs[i]
<1>1. j \in 1 .. Len(refs) - 1 /\ k \in 1 .. Len(refs) /\ DOMAIN refs = 1 .. Len(refs)
      /\ Len(refs) \in Nat
  BY WithoutFacts
<1>2. CASE j < k
  <2>1. j \in DOMAIN refs \ {k}
    BY <1>1, <1>2
  <2> QED BY <1>1, <1>2, <2>1, WithoutFacts
<1>3. CASE ~ j < k
  <2>1. j + 1 \in DOMAIN refs \ {k}
    BY <1>1, <1>3
  <2> QED BY <1>1, <1>3, <2>1, WithoutFacts
<1> QED BY <1>2, <1>3

\* Taking a reference out leaves each other map once, and the map of the
\* reference not at all.
LEMMA WithoutOnce ==
  ASSUME NEW refs \in Seq(MapRef), NEW k \in DOMAIN refs, Once(refs)
  PROVE  /\ Once(Without(refs, k))
         /\ \A j \in DOMAIN Without(refs, k) : Without(refs, k)[j].id # refs[k].id
<1> DEFINE less == Without(refs, k)
           up(j) == IF j < k THEN j ELSE j + 1
<1>1. /\ DOMAIN less = 1 .. Len(refs) - 1
      /\ \A h \in 1 .. Len(refs) - 1 : less[h] = refs[up(h)]
      /\ Len(refs) \in Nat /\ k \in 1 .. Len(refs) /\ DOMAIN refs = 1 .. Len(refs)
  BY WithoutFacts
<1> HIDE DEF less
<1>2. \A h \in 1 .. Len(refs) - 1 : up(h) \in DOMAIN refs /\ up(h) # k
  BY <1>1
<1>3. \A g, h \in 1 .. Len(refs) - 1 : up(g) = up(h) => g = h
  BY <1>1
<1> HIDE DEF up
<1>4. Once(less)
  BY <1>1, <1>2, <1>3 DEF Once
<1>5. \A j \in DOMAIN less : less[j].id # refs[k].id
  BY <1>1, <1>2 DEF Once
<1> QED BY <1>4, <1>5 DEF less

\* The tree that shows the rest shows the shorter list.
LEMMA WithoutRight ==
  ASSUME NEW maps, NEW S, NEW refs \in Seq(MapRef), NEW k \in DOMAIN refs,
         RightBut(maps, S, refs, k)
  PROVE  RightBut(maps, S, Without(refs, k), 0)
<1>1. ShowsBut(maps, S, Without(refs, k), 0)
  <2> SUFFICES ASSUME NEW s \in S, NEW a \in Span(s)
               PROVE  \E j \in DOMAIN Without(refs, k) :
                        /\ Without(refs, k)[j] = s.ref
                        /\ TopBut(maps, Without(refs, k), 0, j, a)
    BY DEF ShowsBut
  <2>1. PICK i \in DOMAIN refs : refs[i] = s.ref /\ TopBut(maps, refs, k, i, a)
    BY DEF RightBut, ShowsBut
  <2> QED BY <2>1, WithoutTop
<1>2. ReachesBut(maps, S, Without(refs, k), 0)
  BY WithoutFrom DEF RightBut, ReachesBut
<1> QED BY <1>1, <1>2 DEF RightBut

\* A reference at the end of the list is the highest where its map is.
LEMMA AppendTop ==
  ASSUME NEW maps, NEW refs \in Seq(MapRef), NEW ref \in MapRef, NEW a
  PROVE  /\ Covers(maps, ref, a) => TopBut(maps, Append(refs, ref), 0, Len(refs) + 1, a)
         /\ ~ Covers(maps, ref, a) =>
              \A i : TopBut(maps, refs, 0, i, a) =>
                /\ Append(refs, ref)[i] = refs[i]
                /\ TopBut(maps, Append(refs, ref), 0, i, a)
<1> DEFINE more == Append(refs, ref)
<1>1. /\ more \in Seq(MapRef) /\ Len(refs) \in Nat
      /\ DOMAIN refs = 1 .. Len(refs) /\ DOMAIN more = 1 .. Len(refs) + 1
      /\ more[Len(refs) + 1] = ref /\ \A i \in 1 .. Len(refs) : more[i] = refs[i]
  OBVIOUS
<1> HIDE DEF more
<1>2. Covers(maps, ref, a) => TopBut(maps, more, 0, Len(refs) + 1, a)
  BY <1>1 DEF TopBut
<1>3. ASSUME ~ Covers(maps, ref, a), NEW i, TopBut(maps, refs, 0, i, a)
      PROVE  more[i] = refs[i] /\ TopBut(maps, more, 0, i, a)
  BY <1>1, <1>3 DEF TopBut
<1> QED BY <1>2, <1>3 DEF more

\* A reference at the head of the list is the highest where no other map is.
LEMMA PrependTop ==
  ASSUME NEW maps, NEW refs \in Seq(MapRef), NEW ref \in MapRef, NEW a
  PROVE  /\ \A i : TopBut(maps, refs, 0, i, a) =>
              /\ (<<ref>> \o refs)[i + 1] = refs[i]
              /\ TopBut(maps, <<ref>> \o refs, 0, i + 1, a)
         /\ Covers(maps, ref, a) /\ (\A i \in DOMAIN refs : ~ Covers(maps, refs[i], a)) =>
              TopBut(maps, <<ref>> \o refs, 0, 1, a)
<1> DEFINE more == <<ref>> \o refs
<1>1. /\ more \in Seq(MapRef) /\ Len(refs) \in Nat
      /\ DOMAIN refs = 1 .. Len(refs) /\ DOMAIN more = 1 .. Len(refs) + 1
      /\ more[1] = ref /\ \A i \in 1 .. Len(refs) : more[i + 1] = refs[i]
  OBVIOUS
<1> HIDE DEF more
<1>2. \A j \in DOMAIN more \ {1} : j - 1 \in DOMAIN refs /\ more[j] = refs[j - 1]
  <2> SUFFICES ASSUME NEW j \in DOMAIN more \ {1}
               PROVE  j - 1 \in DOMAIN refs /\ more[j] = refs[j - 1]
    OBVIOUS
  <2>1. j - 1 \in 1 .. Len(refs) /\ (j - 1) + 1 = j
    BY <1>1
  <2> QED BY <1>1, <2>1
<1>3. ASSUME NEW i, TopBut(maps, refs, 0, i, a)
      PROVE  more[i + 1] = refs[i] /\ TopBut(maps, more, 0, i + 1, a)
  <2>1. i \in 1 .. Len(refs) /\ Covers(maps, refs[i], a)
        /\ \A j \in 1 .. Len(refs) : i < j => ~ Covers(maps, refs[j], a)
    BY <1>1, <1>3 DEF TopBut
  <2>2. more[i + 1] = refs[i] /\ i + 1 \in DOMAIN more \ {0}
    BY <1>1, <2>1
  <2>3. \A j \in DOMAIN more \ {0} : i + 1 < j => ~ Covers(maps, more[j], a)
    BY <1>1, <1>2, <2>1
  <2> QED BY <2>1, <2>2, <2>3 DEF TopBut
<1>4. ASSUME Covers(maps, ref, a), \A i \in DOMAIN refs : ~ Covers(maps, refs[i], a)
      PROVE  TopBut(maps, more, 0, 1, a)
  <2>1. 1 \in DOMAIN more \ {0} /\ more[1] = ref
    BY <1>1
  <2>2. \A j \in DOMAIN more \ {0} : 1 < j => ~ Covers(maps, more[j], a)
    BY <1>1, <1>2, <1>4
  <2> QED BY <1>4, <2>1, <2>2 DEF TopBut
<1> QED BY <1>3, <1>4 DEF more

\* A reference to a map that is not listed, put at either end, lists it once.
LEMMA AppendOnce ==
  ASSUME NEW refs \in Seq(MapRef), NEW ref \in MapRef, Once(refs),
         \A i \in DOMAIN refs : refs[i].id # ref.id
  PROVE  Once(Append(refs, ref)) /\ Once(<<ref>> \o refs)
<1>1. Once(Append(refs, ref))
  <2> DEFINE more == Append(refs, ref)
  <2>1. /\ Len(refs) \in Nat
        /\ DOMAIN refs = 1 .. Len(refs) /\ DOMAIN more = 1 .. Len(refs) + 1
        /\ more[Len(refs) + 1] = ref /\ \A i \in 1 .. Len(refs) : more[i] = refs[i]
    OBVIOUS
  <2> HIDE DEF more
  <2>2. Once(more)
    BY <2>1 DEF Once
  <2> QED BY <2>2 DEF more
<1>2. Once(<<ref>> \o refs)
  <2> DEFINE more == <<ref>> \o refs
  <2>1. /\ Len(refs) \in Nat
        /\ DOMAIN refs = 1 .. Len(refs) /\ DOMAIN more = 1 .. Len(refs) + 1
        /\ more[1] = ref /\ \A i \in 1 .. Len(refs) : more[i + 1] = refs[i]
    OBVIOUS
  <2> HIDE DEF more
  <2>2. \A j \in DOMAIN more \ {1} : j - 1 \in DOMAIN refs /\ more[j] = refs[j - 1]
    <3> SUFFICES ASSUME NEW j \in DOMAIN more \ {1}
                 PROVE  j - 1 \in DOMAIN refs /\ more[j] = refs[j - 1]
      OBVIOUS
    <3>1. j - 1 \in 1 .. Len(refs) /\ (j - 1) + 1 = j
      BY <2>1
    <3> QED BY <2>1, <3>1
  <2>3. Once(more)
    <3> SUFFICES ASSUME NEW i \in DOMAIN more, NEW j \in DOMAIN more, more[i].id = more[j].id
                 PROVE  i = j
      BY DEF Once
    <3>1. CASE i = 1 \/ j = 1
      BY <2>1, <2>2, <3>1
    <3>2. CASE i # 1 /\ j # 1
      <4>1. i - 1 = j - 1
        BY <2>2, <3>2 DEF Once
      <4> QED BY <4>1, <2>1
    <3> QED BY <3>1, <3>2
  <2> QED BY <2>3 DEF more
<1> QED BY <1>1, <1>2

\* A live reference put at either end leaves all references live.
LEMMA AppendLive ==
  ASSUME NEW maps, NEW refs \in Seq(MapRef), NEW ref \in MapRef, AllLive(maps, refs),
         Live(maps, ref)
  PROVE  AllLive(maps, Append(refs, ref)) /\ AllLive(maps, <<ref>> \o refs)
<1>1. \A i \in DOMAIN Append(refs, ref) :
        Append(refs, ref)[i] = ref \/ \E j \in DOMAIN refs : Append(refs, ref)[i] = refs[j]
  OBVIOUS
<1>2. \A i \in DOMAIN (<<ref>> \o refs) :
        (<<ref>> \o refs)[i] = ref \/ \E j \in DOMAIN refs : (<<ref>> \o refs)[i] = refs[j]
  OBVIOUS
<1> QED BY <1>1, <1>2 DEF AllLive

\* A reference taken out leaves the others live.
LEMMA WithoutLive ==
  ASSUME NEW maps, NEW refs \in Seq(MapRef), NEW k \in DOMAIN refs, AllLive(maps, refs)
  PROVE  AllLive(maps, Without(refs, k))
BY WithoutFrom DEF AllLive

-----------------------------------------------------------------------------
(* The operations of a bank.                                                *)

\* An interval laid over a tree that is right elsewhere, for the reference put at
\* the end of the list.
LEMMA LayTop ==
  ASSUME NEW maps, NEW S, Tidy(S), NEW refs \in Seq(MapRef), NEW ref \in MapRef,
         NEW sm, sm.ref = ref, Live(maps, ref), Span(sm) = Span(maps[ref.id]),
         \A s \in S : \A a \in Span(s) \ Span(sm) :
           \E i \in DOMAIN refs : refs[i] = s.ref /\ TopBut(maps, refs, 0, i, a),
         \A a \in Addr \ Span(sm) : \A i \in DOMAIN refs :
           Covers(maps, refs[i], a) => a \in Covered(S)
  PROVE  RightBut(maps, Carve(S, Span(sm)) \cup {sm}, Append(refs, ref), 0)
<1> DEFINE more == Append(refs, ref)
           T == Carve(S, Span(sm)) \cup {sm}
<1>1. /\ DOMAIN refs = 1 .. Len(refs) /\ DOMAIN more = 1 .. Len(refs) + 1
      /\ more[Len(refs) + 1] = ref /\ \A i \in 1 .. Len(refs) : more[i] = refs[i]
      /\ Len(refs) \in Nat
  OBVIOUS
<1>2. \A a : Covers(maps, ref, a) <=> a \in Span(sm)
  BY DEF Covers
<1>3. ShowsBut(maps, T, more, 0)
  <2> SUFFICES ASSUME NEW s \in T, NEW a \in Span(s)
               PROVE  \E i \in DOMAIN more : more[i] = s.ref /\ TopBut(maps, more, 0, i, a)
    BY DEF ShowsBut
  <2>1. CASE s = sm
    BY <1>1, <1>2, <2>1, AppendTop
  <2>2. CASE s \in Carve(S, Span(sm))
    <3>1. PICK t \in S : s.ref = t.ref /\ Span(s) \subseteq Span(t) \ Span(sm)
      BY <2>2, CarveFrom
    <3>2. PICK i \in DOMAIN refs : refs[i] = s.ref /\ TopBut(maps, refs, 0, i, a)
      BY <3>1
    <3>3. ~ Covers(maps, ref, a)
      BY <1>2, <3>1
    <3>4. more[i] = refs[i] /\ TopBut(maps, more, 0, i, a)
      BY <3>2, <3>3, AppendTop
    <3> QED BY <1>1, <3>2, <3>4
  <2> QED BY <2>1, <2>2
<1>4. ReachesBut(maps, T, more, 0)
  <2> SUFFICES ASSUME NEW a \in Addr, NEW i \in DOMAIN more, Covers(maps, more[i], a)
               PROVE  a \in Covered(T)
    BY DEF ReachesBut
  <2>1. CASE a \in Span(sm)
    BY <2>1 DEF Covered
  <2>2. CASE a \notin Span(sm)
    <3>1. i \in DOMAIN refs /\ more[i] = refs[i]
      BY <1>1, <1>2, <2>2
    <3>2. PICK s \in S : a \in Span(s)
      BY <2>2, <3>1 DEF Covered
    <3>3. PICK p \in Carve(S, Span(sm)) : a \in Span(p)
      BY <2>2, <3>2, CarveCovers
    <3> QED BY <3>3 DEF Covered
  <2> QED BY <2>1, <2>2
<1> QED BY <1>3, <1>4 DEF RightBut

\* A bank that has not a map gets it on top (r_io_bank_map_add_top).
LEMMA AddTopExact ==
  ASSUME NEW maps, SoundMaps(maps), NEW id \in MapIds, NEW bank, SoundBank(bank),
         Exact(maps, bank), \A i \in DOMAIN bank.maprefs : bank.maprefs[i].id # id
  PROVE  Exact(maps, AddTop(maps, bank, id))
<1> DEFINE ref == RefOf(maps, id)
           sm == SubMapOf(maps, ref)
           S == bank.submaps
           refs == bank.maprefs
<1>1. CASE maps[id] = NoMap
  BY <1>1 DEF AddTop
<1>2. CASE maps[id] # NoMap
  <2>1. /\ AddTop(maps, bank, id).submaps = Carve(S, Span(sm)) \cup {sm}
        /\ AddTop(maps, bank, id).maprefs = Append(refs, ref)
    <3>1. bank = [submaps |-> S, maprefs |-> refs, lastUsed |-> bank.lastUsed,
                  drainMe |-> bank.drainMe]
      BY BankFields DEF SoundBank
    <3> QED BY <1>2, <3>1 DEF AddTop
  <2>2. ref \in MapRef /\ refs \in Seq(MapRef) /\ Tidy(S)
    BY <1>2, RefOfType, BankFields DEF SoundBank
  <2>3. ref.id = id /\ sm.ref = ref /\ Live(maps, ref) /\ Span(sm) = Span(maps[ref.id])
    BY <1>2 DEF RefOf, SubMapOf, Live, Span
  <2>4. \A i \in DOMAIN refs : i # 0
    BY <2>2
  <2>5. ShowsBut(maps, S, refs, 0) /\ ReachesBut(maps, S, refs, 0)
        /\ Once(refs) /\ AllLive(maps, refs)
    BY DEF Exact, RightBut
  <2> HIDE DEF ref, sm, S, refs
  <2>6. RightBut(maps, Carve(S, Span(sm)) \cup {sm}, Append(refs, ref), 0)
    <3>1. \A s \in S : \A a \in Span(s) \ Span(sm) :
            \E i \in DOMAIN refs : refs[i] = s.ref /\ TopBut(maps, refs, 0, i, a)
      BY <2>5 DEF ShowsBut
    <3>2. \A a \in Addr \ Span(sm) : \A i \in DOMAIN refs :
            Covers(maps, refs[i], a) => a \in Covered(S)
      BY <2>4, <2>5 DEF ReachesBut
    <3> QED BY <2>2, <2>3, <3>1, <3>2, LayTop
  <2>7. Once(Append(refs, ref))
    BY <2>2, <2>3, <2>5, AppendOnce DEF refs
  <2>8. AllLive(maps, Append(refs, ref))
    BY <2>2, <2>3, <2>5, AppendLive
  <2> QED BY <2>1, <2>6, <2>7, <2>8 DEF Exact
<1> QED BY <1>1, <1>2

\* The map at the head of the list fills what no other map covers.
LEMMA LayBottom ==
  ASSUME NEW maps, NEW S, Tidy(S), NEW refs \in Seq(MapRef), NEW ref \in MapRef,
         NEW A \in SUBSET Addr, Live(maps, ref), A = Span(maps[ref.id]),
         RightBut(maps, S, refs, 0)
  PROVE  RightBut(maps, S \cup Pieces(A \ Covered(S), ref), <<ref>> \o refs, 0)
<1> DEFINE more == <<ref>> \o refs
           T == S \cup Pieces(A \ Covered(S), ref)
<1>1. /\ Len(refs) \in Nat
      /\ DOMAIN refs = 1 .. Len(refs) /\ DOMAIN more = 1 .. Len(refs) + 1
      /\ more[1] = ref /\ \A i \in 1 .. Len(refs) : more[i + 1] = refs[i]
  OBVIOUS
<1>2. \A a : Covers(maps, ref, a) <=> a \in A
  BY DEF Covers
<1>3. ShowsBut(maps, T, more, 0)
  <2> SUFFICES ASSUME NEW s \in T, NEW a \in Span(s)
               PROVE  \E i \in DOMAIN more : more[i] = s.ref /\ TopBut(maps, more, 0, i, a)
    BY DEF ShowsBut
  <2>1. CASE s \in S
    <3>1. PICK i \in DOMAIN refs : refs[i] = s.ref /\ TopBut(maps, refs, 0, i, a)
      BY <2>1 DEF RightBut, ShowsBut
    <3>2. more[i + 1] = refs[i] /\ TopBut(maps, more, 0, i + 1, a)
      BY <3>1, PrependTop
    <3>3. i + 1 \in DOMAIN more
      BY <1>1
    <3> QED BY <3>1, <3>2, <3>3
  <2>2. CASE s \in Pieces(A \ Covered(S), ref)
    <3>1. s.ref = ref /\ a \in A /\ a \notin Covered(S) /\ a \in Addr
      <4>1. A \ Covered(S) \in SUBSET Addr
        OBVIOUS
      <4>2. s.ref = ref /\ Span(s) \subseteq A \ Covered(S)
        BY <2>2, <4>1, PiecesInside
      <4> QED BY <4>1, <4>2
    <3>2. \A i \in DOMAIN refs : ~ Covers(maps, refs[i], a)
      BY <1>1, <3>1 DEF RightBut, ReachesBut
    <3>3. TopBut(maps, more, 0, 1, a)
      BY <1>2, <3>1, <3>2, PrependTop
    <3>4. 1 \in DOMAIN more
      BY <1>1
    <3> QED BY <1>1, <3>1, <3>3, <3>4
  <2> QED BY <2>1, <2>2
<1>4. ReachesBut(maps, T, more, 0)
  <2> SUFFICES ASSUME NEW a \in Addr, NEW i \in DOMAIN more, Covers(maps, more[i], a),
                      a \notin Covered(S)
               PROVE  a \in Covered(T)
    BY DEF ReachesBut, Covered
  <2>1. CASE i = 1
    <3>1. a \in A \ Covered(S)
      BY <1>1, <1>2, <2>1
    <3>2. PICK p \in Pieces(A \ Covered(S), ref) : a \in Span(p)
      BY <3>1, PiecesCover
    <3> QED BY <3>2 DEF Covered
  <2>2. CASE i # 1
    <3>1. i - 1 \in DOMAIN refs \ {0} /\ (i - 1) + 1 = i /\ i - 1 \in 1 .. Len(refs)
      BY <1>1, <2>2
    <3>2. Covers(maps, refs[i - 1], a)
      BY <1>1, <3>1
    <3> QED BY <3>1, <3>2 DEF RightBut, ReachesBut
  <2> QED BY <2>1, <2>2
<1> QED BY <1>3, <1>4 DEF RightBut

\* A bank that has not a map gets it at the bottom (r_io_bank_map_add_bottom).
LEMMA AddBottomExact ==
  ASSUME NEW maps, SoundMaps(maps), NEW id \in MapIds, NEW bank, SoundBank(bank),
         Exact(maps, bank), \A i \in DOMAIN bank.maprefs : bank.maprefs[i].id # id
  PROVE  Exact(maps, AddBottom(maps, bank, id))
<1> DEFINE ref == RefOf(maps, id)
           sm == SubMapOf(maps, ref)
           S == bank.submaps
           refs == bank.maprefs
<1>1. CASE maps[id] = NoMap
  BY <1>1 DEF AddBottom
<1>2. CASE maps[id] # NoMap
  <2>1. /\ AddBottom(maps, bank, id).submaps = S \cup Pieces(Span(sm) \ Covered(S), ref)
        /\ AddBottom(maps, bank, id).maprefs = <<ref>> \o refs
    <3>1. bank = [submaps |-> S, maprefs |-> refs, lastUsed |-> bank.lastUsed,
                  drainMe |-> bank.drainMe]
      BY BankFields DEF SoundBank
    <3> QED BY <1>2, <3>1 DEF AddBottom
  <2>2. ref \in MapRef /\ refs \in Seq(MapRef) /\ Tidy(S) /\ Span(sm) \in SUBSET Addr
    BY <1>2, RefOfType, SpanInside, BankFields DEF SoundBank
  <2>3. ref.id = id /\ Live(maps, ref) /\ Span(sm) = Span(maps[ref.id])
    BY <1>2 DEF RefOf, SubMapOf, Live, Span
  <2>4. RightBut(maps, S, refs, 0) /\ Once(refs) /\ AllLive(maps, refs)
        /\ \A i \in DOMAIN refs : refs[i].id # ref.id
    BY <2>3 DEF Exact
  <2> HIDE DEF ref, sm, S, refs
  <2>5. RightBut(maps, S \cup Pieces(Span(sm) \ Covered(S), ref), <<ref>> \o refs, 0)
    BY <2>2, <2>3, <2>4, LayBottom
  <2>6. Once(<<ref>> \o refs)
    BY <2>2, <2>4, AppendOnce
  <2>7. AllLive(maps, <<ref>> \o refs)
    BY <2>2, <2>3, <2>4, AppendLive
  <2> QED BY <2>1, <2>5, <2>6, <2>7 DEF Exact
<1> QED BY <1>1, <1>2

\* A map that a list has is at one position of it.
LEMMA OnlyPosition ==
  ASSUME NEW bank \in Bank, Once(bank.maprefs), NEW id, HasMap(bank, id)
  PROVE  /\ Lowest(Positions(bank, id)) \in DOMAIN bank.maprefs
         /\ bank.maprefs[Lowest(Positions(bank, id))].id = id
         /\ Highest(Positions(bank, id)) = Lowest(Positions(bank, id))
<1>1. PICK k \in DOMAIN bank.maprefs : bank.maprefs[k].id = id
  BY DEF HasMap, Positions
<1>2. k \in Int
  <2>1. bank.maprefs \in Seq(MapRef)
    BY BankFields
  <2> QED BY <2>1
<1>3. Positions(bank, id) = {k}
  BY <1>1 DEF Positions, Once
<1>4. Lowest({k}) = k /\ Highest({k}) = k
  BY <1>2 DEF Lowest, Highest
<1> QED BY <1>1, <1>3, <1>4

\* Laying a listed map over everything moves it to the end of the list
\* (r_io_bank_map_priorize).
LEMMA PriorizeExact ==
  ASSUME NEW maps, SoundMaps(maps), NEW id \in MapIds, NEW bank, SoundBank(bank),
         Exact(maps, bank)
  PROVE  Exact(maps, Priorize(maps, bank, id))
<1> DEFINE k == Lowest(Positions(bank, id))
           S == bank.submaps
           refs == bank.maprefs
           ref == refs[k]
           sm == SubMapOf(maps, ref)
           less == Without(refs, k)
<1>1. CASE Priorize(maps, bank, id) = bank
  BY <1>1
<1>2. CASE Priorize(maps, bank, id) # bank
  <2>1. /\ HasMap(bank, id)
        /\ Priorize(maps, bank, id).submaps = Carve(S, Span(sm)) \cup {sm}
        /\ Priorize(maps, bank, id).maprefs = Append(less, ref)
    BY <1>2 DEF Priorize
  <2>2. /\ refs \in Seq(MapRef) /\ Tidy(S) /\ Once(refs) /\ AllLive(maps, refs)
        /\ RightBut(maps, S, refs, 0)
    BY BankFields DEF SoundBank, Exact
  <2>3. k \in DOMAIN refs /\ k # 0
    <3>1. k \in DOMAIN refs
      BY <2>1, <2>2, OnlyPosition DEF SoundBank
    <3> QED BY <2>2, <3>1
  <2>4. ref \in MapRef /\ Live(maps, ref) /\ less \in Seq(MapRef)
        /\ Once(less) /\ AllLive(maps, less)
        /\ \A j \in DOMAIN less : less[j].id # ref.id
    BY <2>2, <2>3, WithoutFacts, WithoutOnce, WithoutLive DEF AllLive
  <2>5. sm.ref = ref /\ Span(sm) = Span(maps[ref.id])
    BY DEF SubMapOf, Span
  <2>6. \A a : Covers(maps, ref, a) <=> a \in Span(sm)
    BY <2>4, <2>5 DEF Covers
  <2> HIDE DEF k, S, refs, ref, sm, less
  <2>7. ASSUME NEW s \in S, NEW a \in Span(s) \ Span(sm)
        PROVE  \E i \in DOMAIN less : less[i] = s.ref /\ TopBut(maps, less, 0, i, a)
    <3>1. PICK i \in DOMAIN refs : refs[i] = s.ref /\ TopBut(maps, refs, 0, i, a)
      BY <2>2 DEF RightBut, ShowsBut
    <3>2. i # k
      BY <2>6, <3>1 DEF TopBut, ref
    <3>3. TopBut(maps, refs, k, i, a)
      BY <2>2, <3>1, <3>2 DEF TopBut
    <3> QED BY <2>2, <2>3, <3>1, <3>3, WithoutTop DEF less
  <2>8. ASSUME NEW a \in Addr \ Span(sm), NEW i \in DOMAIN less, Covers(maps, less[i], a)
        PROVE  a \in Covered(S)
    <3>1. PICK j \in DOMAIN refs \ {k} : less[i] = refs[j]
      BY <2>2, <2>3, WithoutFrom DEF less
    <3>2. j # 0
      BY <2>2, <3>1
    <3> QED BY <2>2, <2>8, <3>1, <3>2 DEF RightBut, ReachesBut
  <2>9. RightBut(maps, Carve(S, Span(sm)) \cup {sm}, Append(less, ref), 0)
    BY <2>2, <2>4, <2>5, <2>7, <2>8, LayTop
  <2>10. Once(Append(less, ref)) /\ AllLive(maps, Append(less, ref))
    BY <2>4, AppendOnce, AppendLive
  <2> QED BY <2>1, <2>9, <2>10 DEF Exact
<1> QED BY <1>1, <1>2

\* Where the k-th map was on top, the highest of those below it is what is left.
LEMMA BelowTop ==
  ASSUME NEW maps, NEW refs \in Seq(MapRef), NEW k \in DOMAIN refs, NEW i, NEW a,
         TopBut(maps, refs, 0, k, a)
  PROVE  Serves(maps, refs, k, i, a) <=> TopBut(maps, refs, k, i, a)
<1>1. DOMAIN refs = 1 .. Len(refs) /\ Len(refs) \in Nat
  OBVIOUS
<1>2. \A j \in DOMAIN refs : k < j => ~ Covers(maps, refs[j], a)
  BY <1>1 DEF TopBut
<1>3. ASSUME Serves(maps, refs, k, i, a) PROVE TopBut(maps, refs, k, i, a)
  BY <1>1, <1>2, <1>3 DEF Serves, TopBut
<1>4. ASSUME TopBut(maps, refs, k, i, a) PROVE Serves(maps, refs, k, i, a)
  <2>1. i \in DOMAIN refs /\ i # k /\ Covers(maps, refs[i], a)
        /\ \A j \in DOMAIN refs : j # k /\ i < j => ~ Covers(maps, refs[j], a)
    BY <1>4 DEF TopBut
  <2>2. i \in 1 .. k - 1
    BY <1>1, <1>2, <2>1
  <2>3. \A j \in i + 1 .. k - 1 : ~ Covers(maps, refs[j], a)
    BY <1>1, <2>1, <2>2
  <2> QED BY <2>1, <2>2, <2>3 DEF Serves
<1> QED BY <1>3, <1>4

\* Withdrawing a map leaves the tree of the rest of the list: its nodes are gone,
\* and what they showed is shown by the next map down
\* (_delete_submaps_from_bank_tree).  The table of maps may have the map moved already.
LEMMA WithdrawExact ==
  ASSUME NEW maps, NEW other, NEW bank, SoundBank(bank), Exact(maps, bank),
         NEW k \in DOMAIN bank.maprefs, NEW id, bank.maprefs[k].id = id,
         NEW x, Span(x) = Span(maps[id]), AgreeBut(maps, other, bank.maprefs, k)
  PROVE  /\ RightBut(other, Withdraw(other, bank, k, id, x).submaps, bank.maprefs, k)
         /\ \A s \in Withdraw(other, bank, k, id, x).submaps : s.ref.id # id
<1> DEFINE S == bank.submaps
           refs == bank.maprefs
           gone == {s \in S : s.ref.id = id /\ Overlaps(s, x)}
           left(s, i) == {a \in Span(s) : Serves(other, refs, k, i, a)}
           fill == UNION {Pieces(left(s, i), refs[i]) : s \in gone, i \in 1 .. k - 1}
           T == (S \ gone) \cup fill
<1>1. /\ refs \in Seq(MapRef) /\ Tidy(S) /\ Once(refs) /\ RightBut(maps, S, refs, 0)
      /\ k \in DOMAIN refs /\ k # 0 /\ refs[k].id = id /\ AgreeBut(maps, other, refs, k)
      /\ DOMAIN refs = 1 .. Len(refs) /\ Len(refs) \in Nat
  BY BankFields DEF SoundBank, Exact
<1>2. Withdraw(other, bank, k, id, x).submaps = T
  <2>1. bank = [submaps |-> S, maprefs |-> refs, lastUsed |-> bank.lastUsed,
                drainMe |-> bank.drainMe]
    BY BankFields DEF SoundBank
  <2> QED BY <2>1 DEF Withdraw
<1>13. ASSUME NEW s \in gone, NEW i \in 1 .. k - 1, NEW p \in Pieces(left(s, i), refs[i])
       PROVE  p \in fill
  <2> DEFINE all == {Pieces(left(t, j), refs[j]) : t \in gone, j \in 1 .. k - 1}
  <2> HIDE DEF left, gone, S, refs
  <2>1. Pieces(left(s, i), refs[i]) \in all
    OBVIOUS
  <2>2. fill = UNION all
    OBVIOUS
  <2> HIDE DEF all, fill
  <2> QED BY <1>13, <2>1, <2>2
<1>14. ASSUME NEW p \in fill
       PROVE  \E s \in gone, i \in 1 .. k - 1 : p \in Pieces(left(s, i), refs[i])
  OBVIOUS
<1>15. \A s, i, a : a \in left(s, i) <=> a \in Span(s) /\ Serves(other, refs, k, i, a)
  OBVIOUS
<1>16. \A s : s \in gone <=> s \in S /\ s.ref.id = id /\ Overlaps(s, x)
  OBVIOUS
<1>17. \A s : s \in T <=> (s \in S /\ s \notin gone) \/ s \in fill
  OBVIOUS
<1>18. ASSUME NEW s \in gone, NEW i \in 1 .. k - 1
       PROVE  left(s, i) \in SUBSET Addr /\ i \in DOMAIN refs \ {k} /\ refs[i] \in MapRef
  <2>1. s \in SubMap /\ i \in DOMAIN refs \ {k}
    BY <1>1, <1>16 DEF Tidy
  <2>2. refs[i] \in MapRef
    BY <1>1, <2>1
  <2> QED BY <2>1, <2>2, SpanInside
<1> HIDE DEF S, refs, gone, left, fill, T
<1>3. \A i \in DOMAIN refs \ {k} : \A a : Covers(other, refs[i], a) <=> Covers(maps, refs[i], a)
  BY <1>1 DEF AgreeBut, Covers, Live
<1>4. \A i, a : TopBut(other, refs, k, i, a) <=> TopBut(maps, refs, k, i, a)
  BY <1>3 DEF TopBut
<1>5. \A i, a : Serves(other, refs, k, i, a) <=> Serves(maps, refs, k, i, a)
  <2>1. \A i \in 1 .. k - 1 : i \in DOMAIN refs \ {k}
    BY <1>1
  <2>2. \A i \in 1 .. k - 1 : \A j \in i + 1 .. k - 1 : j \in DOMAIN refs \ {k}
    BY <1>1
  <2> QED BY <1>3, <2>1, <2>2 DEF Serves
<1>6. \A s \in S : \A a : a \in Span(s) =>
        \E i \in DOMAIN refs : refs[i] = s.ref /\ TopBut(maps, refs, 0, i, a)
  BY <1>1 DEF RightBut, ShowsBut
<1>7. ASSUME NEW s \in S, s.ref.id = id
      PROVE  s \in gone /\ \A a \in Span(s) : TopBut(maps, refs, 0, k, a)
  <2>1. \A a \in Span(s) : TopBut(maps, refs, 0, k, a)
    BY <1>1, <1>6, <1>7 DEF Once
  <2>2. \A a \in Span(s) : a \in Span(maps[id])
    BY <1>1, <2>1 DEF TopBut, Covers
  <2>3. s.from \in Span(s)
    BY <1>1 DEF Tidy, SubMap, Addr, Span
  <2> QED BY <1>7, <1>16, <2>1, <2>2, <2>3 DEF Overlaps
<1>8. ASSUME NEW p \in fill
      PROVE  \E s \in gone, i \in 1 .. k - 1 :
               /\ p.ref = refs[i] /\ refs[i] \in MapRef /\ i \in DOMAIN refs \ {k}
               /\ Span(p) \subseteq left(s, i)
  <2>1. PICK s \in gone, i \in 1 .. k - 1 : p \in Pieces(left(s, i), refs[i])
    BY <1>8, <1>14
  <2>2. p.ref = refs[i] /\ Span(p) \subseteq left(s, i)
    BY <1>18, <2>1, PiecesInside
  <2> QED BY <1>18, <2>2
<1>9. ShowsBut(other, T, refs, k)
  <2> SUFFICES ASSUME NEW s \in T, NEW a \in Span(s)
               PROVE  \E i \in DOMAIN refs : refs[i] = s.ref /\ TopBut(other, refs, k, i, a)
    BY DEF ShowsBut
  <2>1. CASE s \in S \ gone
    <3>1. PICK i \in DOMAIN refs : refs[i] = s.ref /\ TopBut(maps, refs, 0, i, a)
      BY <1>6, <2>1
    <3>2. i # k
      BY <1>1, <1>7, <2>1, <3>1
    <3>3. TopBut(maps, refs, k, i, a)
      BY <1>1, <3>1, <3>2 DEF TopBut
    <3> QED BY <1>4, <3>1, <3>3
  <2>2. CASE s \in fill
    <3>1. PICK t \in gone, i \in 1 .. k - 1 :
            s.ref = refs[i] /\ i \in DOMAIN refs /\ Span(s) \subseteq left(t, i)
      BY <1>8, <2>2
    <3>2. a \in Span(t) /\ Serves(maps, refs, k, i, a)
      BY <1>5, <1>15, <3>1
    <3>3. TopBut(maps, refs, 0, k, a)
      BY <1>7, <1>16, <3>2
    <3>4. TopBut(maps, refs, k, i, a)
      BY <1>1, <3>2, <3>3, BelowTop
    <3> QED BY <1>4, <3>1, <3>4
  <2> QED BY <1>17, <2>1, <2>2
<1>10. ReachesBut(other, T, refs, k)
  <2> SUFFICES ASSUME NEW a \in Addr, NEW i \in DOMAIN refs \ {k}, Covers(maps, refs[i], a)
               PROVE  a \in Covered(T)
    BY <1>3 DEF ReachesBut
  <2>1. PICK s \in S : a \in Span(s)
    <3>1. i \in DOMAIN refs \ {0}
      BY <1>1
    <3> QED BY <1>1, <3>1 DEF RightBut, ReachesBut, Covered
  <2>2. CASE s \notin gone
    BY <1>17, <2>1, <2>2 DEF Covered
  <2>3. CASE s \in gone
    <3>1. TopBut(maps, refs, 0, k, a)
      BY <1>7, <1>16, <2>1, <2>3
    <3>2. PICK j \in DOMAIN refs : TopBut(maps, refs, k, j, a)
      BY <1>1, SomeTop
    <3>3. Serves(other, refs, k, j, a)
      BY <1>1, <1>5, <3>1, <3>2, BelowTop
    <3>4. a \in left(s, j) /\ j \in 1 .. k - 1
      BY <1>15, <2>1, <3>3 DEF Serves
    <3>5. PICK p \in Pieces(left(s, j), refs[j]) : a \in Span(p)
      BY <1>18, <2>3, <3>4, PiecesCover
    <3>6. p \in T
      BY <1>13, <1>17, <2>3, <3>4, <3>5
    <3> QED BY <3>5, <3>6 DEF Covered
  <2> QED BY <2>2, <2>3
<1>11. ASSUME NEW s \in T
       PROVE  s.ref.id # id
  <2>1. CASE s \in S /\ s \notin gone
    BY <1>7, <2>1
  <2>2. CASE s \in fill
    <3>1. PICK i \in DOMAIN refs \ {k} : s.ref = refs[i]
      BY <1>8, <2>2
    <3> QED BY <1>1, <3>1 DEF Once
  <2> QED BY <1>11, <1>17, <2>1, <2>2
<1>12. RightBut(other, T, refs, k)
  BY <1>9, <1>10 DEF RightBut
<1> QED BY <1>2, <1>11, <1>12 DEF refs

\* Dropping the cached node changes neither the tree nor the list.
LEMMA FreshExact ==
  ASSUME NEW maps, NEW bank, SoundBank(bank), Exact(maps, bank)
  PROVE  /\ SoundBank(Fresh(bank)) /\ Exact(maps, Fresh(bank))
         /\ Fresh(bank).maprefs = bank.maprefs /\ Fresh(bank).submaps = bank.submaps
         /\ Fresh(bank).lastUsed = NoSubMap /\ Fresh(bank).drainMe = bank.drainMe
<1>1. Fresh(bank) = [submaps |-> bank.submaps, maprefs |-> bank.maprefs,
                     lastUsed |-> NoSubMap, drainMe |-> bank.drainMe]
  BY BankFields DEF Fresh, SoundBank
<1>2. SoundBank(Fresh(bank))
  BY FreshSound
<1> QED BY <1>1, <1>2 DEF Exact

\* Withdrawing a map and taking its reference out leaves the bank right without it.
LEMMA WithdrawForgetExact ==
  ASSUME NEW maps, NEW bank, SoundBank(bank), Exact(maps, bank),
         NEW k \in DOMAIN bank.maprefs, NEW id, bank.maprefs[k].id = id
  PROVE  LET left == Forget(Withdraw(maps, Fresh(bank), k, id, maps[id]), k)
         IN /\ SoundBank(left) /\ Exact(maps, left)
            /\ \A i \in DOMAIN left.maprefs : left.maprefs[i].id # id
            /\ \A s \in left.submaps : s.ref.id # id
<1> DEFINE refs == bank.maprefs
           fresh == Fresh(bank)
           mid == Withdraw(maps, fresh, k, id, maps[id])
           left == Forget(mid, k)
<1>1. /\ refs \in Seq(MapRef) /\ Once(refs) /\ AllLive(maps, refs) /\ k \in 1 .. Len(refs)
      /\ k \in DOMAIN refs /\ refs[k].id = id
  BY BankFields DEF SoundBank, Exact
<1>2. SoundBank(fresh) /\ Exact(maps, fresh) /\ fresh.maprefs = refs /\ fresh.lastUsed = NoSubMap
  BY FreshExact
<1>3. SoundBank(mid) /\ mid.maprefs = refs
  <2> HIDE DEF fresh
  <2> QED BY <1>1, <1>2, WithdrawSound
<1>4. RightBut(maps, mid.submaps, refs, k) /\ \A s \in mid.submaps : s.ref.id # id
  <2>1. AgreeBut(maps, maps, fresh.maprefs, k)
    BY DEF AgreeBut
  <2> HIDE DEF fresh, refs
  <2> QED BY <1>1, <1>2, <2>1, WithdrawExact
<1>5. left.submaps = mid.submaps /\ left.maprefs = Without(refs, k)
  <2> HIDE DEF mid
  <2>1. mid = [submaps |-> mid.submaps, maprefs |-> refs, lastUsed |-> mid.lastUsed,
               drainMe |-> mid.drainMe]
    BY <1>3, BankFields DEF SoundBank
  <2> QED BY <2>1 DEF Forget
<1>6. SoundBank(left)
  BY <1>1, WithdrawForgetSound
<1> HIDE DEF mid, left, refs
<1>7. RightBut(maps, left.submaps, Without(refs, k), 0)
  BY <1>1, <1>4, <1>5, WithoutRight
<1>8. Once(Without(refs, k)) /\ AllLive(maps, Without(refs, k))
      /\ \A j \in DOMAIN Without(refs, k) : Without(refs, k)[j].id # id
  BY <1>1, WithoutOnce, WithoutLive
<1> QED BY <1>4, <1>5, <1>6, <1>7, <1>8 DEF Exact, left, mid, fresh

\* A map taken out of a bank leaves it right and without a reference to the map
\* (r_io_bank_del_map).
LEMMA DelMapExact ==
  ASSUME NEW maps, NEW id, NEW bank, SoundBank(bank), Exact(maps, bank)
  PROVE  /\ Exact(maps, DelMap(maps, bank, id))
         /\ \A i \in DOMAIN DelMap(maps, bank, id).maprefs :
              DelMap(maps, bank, id).maprefs[i].id # id
<1> DEFINE k == Highest(Positions(bank, id))
           left == Forget(Withdraw(maps, Fresh(bank), k, id, maps[id]), k)
<1>1. CASE maps[id] = NoMap
  <2>1. \A i \in DOMAIN bank.maprefs : bank.maprefs[i].id # id
    BY <1>1 DEF Exact, AllLive, Live
  <2> QED BY <1>1, <2>1 DEF DelMap
<1>2. CASE maps[id] # NoMap /\ ~ HasMap(bank, id)
  <2>1. DelMap(maps, bank, id) = Fresh(bank)
    BY <1>2 DEF DelMap
  <2>2. \A i \in DOMAIN bank.maprefs : bank.maprefs[i].id # id
    BY <1>2 DEF HasMap, Positions
  <2> QED BY <2>1, <2>2, FreshExact
<1>3. CASE maps[id] # NoMap /\ HasMap(bank, id)
  <2>1. k \in DOMAIN bank.maprefs /\ bank.maprefs[k].id = id
    BY <1>3, OnlyPosition DEF SoundBank, Exact
  <2>2. DelMap(maps, bank, id) = left
    BY <1>3 DEF DelMap
  <2>3. /\ Exact(maps, left)
        /\ \A i \in DOMAIN left.maprefs : left.maprefs[i].id # id
    <3> HIDE DEF k
    <3> QED BY <2>1, WithdrawForgetExact
  <2> HIDE DEF left
  <2> QED BY <2>2, <2>3
<1> QED BY <1>1, <1>2, <1>3

\* A map moved to the bottom of a bank leaves it right (r_io_bank_map_depriorize).
LEMMA DepriorizeExact ==
  ASSUME NEW maps, SoundMaps(maps), NEW id \in MapIds, NEW bank, SoundBank(bank),
         Exact(maps, bank)
  PROVE  Exact(maps, Depriorize(maps, bank, id))
<1> DEFINE k == Lowest(Positions(bank, id))
           left == Forget(Withdraw(maps, Fresh(bank), k, id, maps[id]), k)
<1>1. CASE Depriorize(maps, bank, id) = bank
  BY <1>1
<1>2. CASE Depriorize(maps, bank, id) # bank
  <2>1. HasMap(bank, id) /\ Depriorize(maps, bank, id) = AddBottom(maps, left, id)
    BY <1>2 DEF Depriorize
  <2>2. k \in DOMAIN bank.maprefs /\ bank.maprefs[k].id = id
    BY <2>1, OnlyPosition DEF SoundBank, Exact
  <2>3. /\ SoundBank(left) /\ Exact(maps, left)
        /\ \A i \in DOMAIN left.maprefs : left.maprefs[i].id # id
    <3> HIDE DEF k
    <3> QED BY <2>2, WithdrawForgetExact
  <2> HIDE DEF left
  <2> QED BY <2>1, <2>3, AddBottomExact
<1> QED BY <1>1, <1>2

\* The moved map is put where it belongs: below the maps above it, over the rest.
LEMMA FillBetween ==
  ASSUME NEW maps, NEW S, Tidy(S), NEW refs \in Seq(MapRef), Once(refs),
         NEW k \in DOMAIN refs, Live(maps, refs[k]),
         RightBut(maps, S, refs, k),
         NEW A \in SUBSET Addr, A = Span(maps[refs[k].id]),
         NEW above, above = {s \in S : \/ s.ref.id = refs[k].id
                                       \/ \E j \in k + 1 .. Len(refs) : refs[j].id = s.ref.id}
  PROVE  RightBut(maps, above \cup Carve(S \ above, A)
                              \cup Pieces(A \ Covered(above), refs[k]), refs, 0)
<1> DEFINE new == Pieces(A \ Covered(above), refs[k])
           T == above \cup Carve(S \ above, A) \cup new
<1>1. /\ DOMAIN refs = 1 .. Len(refs) /\ Len(refs) \in Nat /\ k # 0 /\ k \in 1 .. Len(refs)
      /\ refs[k] \in MapRef
      /\ A \ Covered(above) \in SUBSET Addr /\ Tidy(S \ above)
  BY TidySubset
<1>2. \A a : Covers(maps, refs[k], a) <=> a \in A
  BY DEF Covers
<1>3. ASSUME NEW s \in S, NEW i \in DOMAIN refs, refs[i] = s.ref, i # k
      PROVE  s \in above <=> k < i
  BY <1>1, <1>3 DEF Once
<1> HIDE DEF T, new
<1>4. ShowsBut(maps, T, refs, 0)
  <2> SUFFICES ASSUME NEW s \in T, NEW a \in Span(s)
               PROVE  \E i \in DOMAIN refs : refs[i] = s.ref /\ TopBut(maps, refs, 0, i, a)
    BY DEF ShowsBut
  <2>1. CASE s \in above
    <3>1. PICK i \in DOMAIN refs : refs[i] = s.ref /\ TopBut(maps, refs, k, i, a)
      BY <2>1 DEF RightBut, ShowsBut
    <3>2. k < i
      BY <1>3, <2>1, <3>1 DEF TopBut
    <3>3. TopBut(maps, refs, 0, i, a)
      BY <1>1, <3>1, <3>2 DEF TopBut
    <3> QED BY <3>1, <3>3
  <2>2. CASE s \in Carve(S \ above, A)
    <3>1. PICK t \in S \ above : s.ref = t.ref /\ Span(s) \subseteq Span(t) \ A
      BY <1>1, <2>2, CarveFrom
    <3>2. PICK i \in DOMAIN refs : refs[i] = t.ref /\ TopBut(maps, refs, k, i, a)
      BY <3>1 DEF RightBut, ShowsBut
    <3>3. ~ Covers(maps, refs[k], a)
      BY <1>2, <3>1
    <3>4. TopBut(maps, refs, 0, i, a)
      BY <1>1, <3>2, <3>3 DEF TopBut
    <3> QED BY <3>1, <3>2, <3>4
  <2>3. CASE s \in new
    <3>1. s.ref = refs[k] /\ a \in A \ Covered(above)
      BY <1>1, <2>3, PiecesInside DEF new
    <3>2. ASSUME NEW j \in DOMAIN refs, k < j, Covers(maps, refs[j], a)
          PROVE  FALSE
      <4>1. j \in DOMAIN refs \ {k}
        BY <1>1, <3>2
      <4>2. PICK t \in S : a \in Span(t)
        BY <3>1, <3>2, <4>1 DEF RightBut, ReachesBut, Covered
      <4>3. PICK i \in DOMAIN refs : refs[i] = t.ref /\ TopBut(maps, refs, k, i, a)
        BY <4>2 DEF RightBut, ShowsBut
      <4>4. ~ i < j
        BY <3>2, <4>1, <4>3 DEF TopBut
      <4>5. i # k /\ k < i
        BY <1>1, <3>2, <4>3, <4>4 DEF TopBut
      <4>6. t \in above
        BY <1>3, <4>3, <4>5
      <4> QED BY <3>1, <4>2, <4>6 DEF Covered
    <3>3. TopBut(maps, refs, 0, k, a)
      BY <1>1, <1>2, <3>1, <3>2 DEF TopBut
    <3> QED BY <3>1, <3>3
  <2> QED BY <2>1, <2>2, <2>3 DEF T
<1>5. ReachesBut(maps, T, refs, 0)
  <2> SUFFICES ASSUME NEW a \in Addr, NEW i \in DOMAIN refs, Covers(maps, refs[i], a),
                      a \notin Covered(above)
               PROVE  a \in Covered(T)
    BY DEF ReachesBut, Covered, T
  <2>1. CASE a \in A
    <3>1. PICK p \in new : a \in Span(p)
      BY <1>1, <2>1, PiecesCover DEF new
    <3> QED BY <3>1 DEF Covered, T
  <2>2. CASE a \notin A
    <3>1. i \in DOMAIN refs \ {k}
      BY <1>2, <2>2
    <3>2. PICK s \in S : a \in Span(s)
      BY <3>1 DEF RightBut, ReachesBut, Covered
    <3>3. s \in S \ above
      BY <3>2 DEF Covered
    <3>4. PICK p \in Carve(S \ above, A) : a \in Span(p)
      BY <1>1, <2>2, <3>2, <3>3, CarveCovers
    <3> QED BY <3>4 DEF Covered, T
  <2> QED BY <2>1, <2>2
<1> QED BY <1>4, <1>5 DEF RightBut, T, new

\* After a map moved, the bank is right again (r_io_bank_update_map_boundaries).
LEMMA UpdateBoundariesExact ==
  ASSUME NEW maps, NEW other, SoundMaps(other), NEW id, NEW bank, SoundBank(bank),
         Exact(maps, bank), maps[id] # NoMap, other[id] # NoMap, other[id].ts = maps[id].ts,
         \A i \in DOMAIN bank.maprefs : bank.maprefs[i].id # id =>
           other[bank.maprefs[i].id] = maps[bank.maprefs[i].id]
  PROVE  /\ Exact(other, UpdateBoundaries(other, bank, id, maps[id]))
         /\ UpdateBoundaries(other, bank, id, maps[id]).maprefs = bank.maprefs
<1> DEFINE k == Highest(Positions(bank, id))
           refs == bank.maprefs
           ref == refs[k]
           old == maps[id]
           sm == SubMapOf(other, ref)
           fresh == Fresh(bank)
           left == Withdraw(other, fresh, k, id, old)
           S == left.submaps
           above == {s \in S : \/ s.ref.id = id
                               \/ \E j \in k + 1 .. Len(refs) : refs[j].id = s.ref.id}
           done == UpdateBoundaries(other, bank, id, old)
<1>1. refs \in Seq(MapRef) /\ Once(refs) /\ AllLive(maps, refs) /\ AllLive(other, refs)
      /\ RightBut(maps, bank.submaps, refs, 0)
  <2>1. refs \in Seq(MapRef) /\ Once(refs) /\ AllLive(maps, refs)
        /\ RightBut(maps, bank.submaps, refs, 0)
    BY BankFields DEF SoundBank, Exact
  <2>2. AllLive(other, refs)
    BY <2>1 DEF AllLive, Live
  <2> QED BY <2>1, <2>2
<1>2. CASE ~ HasMap(bank, id)
  <2>1. \A i \in DOMAIN refs : refs[i].id # id
    BY <1>2 DEF HasMap, Positions
  <2>2. done = bank
    BY <1>2 DEF UpdateBoundaries
  <2>3. AgreeBut(maps, other, refs, 0)
    BY <2>1 DEF AgreeBut
  <2> QED BY <1>1, <2>2, <2>3, ExactAgree
<1>3. CASE HasMap(bank, id)
  <2>1. k \in DOMAIN refs /\ ref.id = id
    BY <1>1, <1>3, OnlyPosition DEF SoundBank
  <2>2. Live(other, ref) /\ Span(sm) = Span(other[id])
    BY <1>1, <2>1 DEF AllLive, SubMapOf, Span
  <2>3. AgreeBut(maps, other, refs, k)
    BY <1>1, <2>1 DEF AgreeBut, Once
  <2>4. CASE Span(sm) = Span(old)
    <3>1. done = bank
      BY <2>4 DEF UpdateBoundaries
    <3>2. \A i \in DOMAIN refs : \A a : Covers(other, refs[i], a) <=> Covers(maps, refs[i], a)
      <4>1. \A a : Covers(other, ref, a) <=> Covers(maps, ref, a)
        BY <2>1, <2>2, <2>4 DEF Covers, Live
      <4>2. \A i \in DOMAIN refs \ {k} : \A a : Covers(other, refs[i], a) <=> Covers(maps, refs[i], a)
        BY <2>3 DEF AgreeBut, Covers, Live
      <4> QED BY <4>1, <4>2
    <3>3. RightBut(other, bank.submaps, refs, 0)
      <4> HIDE DEF refs
      <4>1. \A i, a : TopBut(maps, refs, 0, i, a) => TopBut(other, refs, 0, i, a)
        BY <3>2 DEF TopBut
      <4> QED BY <1>1, <3>2, <4>1 DEF RightBut, ShowsBut, ReachesBut
    <3> QED BY <1>1, <3>1, <3>3 DEF Exact
  <2>5. CASE Span(sm) # Span(old)
    <3>1. /\ SoundBank(fresh) /\ Exact(maps, fresh) /\ fresh.maprefs = refs
          /\ fresh.lastUsed = NoSubMap
      BY FreshExact
    <3>2. SoundBank(left) /\ left.maprefs = refs
      <4>1. k \in 1 .. Len(refs)
        BY <1>1, <2>1
      <4> HIDE DEF fresh, k
      <4> QED BY <3>1, <4>1, WithdrawSound
    <3>3. RightBut(other, S, refs, k)
      <4> HIDE DEF fresh, k, refs
      <4> QED BY <2>1, <2>3, <3>1, WithdrawExact DEF ref
    <3>4. /\ done.submaps = above \cup Carve(S \ above, Span(sm))
                              \cup Pieces(Span(sm) \ Covered(above), ref)
          /\ done.maprefs = refs
      <4>1. done = [left EXCEPT
                      !.submaps = above \cup Carve(@ \ above, Span(sm))
                                        \cup Pieces(Span(sm) \ Covered(above), ref),
                      !.drainMe = @ \/ Hits(left.submaps, sm) # {}]
        BY <1>3, <2>2, <2>5 DEF UpdateBoundaries
      <4>2. left = [submaps |-> S, maprefs |-> refs, lastUsed |-> left.lastUsed,
                    drainMe |-> left.drainMe]
        <5> HIDE DEF left, refs
        <5> QED BY <3>2, BankFields DEF SoundBank
      <4> HIDE DEF done, left, above, sm, refs, ref
      <4> QED BY <4>1, <4>2
    <3>5. Tidy(S) /\ Span(sm) \in SUBSET Addr
      <4>1. ref \in MapRef
        BY <1>1, <2>1
      <4>2. sm \in SubMap
        BY <2>2, <4>1, LiveType
      <4>3. Span(sm) \in SUBSET Addr
        BY <4>2, SpanInside
      <4> HIDE DEF left, sm
      <4> QED BY <3>2, <4>3 DEF SoundBank
    <3>6. above = {s \in S : \/ s.ref.id = refs[k].id
                             \/ \E j \in k + 1 .. Len(refs) : refs[j].id = s.ref.id}
      BY <2>1
    <3>7. RightBut(other, done.submaps, refs, 0)
      <4> HIDE DEF left, sm, above, done, k, refs, S
      <4>1. Live(other, refs[k]) /\ Span(sm) = Span(other[refs[k].id]) /\ ref = refs[k]
        BY <2>1, <2>2 DEF ref
      <4> HIDE DEF ref
      <4>2. \A A \in SUBSET Addr : A = Span(other[refs[k].id]) =>
              RightBut(other, above \cup Carve(S \ above, A)
                                    \cup Pieces(A \ Covered(above), refs[k]), refs, 0)
        BY <1>1, <2>1, <3>3, <3>5, <3>6, <4>1, FillBetween
      <4>3. RightBut(other, above \cup Carve(S \ above, Span(sm))
                                  \cup Pieces(Span(sm) \ Covered(above), refs[k]), refs, 0)
        BY <3>5, <4>1, <4>2
      <4> QED BY <3>4, <4>1, <4>3
    <3> QED BY <1>1, <3>4, <3>7 DEF Exact
  <2> QED BY <2>4, <2>5
<1> QED BY <1>2, <1>3

-----------------------------------------------------------------------------
(* Draining and accesses.                                                   *)

\* Nodes are intervals of numbers, and one begins at an address.
LEMMA NodeNumbers ==
  ASSUME NEW S, Tidy(S)
  PROVE  /\ \A s \in S : s.from \in Nat /\ s.to \in Nat /\ s.from <= s.to /\ s.from \in Addr
         /\ \A s, t \in S : s.from < t.from => s.to < t.from
         /\ \A s, t \in S : s.from = t.from => s = t
<1>1. \A s \in S : s.from \in Nat /\ s.to \in Nat /\ s.from <= s.to /\ s.from \in Addr
  BY MaxAddrAssumption DEF Tidy, SubMap, Addr
<1>2. ASSUME NEW s \in S, NEW t \in S, s.from < t.from
      PROVE  s.to < t.from
  <2>1. Apart(s, t)
    BY <1>1, <1>2 DEF Tidy
  <2> QED BY <1>1, <1>2, <2>1 DEF Apart, Span
<1>3. ASSUME NEW s \in S, NEW t \in S, s.from = t.from, s # t
      PROVE  FALSE
  <2>1. Apart(s, t)
    BY <1>3 DEF Tidy
  <2>2. s.from \in Span(s) /\ s.from \in Span(t)
    BY <1>1, <1>3 DEF Span
  <2> QED BY <2>1, <2>2 DEF Apart
<1> QED BY <1>1, <1>2, <1>3

\* Chains that meet join.
LEMMA ChainJoin ==
  ASSUME NEW S, Tidy(S), NEW s \in S, NEW t \in S, NEW u \in S,
         Chained(S, s, t), Chained(S, t, u)
  PROVE  Chained(S, s, u)
<1>1. \A v \in S : v.from \in Nat
  BY NodeNumbers
<1>2. s.from <= t.from /\ t.from <= u.from /\ t.ref = s.ref /\ t.ref = u.ref
  BY <1>1 DEF Chained
<1> QED BY <1>1, <1>2 DEF Chained

\* A node is in a longest chain.
LEMMA LongestThrough ==
  ASSUME NEW S, Tidy(S), NEW s \in S
  PROVE  \E x, y \in S :
           /\ Chained(S, x, s) /\ Chained(S, s, y)
           /\ \A u \in S : Chained(S, u, x) => u = x
           /\ \A u \in S : Chained(S, y, u) => u = y
<1>1. /\ \A v \in S : v.from \in Nat /\ v.from \in Addr
      /\ \A v, w \in S : v.from = w.from => v = w
  BY NodeNumbers
<1>2. Chained(S, s, s)
  <2>1. \A u \in S : s.from <= u.from /\ u.from <= s.from => u = s
    BY <1>1
  <2> QED BY <1>1, <2>1 DEF Chained
<1>3. PICK x \in S : Chained(S, x, s) /\ \A u \in S : Chained(S, u, s) => x.from <= u.from
  <2> DEFINE F == {u.from : u \in {v \in S : Chained(S, v, s)}}
  <2>1. F \in SUBSET Nat /\ F # {}
    BY <1>1, <1>2
  <2>2. PICK f \in F : \A g \in F : f <= g
    <3> HIDE DEF F
    <3> QED BY <2>1, LeastExists
  <2> QED BY <2>2
<1>4. PICK y \in S : Chained(S, s, y) /\ \A u \in S : Chained(S, s, u) => u.from <= y.from
  <2> DEFINE F == {u.from : u \in {v \in S : Chained(S, s, v)}}
  <2>1. F \in SUBSET (0 .. MaxAddr) /\ F # {}
    BY <1>1, <1>2 DEF Addr
  <2>2. PICK f \in F : \A g \in F : g <= f
    <3> HIDE DEF F
    <3> QED BY <2>1, GreatestExists, MaxAddrAssumption
  <2> QED BY <2>2
<1>5. ASSUME NEW u \in S, Chained(S, u, x)
      PROVE  u = x
  <2>1. Chained(S, u, s)
    BY <1>3, <1>5, ChainJoin
  <2>2. x.from <= u.from /\ u.from <= x.from
    BY <1>3, <1>5, <2>1 DEF Chained
  <2> QED BY <1>1, <2>2
<1>6. ASSUME NEW u \in S, Chained(S, y, u)
      PROVE  u = y
  <2>1. Chained(S, s, u)
    BY <1>4, <1>6, ChainJoin
  <2>2. y.from <= u.from /\ u.from <= y.from
    BY <1>4, <1>6, <2>1 DEF Chained
  <2> QED BY <1>1, <2>2
<1> QED BY <1>3, <1>4, <1>5, <1>6

\* What lies between the ends of a chain is shown by the map of the chain: the
\* map covers it, so a node is there, and that node is of the chain.
LEMMA ChainShows ==
  ASSUME NEW maps, SoundMaps(maps), NEW S, Tidy(S), NEW refs \in Seq(MapRef),
         RightBut(maps, S, refs, 0), NEW s \in S, NEW t \in S, Chained(S, s, t),
         NEW a \in s.from .. t.to
  PROVE  \E i \in DOMAIN refs : refs[i] = s.ref /\ TopBut(maps, refs, 0, i, a)
<1>1. /\ \A v \in S : v.from \in Nat /\ v.to \in Nat /\ v.from <= v.to /\ v.from \in Addr
      /\ \A v, w \in S : v.from < w.from => v.to < w.from
  BY NodeNumbers
<1>2. s.from <= t.from /\ t.ref = s.ref
  BY <1>1 DEF Chained
<1>3. PICK i \in DOMAIN refs : refs[i] = s.ref /\ TopBut(maps, refs, 0, i, s.from)
  <2>1. s.from \in Span(s)
    BY <1>1 DEF Span
  <2> QED BY <2>1 DEF RightBut, ShowsBut
<1>4. PICK j \in DOMAIN refs : refs[j] = s.ref /\ TopBut(maps, refs, 0, j, t.to)
  <2>1. t.to \in Span(t)
    BY <1>1 DEF Span
  <2> QED BY <1>2, <2>1 DEF RightBut, ShowsBut
<1>5. Covers(maps, refs[i], a) /\ i \in DOMAIN refs \ {0} /\ a \in Addr
  <2>1. i \in DOMAIN refs \ {0} /\ Covers(maps, refs[i], s.from) /\ Covers(maps, refs[i], t.to)
    BY <1>3, <1>4 DEF TopBut
  <2>2. refs[i].id \in MapIds /\ Live(maps, refs[i])
    <3>1. refs[i] \in MapRef
      BY <1>3
    <3> QED BY <2>1, <3>1 DEF Covers, MapRef
  <2>3. maps[refs[i].id].from \in Addr /\ maps[refs[i].id].to \in Addr
    BY <2>2 DEF SoundMaps, Live
  <2>4. a \in Span(maps[refs[i].id])
    BY <1>1, <2>1, <2>3, MaxAddrAssumption DEF Covers, Span, Addr
  <2>5. a \in Addr
    BY <2>3, <2>4, MaxAddrAssumption DEF Span, Addr
  <2> QED BY <2>1, <2>2, <2>4, <2>5 DEF Covers
<1>6. PICK u \in S : a \in Span(u)
  BY <1>5 DEF RightBut, ReachesBut, Covered
<1>7. s.from <= u.from /\ u.from <= t.from
  <2>1. u.from <= a /\ a <= u.to /\ s.from <= a /\ a <= t.to /\ a \in Nat
    BY <1>1, <1>6 DEF Span
  <2> QED BY <1>1, <2>1
<1>8. u.ref = s.ref
  BY <1>7 DEF Chained
<1> QED BY <1>6, <1>8 DEF RightBut, ShowsBut

\* Merging the fragments of a bank leaves it right (r_io_bank_drain).
LEMMA DrainExact ==
  ASSUME NEW maps, SoundMaps(maps), NEW bank, SoundBank(bank), Exact(maps, bank)
  PROVE  Exact(maps, Drain(bank))
<1> DEFINE S == bank.submaps
           refs == bank.maprefs
           longest == {c \in S \X S :
                         /\ Chained(S, c[1], c[2])
                         /\ \A u \in S : /\ Chained(S, u, c[1]) => u = c[1]
                                         /\ Chained(S, c[2], u) => u = c[2]}
           merged(c) == [from |-> c[1].from, to |-> c[2].to, ref |-> c[1].ref]
           T == {merged(c) : c \in longest}
<1>1. CASE ~ bank.drainMe
  BY <1>1 DEF Drain
<1>2. CASE bank.drainMe
  <2>1. /\ bank \in Bank /\ Tidy(S) /\ refs \in Seq(MapRef)
        /\ Once(refs) /\ AllLive(maps, refs) /\ RightBut(maps, S, refs, 0)
    BY BankFields DEF SoundBank, Exact
  <2>2. Drain(bank).submaps = T /\ Drain(bank).maprefs = refs
    <3>1. Drain(bank) = [bank EXCEPT !.submaps = T, !.lastUsed = NoSubMap,
                                     !.drainMe = FALSE]
      BY <1>2 DEF Drain
    <3> HIDE DEF T
    <3> QED BY <2>1, <3>1 DEF Bank
  <2> HIDE DEF S, refs
  <2>3. ShowsBut(maps, T, refs, 0)
    <3> SUFFICES ASSUME NEW c \in longest, NEW a \in Span(merged(c))
                 PROVE  \E i \in DOMAIN refs :
                          refs[i] = merged(c).ref /\ TopBut(maps, refs, 0, i, a)
      BY DEF ShowsBut
    <3>1. c[1] \in S /\ c[2] \in S /\ Chained(S, c[1], c[2]) /\ a \in c[1].from .. c[2].to
      BY DEF Span
    <3> QED BY <2>1, <3>1, ChainShows
  <2>4. ReachesBut(maps, T, refs, 0)
    <3> SUFFICES ASSUME NEW a \in Covered(S)
                 PROVE  a \in Covered(T)
      BY <2>1 DEF RightBut, ReachesBut
    <3>1. PICK s \in S : a \in Span(s)
      BY DEF Covered
    <3>2. PICK x \in S, y \in S :
            /\ Chained(S, x, s) /\ Chained(S, s, y)
            /\ \A u \in S : Chained(S, u, x) => u = x
            /\ \A u \in S : Chained(S, y, u) => u = y
      BY <2>1, LongestThrough
    <3>3. Chained(S, x, y)
      BY <2>1, <3>2, ChainJoin
    <3>4. <<x, y>> \in longest
      BY <3>2, <3>3
    <3>5. a \in x.from .. y.to
      <4>1. /\ \A v \in S : v.from \in Nat /\ v.to \in Nat /\ v.from <= v.to
            /\ \A v, w \in S : v.from < w.from => v.to < w.from
            /\ \A v, w \in S : v.from = w.from => v = w
        BY <2>1, NodeNumbers
      <4>2. x.from <= s.from /\ s.from <= y.from
        BY <3>2 DEF Chained
      <4>3. s.to <= y.to
        <5>1. CASE s = y
          BY <4>1, <5>1
        <5>2. CASE s # y
          <6>1. s.from < y.from
            BY <4>1, <4>2, <5>2
          <6>2. s.to < y.from
            BY <4>1, <6>1
          <6> QED BY <4>1, <6>2
        <5> QED BY <5>1, <5>2
      <4> QED BY <3>1, <4>1, <4>2, <4>3 DEF Span
    <3>6. a \in Span(merged(<<x, y>>)) /\ merged(<<x, y>>) \in T
      BY <3>4, <3>5 DEF Span
    <3> HIDE DEF T, merged
    <3> QED BY <3>6 DEF Covered
  <2> HIDE DEF T
  <2> QED BY <2>1, <2>2, <2>3, <2>4 DEF Exact, RightBut
<1> QED BY <1>1, <1>2

\* An access changes neither tree nor list (r_io_bank_read_at and write_at).
LEMMA TouchExact ==
  ASSUME NEW maps, NEW bank, SoundBank(bank), Exact(maps, bank), NEW x
  PROVE  Exact(maps, Touch(maps, bank, x))
<1>1. Touch(maps, bank, x).submaps = bank.submaps /\ Touch(maps, bank, x).maprefs = bank.maprefs
  BY BankFields DEF SoundBank, Bank, Touch
<1> QED BY <1>1 DEF Exact

\* A bank that lists nothing and shows nothing is right.
LEMMA NothingExact ==
  ASSUME NEW maps, NEW bank, bank.submaps = {}, bank.maprefs = <<>>
  PROVE  Exact(maps, bank)
<1>1. DOMAIN bank.maprefs = {}
  OBVIOUS
<1> QED BY <1>1 DEF Exact, Once, AllLive, RightBut, ShowsBut, ReachesBut
-----------------------------------------------------------------------------
(* What drain_me announces.                                                 *)

\* No node ends where another node of the same reference begins.
NoFragments(S) == \A s, t \in S : ~ (s.to + 1 = t.from /\ s.ref = t.ref)
Announced(bank) == bank.drainMe \/ NoFragments(bank.submaps)

-----------------------------------------------------------------------------
(* Trees.                                                                   *)

\* Taking nodes away makes no neighbours.
LEMMA SubsetWhole ==
  ASSUME NEW S, NoFragments(S), NEW T \in SUBSET S
  PROVE  NoFragments(T)
BY DEF NoFragments

\* Two trees that have no reference in common.
LEMMA UnionWhole ==
  ASSUME NEW S, NEW T, NoFragments(S), NoFragments(T),
         \A s \in S, t \in T : s.ref # t.ref
  PROVE  NoFragments(S \cup T)
BY DEF NoFragments

\* The pieces of a set are as long as can be.
LEMMA PiecesWhole ==
  ASSUME NEW A \in SUBSET Addr, NEW ref
  PROVE  NoFragments(Pieces(A, ref))
<1> SUFFICES ASSUME NEW p \in Pieces(A, ref), NEW q \in Pieces(A, ref), p.to + 1 = q.from
             PROVE  FALSE
  BY DEF NoFragments
<1>1. PICK r \in Runs(A) : p = [from |-> r[1], to |-> r[2], ref |-> ref]
  BY DEF Pieces
<1>2. PICK u \in Runs(A) : q = [from |-> u[1], to |-> u[2], ref |-> ref]
  BY DEF Pieces
<1>3. r[2] + 1 \notin A /\ u[1] \in A
  BY RunFacts
<1> QED BY <1>1, <1>2, <1>3

\* Neighbours after a cut are pieces of nodes that were neighbours before it.
LEMMA CarveWhole ==
  ASSUME NEW S, Tidy(S), NoFragments(S), NEW A
  PROVE  NoFragments(Carve(S, A))
<1> SUFFICES ASSUME NEW p \in Carve(S, A), NEW q \in Carve(S, A),
                    p.to + 1 = q.from, p.ref = q.ref
             PROVE  FALSE
  BY DEF NoFragments
<1>1. PICK s \in S : p \in Pieces(Span(s) \ A, s.ref)
  BY DEF Carve
<1>2. PICK t \in S : q \in Pieces(Span(t) \ A, t.ref)
  BY DEF Carve
<1>3. /\ Span(s) \ A \in SUBSET Addr /\ s.ref \in MapRef
      /\ Span(t) \ A \in SUBSET Addr /\ t.ref \in MapRef
  BY SpanInside DEF Tidy
<1>4. p \in SubMap /\ p.from <= p.to /\ p.ref = s.ref /\ Span(p) \subseteq Span(s) \ A
  BY <1>1, <1>3, PiecesInside
<1>5. q \in SubMap /\ q.from <= q.to /\ q.ref = t.ref /\ Span(q) \subseteq Span(t) \ A
  BY <1>2, <1>3, PiecesInside
<1>6. s # t
  BY <1>1, <1>2, <1>3, PiecesWhole DEF NoFragments
<1>7. p.to \in Span(s) /\ q.from \in Span(t) /\ p.to \in Nat /\ q.from \in Nat
  <2>1. p.from \in Nat /\ p.to \in Nat /\ q.from \in Nat /\ q.to \in Nat
    BY <1>4, <1>5, MaxAddrAssumption DEF SubMap, Addr
  <2>2. p.to \in Span(p) /\ q.from \in Span(q)
    BY <1>4, <1>5, <2>1 DEF Span
  <2> QED BY <1>4, <1>5, <2>1, <2>2
<1>8. s.to + 1 = t.from
  <2>1. /\ s.from \in Nat /\ s.to \in Nat /\ s.from <= s.to
        /\ t.from \in Nat /\ t.to \in Nat /\ t.from <= t.to
        /\ (s.from < t.from => s.to < t.from) /\ (t.from < s.from => t.to < s.from)
        /\ s.from # t.from
    BY <1>6, NodeNumbers
  <2> QED BY <1>7, <2>1 DEF Span
<1> QED BY <1>4, <1>5, <1>8 DEF NoFragments

\* A node of a tree that is right has a reference of the list, and only one
\* reference of the list names its map.
LEMMA NodeListed ==
  ASSUME NEW maps, NEW S, Tidy(S), NEW refs, NEW k, ShowsBut(maps, S, refs, k), NEW s \in S
  PROVE  \E i \in DOMAIN refs \ {k} : refs[i] = s.ref /\ Covers(maps, s.ref, s.from)
<1>1. s.from \in Span(s)
  BY NodeNumbers DEF Span
<1>2. PICK i \in DOMAIN refs : refs[i] = s.ref /\ TopBut(maps, refs, k, i, s.from)
  BY <1>1 DEF ShowsBut
<1> QED BY <1>2 DEF TopBut

-----------------------------------------------------------------------------
(* The operations of a bank.                                                *)

\* r_io_bank_map_add_top of a map the bank has not.
LEMMA AddTopAnnounced ==
  ASSUME NEW maps, SoundMaps(maps), NEW id \in MapIds, NEW bank, SoundBank(bank),
         Exact(maps, bank), \A i \in DOMAIN bank.maprefs : bank.maprefs[i].id # id,
         Announced(bank)
  PROVE  Announced(AddTop(maps, bank, id))
<1> DEFINE ref == RefOf(maps, id)
           sm == SubMapOf(maps, ref)
           S == bank.submaps
<1>1. CASE maps[id] = NoMap
  BY <1>1 DEF AddTop
<1>2. CASE maps[id] # NoMap
  <2>1. /\ AddTop(maps, bank, id).submaps = Carve(S, Span(sm)) \cup {sm}
        /\ AddTop(maps, bank, id).drainMe = bank.drainMe
    <3>1. bank = [submaps |-> S, maprefs |-> bank.maprefs, lastUsed |-> bank.lastUsed,
                  drainMe |-> bank.drainMe]
      BY BankFields DEF SoundBank
    <3> QED BY <1>2, <3>1 DEF AddTop
  <2>2. Tidy(S) /\ ref.id = id /\ sm.ref = ref /\ sm.from \in Nat /\ sm.to \in Nat
        /\ sm.from <= sm.to
    <3>1. Tidy(S) /\ ref.id = id /\ sm.ref = ref
      BY DEF SoundBank, SubMapOf, RefOf
    <3>2. sm \in SubMap /\ sm.from <= sm.to
      BY <1>2, RefOfType
    <3> HIDE DEF sm, ref
    <3>3. sm.from \in Nat /\ sm.to \in Nat
      BY <3>2, MaxAddrAssumption DEF SubMap, Addr
    <3> QED BY <3>1, <3>2, <3>3
  <2> HIDE DEF sm, ref
  <2>3. ASSUME NoFragments(S) PROVE NoFragments(Carve(S, Span(sm)) \cup {sm})
    <3>1. NoFragments(Carve(S, Span(sm)))
      BY <2>2, <2>3, CarveWhole
    <3>2. NoFragments({sm})
      BY <2>2 DEF NoFragments
    <3>3. ASSUME NEW p \in Carve(S, Span(sm)) PROVE p.ref # sm.ref
      <4>1. PICK s \in S : p.ref = s.ref
        BY <2>2, CarveFrom
      <4>2. PICK i \in DOMAIN bank.maprefs : bank.maprefs[i] = s.ref
        BY <2>2, NodeListed DEF Exact, RightBut
      <4> QED BY <2>2, <4>1, <4>2
    <3> QED BY <3>1, <3>2, <3>3, UnionWhole
  <2> QED BY <2>1, <2>3 DEF Announced
<1> QED BY <1>1, <1>2

\* r_io_bank_map_add_bottom of a map the bank has not.
LEMMA AddBottomAnnounced ==
  ASSUME NEW maps, SoundMaps(maps), NEW id \in MapIds, NEW bank, SoundBank(bank),
         Exact(maps, bank), \A i \in DOMAIN bank.maprefs : bank.maprefs[i].id # id,
         Announced(bank)
  PROVE  Announced(AddBottom(maps, bank, id))
<1> DEFINE ref == RefOf(maps, id)
           sm == SubMapOf(maps, ref)
           S == bank.submaps
           new == Pieces(Span(sm) \ Covered(S), ref)
<1>1. CASE maps[id] = NoMap
  BY <1>1 DEF AddBottom
<1>2. CASE maps[id] # NoMap
  <2>1. /\ AddBottom(maps, bank, id).submaps = S \cup new
        /\ AddBottom(maps, bank, id).drainMe = bank.drainMe
    <3>1. bank = [submaps |-> S, maprefs |-> bank.maprefs, lastUsed |-> bank.lastUsed,
                  drainMe |-> bank.drainMe]
      BY BankFields DEF SoundBank
    <3> QED BY <1>2, <3>1 DEF AddBottom
  <2>2. Tidy(S) /\ ref \in MapRef /\ ref.id = id /\ Span(sm) \ Covered(S) \in SUBSET Addr
    <3>1. ref \in MapRef /\ sm \in SubMap
      BY <1>2, RefOfType
    <3>2. Span(sm) \in SUBSET Addr
      BY <3>1, SpanInside
    <3> QED BY <3>1, <3>2 DEF SoundBank, RefOf
  <2> HIDE DEF sm, ref
  <2>3. ASSUME NoFragments(S) PROVE NoFragments(S \cup new)
    <3>1. NoFragments(new)
      BY <2>2, PiecesWhole
    <3>2. ASSUME NEW s \in S, NEW p \in new PROVE s.ref # p.ref
      <4>1. p.ref = ref
        BY <2>2, PiecesInside
      <4>2. PICK i \in DOMAIN bank.maprefs : bank.maprefs[i] = s.ref
        BY <2>2, NodeListed DEF Exact, RightBut
      <4> QED BY <2>2, <4>1, <4>2
    <3> QED BY <2>3, <3>1, <3>2, UnionWhole
  <2> HIDE DEF new
  <2> QED BY <2>1, <2>3 DEF Announced
<1> QED BY <1>1, <1>2

\* r_io_bank_map_priorize: a map that was found whole has no other node.
LEMMA PriorizeAnnounced ==
  ASSUME NEW maps, SoundMaps(maps), NEW id \in MapIds, NEW bank, SoundBank(bank),
         Exact(maps, bank), Announced(bank)
  PROVE  Announced(Priorize(maps, bank, id))
<1> DEFINE k == Lowest(Positions(bank, id))
           S == bank.submaps
           refs == bank.maprefs
           ref == refs[k]
           sm == SubMapOf(maps, ref)
           whole == \E s \in S : s.from = sm.from /\ s.to = sm.to
<1>1. CASE Priorize(maps, bank, id) = bank
  BY <1>1
<1>2. CASE Priorize(maps, bank, id) # bank
  <2>1. /\ HasMap(bank, id) /\ Live(maps, ref)
        /\ Priorize(maps, bank, id).submaps = Carve(S, Span(sm)) \cup {sm}
        /\ Priorize(maps, bank, id).drainMe = (bank.drainMe \/ ~ whole)
    BY <1>2 DEF Priorize
  <2>2. Tidy(S) /\ refs \in Seq(MapRef) /\ ShowsBut(maps, S, refs, 0)
    BY BankFields DEF SoundBank, Exact, RightBut
  <2>3. sm.ref = ref /\ Span(sm) = Span(maps[ref.id])
        /\ sm.from \in Nat /\ sm.to \in Nat /\ sm.from <= sm.to
    <3>1. k \in DOMAIN refs
      BY <2>1, OnlyPosition DEF SoundBank, Exact
    <3>2. ref \in MapRef
      BY <2>2, <3>1
    <3>3. sm \in SubMap /\ sm.from <= sm.to
      BY <2>1, <3>2, LiveType
    <3>4. sm.from \in Nat /\ sm.to \in Nat
      BY <3>3, MaxAddrAssumption DEF SubMap, Addr
    <3> QED BY <3>3, <3>4 DEF SubMapOf, Span
  <2> HIDE DEF sm, ref, S
  <2>4. ASSUME NoFragments(S) PROVE NoFragments(Carve(S, Span(sm)) \cup {sm})
    <3>1. NoFragments(Carve(S, Span(sm)))
      BY <2>2, <2>4, CarveWhole
    <3>2. NoFragments({sm})
      BY <2>3 DEF NoFragments
    <3>3. ASSUME NEW p \in Carve(S, Span(sm)) PROVE p.ref # sm.ref
      <4>1. PICK s \in S : p.ref = s.ref /\ Span(p) \subseteq Span(s) \ Span(sm)
        BY <2>2, CarveFrom
      <4>2. p.from \in Span(p)
        <5>1. Tidy(Carve(S, Span(sm)))
          BY <2>2, CarveTidy
        <5> QED BY <5>1, NodeNumbers DEF Span
      <4>3. PICK i \in DOMAIN refs : refs[i] = s.ref /\ TopBut(maps, refs, 0, i, p.from)
        BY <2>2, <4>1, <4>2 DEF ShowsBut
      <4>4. Covers(maps, s.ref, p.from)
        BY <4>3 DEF TopBut
      <4> QED BY <2>3, <4>1, <4>2, <4>4 DEF Covers
    <3> QED BY <3>1, <3>2, <3>3, UnionWhole
  <2>5. ASSUME ~ bank.drainMe, whole PROVE NoFragments(Carve(S, Span(sm)) \cup {sm})
    BY <2>4, <2>5 DEF Announced, S
  <2> HIDE DEF whole
  <2> QED BY <2>1, <2>5 DEF Announced
<1> QED BY <1>1, <1>2

\* _delete_submaps_from_bank_tree: what was filled in is announced.
LEMMA WithdrawAnnounced ==
  ASSUME NEW maps, NEW bank, SoundBank(bank), Announced(bank), NEW k, NEW id, NEW x
  PROVE  /\ Announced(Withdraw(maps, bank, k, id, x))
         /\ Announced(Forget(Withdraw(maps, bank, k, id, x), k))
<1> DEFINE S == bank.submaps
           refs == bank.maprefs
           gone == {s \in S : s.ref.id = id /\ Overlaps(s, x)}
           left(s, i) == {a \in Span(s) : Serves(maps, refs, k, i, a)}
           fill == UNION {Pieces(left(s, i), refs[i]) : s \in gone, i \in 1 .. k - 1}
           drain == bank.drainMe \/ fill # {}
           mid == Withdraw(maps, bank, k, id, x)
<1>1. /\ mid.submaps = (S \ gone) \cup fill /\ mid.drainMe = drain
      /\ Forget(mid, k).submaps = mid.submaps /\ Forget(mid, k).drainMe = mid.drainMe
  <2> DEFINE new == (S \ gone) \cup fill
  <2>1. mid = [bank EXCEPT !.submaps = new, !.drainMe = drain]
    BY DEF Withdraw
  <2>2. bank = [submaps |-> bank.submaps, maprefs |-> bank.maprefs,
                lastUsed |-> bank.lastUsed, drainMe |-> bank.drainMe]
    BY BankFields DEF SoundBank
  <2> HIDE DEF new, drain, mid, S, refs
  <2>3. /\ mid.submaps = new /\ mid.drainMe = drain
        /\ Forget(mid, k).submaps = new /\ Forget(mid, k).drainMe = drain
    BY <2>1, <2>2 DEF Forget
  <2> QED BY <2>3 DEF new
<1>2. NoFragments(S) => NoFragments(S \ gone)
  BY SubsetWhole
<1> HIDE DEF mid, gone, fill
<1>3. Announced(mid)
  BY <1>1, <1>2 DEF Announced
<1> QED BY <1>1, <1>3 DEF Announced, mid

\* Dropping the cached node does not touch the flag.
LEMMA FreshAnnounced ==
  ASSUME NEW maps, NEW bank, SoundBank(bank), Exact(maps, bank), Announced(bank)
  PROVE  Announced(Fresh(bank))
BY FreshExact DEF Announced

\* r_io_bank_del_map
LEMMA DelMapAnnounced ==
  ASSUME NEW maps, NEW id, NEW bank, SoundBank(bank), Exact(maps, bank), Announced(bank)
  PROVE  Announced(DelMap(maps, bank, id))
<1>1. SoundBank(Fresh(bank)) /\ Announced(Fresh(bank))
  BY FreshExact, FreshAnnounced
<1> QED BY <1>1, WithdrawAnnounced DEF DelMap

\* r_io_bank_map_depriorize
LEMMA DepriorizeAnnounced ==
  ASSUME NEW maps, SoundMaps(maps), NEW id \in MapIds, NEW bank, SoundBank(bank),
         Exact(maps, bank), Announced(bank)
  PROVE  Announced(Depriorize(maps, bank, id))
<1> DEFINE k == Lowest(Positions(bank, id))
           left == Forget(Withdraw(maps, Fresh(bank), k, id, maps[id]), k)
<1>1. CASE Depriorize(maps, bank, id) = bank
  BY <1>1
<1>2. CASE Depriorize(maps, bank, id) # bank
  <2>1. HasMap(bank, id) /\ Depriorize(maps, bank, id) = AddBottom(maps, left, id)
    BY <1>2 DEF Depriorize
  <2>2. k \in DOMAIN bank.maprefs /\ bank.maprefs[k].id = id
    BY <2>1, OnlyPosition DEF SoundBank, Exact
  <2>3. /\ SoundBank(left) /\ Exact(maps, left)
        /\ \A i \in DOMAIN left.maprefs : left.maprefs[i].id # id
    <3> HIDE DEF k
    <3> QED BY <2>2, WithdrawForgetExact
  <2>4. Announced(left)
    <3>1. SoundBank(Fresh(bank)) /\ Announced(Fresh(bank))
      BY FreshExact, FreshAnnounced
    <3> HIDE DEF k
    <3> QED BY <3>1, WithdrawAnnounced
  <2> HIDE DEF left
  <2> QED BY <2>1, <2>3, <2>4, AddBottomAnnounced
<1> QED BY <1>1, <1>2

\* A cut that meets no node changes nothing.
LEMMA CarveNothing ==
  ASSUME NEW S, Tidy(S), NEW A, \A s \in S : Span(s) \cap A = {}
  PROVE  Carve(S, A) \subseteq S
<1> SUFFICES ASSUME NEW p \in Carve(S, A) PROVE p \in S
  OBVIOUS
<1>1. PICK s \in S : p \in Pieces(Span(s) \ A, s.ref)
  BY DEF Carve
<1>2. Span(s) \ A = Span(s) /\ Span(s) \in SUBSET Addr /\ s.ref \in MapRef
  BY SpanInside DEF Tidy
<1>3. s \in Pieces(Span(s), s.ref)
  BY PieceWhole DEF Tidy
<1>4. Tidy(Pieces(Span(s), s.ref)) /\ Span(p) \subseteq Span(s)
  BY <1>1, <1>2, PiecesTidy, PiecesInside
<1>5. p \in Pieces(Span(s), s.ref)
  BY <1>1, <1>2
<1>6. p.from \in Span(p)
  BY <1>4, <1>5, NodeNumbers DEF Span
<1> QED BY <1>3, <1>4, <1>5, <1>6 DEF Tidy, Apart

\* r_io_bank_update_map_boundaries: a map that met nothing where it was put has
\* no other node.
LEMMA UpdateBoundariesAnnounced ==
  ASSUME NEW maps, NEW other, SoundMaps(other), NEW id, NEW bank, SoundBank(bank),
         Exact(maps, bank), maps[id] # NoMap, other[id] # NoMap, other[id].ts = maps[id].ts,
         \A i \in DOMAIN bank.maprefs : bank.maprefs[i].id # id =>
           other[bank.maprefs[i].id] = maps[bank.maprefs[i].id],
         Announced(bank)
  PROVE  Announced(UpdateBoundaries(other, bank, id, maps[id]))
<1> DEFINE k == Highest(Positions(bank, id))
           refs == bank.maprefs
           ref == refs[k]
           old == maps[id]
           sm == SubMapOf(other, ref)
           fresh == Fresh(bank)
           left == Withdraw(other, fresh, k, id, old)
           S == left.submaps
           above == {s \in S : \/ s.ref.id = id
                               \/ \E j \in k + 1 .. Len(refs) : refs[j].id = s.ref.id}
           new == Pieces(Span(sm) \ Covered(above), ref)
           met == Hits(S, sm) # {}
           done == UpdateBoundaries(other, bank, id, old)
<1>1. CASE done = bank
  BY <1>1
<1>2. CASE done # bank
  <2>1. HasMap(bank, id) /\ Live(other, ref)
    BY <1>2 DEF UpdateBoundaries
  <2>2. refs \in Seq(MapRef) /\ Once(refs) /\ k \in DOMAIN refs /\ ref.id = id
    <3>1. bank \in Bank /\ Once(refs)
      BY DEF SoundBank, Exact
    <3> QED BY <2>1, <3>1, OnlyPosition, BankFields
  <2>3. /\ SoundBank(fresh) /\ Exact(maps, fresh) /\ fresh.maprefs = refs
        /\ fresh.lastUsed = NoSubMap /\ Announced(fresh)
    BY FreshExact, FreshAnnounced
  <2>4. SoundBank(left) /\ left.maprefs = refs /\ Announced(left)
    <3>1. k \in 1 .. Len(refs)
      BY <2>2
    <3> HIDE DEF fresh, k
    <3>2. Announced(left)
      BY <2>3, WithdrawAnnounced
    <3> QED BY <2>3, <3>1, <3>2, WithdrawSound
  <2>5. \A s \in S : s.ref.id # id
    <3>1. AgreeBut(maps, other, refs, k)
      BY <2>2 DEF AgreeBut, Once
    <3>2. k \in DOMAIN fresh.maprefs /\ fresh.maprefs[k].id = id
          /\ AgreeBut(maps, other, fresh.maprefs, k)
      BY <2>2, <2>3, <3>1
    <3>3. Span(old) = Span(maps[id])
      OBVIOUS
    <3> HIDE DEF fresh, k, refs, old
    <3>4. /\ RightBut(other, Withdraw(other, fresh, k, id, old).submaps, fresh.maprefs, k)
          /\ \A s \in Withdraw(other, fresh, k, id, old).submaps : s.ref.id # id
      BY <2>3, <3>2, <3>3, WithdrawExact
    <3> QED BY <3>4
  <2>6. ref \in MapRef /\ Span(sm) \ Covered(above) \in SUBSET Addr
    <3>1. ref \in MapRef
      BY <2>2
    <3>2. sm \in SubMap
      BY <2>1, <3>1, LiveType
    <3>3. Span(sm) \in SUBSET Addr
      BY <3>2, SpanInside
    <3> QED BY <3>1, <3>3
  <2>7. /\ done.submaps = above \cup Carve(S \ above, Span(sm)) \cup new
        /\ done.drainMe = (left.drainMe \/ met)
    <3> DEFINE drain == left.drainMe \/ met
               all == above \cup Carve(S \ above, Span(sm)) \cup new
    <3>1. done = [left EXCEPT !.submaps = all, !.drainMe = drain]
      BY <1>2, <2>1 DEF UpdateBoundaries
    <3>2. left = [submaps |-> left.submaps, maprefs |-> left.maprefs,
                  lastUsed |-> left.lastUsed, drainMe |-> left.drainMe]
      <4> HIDE DEF left
      <4> QED BY <2>4, BankFields DEF SoundBank
    <3> HIDE DEF all, drain, left, done
    <3>3. done.submaps = all /\ done.drainMe = drain
      BY <3>1, <3>2
    <3> QED BY <3>3 DEF all, drain
  <2>8. ASSUME NoFragments(S), ~ met
        PROVE  NoFragments(above \cup Carve(S \ above, Span(sm)) \cup new)
    <3>1. Tidy(S \ above)
      <4> HIDE DEF left
      <4> QED BY <2>4, TidySubset DEF SoundBank
    <3>2. \A s \in S \ above : Span(s) \cap Span(sm) = {}
      BY <2>8 DEF Hits, Overlaps
    <3>3. above \cup Carve(S \ above, Span(sm)) \in SUBSET S
      <4> HIDE DEF left, sm
      <4>1. Carve(S \ above, Span(sm)) \subseteq S \ above
        <5> HIDE DEF above, S
        <5> QED BY <3>1, <3>2, CarveNothing
      <4> QED BY <4>1
    <3> HIDE DEF S, above, sm, left
    <3>4. NoFragments(above \cup Carve(S \ above, Span(sm)))
      BY <2>8, <3>3, SubsetWhole
    <3>5. NoFragments(new)
      <4> HIDE DEF ref
      <4> QED BY <2>6, PiecesWhole
    <3>6. \A p \in new : p.ref.id = id
      <4> HIDE DEF ref
      <4> QED BY <2>2, <2>6, PiecesInside
    <3> HIDE DEF new
    <3> QED BY <2>5, <3>3, <3>4, <3>5, <3>6, UnionWhole
  <2> HIDE DEF new, above, done, sm, met, left
  <2>9. CASE left.drainMe \/ met
    BY <2>7, <2>9, Zenon DEF Announced, done
  <2>10. CASE ~ (left.drainMe \/ met)
    <3>1. NoFragments(S) /\ ~ met
      BY <2>4, <2>10, Zenon DEF Announced
    <3> QED BY <2>7, <2>8, <3>1 DEF Announced, done
  <2> QED BY <2>9, <2>10
<1> QED BY <1>1, <1>2

\* Longest chains cannot be joined: nothing is left to merge (r_io_bank_drain).
LEMMA DrainAnnounced ==
  ASSUME NEW bank, SoundBank(bank), Announced(bank)
  PROVE  Announced(Drain(bank))
<1> DEFINE S == bank.submaps
           longest == {c \in S \X S :
                         /\ Chained(S, c[1], c[2])
                         /\ \A u \in S : /\ Chained(S, u, c[1]) => u = c[1]
                                         /\ Chained(S, c[2], u) => u = c[2]}
           merged(c) == [from |-> c[1].from, to |-> c[2].to, ref |-> c[1].ref]
           T == {merged(c) : c \in longest}
<1>1. CASE ~ bank.drainMe
  BY <1>1 DEF Drain
<1>2. CASE bank.drainMe
  <2>1. Drain(bank).submaps = T
    <3>1. Drain(bank) = [bank EXCEPT !.submaps = T, !.lastUsed = NoSubMap,
                                     !.drainMe = FALSE]
      BY <1>2 DEF Drain
    <3>2. bank \in Bank
      BY DEF SoundBank
    <3> HIDE DEF T
    <3> QED BY <3>1, <3>2 DEF Bank
  <2>2. Tidy(S)
    BY DEF SoundBank
  <2> HIDE DEF S
  <2>3. NoFragments(T)
    <3> SUFFICES ASSUME NEW c \in longest, NEW d \in longest,
                        c[2].to + 1 = d[1].from, c[1].ref = d[1].ref
                 PROVE  FALSE
      BY DEF NoFragments
    <3>1. /\ c[1] \in S /\ c[2] \in S /\ d[1] \in S /\ Chained(S, c[1], c[2])
          /\ \A u \in S : Chained(S, c[2], u) => u = c[2]
      OBVIOUS
    <3>2. /\ \A v \in S : v.from \in Nat /\ v.to \in Nat /\ v.from <= v.to
          /\ \A v, w \in S : v.from < w.from => v.to < w.from
          /\ \A v, w \in S : v.from = w.from => v = w
      BY <2>2, NodeNumbers
    <3>3. c[2].ref = d[1].ref /\ c[2].from < d[1].from
      BY <3>1, <3>2 DEF Chained
    <3>4. ASSUME NEW u \in S, c[2].from <= u.from, u.from <= d[1].from
          PROVE  u = c[2] \/ u = d[1]
      BY <3>1, <3>2, <3>4
    <3>5. Chained(S, c[2], d[1])
      BY <3>1, <3>2, <3>3, <3>4 DEF Chained
    <3> QED BY <3>1, <3>3, <3>5, <3>2
  <2> QED BY <2>1, <2>3 DEF Announced
<1> QED BY <1>1, <1>2

\* r_io_bank_read_at and write_at
LEMMA TouchAnnounced ==
  ASSUME NEW maps, NEW bank, SoundBank(bank), Announced(bank), NEW x
  PROVE  Announced(Touch(maps, bank, x))
<1>1. Touch(maps, bank, x).submaps = bank.submaps /\ Touch(maps, bank, x).drainMe = bank.drainMe
  BY BankFields DEF SoundBank, Bank, Touch
<1> QED BY <1>1 DEF Announced

\* An empty tree has nothing to merge.
LEMMA NothingAnnounced ==
  ASSUME NEW bank, bank.submaps = {}
  PROVE  Announced(bank)
BY DEF Announced, NoFragments
=============================================================================
