------------------------- MODULE IOMapsViewProofs -------------------------
(***************************************************************************)
(* That IOMaps under careful use implements AddressView, for every size of  *)
(* the address space, every set of maps and of banks, and every file.  What *)
(* a bank shows is what its list promises, so it is enough to follow the    *)
(* lists: an operation on a map leaves the others in the order they had.    *)
(***************************************************************************)
EXTENDS IOMapsView, IOMapsProofs

\* Which references a list has, and in which order.
Listed(refs, p) == \E i \in DOMAIN refs : refs[i] = p
Before(refs, p, q) == \E i, j \in DOMAIN refs : i < j /\ refs[i] = p /\ refs[j] = q

\* Two lists that have the same references in the same order, R left aside.
SameBut(refs, more, R) ==
  /\ \A p \in MapRef \ R : Listed(refs, p) <=> Listed(more, p)
  /\ \A p, q \in MapRef \ R : Before(refs, p, q) <=> Before(more, p, q)

\* Two banks, each with its table of maps, that R left aside list the same maps.
KeptBut(ms, bank, next, after, R) ==
  /\ SameBut(bank.maprefs, after.maprefs, R)
  /\ \A p \in MapRef \ R : Listed(bank.maprefs, p) => next[p.id] = ms[p.id]

-----------------------------------------------------------------------------
(* Lists.                                                                   *)

\* A list is itself, and a change of a change is a change.
LEMMA SameItself ==
  ASSUME NEW refs, NEW R
  PROVE  SameBut(refs, refs, R)
BY DEF SameBut

LEMMA SameTwice ==
  ASSUME NEW refs, NEW more, NEW most, NEW R, SameBut(refs, more, R), SameBut(more, most, R)
  PROVE  SameBut(refs, most, R)
BY DEF SameBut

\* A reference put at either end leaves the order of the others.
LEMMA SameAdded ==
  ASSUME NEW refs \in Seq(MapRef), NEW ref \in MapRef, NEW R, ref \in R
  PROVE  SameBut(refs, Append(refs, ref), R) /\ SameBut(refs, <<ref>> \o refs, R)
<1>1. SameBut(refs, Append(refs, ref), R)
  <2> DEFINE more == Append(refs, ref)
  <2>1. /\ Len(refs) \in Nat
        /\ DOMAIN refs = 1 .. Len(refs) /\ DOMAIN more = 1 .. Len(refs) + 1
        /\ more[Len(refs) + 1] = ref /\ \A i \in 1 .. Len(refs) : more[i] = refs[i]
    OBVIOUS
  <2> HIDE DEF more
  <2>2. \A i \in DOMAIN refs : i \in DOMAIN more /\ more[i] = refs[i]
    BY <2>1
  <2>3. \A i \in DOMAIN more : more[i] \notin R => i \in DOMAIN refs
    BY <2>1
  <2> QED BY <2>2, <2>3 DEF SameBut, Listed, Before, more
<1>2. SameBut(refs, <<ref>> \o refs, R)
  <2> DEFINE more == <<ref>> \o refs
  <2>1. /\ Len(refs) \in Nat
        /\ DOMAIN refs = 1 .. Len(refs) /\ DOMAIN more = 1 .. Len(refs) + 1
        /\ more[1] = ref /\ \A i \in 1 .. Len(refs) : more[i + 1] = refs[i]
    OBVIOUS
  <2> HIDE DEF more
  <2>2. \A i \in DOMAIN refs : i + 1 \in DOMAIN more /\ more[i + 1] = refs[i]
    BY <2>1
  <2>3. \A i \in DOMAIN more : more[i] \notin R => i - 1 \in DOMAIN refs /\ more[i] = refs[i - 1]
    <3> SUFFICES ASSUME NEW i \in DOMAIN more, more[i] \notin R
                 PROVE  i - 1 \in DOMAIN refs /\ more[i] = refs[i - 1]
      OBVIOUS
    <3>1. i - 1 \in 1 .. Len(refs) /\ (i - 1) + 1 = i
      BY <2>1
    <3> QED BY <2>1, <3>1
  <2>4. \A p \in MapRef \ R : Listed(refs, p) <=> Listed(more, p)
    BY <2>2, <2>3 DEF Listed
  <2>5. ASSUME NEW p \in MapRef \ R, NEW q \in MapRef \ R
        PROVE  Before(refs, p, q) <=> Before(more, p, q)
    <3>1. ASSUME Before(refs, p, q) PROVE Before(more, p, q)
      <4>1. PICK i \in DOMAIN refs, j \in DOMAIN refs : i < j /\ refs[i] = p /\ refs[j] = q
        BY <3>1 DEF Before
      <4>2. i + 1 < j + 1
        BY <2>1, <4>1
      <4> QED BY <2>2, <4>1, <4>2 DEF Before
    <3>2. ASSUME Before(more, p, q) PROVE Before(refs, p, q)
      <4>1. PICK i \in DOMAIN more, j \in DOMAIN more : i < j /\ more[i] = p /\ more[j] = q
        BY <3>2 DEF Before
      <4>2. i - 1 < j - 1
        BY <2>1, <4>1
      <4> QED BY <2>3, <4>1, <4>2 DEF Before
    <3> QED BY <3>1, <3>2
  <2> QED BY <2>4, <2>5 DEF SameBut, more
<1> QED BY <1>1, <1>2

\* A reference taken out leaves the order of the others.
LEMMA SameWithout ==
  ASSUME NEW refs \in Seq(MapRef), NEW k \in DOMAIN refs, NEW R, refs[k] \in R
  PROVE  SameBut(refs, Without(refs, k), R)
<1> DEFINE less == Without(refs, k)
           up(j) == IF j < k THEN j ELSE j + 1
           down(i) == IF i < k THEN i ELSE i - 1
<1>1. /\ DOMAIN less = 1 .. Len(refs) - 1
      /\ \A j \in 1 .. Len(refs) - 1 : less[j] = refs[up(j)]
      /\ Len(refs) \in Nat /\ k \in 1 .. Len(refs) /\ DOMAIN refs = 1 .. Len(refs)
  BY WithoutFacts
<1> HIDE DEF less
<1>2. /\ \A j \in DOMAIN less : up(j) \in DOMAIN refs /\ less[j] = refs[up(j)]
      /\ \A g, h \in DOMAIN less : g < h => up(g) < up(h)
  BY <1>1
<1>3. /\ \A i \in DOMAIN refs : refs[i] \notin R => down(i) \in DOMAIN less /\ up(down(i)) = i
      /\ \A g, h \in DOMAIN refs :
           g < h /\ refs[g] \notin R /\ refs[h] \notin R => down(g) < down(h)
  BY <1>1
<1> HIDE DEF up, down
<1>4. \A i \in DOMAIN refs : refs[i] \notin R => less[down(i)] = refs[i]
  BY <1>2, <1>3
<1>5. \A p \in MapRef \ R : Listed(refs, p) <=> Listed(less, p)
  BY <1>2, <1>3, <1>4 DEF Listed
<1>6. ASSUME NEW p \in MapRef \ R, NEW q \in MapRef \ R
      PROVE  Before(refs, p, q) <=> Before(less, p, q)
  <2>1. ASSUME Before(refs, p, q) PROVE Before(less, p, q)
    <3>1. PICK i \in DOMAIN refs, j \in DOMAIN refs : i < j /\ refs[i] = p /\ refs[j] = q
      BY <2>1 DEF Before
    <3> QED BY <1>3, <1>4, <3>1 DEF Before
  <2>2. ASSUME Before(less, p, q) PROVE Before(refs, p, q)
    <3>1. PICK i \in DOMAIN less, j \in DOMAIN less : i < j /\ less[i] = p /\ less[j] = q
      BY <2>2 DEF Before
    <3> QED BY <1>2, <3>1 DEF Before
  <2> QED BY <2>1, <2>2
<1> QED BY <1>5, <1>6 DEF SameBut, less

-----------------------------------------------------------------------------
(* What a bank shows.                                                       *)

\* The tree finds the highest map of the list, or nothing where there is none.
LEMMA ResolveTop ==
  ASSUME NEW ms, NEW bank, SoundBank(bank), Exact(ms, bank), NEW a \in Addr
  PROVE  \/ \E i \in DOMAIN bank.maprefs : /\ bank.maprefs[i] = Resolve(bank, a)
                                           /\ TopBut(ms, bank.maprefs, 0, i, a)
         \/ /\ Resolve(bank, a) = NoRef
            /\ \A i \in DOMAIN bank.maprefs : ~ Covers(ms, bank.maprefs[i], a)
<1> DEFINE S == bank.submaps
           refs == bank.maprefs
<1>1. RightBut(ms, S, refs, 0) /\ \A i \in DOMAIN refs : i # 0
  BY ListType DEF Exact
<1>2. CASE a \in Covered(S)
  <2> DEFINE s == CHOOSE t \in S : a \in Span(t)
  <2>1. s \in S /\ a \in Span(s)
    BY <1>2 DEF Covered
  <2>2. Resolve(bank, a) = s.ref
    BY <1>2 DEF Resolve
  <2> HIDE DEF s
  <2> QED BY <1>1, <2>1, <2>2 DEF RightBut, ShowsBut
<1>3. CASE a \notin Covered(S)
  <2>1. Resolve(bank, a) = NoRef
    BY <1>3 DEF Resolve
  <2> QED BY <1>1, <1>3, <2>1 DEF RightBut, ReachesBut
<1> QED BY <1>2, <1>3

\* What a bank shows is nothing, or a map it lists.
LEMMA ResolveListed ==
  ASSUME NEW ms, NEW bank, SoundBank(bank), Exact(ms, bank), NEW a \in Addr
  PROVE  \/ Resolve(bank, a) = NoRef
         \/ /\ Resolve(bank, a) \in MapRef /\ Live(ms, Resolve(bank, a))
            /\ \E i \in DOMAIN bank.maprefs : bank.maprefs[i] = Resolve(bank, a)
<1>1. \A i \in DOMAIN bank.maprefs : bank.maprefs[i] \in MapRef /\ Live(ms, bank.maprefs[i])
  BY ListType DEF Exact, AllLive
<1> QED BY <1>1, ResolveTop

\* Where what a bank shows has changed, it shows or showed one of R.
LEMMA ViewKept ==
  ASSUME NEW ms, NEW bank, SoundBank(bank), Exact(ms, bank),
         NEW next, NEW after, SoundBank(after), Exact(next, after),
         NEW R, KeptBut(ms, bank, next, after, R), NEW a \in Addr,
         Resolve(bank, a) \notin R, Resolve(after, a) \notin R
  PROVE  Resolve(after, a) = Resolve(bank, a)
<1> DEFINE refs == bank.maprefs
           more == after.maprefs
           x == Resolve(bank, a)
           y == Resolve(after, a)
<1>1. /\ refs \in Seq(MapRef) /\ more \in Seq(MapRef) /\ Once(refs) /\ SameBut(refs, more, R)
      /\ \A p \in MapRef \ R : Listed(refs, p) => next[p.id] = ms[p.id]
  BY ListType DEF Exact, KeptBut
<1>2. /\ \A i \in DOMAIN refs : refs[i] \in MapRef
      /\ \A i \in DOMAIN more : more[i] \in MapRef
      /\ \A i, j \in DOMAIN more : i < j \/ j < i \/ i = j
  BY <1>1
<1>3. \A p \in MapRef \ R : Listed(refs, p) => (Covers(next, p, a) <=> Covers(ms, p, a))
  BY <1>1 DEF Covers, Live
<1>4. \/ \E i \in DOMAIN refs : refs[i] = x /\ TopBut(ms, refs, 0, i, a)
      \/ x = NoRef /\ \A i \in DOMAIN refs : ~ Covers(ms, refs[i], a)
  BY ResolveTop
<1>5. \/ \E i \in DOMAIN more : more[i] = y /\ TopBut(next, more, 0, i, a)
      \/ y = NoRef /\ \A i \in DOMAIN more : ~ Covers(next, more[i], a)
  BY ResolveTop
<1> HIDE DEF refs, more, x, y
<1>6. ASSUME NEW i \in DOMAIN refs, refs[i] = x, TopBut(ms, refs, 0, i, a)
      PROVE  \E j \in DOMAIN more : more[j] = x /\ Covers(next, x, a)
  <2>1. x \in MapRef \ R /\ Listed(refs, x) /\ Covers(ms, x, a)
    BY <1>2, <1>6 DEF Listed, TopBut, x
  <2>2. Listed(more, x) /\ Covers(next, x, a)
    BY <1>1, <1>3, <2>1 DEF SameBut
  <2> QED BY <2>2 DEF Listed
<1>7. ASSUME NEW j \in DOMAIN more, more[j] = y, TopBut(next, more, 0, j, a)
      PROVE  y \in MapRef \ R /\ Listed(refs, y) /\ Covers(ms, y, a)
  <2>1. y \in MapRef \ R /\ Listed(more, y) /\ Covers(next, y, a)
    BY <1>2, <1>7 DEF Listed, TopBut, y
  <2>2. Listed(refs, y)
    BY <1>1, <2>1 DEF SameBut
  <2> QED BY <1>3, <2>1, <2>2
<1>8. CASE /\ \E i \in DOMAIN refs : refs[i] = x /\ TopBut(ms, refs, 0, i, a)
           /\ \E j \in DOMAIN more : more[j] = y /\ TopBut(next, more, 0, j, a)
  <2>1. PICK i \in DOMAIN refs : refs[i] = x /\ TopBut(ms, refs, 0, i, a)
    BY <1>8
  <2>2. PICK j \in DOMAIN more : more[j] = y /\ TopBut(next, more, 0, j, a)
    BY <1>8
  <2>3. PICK h \in DOMAIN more : more[h] = x /\ Covers(next, x, a)
    BY <1>6, <2>1
  <2>4. ~ j < h
    BY <1>1, <2>2, <2>3 DEF TopBut
  <2>5. ASSUME x # y PROVE FALSE
    <3>1. Before(more, x, y)
      BY <1>2, <2>2, <2>3, <2>4, <2>5 DEF Before
    <3>2. x \in MapRef \ R /\ y \in MapRef \ R /\ Covers(ms, y, a)
      BY <1>2, <1>7, <2>1, <2>2 DEF x
    <3>3. PICK g \in DOMAIN refs, k \in DOMAIN refs : g < k /\ refs[g] = x /\ refs[k] = y
      BY <1>1, <3>1, <3>2 DEF SameBut, Before
    <3>4. g = i
      BY <1>1, <2>1, <3>3 DEF Once
    <3> QED BY <1>1, <2>1, <3>2, <3>3, <3>4 DEF TopBut
  <2> QED BY <2>5 DEF x, y
<1>9. CASE /\ \E i \in DOMAIN refs : refs[i] = x /\ TopBut(ms, refs, 0, i, a)
           /\ \A j \in DOMAIN more : ~ Covers(next, more[j], a)
  BY <1>6, <1>9
<1>10. CASE /\ \A i \in DOMAIN refs : ~ Covers(ms, refs[i], a)
            /\ \E j \in DOMAIN more : more[j] = y /\ TopBut(next, more, 0, j, a)
  BY <1>7, <1>10 DEF Listed
<1>11. CASE x = NoRef /\ y = NoRef
  BY <1>11 DEF x, y
<1> QED BY <1>4, <1>5, <1>8, <1>9, <1>10, <1>11

-----------------------------------------------------------------------------
(* What the operations of a bank do to its list.                            *)

\* A listed reference with the id of a map is the reference to that map.
LEMMA ListedRef ==
  ASSUME NEW ms, NEW bank, SoundBank(bank), Exact(ms, bank), NEW k \in DOMAIN bank.maprefs
  PROVE  /\ bank.maprefs[k] = RefOf(ms, bank.maprefs[k].id)
         /\ ms[bank.maprefs[k].id] # NoMap
<1>1. bank.maprefs[k] \in MapRef /\ Live(ms, bank.maprefs[k])
  BY ListType DEF Exact, AllLive
<1>2. bank.maprefs[k] = [id |-> bank.maprefs[k].id, ts |-> bank.maprefs[k].ts]
  BY <1>1 DEF MapRef
<1> QED BY <1>1, <1>2 DEF Live, RefOf

\* r_io_bank_map_add_top and r_io_bank_map_add_bottom
LEMMA AddSame ==
  ASSUME NEW ms, SoundMaps(ms), NEW id \in MapIds, NEW bank, SoundBank(bank), NEW R,
         ms[id] # NoMap => RefOf(ms, id) \in R
  PROVE  /\ SameBut(bank.maprefs, AddTop(ms, bank, id).maprefs, R)
         /\ SameBut(bank.maprefs, AddBottom(ms, bank, id).maprefs, R)
<1> DEFINE ref == RefOf(ms, id)
           refs == bank.maprefs
<1>1. CASE ms[id] = NoMap
  BY <1>1, SameItself DEF AddTop, AddBottom
<1>2. CASE ms[id] # NoMap
  <2>1. ref \in MapRef /\ ref \in R /\ refs \in Seq(MapRef)
    BY <1>2, RefOfType, ListType
  <2>2. /\ AddTop(ms, bank, id).maprefs = Append(refs, ref)
        /\ AddBottom(ms, bank, id).maprefs = <<ref>> \o refs
    <3>1. bank = [submaps |-> bank.submaps, maprefs |-> refs, lastUsed |-> bank.lastUsed,
                  drainMe |-> bank.drainMe]
      BY BankFields DEF SoundBank
    <3> QED BY <1>2, <3>1 DEF AddTop, AddBottom
  <2> HIDE DEF ref, refs
  <2>3. SameBut(refs, Append(refs, ref), R) /\ SameBut(refs, <<ref>> \o refs, R)
    BY <2>1, SameAdded
  <2> QED BY <2>2, <2>3 DEF refs
<1> QED BY <1>1, <1>2

\* Withdrawing the k-th map and forgetting it shortens the list by it.
LEMMA ForgetList ==
  ASSUME NEW ms, NEW bank, SoundBank(bank), Exact(ms, bank),
         NEW k \in DOMAIN bank.maprefs, NEW id, bank.maprefs[k].id = id,
         NEW R, RefOf(ms, id) \in R
  PROVE  LET left == Forget(Withdraw(ms, Fresh(bank), k, id, ms[id]), k)
         IN SameBut(bank.maprefs, left.maprefs, R)
<1> DEFINE refs == bank.maprefs
           fresh == Fresh(bank)
           mid == Withdraw(ms, fresh, k, id, ms[id])
           left == Forget(mid, k)
<1>1. refs \in Seq(MapRef) /\ k \in 1 .. Len(refs) /\ refs[k] \in R
  BY ListType, ListedRef
<1>2. SoundBank(fresh) /\ fresh.maprefs = refs /\ fresh.lastUsed = NoSubMap
  BY FreshExact
<1>3. SoundBank(mid) /\ mid.maprefs = refs
  <2> HIDE DEF fresh
  <2> QED BY <1>1, <1>2, WithdrawSound
<1>4. left.maprefs = Without(refs, k)
  <2> HIDE DEF mid
  <2>1. mid = [submaps |-> mid.submaps, maprefs |-> refs, lastUsed |-> mid.lastUsed,
               drainMe |-> mid.drainMe]
    BY <1>3, BankFields DEF SoundBank
  <2> QED BY <2>1 DEF Forget
<1> HIDE DEF left
<1>5. SameBut(refs, left.maprefs, R)
  BY <1>1, <1>4, SameWithout
<1> QED BY <1>5 DEF left

\* r_io_bank_del_map
LEMMA DelSame ==
  ASSUME NEW ms, NEW id, NEW bank, SoundBank(bank), Exact(ms, bank), NEW R,
         ms[id] # NoMap => RefOf(ms, id) \in R
  PROVE  SameBut(bank.maprefs, DelMap(ms, bank, id).maprefs, R)
<1> DEFINE k == Highest(Positions(bank, id))
<1>1. CASE ms[id] = NoMap
  BY <1>1, SameItself DEF DelMap
<1>2. CASE ms[id] # NoMap /\ ~ HasMap(bank, id)
  BY <1>2, FreshExact, SameItself DEF DelMap
<1>3. CASE ms[id] # NoMap /\ HasMap(bank, id)
  <2>1. k \in DOMAIN bank.maprefs /\ bank.maprefs[k].id = id
    BY <1>3, OnlyPosition DEF SoundBank, Exact
  <2>2. DelMap(ms, bank, id) = Forget(Withdraw(ms, Fresh(bank), k, id, ms[id]), k)
    BY <1>3 DEF DelMap
  <2> HIDE DEF k
  <2> QED BY <1>3, <2>1, <2>2, ForgetList
<1> QED BY <1>1, <1>2, <1>3

\* r_io_bank_map_priorize
LEMMA PriorizeSame ==
  ASSUME NEW ms, NEW id, NEW bank, SoundBank(bank), Exact(ms, bank), NEW R,
         ms[id] # NoMap => RefOf(ms, id) \in R
  PROVE  SameBut(bank.maprefs, Priorize(ms, bank, id).maprefs, R)
<1> DEFINE k == Lowest(Positions(bank, id))
           refs == bank.maprefs
           ref == refs[k]
           less == Without(refs, k)
<1>1. CASE Priorize(ms, bank, id) = bank
  BY <1>1, SameItself
<1>2. CASE Priorize(ms, bank, id) # bank
  <2>1. HasMap(bank, id) /\ Priorize(ms, bank, id).maprefs = Append(less, ref)
    BY <1>2 DEF Priorize
  <2>2. k \in DOMAIN refs /\ ref.id = id
    BY <2>1, OnlyPosition DEF SoundBank, Exact
  <2>3. ref \in R /\ refs \in Seq(MapRef) /\ ref \in MapRef
    BY <2>2, ListType, ListedRef
  <2> HIDE DEF k, refs, ref
  <2>4. SameBut(refs, less, R)
    BY <2>2, <2>3, SameWithout DEF ref
  <2>5. less \in Seq(MapRef)
    BY <2>2, <2>3, WithoutType
  <2> HIDE DEF less
  <2>6. SameBut(less, Append(less, ref), R)
    BY <2>3, <2>5, SameAdded
  <2>7. SameBut(refs, Append(less, ref), R)
    BY <2>4, <2>6, SameTwice
  <2> QED BY <2>1, <2>7 DEF refs
<1> QED BY <1>1, <1>2

\* r_io_bank_map_depriorize
LEMMA DepriorizeSame ==
  ASSUME NEW ms, SoundMaps(ms), NEW id \in MapIds, NEW bank, SoundBank(bank),
         Exact(ms, bank), NEW R, ms[id] # NoMap => RefOf(ms, id) \in R
  PROVE  SameBut(bank.maprefs, Depriorize(ms, bank, id).maprefs, R)
<1> DEFINE k == Lowest(Positions(bank, id))
           left == Forget(Withdraw(ms, Fresh(bank), k, id, ms[id]), k)
<1>1. CASE Depriorize(ms, bank, id) = bank
  BY <1>1, SameItself
<1>2. CASE Depriorize(ms, bank, id) # bank
  <2>1. /\ ms[id] # NoMap /\ HasMap(bank, id)
        /\ Depriorize(ms, bank, id) = AddBottom(ms, left, id)
    BY <1>2 DEF Depriorize
  <2>2. k \in DOMAIN bank.maprefs /\ bank.maprefs[k].id = id
    BY <2>1, OnlyPosition DEF SoundBank, Exact
  <2>3. SoundBank(left) /\ SameBut(bank.maprefs, left.maprefs, R)
    <3> HIDE DEF k
    <3> QED BY <2>1, <2>2, WithdrawForgetExact, ForgetList
  <2> HIDE DEF left
  <2>4. SameBut(left.maprefs, AddBottom(ms, left, id).maprefs, R)
    BY <2>3, AddSame
  <2> QED BY <2>1, <2>3, <2>4, SameTwice
<1> QED BY <1>1, <1>2

\* Draining and accesses leave the list alone.
LEMMA QuietList ==
  ASSUME NEW ms, NEW bank, SoundBank(bank), NEW x
  PROVE  Drain(bank).maprefs = bank.maprefs /\ Touch(ms, bank, x).maprefs = bank.maprefs
BY BankFields DEF SoundBank, Bank, Drain, Touch

\* Moving a map leaves the lists alone (r_io_bank_update_map_boundaries).
LEMMA UpdateList ==
  ASSUME NEW ms, NEW bank, SoundBank(bank), NEW id, NEW old
  PROVE  UpdateBoundaries(ms, bank, id, old).maprefs = bank.maprefs
<1>1. bank = [submaps |-> bank.submaps, maprefs |-> bank.maprefs,
              lastUsed |-> bank.lastUsed, drainMe |-> bank.drainMe]
  BY BankFields DEF SoundBank
<1> QED BY <1>1 DEF UpdateBoundaries, Withdraw, Fresh

-----------------------------------------------------------------------------
(* The view.                                                                *)

\* The inductive strengthening: timestamps that were given are in the past, and
\* a closed bank is empty.
Stamped == \A id \in MapIds : maps[id] # NoMap => maps[id].ts < mts
Closed == \A b \in BankIds \ open : banks[b] = EmptyBank
VInv == HInv /\ Stamped /\ Closed

\* The references that are ever given.
Given == [id : MapIds, ts : 0 .. MaxTs - 1]

\* What the proofs of the steps use of the invariant, before and after a step.
LEMMA VInvFacts ==
  ASSUME VInv
  PROVE  /\ HInv /\ IInv /\ SoundMaps(maps) /\ maps \in [MapIds -> Map \cup {NoMap}]
         /\ banks \in [BankIds -> Bank] /\ open \in SUBSET BankIds
         /\ \A b \in BankIds : SoundBank(banks[b]) /\ Exact(maps, banks[b])
         /\ \A b \in open : b \in BankIds /\ SoundBank(banks[b]) /\ Faithful(maps, banks[b])
         /\ \A b \in BankIds : b \notin open => banks[b] = EmptyBank
         /\ mts \in 0 .. MaxTs
<1>1. Exact(maps, EmptyBank)
  BY NothingExact DEF EmptyBank
<1>2. \A b \in open : b \in BankIds /\ SoundBank(banks[b]) /\ Faithful(maps, banks[b])
  BY HInvFacts DEF VInv
<1>3. \A b \in BankIds : b \notin open => banks[b] = EmptyBank
  BY DEF VInv, Closed
<1>4. \A b \in BankIds : SoundBank(banks[b]) /\ Exact(maps, banks[b])
  BY <1>1, <1>2, <1>3, EmptyBankSound DEF Faithful
<1> QED BY <1>2, <1>3, <1>4, HInvFacts, InvFacts DEF VInv, GoodMaps

\* The same of the next state.
LEMMA VInvAfter ==
  ASSUME VInv'
  PROVE  /\ SoundMaps(maps') /\ mts' \in 0 .. MaxTs
         /\ \A b \in BankIds : SoundBank(banks'[b]) /\ Exact(maps', banks'[b])
         /\ \A b \in BankIds : b \notin open' => banks'[b] = EmptyBank
         /\ \A id \in MapIds : maps'[id] # NoMap => maps'[id].ts < mts'
<1>1. Exact(maps', EmptyBank)
  BY NothingExact DEF EmptyBank
<1>2. \A b \in open' : Exact(maps', banks'[b])
  BY DEF VInv, HInv, Shown, Faithful
<1>3. \A b \in BankIds : b \notin open' => banks'[b] = EmptyBank
  BY DEF VInv, Closed
<1>4. \A b \in BankIds : SoundBank(banks'[b])
  BY DEF VInv, HInv, IInv
<1>5. SoundMaps(maps') /\ mts' \in 0 .. MaxTs
      /\ \A id \in MapIds : maps'[id] # NoMap => maps'[id].ts < mts'
  BY DEF VInv, HInv, IInv, TypeOK, Stamped
<1> QED BY <1>1, <1>2, <1>3, <1>4, <1>5

\* A bank shows references that were given, or nothing.
LEMMA SeenGiven ==
  ASSUME NEW ms, SoundMaps(ms), NEW bank, SoundBank(bank), Exact(ms, bank),
         NEW n \in 0 .. MaxTs, \A id \in MapIds : ms[id] # NoMap => ms[id].ts < n,
         NEW a \in Addr
  PROVE  Resolve(bank, a) \in Given \cup {NoRef}
<1>1. CASE Resolve(bank, a) = NoRef
  BY <1>1
<1>2. CASE Resolve(bank, a) \in MapRef /\ Live(ms, Resolve(bank, a))
  <2> DEFINE p == Resolve(bank, a)
  <2>1. p.id \in MapIds /\ p.ts \in Nat /\ p = [id |-> p.id, ts |-> p.ts]
    BY <1>2 DEF MapRef
  <2>2. p.ts < n
    BY <1>2, <2>1 DEF Live
  <2>3. p.ts \in 0 .. MaxTs - 1
    BY <2>1, <2>2, BoundsAssumption
  <2> HIDE DEF p
  <2>4. p \in Given
    BY <2>1, <2>3 DEF Given
  <2> QED BY <2>4 DEF p
<1> QED BY <1>1, <1>2, ResolveListed

\* What each bank is seen to show at each address.
LEMMA SeenAt ==
  /\ \A b \in BankIds, a \in Addr : Seen[b][a] = Resolve(banks[b], a)
  /\ \A b \in BankIds, a \in Addr : Seen'[b][a] = Resolve(banks'[b], a)
BY DEF Seen

\* A map that is not there is nowhere seen.
LEMMA FreeUnseen ==
  ASSUME VInv, NEW p \in MapRef, maps[p.id] = NoMap
  PROVE  View!Unseen(p)
<1> SUFFICES ASSUME NEW b \in BankIds, NEW a \in Addr, Resolve(banks[b], a) = p
             PROVE  FALSE
  BY SeenAt DEF View!Unseen
<1>1. Live(maps, p)
  BY VInvFacts, ResolveListed, NoRefAssumption
<1> QED BY <1>1 DEF Live

\* Closed banks stay as they are.
LEMMA ClosedKept ==
  ASSUME NEW ms, NEW next, NEW R
  PROVE  KeptBut(ms, EmptyBank, next, EmptyBank, R)
<1>1. DOMAIN EmptyBank.maprefs = {}
  BY DEF EmptyBank
<1> QED BY <1>1, SameItself DEF KeptBut, Listed

\* A step that leaves the order of all maps but two in every open bank is an
\* operation on these two.
LEMMA StepOperates ==
  ASSUME VInv, VInv', open' = open, NEW r \in Given, NEW s \in Given,
         s = r \/ View!Unseen(s),
         \A b \in open : KeptBut(maps, banks[b], maps', banks'[b], {r, s})
  PROVE  View!Next
<1>1. \A b \in BankIds : KeptBut(maps, banks[b], maps', banks'[b], {r, s})
  BY VInvFacts, VInvAfter, ClosedKept
<1>2. ASSUME NEW b \in BankIds, NEW a \in Addr, Seen'[b][a] # Seen[b][a]
      PROVE  {Seen[b][a], Seen'[b][a]} \cap {r, s} # {}
  <2>1. Resolve(banks[b], a) \in {r, s} \/ Resolve(banks'[b], a) \in {r, s}
    BY <1>1, <1>2, VInvFacts, VInvAfter, SeenAt, ViewKept
  <2> QED BY <2>1, SeenAt
<1>3. Seen' \in [BankIds -> [Addr -> Given \cup {NoRef}]]
  <2>1. \A b \in BankIds, a \in Addr : Resolve(banks'[b], a) \in Given \cup {NoRef}
    BY VInvAfter, SeenGiven
  <2> QED BY <2>1 DEF Seen
<1>4. View!Operate(r, s)
  BY <1>2, <1>3 DEF View!Operate, Given
<1> QED BY <1>4 DEF View!Next, Given

\* A step that leaves the order of all maps in every open bank is not seen.
LEMMA StepUnseen ==
  ASSUME VInv, VInv', open' = open,
         \A b \in open : KeptBut(maps, banks[b], maps', banks'[b], {})
  PROVE  UNCHANGED Seen
<1>1. \A b \in BankIds : KeptBut(maps, banks[b], maps', banks'[b], {})
  BY VInvFacts, VInvAfter, ClosedKept
<1>2. \A b \in BankIds, a \in Addr : Resolve(banks'[b], a) = Resolve(banks[b], a)
  BY <1>1, VInvFacts, VInvAfter, ViewKept
<1> QED BY <1>2 DEF Seen

-----------------------------------------------------------------------------
(* The actions, as the view sees them.                                      *)

\* The reference to a map that was given a timestamp.
LEMMA RefGiven ==
  ASSUME NEW ms, SoundMaps(ms), NEW n \in 0 .. MaxTs,
         \A j \in MapIds : ms[j] # NoMap => ms[j].ts < n,
         NEW id \in MapIds, ms[id] # NoMap
  PROVE  RefOf(ms, id) \in Given /\ RefOf(ms, id) \in MapRef
<1>1. ms[id].ts \in Nat /\ ms[id].ts < n
  BY DEF SoundMaps
<1>2. ms[id].ts \in 0 .. MaxTs - 1
  BY <1>1, BoundsAssumption
<1> QED BY <1>1, <1>2 DEF RefOf, Given, MapRef

\* What a bank lists, R left aside, is as before where only maps of R and free
\* ids have changed in the table.
LEMMA TableKept ==
  ASSUME NEW ms, NEW bank, SoundBank(bank), Exact(ms, bank), NEW next, NEW R,
         \A j \in MapIds : next[j] = ms[j] \/ ms[j] = NoMap \/ RefOf(ms, j) \in R
  PROVE  \A p \in MapRef \ R : Listed(bank.maprefs, p) => next[p.id] = ms[p.id]
<1> SUFFICES ASSUME NEW i \in DOMAIN bank.maprefs, bank.maprefs[i] \notin R
             PROVE  next[bank.maprefs[i].id] = ms[bank.maprefs[i].id]
  BY DEF Listed
<1> QED BY ListType, ListedRef

\* An operation on one map of the current bank.
LEMMA CurrentBankSeen ==
  ASSUME VInv, VInv', NEW id \in MapIds, NEW bank, InCurrentBank(bank),
         \A R : (maps[id] # NoMap => RefOf(maps, id) \in R)
                  => SameBut(banks[cur].maprefs, bank.maprefs, R)
  PROVE  View!Next \/ UNCHANGED Seen
<1>1. /\ cur \in open /\ open' = open /\ maps' = maps
      /\ \A b \in open : b # cur => banks'[b] = banks[b]
      /\ banks'[cur] = bank
  BY VInvFacts DEF InCurrentBank
<1>2. ASSUME NEW R, maps[id] # NoMap => RefOf(maps, id) \in R, NEW b \in open
      PROVE  KeptBut(maps, banks[b], maps', banks'[b], R)
  <2>1. SameBut(banks[b].maprefs, banks'[b].maprefs, R)
    BY <1>1, <1>2, SameItself
  <2> QED BY <1>1, <2>1 DEF KeptBut
<1>3. CASE maps[id] = NoMap
  BY <1>1, <1>2, <1>3, StepUnseen
<1>4. CASE maps[id] # NoMap
  <2> DEFINE r == RefOf(maps, id)
  <2>1. r \in Given
    BY <1>4, VInvFacts, RefGiven DEF VInv, Stamped
  <2>2. \A b \in open : KeptBut(maps, banks[b], maps', banks'[b], {r, r})
    BY <1>2
  <2> HIDE DEF r
  <2> QED BY <1>1, <2>1, <2>2, StepOperates
<1> QED BY <1>3, <1>4

\* r_io_map_priorize, r_io_map_depriorize, and the commands omba, omb+ and ombd.
LEMMA BankOperationSeen ==
  ASSUME VInv, VInv', NEW id \in MapIds,
         MapPriorize(id) \/ MapDepriorize(id) \/ AssociateOnce(id) \/ BankMapDel(id)
  PROVE  View!Next \/ UNCHANGED Seen
<1>1. SoundMaps(maps) /\ cur \in open /\ SoundBank(banks[cur]) /\ Exact(maps, banks[cur])
  BY VInvFacts DEF MapPriorize, MapDepriorize, AssociateOnce, BankMapDel, InCurrentBank
<1>2. CASE MapPriorize(id)
  <2>1. InCurrentBank(Priorize(maps, banks[cur], id))
    BY <1>2 DEF MapPriorize
  <2> QED BY <1>1, <2>1, PriorizeSame, CurrentBankSeen
<1>3. CASE MapDepriorize(id)
  <2>1. InCurrentBank(Depriorize(maps, banks[cur], id))
    BY <1>3 DEF MapDepriorize
  <2> QED BY <1>1, <2>1, DepriorizeSame, CurrentBankSeen
<1>4. CASE AssociateOnce(id)
  <2>1. InCurrentBank(AddTop(maps, banks[cur], id))
    BY <1>4 DEF AssociateOnce, BankMapAdd
  <2> QED BY <1>1, <2>1, AddSame, CurrentBankSeen
<1>5. CASE BankMapDel(id)
  <2>1. InCurrentBank(DelMap(maps, banks[cur], id))
    BY <1>5 DEF BankMapDel
  <2> QED BY <1>1, <2>1, DelSame, CurrentBankSeen
<1> QED BY <1>2, <1>3, <1>4, <1>5

\* A step that changes no list and no map.
LEMMA QuietSeen ==
  ASSUME VInv, VInv', maps' = maps, open' = open,
         \A b \in open : banks'[b].maprefs = banks[b].maprefs
  PROVE  UNCHANGED Seen
<1>1. \A b \in open : KeptBut(maps, banks[b], maps', banks'[b], {})
  BY SameItself DEF KeptBut
<1> QED BY <1>1, StepUnseen

\* Draining and accesses.
LEMMA AccessSeen ==
  ASSUME VInv, VInv', NEW x, NEW addr,
         BankDrain \/ BankAccess(x) \/ SubMapAccess(addr) \/ BankDrainAll
  PROVE  UNCHANGED Seen
<1>1. /\ banks \in [BankIds -> Bank] /\ open \in SUBSET BankIds
      /\ \A b \in open : SoundBank(banks[b]) /\ SoundBank(Drain(banks[b]))
  BY VInvFacts, DrainFaithful
<1>2. CASE BankDrain
  BY <1>1, <1>2, QuietList, QuietSeen DEF BankDrain, InCurrentBank
<1>3. CASE BankAccess(x)
  BY <1>1, <1>3, QuietList, QuietSeen DEF BankAccess, InCurrentBank
<1>4. CASE SubMapAccess(addr)
  <2> DEFINE y == [from |-> addr, to |-> addr]
             bank == Touch(maps, Drain(banks[cur]), y)
  <2>1. cur \in open /\ InCurrentBank(bank)
    BY <1>4 DEF SubMapAccess, InCurrentBank
  <2>2. bank.maprefs = banks[cur].maprefs
    <3> HIDE DEF y
    <3> QED BY <1>1, <2>1, QuietList
  <2> HIDE DEF bank
  <2> QED BY <1>1, <2>1, <2>2, QuietSeen DEF InCurrentBank
<1>5. CASE BankDrainAll
  <2>1. \A b \in open : banks'[b].maprefs = banks[b].maprefs
    BY <1>1, <1>5, QuietList DEF BankDrainAll
  <2> QED BY <1>5, <2>1, QuietSeen DEF BankDrainAll
<1> QED BY <1>2, <1>3, <1>4, <1>5

\* Opening and using a bank is not seen; closing one is, in that bank.
LEMMA BankSetSeen ==
  ASSUME VInv, NEW b \in BankIds, BankAdd \/ BankUse(b) \/ BankDel(b)
  PROVE  View!Next \/ UNCHANGED Seen
<1>1. /\ banks \in [BankIds -> Bank]
      /\ \A c \in BankIds : c \notin open => banks[c] = EmptyBank
  BY VInvFacts
<1>2. CASE BankAdd \/ BankUse(b)
  <2>1. banks' = banks
    BY <1>1, <1>2 DEF BankAdd, BankUse
  <2> QED BY <2>1 DEF Seen
<1>3. CASE BankDel(b)
  <2>1. \A a \in Addr : Resolve(EmptyBank, a) = NoRef
    BY DEF Resolve, EmptyBank, Covered
  <2>2. banks' = [banks EXCEPT ![b] = EmptyBank]
    BY <1>3 DEF BankDel
  <2>3. Seen' = [Seen EXCEPT ![b] = [a \in Addr |-> NoRef]]
    BY <1>1, <2>1, <2>2 DEF Seen
  <2> QED BY <2>3 DEF View!Next, View!Close, View!Blank
<1> QED BY <1>2, <1>3

\* r_io_map_reset: nothing is seen any more.
LEMMA MapResetSeen ==
  ASSUME VInv, MapReset
  PROVE  View!Next
<1>1. banks' = [b \in BankIds |->
                  IF b \in open THEN [EmptyBank EXCEPT !.drainMe = banks[b].drainMe]
                                ELSE banks[b]]
  BY DEF MapReset, InOpenBanks
<1>2. ASSUME NEW b \in BankIds PROVE banks'[b].submaps = {}
  <2>1. CASE b \in open
    BY <1>1, <2>1 DEF EmptyBank
  <2>2. CASE b \notin open
    BY <1>1, <2>2, VInvFacts DEF EmptyBank
  <2> QED BY <2>1, <2>2
<1>3. \A b \in BankIds, a \in Addr : Resolve(banks'[b], a) = NoRef
  BY <1>2 DEF Resolve, Covered
<1>4. Seen' = [b \in BankIds |-> [a \in Addr |-> NoRef]]
  BY <1>3 DEF Seen
<1> QED BY <1>4 DEF View!Next, View!Clear, View!Blank

\* Failing for want of a current bank is not seen.
LEMMA NoCurrentBankSeen ==
  ASSUME NEW spent, NoCurrentBank(spent)
  PROVE  UNCHANGED Seen
BY DEF NoCurrentBank, Seen

\* A new map that fits is the only one that is seen to appear.
LEMMA MapAddFittingSeen ==
  ASSUME VInv, VInv', NEW fd \in Fds, NEW addr \in Addr, NEW size \in Sizes,
         \/ AddFitting(AddTop, fd, 0, addr, size)
         \/ AddFitting(AddBottom, fd, 0, addr, size)
  PROVE  View!Next \/ UNCHANGED Seen
<1>1. CASE NoCurrentBank(1)
  BY <1>1, NoCurrentBankSeen
<1>2. CASE ~ NoCurrentBank(1)
  <2> DEFINE m == NewMap(fd, 0, addr, size, mts)
  <2>1. cur \in open /\ open' = open /\ ~ Wraps(addr, size) /\ Backed(fd, 0)
    BY <1>2 DEF AddFitting
  <2>2. PICK id \in FreeIds :
          /\ maps' = [maps EXCEPT ![id] = m]
          /\ \/ banks' = [banks EXCEPT ![cur] = AddTop(maps', @, id)]
             \/ banks' = [banks EXCEPT ![cur] = AddBottom(maps', @, id)]
    BY <1>2 DEF AddFitting
  <2> DEFINE r == RefOf(maps', id)
             R == {r, r}
  <2>3. id \in MapIds /\ maps[id] = NoMap /\ maps'[id] = m
    BY <2>2, VInvFacts DEF FreeIds
  <2>4. m # NoMap
    <3>1. size \in Nat \ {0} /\ addr + size - 1 <= MaxAddr /\ mts \in Nat /\ 0 \in Nat
      BY <2>1, VInvFacts, InputsAssumption, MaxAddrAssumption, BoundsAssumption DEF Wraps, Addr
    <3> QED BY <2>1, <3>1, NewMapGood, NoMapAssumption
  <2> HIDE DEF m
  <2>5. \A j \in MapIds \ {id} : maps'[j] = maps[j]
    BY <2>2, VInvFacts
  <2>6. r \in Given
    BY <2>3, <2>4, VInvAfter, RefGiven
  <2>7. ASSUME NEW b \in open
        PROVE  KeptBut(maps, banks[b], maps', banks'[b], R)
    <3>1. b \in BankIds /\ SoundBank(banks[b]) /\ Exact(maps, banks[b]) /\ SoundMaps(maps')
      BY VInvFacts, VInvAfter DEF Faithful
    <3>2. SameBut(banks[b].maprefs, AddTop(maps', banks[b], id).maprefs, R)
          /\ SameBut(banks[b].maprefs, AddBottom(maps', banks[b], id).maprefs, R)
      BY <2>3, <3>1, AddSame
    <3>3. SameBut(banks[b].maprefs, banks'[b].maprefs, R)
      <4>1. CASE b = cur
        BY <2>2, <3>1, <3>2, <4>1, VInvFacts
      <4>2. CASE b # cur
        BY <2>2, <3>1, <4>2, VInvFacts, SameItself
      <4> QED BY <4>1, <4>2
    <3> HIDE DEF R
    <3>4. \A p \in MapRef \ R : Listed(banks[b].maprefs, p) => maps'[p.id] = maps[p.id]
      BY <2>3, <2>5, <3>1, TableKept
    <3> QED BY <3>3, <3>4 DEF KeptBut
  <2> HIDE DEF r
  <2> QED BY <2>1, <2>6, <2>7, StepOperates
<1> QED BY <1>1, <1>2

\* Of a new map that wraps, the two parts are.
LEMMA MapAddWrappingSeen ==
  ASSUME VInv, VInv', NEW fd \in Fds, NEW addr \in Addr, NEW size \in Sizes,
         \/ AddWrapping(AddTop, fd, 0, addr, size)
         \/ AddWrapping(AddBottom, fd, 0, addr, size)
  PROVE  View!Next \/ UNCHANGED Seen
<1>1. CASE NoCurrentBank(1)
  BY <1>1, NoCurrentBankSeen
<1>2. CASE ~ NoCurrentBank(1)
  <2> DEFINE high == MaxAddr - addr + 1
             low == size - high
             m0 == NewMap(fd, 0 + high, 0, low, mts)
             m1 == NewMap(fd, 0, addr, high, mts + 1)
  <2>1. cur \in open /\ open' = open /\ Wraps(addr, size) /\ Backed(fd, 0 + high)
    BY <1>2 DEF AddWrapping
  <2>2. PICK id0 \in FreeIds, id1 \in FreeIds :
          /\ id0 # id1
          /\ maps' = [maps EXCEPT ![id0] = m0, ![id1] = m1]
          /\ \/ banks' = [banks EXCEPT
                            ![cur] = AddTop(maps', AddTop(maps', @, id0), id1)]
             \/ banks' = [banks EXCEPT
                            ![cur] = AddBottom(maps', AddBottom(maps', @, id0), id1)]
    BY <1>2 DEF AddWrapping
  <2> DEFINE r == RefOf(maps', id0)
             s == RefOf(maps', id1)
             R == {r, s}
  <2>3. /\ id0 \in MapIds /\ maps[id0] = NoMap /\ maps'[id0] = m0
        /\ id1 \in MapIds /\ maps[id1] = NoMap /\ maps'[id1] = m1
    BY <2>2, VInvFacts DEF FreeIds
  <2>4. maps'[id0] # NoMap /\ maps'[id1] # NoMap
    <3>1. /\ high \in Nat \ {0} /\ low \in Nat \ {0} /\ 0 \in Addr /\ 0 \in Nat
          /\ 0 + low - 1 <= MaxAddr /\ addr + high - 1 <= MaxAddr
          /\ mts \in Nat /\ mts + 1 \in Nat /\ 0 + high \in Nat
      BY <2>1, VInvFacts, InputsAssumption, MaxAddrAssumption, BoundsAssumption DEF Wraps, Addr
    <3>2. Backed(fd, 0)
      BY <2>1, <3>1, FdSizeAssumption DEF Backed
    <3> HIDE DEF high, low
    <3>3. m0 \in Map /\ m1 \in Map
      BY <2>1, <3>1, <3>2, NewMapGood
    <3> QED BY <2>3, <3>3, NoMapAssumption
  <2> HIDE DEF m0, m1
  <2>5. \A j \in MapIds \ {id0, id1} : maps'[j] = maps[j]
    BY <2>2, VInvFacts
  <2>6. r \in Given /\ s \in Given /\ s \in MapRef /\ s.id = id1
    BY <2>3, <2>4, VInvAfter, RefGiven DEF RefOf
  <2>7. View!Unseen(s)
    BY <2>3, <2>6, FreeUnseen
  <2>8. ASSUME NEW b \in open
        PROVE  KeptBut(maps, banks[b], maps', banks'[b], R)
    <3> DEFINE top == AddTop(maps', banks[b], id0)
               bottom == AddBottom(maps', banks[b], id0)
    <3>1. b \in BankIds /\ SoundBank(banks[b]) /\ Exact(maps, banks[b]) /\ SoundMaps(maps')
      BY VInvFacts, VInvAfter DEF Faithful
    <3>2. /\ SoundBank(top) /\ SameBut(banks[b].maprefs, top.maprefs, R)
          /\ SoundBank(bottom) /\ SameBut(banks[b].maprefs, bottom.maprefs, R)
      BY <2>3, <3>1, AddSame, AddTopSound, AddBottomSound
    <3> HIDE DEF top, bottom
    <3>3. /\ SameBut(top.maprefs, AddTop(maps', top, id1).maprefs, R)
          /\ SameBut(bottom.maprefs, AddBottom(maps', bottom, id1).maprefs, R)
      BY <2>3, <3>1, <3>2, AddSame
    <3> HIDE DEF R
    <3>4. SameBut(banks[b].maprefs, banks'[b].maprefs, R)
      <4>1. CASE b = cur
        <5>1. banks'[b] = AddTop(maps', top, id1) \/ banks'[b] = AddBottom(maps', bottom, id1)
          BY <2>2, <3>1, <4>1, VInvFacts DEF top, bottom
        <5> QED BY <3>2, <3>3, <5>1, SameTwice
      <4>2. CASE b # cur
        BY <2>2, <3>1, <4>2, VInvFacts, SameItself
      <4> QED BY <4>1, <4>2
    <3>5. \A p \in MapRef \ R : Listed(banks[b].maprefs, p) => maps'[p.id] = maps[p.id]
      BY <2>3, <2>5, <3>1, TableKept
    <3> QED BY <3>4, <3>5 DEF KeptBut
  <2> HIDE DEF r, s
  <2> QED BY <2>1, <2>6, <2>7, <2>8, StepOperates
<1> QED BY <1>1, <1>2

\* r_io_map_del: the map disappears, and no other.
LEMMA MapDelSeen ==
  ASSUME VInv, VInv', NEW id \in MapIds, MapDel(id)
  PROVE  View!Next
<1> DEFINE r == RefOf(maps, id)
           R == {r, r}
<1>1. /\ banks' = [b \in BankIds |-> IF b \in open THEN DelMap(maps, banks[b], id)
                                                   ELSE banks[b]]
      /\ maps' = [maps EXCEPT ![id] = NoMap]
      /\ open' = open /\ maps[id] # NoMap
  BY DEF MapDel, InOpenBanks, LiveIds, FreeIds
<1>2. \A j \in MapIds \ {id} : maps'[j] = maps[j]
  BY <1>1, VInvFacts
<1>3. r \in Given
  BY <1>1, VInvFacts, RefGiven DEF VInv, Stamped
<1>4. ASSUME NEW b \in open
      PROVE  KeptBut(maps, banks[b], maps', banks'[b], R)
  <2>1. b \in BankIds /\ SoundBank(banks[b]) /\ Exact(maps, banks[b])
    BY VInvFacts DEF Faithful
  <2>2. SameBut(banks[b].maprefs, DelMap(maps, banks[b], id).maprefs, R)
    BY <2>1, DelSame
  <2>3. RefOf(maps, id) \in R
    OBVIOUS
  <2> HIDE DEF r, R
  <2>4. \A p \in MapRef \ R : Listed(banks[b].maprefs, p) => maps'[p.id] = maps[p.id]
    BY <1>2, <2>1, <2>3, TableKept
  <2> QED BY <1>1, <2>1, <2>2, <2>4 DEF KeptBut
<1> HIDE DEF r
<1> QED BY <1>1, <1>3, <1>4, StepOperates

\* A map that moves or grows where it fits.
LEMMA PlaceSeen ==
  ASSUME VInv, VInv', NEW id \in LiveIds, NEW from, NEW to,
         maps' = Place(id, from, to),
         banks' = [b \in BankIds |->
                     IF b \in open THEN UpdateBoundaries(maps', banks[b], id, maps[id])
                                   ELSE banks[b]],
         UNCHANGED open
  PROVE  View!Next
<1> DEFINE r == RefOf(maps, id)
           R == {r, r}
<1>1. id \in MapIds /\ maps[id] # NoMap
  BY DEF LiveIds, FreeIds
<1>2. \A j \in MapIds \ {id} : maps'[j] = maps[j]
  BY <1>1, VInvFacts DEF Place
<1>3. r \in Given
  BY <1>1, VInvFacts, RefGiven DEF VInv, Stamped
<1>4. ASSUME NEW b \in open
      PROVE  KeptBut(maps, banks[b], maps', banks'[b], R)
  <2>1. b \in BankIds /\ SoundBank(banks[b]) /\ Exact(maps, banks[b])
    BY VInvFacts DEF Faithful
  <2>2. banks'[b].maprefs = banks[b].maprefs
    BY <2>1, UpdateList
  <2>3. RefOf(maps, id) \in R
    OBVIOUS
  <2> HIDE DEF r, R
  <2>4. \A p \in MapRef \ R : Listed(banks[b].maprefs, p) => maps'[p.id] = maps[p.id]
    BY <1>2, <2>1, <2>3, TableKept
  <2> QED BY <2>2, <2>4, SameItself DEF KeptBut
<1> HIDE DEF r
<1> QED BY <1>3, <1>4, StepOperates

\* r_io_map_remap and r_io_map_resize of a map that fits.
LEMMA FittingSeen ==
  ASSUME VInv, VInv', NEW id \in LiveIds, NEW x, RemapFitting(id, x) \/ ResizeFitting(id, x)
  PROVE  View!Next
BY PlaceSeen DEF RemapFitting, ResizeFitting, InOpenBanks

\* What a split does to the table of maps.
LEMMA SplitTable ==
  ASSUME VInv, NEW id \in LiveIds, NEW from, NEW to, NEW new \in FreeIds, NEW rest \in Map,
         maps' = [Place(id, from, to) EXCEPT ![new] = rest]
  PROVE  /\ id \in MapIds /\ new \in MapIds /\ maps[id] # NoMap /\ maps[new] = NoMap
         /\ maps'[new] # NoMap /\ \A j \in MapIds \ {id, new} : maps'[j] = maps[j]
BY VInvFacts, NoMapAssumption DEF Place, LiveIds, FreeIds

\* The rest of a split map is listed where the map is, and nothing else changes.
LEMMA AddRestSame ==
  ASSUME VInv, VInv', NEW id \in MapIds, maps[id] # NoMap,
         NEW new \in MapIds, maps[new] = NoMap, maps'[new] # NoMap,
         \A j \in MapIds \ {id, new} : maps'[j] = maps[j],
         NEW b \in open, NEW R, RefOf(maps', new) \in R
  PROVE  /\ SoundBank(AddRest(b, banks[b], id, new))
         /\ SameBut(banks[b].maprefs, AddRest(b, banks[b], id, new).maprefs, R)
<1> DEFINE bank == banks[b]
           added == AddTop(maps', bank, new)
<1>1. /\ HInv /\ IInv /\ IInv' /\ GoodMaps(maps') /\ SoundMaps(maps') /\ b \in BankIds
      /\ SoundBank(bank) /\ Faithful(maps, bank)
  BY VInvFacts, InvAfterFacts DEF VInv, HInv
<1>2. NotListed(bank, new)
  BY <1>1, FreeNotListed
<1>3. SoundBank(AddRest(b, bank, id, new))
  BY <1>1, <1>2, AddRestSound
<1>4. SameBut(bank.maprefs, added.maprefs, R)
  BY <1>1, <1>2, AddSame
<1>5. CASE HasMap(bank, id)
  BY <1>3, <1>4, <1>5 DEF AddRest
<1>6. CASE ~ HasMap(bank, id) /\ b = cur
  <2>1. NotListed(bank, id)
    BY <1>6, NotListedHas
  <2>2. Faithful(maps', bank)
    <3>1. \A i \in DOMAIN bank.maprefs :
            maps'[bank.maprefs[i].id] = maps[bank.maprefs[i].id]
      BY <1>1, <1>2, <2>1, ListType DEF NotListed
    <3> HIDE DEF bank
    <3> QED BY <1>1, <3>1, FaithfulAgree
  <2>3. SoundBank(added) /\ Exact(maps', added)
    BY <1>1, <1>2, <2>1, <2>2, AddTopFaithful DEF Faithful
  <2> HIDE DEF added
  <2>4. SameBut(added.maprefs, DelMap(maps', added, new).maprefs, R)
    BY <2>3, DelSame
  <2>5. SameBut(bank.maprefs, DelMap(maps', added, new).maprefs, R)
    BY <1>4, <2>4, SameTwice
  <2> QED BY <1>3, <1>6, <2>5 DEF AddRest, added
<1>7. CASE ~ HasMap(bank, id) /\ b # cur
  BY <1>3, <1>7, SameItself DEF AddRest
<1> QED BY <1>5, <1>6, <1>7

\* A map that is split: it changes its place, and its rest appears.
LEMMA SplitSeen ==
  ASSUME VInv, VInv', NEW id \in MapIds, maps[id] # NoMap,
         NEW new \in MapIds, maps[new] = NoMap, maps'[new] # NoMap,
         \A j \in MapIds \ {id, new} : maps'[j] = maps[j],
         open' = open,
         \A b \in open : \/ banks'[b] = AddRest(b, banks[b], id, new)
                         \/ banks'[b] = UpdateBoundaries(maps', AddRest(b, banks[b], id, new),
                                                         id, maps[id])
  PROVE  View!Next
<1> DEFINE r == RefOf(maps, id)
           s == RefOf(maps', new)
           R == {r, s}
<1>1. r \in Given
  BY VInvFacts, RefGiven DEF VInv, Stamped
<1>2. s \in Given /\ s \in MapRef /\ s.id = new
  BY VInvAfter, RefGiven DEF RefOf
<1>3. View!Unseen(s)
  BY <1>2, FreeUnseen
<1>4. ASSUME NEW b \in open
      PROVE  KeptBut(maps, banks[b], maps', banks'[b], R)
  <2>1. b \in BankIds /\ SoundBank(banks[b]) /\ Exact(maps, banks[b])
    BY VInvFacts DEF Faithful
  <2>2. RefOf(maps, id) \in R /\ RefOf(maps', new) \in R
    OBVIOUS
  <2> HIDE DEF R, r, s
  <2>3. /\ SoundBank(AddRest(b, banks[b], id, new))
        /\ SameBut(banks[b].maprefs, AddRest(b, banks[b], id, new).maprefs, R)
    BY <2>2, AddRestSame
  <2>4. banks'[b].maprefs = AddRest(b, banks[b], id, new).maprefs
    BY <2>3, UpdateList
  <2>5. \A j \in MapIds : maps'[j] = maps[j] \/ maps[j] = NoMap \/ RefOf(maps, j) \in R
    BY <2>2
  <2>6. \A p \in MapRef \ R : Listed(banks[b].maprefs, p) => maps'[p.id] = maps[p.id]
    BY <2>1, <2>5, TableKept
  <2> QED BY <2>3, <2>4, <2>6 DEF KeptBut
<1> HIDE DEF r, s
<1> QED BY <1>1, <1>2, <1>3, <1>4, StepOperates

\* r_io_map_remap of a map that wraps.
LEMMA RemapWrappingSeen ==
  ASSUME VInv, VInv', NEW id \in LiveIds, NEW addr \in Addr, RemapWrapping(id, addr)
  PROVE  View!Next \/ UNCHANGED Seen
<1>1. CASE NoCurrentBank(1)
  BY <1>1, NoCurrentBankSeen
<1>2. CASE ~ NoCurrentBank(1)
  <2> DEFINE size == Size(maps[id])
             rest == Rest(maps[id], addr, size)
  <2>1. /\ Wraps(addr, size) /\ RestBacked(maps[id], addr) /\ open' = open
        /\ IInv /\ open \in SUBSET BankIds
    BY <1>2, VInvFacts DEF RemapWrapping
  <2>2. PICK new \in FreeIds :
          /\ maps' = [Place(id, addr, MaxAddr) EXCEPT ![new] = rest]
          /\ banks' = [b \in BankIds |->
                         IF b \in open
                         THEN UpdateBoundaries(maps', AddRest(b, banks[b], id, new),
                                               id, maps[id])
                         ELSE banks[b]]
    BY <1>2 DEF RemapWrapping, InOpenBanks
  <2>3. size \in Nat /\ size <= MaxAddr + 1
    BY <2>1, LiveMap, MaxAddrAssumption DEF Size
  <2>4. rest \in Map
    <3> HIDE DEF size
    <3> QED BY <2>1, <2>3, RestGood
  <2> HIDE DEF rest, size
  <2>5. /\ id \in MapIds /\ new \in MapIds /\ maps[id] # NoMap /\ maps[new] = NoMap
        /\ maps'[new] # NoMap /\ \A j \in MapIds \ {id, new} : maps'[j] = maps[j]
    BY <2>2, <2>4, SplitTable
  <2>6. \A b \in open : \/ banks'[b] = AddRest(b, banks[b], id, new)
                        \/ banks'[b] = UpdateBoundaries(maps', AddRest(b, banks[b], id, new),
                                                        id, maps[id])
    BY <2>1, <2>2
  <2> QED BY <2>1, <2>5, <2>6, SplitSeen
<1> QED BY <1>1, <1>2

\* r_io_map_resize of a map that wraps and that no other bank holds.
LEMMA ResizeWrappingSeen ==
  ASSUME VInv, VInv', NEW id \in LiveIds, NEW size \in Sizes, ResizeWrapping(id, size),
         OtherHolders(id) = {}
  PROVE  View!Next \/ UNCHANGED Seen
<1>1. CASE NoCurrentBank(1)
  BY <1>1, NoCurrentBankSeen
<1>2. CASE ~ NoCurrentBank(1)
  <2> DEFINE from == maps[id].from
             rest == Rest(maps[id], from, size)
  <2>1. /\ Wraps(from, size) /\ RestBacked(maps[id], from) /\ open' = open
        /\ IInv /\ open \in SUBSET BankIds
    BY <1>2, VInvFacts DEF ResizeWrapping
  <2>2. PICK new \in FreeIds :
          /\ maps' = [Place(id, from, MaxAddr) EXCEPT ![new] = rest]
          /\ banks' = [b \in BankIds |->
                         IF b \in open
                         THEN IF b # cur THEN AddRest(b, banks[b], id, new)
                              ELSE UpdateBoundaries(maps', AddRest(b, banks[b], id, new),
                                                    id, maps[id])
                         ELSE banks[b]]
    BY <1>2 DEF ResizeWrapping, InOpenBanks
  <2>3. from \in Addr /\ size \in Nat /\ size <= MaxAddr + 1
    BY <2>1, LiveMap, InputsAssumption, MaxAddrAssumption DEF Addr
  <2>4. rest \in Map
    <3> HIDE DEF from
    <3> QED BY <2>1, <2>3, RestGood
  <2> HIDE DEF rest, from
  <2>5. /\ id \in MapIds /\ new \in MapIds /\ maps[id] # NoMap /\ maps[new] = NoMap
        /\ maps'[new] # NoMap /\ \A j \in MapIds \ {id, new} : maps'[j] = maps[j]
    BY <2>2, <2>4, SplitTable
  <2>6. \A b \in open : \/ banks'[b] = AddRest(b, banks[b], id, new)
                        \/ banks'[b] = UpdateBoundaries(maps', AddRest(b, banks[b], id, new),
                                                        id, maps[id])
    BY <2>1, <2>2
  <2> QED BY <2>1, <2>5, <2>6, SplitSeen
<1> QED BY <1>1, <1>2

-----------------------------------------------------------------------------
(* The invariant.                                                           *)

\* A table in which every map is as it was, gone, or given a time before n.
LEMMA StampedAfter ==
  ASSUME VInv, mts' \in Nat, mts <= mts',
         \A j \in MapIds : \/ maps'[j] = maps[j]
                           \/ maps'[j] = NoMap
                           \/ maps'[j].ts < mts'
  PROVE  Stamped'
<1> SUFFICES ASSUME NEW j \in MapIds, maps'[j] = maps[j], maps[j] # NoMap
             PROVE  maps[j].ts < mts'
  BY DEF Stamped
<1>1. maps[j].ts < mts
  BY DEF VInv, Stamped
<1>2. maps[j].ts \in Nat /\ mts \in Nat
  BY VInvFacts, BoundsAssumption DEF SoundMaps
<1> QED BY <1>1, <1>2

\* What a step keeps that leaves the closed banks alone.
LEMMA ClosedAfter ==
  ASSUME VInv, open' = open, \A b \in BankIds : b \notin open => banks'[b] = banks[b]
  PROVE  Closed'
BY VInvFacts DEF Closed

\* Failing for want of a current bank spends timestamps, and nothing else.
LEMMA NoCurrentBankPast ==
  ASSUME VInv, NEW spent \in Nat, NoCurrentBank(spent)
  PROVE  Stamped' /\ Closed'
<1>1. maps' = maps /\ banks' = banks /\ open' = open /\ mts' = mts + spent /\ mts \in Nat
  BY VInvFacts, BoundsAssumption DEF NoCurrentBank
<1>2. mts' \in Nat /\ mts <= mts'
  BY <1>1
<1> QED BY <1>1, <1>2, StampedAfter, ClosedAfter

\* Adding a map that fits.
LEMMA MapAddFittingPast ==
  ASSUME VInv, NEW fd, NEW addr, NEW size,
         \/ AddFitting(AddTop, fd, 0, addr, size)
         \/ AddFitting(AddBottom, fd, 0, addr, size)
  PROVE  Stamped' /\ Closed'
<1>1. CASE NoCurrentBank(1)
  BY <1>1, NoCurrentBankPast
<1>2. CASE ~ NoCurrentBank(1)
  <2>1. cur \in open /\ open' = open /\ mts' = mts + 1 /\ mts \in Nat
    BY <1>2, VInvFacts, BoundsAssumption DEF AddFitting
  <2>2. PICK id \in FreeIds :
          /\ maps' = [maps EXCEPT ![id] = NewMap(fd, 0, addr, size, mts)]
          /\ \/ banks' = [banks EXCEPT ![cur] = AddTop(maps', @, id)]
             \/ banks' = [banks EXCEPT ![cur] = AddBottom(maps', @, id)]
    BY <1>2 DEF AddFitting
  <2>3. /\ id \in MapIds /\ maps'[id].ts = mts
        /\ \A j \in MapIds \ {id} : maps'[j] = maps[j]
    BY <2>2, VInvFacts DEF FreeIds, NewMap
  <2>4. mts' \in Nat /\ mts <= mts' /\ maps'[id].ts < mts'
    BY <2>1, <2>3
  <2>5. \A b \in BankIds : b \notin open => banks'[b] = banks[b]
    BY <2>1, <2>2, VInvFacts
  <2>6. \A j \in MapIds : maps'[j] = maps[j] \/ maps'[j].ts < mts'
    BY <2>3, <2>4
  <2> QED BY <2>1, <2>4, <2>5, <2>6, StampedAfter, ClosedAfter
<1> QED BY <1>1, <1>2

\* Adding a map that wraps: its parts are given two times.
LEMMA MapAddWrappingPast ==
  ASSUME VInv, NEW fd, NEW addr, NEW size,
         \/ AddWrapping(AddTop, fd, 0, addr, size)
         \/ AddWrapping(AddBottom, fd, 0, addr, size)
  PROVE  Stamped' /\ Closed'
<1>1. CASE NoCurrentBank(1)
  BY <1>1, NoCurrentBankPast
<1>2. CASE ~ NoCurrentBank(1)
  <2> DEFINE high == MaxAddr - addr + 1
             low == size - high
             m0 == NewMap(fd, 0 + high, 0, low, mts)
             m1 == NewMap(fd, 0, addr, high, mts + 1)
  <2>1. cur \in open /\ open' = open /\ mts' = mts + 2 /\ mts \in Nat
    BY <1>2, VInvFacts, BoundsAssumption DEF AddWrapping
  <2>2. PICK id0 \in FreeIds, id1 \in FreeIds :
          /\ id0 # id1
          /\ maps' = [maps EXCEPT ![id0] = m0, ![id1] = m1]
          /\ \/ banks' = [banks EXCEPT
                            ![cur] = AddTop(maps', AddTop(maps', @, id0), id1)]
             \/ banks' = [banks EXCEPT
                            ![cur] = AddBottom(maps', AddBottom(maps', @, id0), id1)]
    BY <1>2 DEF AddWrapping
  <2>3. m0.ts = mts /\ m1.ts = mts + 1
    BY DEF NewMap
  <2> HIDE DEF m0, m1
  <2>4. /\ id0 \in MapIds /\ maps'[id0] = m0 /\ id1 \in MapIds /\ maps'[id1] = m1
        /\ \A j \in MapIds \ {id0, id1} : maps'[j] = maps[j]
    BY <2>2, VInvFacts DEF FreeIds
  <2>5. mts' \in Nat /\ mts <= mts' /\ m0.ts < mts' /\ m1.ts < mts'
    BY <2>1, <2>3
  <2>6. \A b \in BankIds : b \notin open => banks'[b] = banks[b]
    BY <2>1, <2>2, VInvFacts
  <2>7. \A j \in MapIds : maps'[j] = maps[j] \/ maps'[j].ts < mts'
    BY <2>4, <2>5
  <2> QED BY <2>1, <2>5, <2>6, <2>7, StampedAfter, ClosedAfter
<1> QED BY <1>1, <1>2

\* A map that moves or grows where it fits keeps its time.
LEMMA PlacePast ==
  ASSUME VInv, NEW id \in LiveIds, NEW from, NEW to, maps' = Place(id, from, to), mts' = mts,
         open' = open, \A b \in BankIds : b \notin open => banks'[b] = banks[b]
  PROVE  Stamped' /\ Closed'
<1>1. id \in MapIds /\ maps[id] # NoMap /\ maps[id] \in Map /\ mts \in Nat /\ mts <= mts'
  BY VInvFacts, BoundsAssumption DEF LiveIds, FreeIds
<1>2. maps'[id].ts = maps[id].ts /\ \A j \in MapIds \ {id} : maps'[j] = maps[j]
  BY <1>1, VInvFacts DEF Place, Map
<1>3. maps[id].ts < mts'
  BY <1>1 DEF VInv, Stamped
<1>4. \A j \in MapIds : maps'[j] = maps[j] \/ maps'[j].ts < mts'
  BY <1>2, <1>3
<1> QED BY <1>1, <1>4, StampedAfter, ClosedAfter

\* A map that is split keeps its time, and its rest is given the next.
LEMMA SplitPast ==
  ASSUME VInv, NEW id \in LiveIds, NEW from, NEW to, NEW new \in FreeIds, NEW rest,
         maps' = [Place(id, from, to) EXCEPT ![new] = rest], rest.ts = mts, mts' = mts + 1,
         open' = open, \A b \in BankIds : b \notin open => banks'[b] = banks[b]
  PROVE  Stamped' /\ Closed'
<1>1. /\ id \in MapIds /\ maps[id] # NoMap /\ maps[id] \in Map /\ mts \in Nat
      /\ new \in MapIds /\ new # id
  BY VInvFacts, BoundsAssumption DEF LiveIds, FreeIds
<1>2. /\ maps'[id].ts = maps[id].ts /\ maps'[new].ts = mts
      /\ \A j \in MapIds \ {id, new} : maps'[j] = maps[j]
  BY <1>1, VInvFacts DEF Place, Map
<1>3. maps[id].ts < mts /\ maps[id].ts \in Nat
  BY <1>1, VInvFacts DEF VInv, Stamped, SoundMaps
<1>4. mts' \in Nat /\ mts <= mts' /\ maps'[id].ts < mts' /\ maps'[new].ts < mts'
  BY <1>1, <1>2, <1>3
<1>5. \A j \in MapIds : maps'[j] = maps[j] \/ maps'[j].ts < mts'
  BY <1>2, <1>4
<1> QED BY <1>4, <1>5, StampedAfter, ClosedAfter

\* Moving a map.
LEMMA MapRemapPast ==
  ASSUME VInv, NEW id \in LiveIds, NEW addr, RemapFitting(id, addr) \/ RemapWrapping(id, addr)
  PROVE  Stamped' /\ Closed'
<1>1. CASE RemapFitting(id, addr)
  BY <1>1, PlacePast DEF RemapFitting, InOpenBanks
<1>2. CASE NoCurrentBank(1)
  BY <1>2, NoCurrentBankPast
<1>3. CASE RemapWrapping(id, addr) /\ ~ NoCurrentBank(1)
  <2>1. mts' = mts + 1 /\ open' = open
        /\ \A b \in BankIds : b \notin open => banks'[b] = banks[b]
    BY <1>3 DEF RemapWrapping, InOpenBanks
  <2>2. PICK new \in FreeIds :
          maps' = [Place(id, addr, MaxAddr) EXCEPT
                     ![new] = Rest(maps[id], addr, Size(maps[id]))]
    BY <1>3 DEF RemapWrapping
  <2>3. Rest(maps[id], addr, Size(maps[id])).ts = mts
    BY DEF Rest, NewMap
  <2> QED BY <2>1, <2>2, <2>3, SplitPast
<1> QED BY <1>1, <1>2, <1>3

\* Resizing a map.
LEMMA MapResizePast ==
  ASSUME VInv, NEW id \in LiveIds, NEW size, ResizeFitting(id, size) \/ ResizeWrapping(id, size)
  PROVE  Stamped' /\ Closed'
<1>1. CASE ResizeFitting(id, size)
  BY <1>1, PlacePast DEF ResizeFitting, InOpenBanks
<1>2. CASE NoCurrentBank(1)
  BY <1>2, NoCurrentBankPast
<1>3. CASE ResizeWrapping(id, size) /\ ~ NoCurrentBank(1)
  <2>1. mts' = mts + 1 /\ open' = open
        /\ \A b \in BankIds : b \notin open => banks'[b] = banks[b]
    BY <1>3 DEF ResizeWrapping, InOpenBanks
  <2>2. PICK new \in FreeIds :
          maps' = [Place(id, maps[id].from, MaxAddr) EXCEPT
                     ![new] = Rest(maps[id], maps[id].from, size)]
    BY <1>3 DEF ResizeWrapping
  <2>3. Rest(maps[id], maps[id].from, size).ts = mts
    BY DEF Rest, NewMap
  <2> QED BY <2>1, <2>2, <2>3, SplitPast
<1> QED BY <1>1, <1>2, <1>3

\* Deleting maps gives no time.
LEMMA MapDelPast ==
  ASSUME VInv, NEW id, MapDel(id) \/ MapReset
  PROVE  Stamped' /\ Closed'
<1>1. mts' \in Nat /\ mts <= mts' /\ open' = open
  <2>1. mts' = mts /\ open' = open
    BY DEF MapDel, MapReset
  <2>2. mts \in Nat
    BY VInvFacts, BoundsAssumption
  <2> QED BY <2>1, <2>2
<1>2. \A j \in MapIds : maps'[j] = maps[j] \/ maps'[j] = NoMap
  BY VInvFacts DEF MapDel, MapReset
<1>3. \A b \in BankIds : b \notin open => banks'[b] = banks[b]
  BY DEF MapDel, MapReset, InOpenBanks
<1> QED BY <1>1, <1>2, <1>3, StampedAfter, ClosedAfter

\* The operations on banks make no map, and a bank that is closed is emptied.
LEMMA BankPast ==
  ASSUME VInv, UNCHANGED <<maps, mts>>,
         \/ \E bank : InCurrentBank(bank)
         \/ BankDrainAll \/ BankAdd
         \/ \E b \in BankIds : BankUse(b) \/ BankDel(b)
  PROVE  Stamped' /\ Closed'
<1>1. Stamped'
  BY DEF VInv, Stamped
<1>2. /\ banks \in [BankIds -> Bank]
      /\ \A b \in BankIds : b \notin open => banks[b] = EmptyBank
  BY VInvFacts
<1>3. CASE \E bank : InCurrentBank(bank)
  <2>1. \A b \in BankIds : b \notin open => banks'[b] = banks[b]
    BY <1>2, <1>3 DEF InCurrentBank
  <2> QED BY <1>1, <1>3, <2>1, ClosedAfter DEF InCurrentBank
<1>4. CASE BankDrainAll
  <2>1. Drain(EmptyBank) = EmptyBank
    BY DEF Drain, EmptyBank
  <2>2. \A b \in BankIds : b \notin open => banks'[b] = banks[b]
    BY <1>2, <1>4, <2>1 DEF BankDrainAll
  <2> QED BY <1>1, <1>4, <2>2, ClosedAfter DEF BankDrainAll
<1>5. CASE BankAdd
  BY <1>1, <1>2, <1>5 DEF BankAdd, Closed
<1>6. CASE \E b \in BankIds : BankUse(b) \/ BankDel(b)
  BY <1>1, <1>2, <1>6 DEF BankUse, BankDel, Closed
<1> QED BY <1>3, <1>4, <1>5, <1>6

\* r_io_init: no map, one open bank, and all the others empty.
LEMMA InitView == Init => VInv /\ View!Init
<1> SUFFICES ASSUME Init PROVE VInv /\ View!Init
  OBVIOUS
<1>1. VInv
  BY InitShown DEF Init, VInv, Stamped, Closed
<1>2. \A a \in Addr : Resolve(EmptyBank, a) = NoRef
  BY DEF Resolve, EmptyBank, Covered
<1>3. Seen = [b \in BankIds |-> [a \in Addr |-> NoRef]]
  BY <1>2 DEF Init, Seen
<1> QED BY <1>1, <1>3 DEF View!Init, View!Blank

\* Every careful step keeps the invariant.
LEMMA StepPast == VInv /\ [CarefulNext]_vars => VInv'
<1> SUFFICES ASSUME VInv, [CarefulNext]_vars PROVE VInv'
  OBVIOUS
<1>1. HInv'
  BY StepShown DEF VInv
<1> SUFFICES Stamped' /\ Closed'
  BY <1>1 DEF VInv
<1>2. ASSUME NEW fd \in Fds, NEW addr \in Addr, NEW size \in Sizes,
             MapAdd(fd, 0, addr, size) \/ MapAddBottom(fd, 0, addr, size)
      PROVE  Stamped' /\ Closed'
  BY <1>2, MapAddFittingPast, MapAddWrappingPast DEF MapAdd, MapAddBottom
<1>3. ASSUME NEW id \in MapIds, NEW addr \in Addr, MapRemap(id, addr)
      PROVE  Stamped' /\ Closed'
  BY <1>3, MapRemapPast DEF MapRemap
<1>4. ASSUME NEW id \in MapIds, NEW size \in Sizes, ResizeAlone(id, size)
      PROVE  Stamped' /\ Closed'
  BY <1>4, MapResizePast DEF ResizeAlone, MapResize
<1>5. ASSUME NEW id \in MapIds, \/ MapPriorize(id) \/ MapDepriorize(id)
                                \/ AssociateOnce(id) \/ BankMapDel(id)
      PROVE  Stamped' /\ Closed'
  <2>1. \E bank : InCurrentBank(bank)
    BY <1>5 DEF MapPriorize, MapDepriorize, AssociateOnce, BankMapAdd, BankMapDel
  <2> QED BY <2>1, BankPast DEF InCurrentBank
<1>6. ASSUME NEW x, NEW addr, BankDrain \/ BankAccess(x) \/ SubMapAccess(addr)
      PROVE  Stamped' /\ Closed'
  <2>1. \E bank : InCurrentBank(bank)
    BY <1>6 DEF BankDrain, BankAccess, SubMapAccess
  <2> QED BY <2>1, BankPast DEF InCurrentBank
<1>7. ASSUME NEW b \in BankIds, BankAdd \/ BankUse(b) \/ BankDel(b) \/ BankDrainAll
      PROVE  Stamped' /\ Closed'
  BY <1>7, BankPast DEF BankAdd, BankUse, BankDel, BankDrainAll
<1>8. CASE CommonNext
  <2>1. CASE \E id \in MapIds : \/ MapDel(id)
                                \/ MapPriorize(id)
                                \/ MapDepriorize(id)
                                \/ BankMapDel(id)
                                \/ \E addr \in Addr : MapRemap(id, addr)
    BY <1>3, <1>5, <2>1, MapDelPast
  <2>2. CASE \E addr \in Probes :
               \/ \E to \in addr .. MaxAddr : BankAccess([from |-> addr, to |-> to])
               \/ SubMapAccess(addr)
    BY <1>6, <2>2
  <2>3. CASE (\E b \in BankIds : BankUse(b) \/ BankDel(b)) \/ BankAdd \/ BankDrainAll
    BY <1>7, <2>3, BankIdsAssumption
  <2>4. CASE MapReset \/ BankDrain
    BY <1>6, <2>4, MapDelPast
  <2> QED BY <1>2, <1>8, <2>1, <2>2, <2>3, <2>4 DEF CommonNext
<1>9. CASE \E id \in MapIds : \/ AssociateOnce(id)
                              \/ \E size \in Sizes : ResizeAlone(id, size)
  BY <1>4, <1>5, <1>9
<1>10. CASE UNCHANGED vars
  BY <1>10 DEF vars, VInv, Stamped, Closed
<1> QED BY <1>8, <1>9, <1>10 DEF CarefulNext

\* Every careful step is a step of the view, or is not seen.
LEMMA StepView ==
  ASSUME VInv, VInv', CarefulNext
  PROVE  View!Next \/ UNCHANGED Seen
<1>1. ASSUME NEW fd \in Fds, NEW addr \in Addr, NEW size \in Sizes,
             MapAdd(fd, 0, addr, size) \/ MapAddBottom(fd, 0, addr, size)
      PROVE  View!Next \/ UNCHANGED Seen
  BY <1>1, MapAddFittingSeen, MapAddWrappingSeen DEF MapAdd, MapAddBottom
<1>2. ASSUME NEW id \in MapIds, NEW addr \in Addr, MapRemap(id, addr)
      PROVE  View!Next \/ UNCHANGED Seen
  BY <1>2, FittingSeen, RemapWrappingSeen DEF MapRemap
<1>3. ASSUME NEW id \in MapIds, NEW size \in Sizes, ResizeAlone(id, size)
      PROVE  View!Next \/ UNCHANGED Seen
  <2>1. id \in LiveIds /\ (ResizeFitting(id, size) \/ ResizeWrapping(id, size))
        /\ (Wraps(maps[id].from, size) => OtherHolders(id) = {})
    BY <1>3 DEF ResizeAlone, MapResize
  <2>2. CASE ResizeFitting(id, size)
    BY <2>1, <2>2, FittingSeen
  <2>3. CASE ResizeWrapping(id, size)
    <3>1. OtherHolders(id) = {}
      BY <2>1, <2>3 DEF ResizeWrapping
    <3> QED BY <2>1, <2>3, <3>1, ResizeWrappingSeen
  <2> QED BY <2>1, <2>2, <2>3
<1>4. ASSUME NEW id \in MapIds, \/ MapDel(id) \/ MapPriorize(id) \/ MapDepriorize(id)
                                \/ AssociateOnce(id) \/ BankMapDel(id)
      PROVE  View!Next \/ UNCHANGED Seen
  BY <1>4, MapDelSeen, BankOperationSeen
<1>5. ASSUME NEW x, NEW addr,
             BankDrain \/ BankAccess(x) \/ SubMapAccess(addr) \/ BankDrainAll
      PROVE  UNCHANGED Seen
  BY <1>5, AccessSeen
<1>6. ASSUME NEW b \in BankIds, BankAdd \/ BankUse(b) \/ BankDel(b)
      PROVE  View!Next \/ UNCHANGED Seen
  BY <1>6, BankSetSeen
<1>7. CASE CommonNext
  <2>1. CASE \E id \in MapIds : \/ MapDel(id)
                                \/ MapPriorize(id)
                                \/ MapDepriorize(id)
                                \/ BankMapDel(id)
                                \/ \E addr \in Addr : MapRemap(id, addr)
    BY <1>2, <1>4, <2>1
  <2>2. CASE \E addr \in Probes :
               \/ \E to \in addr .. MaxAddr : BankAccess([from |-> addr, to |-> to])
               \/ SubMapAccess(addr)
    BY <1>5, <2>2
  <2>3. CASE (\E b \in BankIds : BankUse(b) \/ BankDel(b)) \/ BankAdd
    BY <1>6, <2>3, BankIdsAssumption
  <2>4. CASE MapReset \/ BankDrain \/ BankDrainAll
    BY <1>5, <2>4, MapResetSeen
  <2> QED BY <1>1, <1>7, <2>1, <2>2, <2>3, <2>4 DEF CommonNext
<1>8. CASE \E id \in MapIds : \/ AssociateOnce(id)
                              \/ \E size \in Sizes : ResizeAlone(id, size)
  BY <1>3, <1>4, <1>8
<1> QED BY <1>7, <1>8 DEF CarefulNext

(* VInv, the inductive strengthening: what HInv says of the open banks, the   *)
(* closed ones empty, and every timestamp given before the one io->mts holds, *)
(* so that a new map is never taken for one that was there before.            *)
THEOREM ViewInvariance == CarefulSpec => []VInv
BY InitView, StepPast, PTL DEF CarefulSpec

(* No reader can tell the banks, with the trees they cut, fill, drain and     *)
(* reorder, from a table of what each address shows: an operation on a map is *)
(* seen only where that map or its rest is, in all banks and at any address.  *)
THEOREM ViewImplemented == CarefulSpec => ImplementsView
<1>1. VInv /\ VInv' /\ [CarefulNext]_vars => [View!Next]_Seen
  <2>1. VInv /\ VInv' /\ CarefulNext => View!Next \/ UNCHANGED Seen
    BY StepView
  <2>2. UNCHANGED vars => UNCHANGED Seen
    BY DEF vars, Seen
  <2> QED BY <2>1, <2>2
<1> QED BY <1>1, InitView, ViewInvariance, PTL DEF CarefulSpec, ImplementsView, View!Spec
=============================================================================
