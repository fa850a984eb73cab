--------------------------- MODULE IOMapsProofs ---------------------------
(***************************************************************************)
(* Theorems about IOMaps, for every size of the address space, every set of *)
(* maps and of banks, and every file.  They rest on one invariant: all maps *)
(* are non-empty intervals and all banks are sound, the closed ones too.    *)
(***************************************************************************)
EXTENDS IOMaps, IOBankProofs

IInv ==
  /\ TypeOK
  /\ SoundMaps(maps)
  /\ \A b \in BankIds : SoundBank(banks[b])

\* What the map table must be for the banks to stay sound.
GoodMaps(ms) == ms \in [MapIds -> Map \cup {NoMap}] /\ SoundMaps(ms)

\* IInv of the next state, from what an action did to each variable.
LEMMA InvAfter ==
  ASSUME TypeOK, GoodMaps(maps'), mts' \in 0 .. MaxTs,
         banks' \in [BankIds -> Bank], \A b \in BankIds : SoundBank(banks'[b]),
         open' \in SUBSET BankIds, cur' \in BankIds \cup {NoBank}
  PROVE  IInv'
BY DEF IInv, TypeOK, GoodMaps

\* A family of sound banks is a family of banks.
LEMMA BanksType ==
  ASSUME NEW bs, bs = [b \in BankIds |-> bs[b]], \A b \in BankIds : SoundBank(bs[b])
  PROVE  bs \in [BankIds -> Bank]
BY DEF SoundBank

\* The facts of the invariant that the proofs of the actions use.
LEMMA InvFacts ==
  ASSUME IInv
  PROVE  /\ GoodMaps(maps) /\ mts \in 0 .. MaxTs /\ mts \in Nat
         /\ banks \in [BankIds -> Bank] /\ open \in SUBSET BankIds
         /\ cur \in BankIds \cup {NoBank}
         /\ \A b \in BankIds : SoundBank(banks[b])
BY BoundsAssumption DEF IInv, TypeOK, GoodMaps

\* The lowest of a non-empty set of banks is one of them.
LEMMA LowestBankId ==
  ASSUME NEW B \in SUBSET BankIds, B # {}
  PROVE  Lowest(B) \in B
<1>1. PICK b \in B : \A c \in B : b <= c
  BY LeastExists, BankIdsAssumption
<1> QED BY <1>1 DEF Lowest

-----------------------------------------------------------------------------
(* The map table.                                                           *)

\* A new map that fits is well formed and not empty.
LEMMA NewMapGood ==
  ASSUME NEW fd \in Fds, NEW delta \in Nat, Backed(fd, delta), NEW addr \in Addr,
         NEW size \in Nat \ {0}, addr + size - 1 <= MaxAddr, NEW ts \in Nat
  PROVE  /\ NewMap(fd, delta, addr, size, ts) \in Map
         /\ NewMap(fd, delta, addr, size, ts).from <= NewMap(fd, delta, addr, size, ts).to
<1> DEFINE n == Min2(size, FdSize[fd] - delta)
<1>1. FdSize[fd] \in Nat /\ MaxAddr \in Nat /\ addr \in Nat
  BY FdSizeAssumption, MaxAddrAssumption DEF Addr
<1>2. n \in Nat /\ 1 <= n /\ n <= size
  BY <1>1 DEF Min2, Backed
<1> HIDE DEF n
<1>3. addr + n - 1 \in Addr /\ addr <= addr + n - 1
  BY <1>1, <1>2 DEF Addr
<1>4. NewMap(fd, delta, addr, size, ts)
        = [from |-> addr, to |-> addr + n - 1, fd |-> fd, delta |-> delta, ts |-> ts]
  BY DEF NewMap, n
<1> QED BY <1>3, <1>4 DEF Map

\* Putting a good map in a slot keeps all maps good.
LEMMA PutGood ==
  ASSUME NEW ms, GoodMaps(ms), NEW id, NEW m \in Map, m.from <= m.to
  PROVE  GoodMaps([ms EXCEPT ![id] = m])
BY DEF GoodMaps, SoundMaps, Map

\* Freeing a slot keeps all maps good.
LEMMA DropGood ==
  ASSUME NEW ms, GoodMaps(ms), NEW id
  PROVE  GoodMaps([ms EXCEPT ![id] = NoMap])
BY DEF GoodMaps, SoundMaps

\* A map that exists lies inside the address space and has a size above 0.
LEMMA LiveMap ==
  ASSUME IInv, NEW id \in LiveIds
  PROVE  /\ id \in MapIds /\ maps[id] # NoMap /\ maps[id] \in Map
         /\ maps[id].from \in Nat /\ maps[id].to \in Nat
         /\ maps[id].from <= maps[id].to /\ maps[id].to <= MaxAddr
         /\ Size(maps[id]) \in Nat \ {0}
<1>1. id \in MapIds /\ maps[id] # NoMap
  BY DEF LiveIds, FreeIds
<1>2. maps[id] \in Map /\ maps[id].from <= maps[id].to
  BY <1>1 DEF IInv, TypeOK, SoundMaps
<1>3. maps[id].from \in Addr /\ maps[id].to \in Addr
  BY <1>2 DEF Map
<1> QED BY <1>1, <1>2, <1>3, MaxAddrAssumption DEF Addr, Size

\* Moving a map to a non-empty interval keeps all maps good.
LEMMA PlaceGood ==
  ASSUME IInv, NEW id \in LiveIds, NEW from \in Addr, NEW to \in Addr, from <= to
  PROVE  GoodMaps(Place(id, from, to))
<1> DEFINE m == [maps[id] EXCEPT !.from = from, !.to = to]
<1>1. id \in MapIds /\ maps[id] \in Map
  BY LiveMap
<1>2. m \in Map /\ m.from <= m.to
  BY <1>1 DEF Map
<1>3. Place(id, from, to) = [maps EXCEPT ![id] = m]
  BY <1>1, InvFacts DEF Place, GoodMaps
<1>4. GoodMaps(maps)
  BY InvFacts
<1> HIDE DEF m
<1>5. GoodMaps([maps EXCEPT ![id] = m])
  BY <1>2, <1>4, PutGood
<1> QED BY <1>3, <1>5

-----------------------------------------------------------------------------
(* The banks: what an action does to one, or to every open one.             *)

\* A step that only changes the current bank, soundly, keeps the invariant.
LEMMA CurrentBankInv ==
  ASSUME IInv, NEW bank, SoundBank(bank), InCurrentBank(bank)
  PROVE  IInv'
<1>1. /\ cur \in BankIds /\ banks' = [banks EXCEPT ![cur] = bank]
      /\ UNCHANGED <<maps, mts, open, cur>>
  BY InvFacts DEF InCurrentBank
<1>2. banks' \in [BankIds -> Bank] /\ \A b \in BankIds : SoundBank(banks'[b])
  BY <1>1, InvFacts DEF SoundBank
<1>3. GoodMaps(maps') /\ mts' \in 0 .. MaxTs /\ open' \in SUBSET BankIds
      /\ cur' \in BankIds \cup {NoBank}
  BY <1>1, InvFacts
<1> QED BY <1>2, <1>3, InvAfter DEF IInv

\* Every bank keeps its fields or takes those of a sound one.
LEMMA BanksInv ==
  ASSUME IInv, GoodMaps(maps'), mts' \in 0 .. MaxTs, UNCHANGED <<open, cur>>,
         banks' = [b \in BankIds |-> banks'[b]],
         \A b \in BankIds : banks'[b] = banks[b] \/ SoundBank(banks'[b])
  PROVE  IInv'
<1>1. \A b \in BankIds : SoundBank(banks'[b])
  BY InvFacts
<1>2. banks' \in [BankIds -> Bank]
  BY <1>1 DEF SoundBank
<1>3. open' \in SUBSET BankIds /\ cur' \in BankIds \cup {NoBank}
  BY InvFacts
<1> QED BY <1>1, <1>2, <1>3, InvAfter DEF IInv

\* Failing for want of a current bank keeps the invariant.
LEMMA NoCurrentBankInv ==
  ASSUME IInv, NEW spent \in Nat, NoCurrentBank(spent)
  PROVE  IInv'
<1>1. mts' \in 0 .. MaxTs
  BY InvFacts, BoundsAssumption DEF NoCurrentBank
<1>2. UNCHANGED <<maps, banks, open, cur>>
  BY DEF NoCurrentBank
<1>3. GoodMaps(maps') /\ banks' \in [BankIds -> Bank]
      /\ (\A b \in BankIds : SoundBank(banks'[b]))
      /\ open' \in SUBSET BankIds /\ cur' \in BankIds \cup {NoBank}
  BY <1>2, InvFacts
<1> QED BY <1>1, <1>3, InvAfter DEF IInv

\* Adding a map that fits, on top or at the bottom, keeps the invariant.
LEMMA MapAddFittingInv ==
  ASSUME IInv, NEW fd \in Fds, NEW addr \in Addr, NEW size \in Sizes,
         \/ AddFitting(AddTop, fd, 0, addr, size)
         \/ AddFitting(AddBottom, fd, 0, addr, size)
  PROVE  IInv'
<1>1. CASE NoCurrentBank(1)
  BY <1>1, NoCurrentBankInv
<1>2. CASE ~ NoCurrentBank(1)
  <2> DEFINE m == NewMap(fd, 0, addr, size, mts)
  <2>1. /\ ~ Wraps(addr, size) /\ Backed(fd, 0)
        /\ cur \in open /\ mts + 1 <= MaxTs /\ mts' = mts + 1 /\ UNCHANGED <<open, cur>>
    BY <1>2 DEF AddFitting
  <2>2. PICK id \in FreeIds :
          /\ maps' = [maps EXCEPT ![id] = m]
          /\ \/ banks' = [banks EXCEPT ![cur] = AddTop(maps', @, id)]
             \/ banks' = [banks EXCEPT ![cur] = AddBottom(maps', @, id)]
    BY <1>2 DEF AddFitting
  <2>3. id \in MapIds /\ cur \in BankIds /\ mts' \in 0 .. MaxTs
    BY <2>1, <2>2, InvFacts, BoundsAssumption DEF FreeIds
  <2>4. size \in Nat \ {0} /\ addr + size - 1 <= MaxAddr
    BY <2>1, InputsAssumption, MaxAddrAssumption DEF Wraps, Addr
  <2>5. m \in Map /\ m.from <= m.to
    <3>1. mts \in Nat /\ 0 \in Nat
      BY InvFacts
    <3> QED BY <2>1, <2>4, <3>1, NewMapGood
  <2>6. GoodMaps(maps')
    <3>1. GoodMaps(maps)
      BY InvFacts
    <3> HIDE DEF m
    <3>2. GoodMaps([maps EXCEPT ![id] = m])
      BY <2>5, <3>1, PutGood
    <3> QED BY <2>2, <3>2
  <2>7. SoundBank(AddTop(maps', banks[cur], id)) /\ SoundBank(AddBottom(maps', banks[cur], id))
    <3>1. SoundMaps(maps') /\ SoundBank(banks[cur])
      BY <2>3, <2>6, InvFacts DEF GoodMaps
    <3> QED BY <2>3, <3>1, AddTopSound, AddBottomSound
  <2>8. banks' = [b \in BankIds |-> banks'[b]]
        /\ \A b \in BankIds : banks'[b] = banks[b] \/ SoundBank(banks'[b])
    BY <2>2, <2>3, <2>7, InvFacts
  <2> QED BY <2>1, <2>3, <2>6, <2>8, BanksInv
<1> QED BY <1>1, <1>2

\* Adding a map that wraps keeps the invariant.
LEMMA MapAddWrappingInv ==
  ASSUME IInv, NEW fd \in Fds, NEW addr \in Addr, NEW size \in Sizes,
         \/ AddWrapping(AddTop, fd, 0, addr, size)
         \/ AddWrapping(AddBottom, fd, 0, addr, size)
  PROVE  IInv'
<1>1. CASE NoCurrentBank(1)
  BY <1>1, NoCurrentBankInv
<1>2. CASE ~ NoCurrentBank(1)
  <2> DEFINE high == MaxAddr - addr + 1
             low == size - high
             m0 == NewMap(fd, 0 + high, 0, low, mts)
             m1 == NewMap(fd, 0, addr, high, mts + 1)
  <2>1. /\ Wraps(addr, size) /\ Backed(fd, 0 + high)
        /\ cur \in open /\ mts + 2 <= MaxTs /\ mts' = mts + 2 /\ UNCHANGED <<open, cur>>
    BY <1>2 DEF AddWrapping
  <2>2. PICK id0 \in FreeIds, id1 \in FreeIds :
          /\ maps' = [maps EXCEPT ![id0] = m0, ![id1] = m1]
          /\ \/ banks' = [banks EXCEPT
                            ![cur] = AddTop(maps', AddTop(maps', @, id0), id1)]
             \/ banks' = [banks EXCEPT
                            ![cur] = AddBottom(maps', AddBottom(maps', @, id0), id1)]
    BY <1>2 DEF AddWrapping
  <2>3. id0 \in MapIds /\ id1 \in MapIds /\ cur \in BankIds /\ mts' \in 0 .. MaxTs
        /\ mts \in Nat
    BY <2>1, <2>2, InvFacts, BoundsAssumption DEF FreeIds
  <2>4. /\ high \in Nat \ {0} /\ low \in Nat \ {0} /\ 0 \in Addr
        /\ 0 + low - 1 <= MaxAddr /\ addr + high - 1 <= MaxAddr
    BY <2>1, InputsAssumption, MaxAddrAssumption DEF Wraps, Addr
  <2>5. Backed(fd, 0)
    BY <2>1, <2>4, FdSizeAssumption DEF Backed
  <2>6. m0 \in Map /\ m0.from <= m0.to
    <3> HIDE DEF high, low
    <3>1. 0 + high \in Nat /\ 0 \in Addr /\ low \in Nat \ {0}
      BY <2>4
    <3> QED BY <2>1, <2>3, <2>4, <3>1, NewMapGood
  <2>7. m1 \in Map /\ m1.from <= m1.to
    <3> HIDE DEF high
    <3>1. mts + 1 \in Nat /\ 0 \in Nat
      BY <2>3
    <3> QED BY <2>4, <2>5, <3>1, NewMapGood
  <2>8. GoodMaps(maps')
    <3>1. GoodMaps(maps)
      BY InvFacts
    <3> HIDE DEF m0, m1
    <3>2. GoodMaps([maps EXCEPT ![id0] = m0])
      BY <2>6, <3>1, PutGood
    <3>3. GoodMaps([[maps EXCEPT ![id0] = m0] EXCEPT ![id1] = m1])
      BY <2>7, <3>2, PutGood
    <3> QED BY <2>2, <3>3
  <2>9. /\ SoundBank(AddTop(maps', AddTop(maps', banks[cur], id0), id1))
        /\ SoundBank(AddBottom(maps', AddBottom(maps', banks[cur], id0), id1))
    <3>1. SoundMaps(maps') /\ SoundBank(banks[cur])
      BY <2>3, <2>8, InvFacts DEF GoodMaps
    <3>2. SoundBank(AddTop(maps', banks[cur], id0)) /\ SoundBank(AddBottom(maps', banks[cur], id0))
      BY <2>3, <3>1, AddTopSound, AddBottomSound
    <3> QED BY <2>3, <3>1, <3>2, AddTopSound, AddBottomSound
  <2>10. banks' = [b \in BankIds |-> banks'[b]]
         /\ \A b \in BankIds : banks'[b] = banks[b] \/ SoundBank(banks'[b])
    BY <2>2, <2>3, <2>9, InvFacts
  <2> QED BY <2>1, <2>3, <2>8, <2>10, BanksInv
<1> QED BY <1>1, <1>2

\* r_io_map_del keeps the invariant.
LEMMA MapDelInv ==
  ASSUME IInv, NEW id \in MapIds, MapDel(id)
  PROVE  IInv'
<1>1. /\ banks' = [b \in BankIds |-> IF b \in open THEN DelMap(maps, banks[b], id)
                                                   ELSE banks[b]]
      /\ maps' = [maps EXCEPT ![id] = NoMap]
      /\ UNCHANGED <<mts, open, cur>>
  BY DEF MapDel, InOpenBanks
<1>2. GoodMaps(maps') /\ mts' \in 0 .. MaxTs
  BY <1>1, InvFacts, DropGood
<1>3. \A b \in BankIds : SoundBank(DelMap(maps, banks[b], id))
  BY InvFacts, DelMapSound
<1>4. banks' = [b \in BankIds |-> banks'[b]]
      /\ \A b \in BankIds : banks'[b] = banks[b] \/ SoundBank(banks'[b])
  BY <1>1, <1>3
<1> QED BY <1>1, <1>2, <1>4, BanksInv

\* r_io_map_reset keeps the invariant.
LEMMA MapResetInv ==
  ASSUME IInv, MapReset
  PROVE  IInv'
<1>1. /\ banks' = [b \in BankIds |->
                     IF b \in open THEN [EmptyBank EXCEPT !.drainMe = banks[b].drainMe]
                                   ELSE banks[b]]
      /\ maps' = [id \in MapIds |-> NoMap]
      /\ UNCHANGED <<mts, open, cur>>
  BY DEF MapReset, InOpenBanks
<1>2. GoodMaps(maps') /\ mts' \in 0 .. MaxTs
  BY <1>1, InvFacts DEF GoodMaps, SoundMaps
<1>3. ASSUME NEW b \in BankIds
      PROVE  SoundBank([EmptyBank EXCEPT !.drainMe = banks[b].drainMe])
  <2>1. banks[b].drainMe \in BOOLEAN
    BY InvFacts, BankFields
  <2> QED BY <2>1, EmptyBankSound DEF SoundBank, Bank
<1>4. banks' = [b \in BankIds |-> banks'[b]]
      /\ \A b \in BankIds : banks'[b] = banks[b] \/ SoundBank(banks'[b])
  BY <1>1, <1>3
<1> QED BY <1>1, <1>2, <1>4, BanksInv

-----------------------------------------------------------------------------
(* Moving and resizing.                                                     *)

\* What is left of a map past the top of the address space.
LEMMA RestGood ==
  ASSUME IInv, NEW id \in LiveIds, NEW addr \in Addr, NEW size \in Nat,
         size <= MaxAddr + 1, Wraps(addr, size), RestBacked(maps[id], addr)
  PROVE  /\ Rest(maps[id], addr, size) \in Map
         /\ Rest(maps[id], addr, size).from <= Rest(maps[id], addr, size).to
<1> DEFINE m == maps[id]
           high == MaxAddr - addr + 1
<1>1. m \in Map /\ mts \in Nat
  BY LiveMap, InvFacts
<1>2. m.fd \in Fds /\ m.delta \in Nat
  BY <1>1 DEF Map
<1>3. high \in Nat /\ size - high \in Nat \ {0} /\ 0 \in Addr
      /\ 0 + (size - high) - 1 <= MaxAddr
  BY MaxAddrAssumption DEF Wraps, Addr
<1>4. Rest(m, addr, size) = NewMap(m.fd, m.delta + high, 0, size - high, mts)
      /\ Backed(m.fd, m.delta + high)
  BY DEF Rest, RestBacked
<1> HIDE DEF m, high
<1>5. m.delta + high \in Nat
  BY <1>2, <1>3
<1> QED BY <1>1, <1>2, <1>3, <1>4, <1>5, NewMapGood DEF m

\* Both parts of a remapped map that wraps are good.
LEMMA PlaceRestGood ==
  ASSUME IInv, NEW id \in LiveIds, NEW addr \in Addr, NEW size \in Nat,
         size <= MaxAddr + 1, Wraps(addr, size), RestBacked(maps[id], addr),
         NEW new
  PROVE  GoodMaps([Place(id, addr, MaxAddr) EXCEPT ![new] = Rest(maps[id], addr, size)])
<1>1. addr <= MaxAddr /\ MaxAddr \in Addr
  BY MaxAddrAssumption DEF Addr
<1>2. GoodMaps(Place(id, addr, MaxAddr))
  BY <1>1, PlaceGood
<1> QED BY <1>2, RestGood, PutGood

\* r_io_map_remap of a map that fits keeps the invariant.
LEMMA RemapFittingInv ==
  ASSUME IInv, NEW id \in LiveIds, NEW addr \in Addr, RemapFitting(id, addr)
  PROVE  IInv'
<1> DEFINE m == maps[id]
<1>1. /\ ~ Wraps(addr, Size(m))
      /\ maps' = Place(id, addr, addr + Size(m) - 1)
      /\ banks' = [b \in BankIds |->
                     IF b \in open THEN UpdateBoundaries(maps', banks[b], id, m)
                                   ELSE banks[b]]
      /\ UNCHANGED <<mts, open, cur>>
  BY DEF RemapFitting, InOpenBanks
<1>2. addr + Size(m) - 1 \in Addr /\ addr <= addr + Size(m) - 1
  BY <1>1, LiveMap, MaxAddrAssumption DEF Wraps, Addr
<1>3. GoodMaps(maps')
  BY <1>1, <1>2, PlaceGood
<1>4. \A b \in BankIds : SoundBank(UpdateBoundaries(maps', banks[b], id, m))
  BY <1>3, InvFacts, UpdateBoundariesSound DEF GoodMaps
<1>5. banks' = [b \in BankIds |-> banks'[b]]
      /\ \A b \in BankIds : banks'[b] = banks[b] \/ SoundBank(banks'[b])
  BY <1>1, <1>4
<1> QED BY <1>1, <1>3, <1>5, InvFacts, BanksInv

\* r_io_map_resize of a map that fits keeps the invariant.
LEMMA ResizeFittingInv ==
  ASSUME IInv, NEW id \in LiveIds, NEW size \in Sizes, ResizeFitting(id, size)
  PROVE  IInv'
<1> DEFINE m == maps[id]
<1>1. /\ ~ Wraps(m.from, size)
      /\ maps' = Place(id, m.from, m.from + size - 1)
      /\ banks' = [b \in BankIds |->
                     IF b \in open THEN UpdateBoundaries(maps', banks[b], id, m)
                                   ELSE banks[b]]
      /\ UNCHANGED <<mts, open, cur>>
  BY DEF ResizeFitting, InOpenBanks
<1>2. m.from \in Addr /\ m.from + size - 1 \in Addr /\ m.from <= m.from + size - 1
  <2>1. m.from \in Nat /\ m.from <= MaxAddr /\ size \in Nat \ {0}
    BY LiveMap, InputsAssumption, MaxAddrAssumption
  <2> QED BY <1>1, <2>1, MaxAddrAssumption DEF Wraps, Addr
<1>3. GoodMaps(maps')
  BY <1>1, <1>2, PlaceGood
<1>4. \A b \in BankIds : SoundBank(UpdateBoundaries(maps', banks[b], id, m))
  BY <1>3, InvFacts, UpdateBoundariesSound DEF GoodMaps
<1>5. banks' = [b \in BankIds |-> banks'[b]]
      /\ \A b \in BankIds : banks'[b] = banks[b] \/ SoundBank(banks'[b])
  BY <1>1, <1>4
<1> QED BY <1>1, <1>3, <1>5, InvFacts, BanksInv

\* Adding the second part of a map to a bank, or not, keeps the bank sound.
LEMMA AddRestSound ==
  ASSUME IInv, GoodMaps(maps'), NEW b \in BankIds, NEW id, NEW new \in MapIds
  PROVE  SoundBank(AddRest(b, banks[b], id, new))
<1>1. SoundMaps(maps') /\ SoundBank(banks[b])
  BY InvFacts DEF GoodMaps
<1>2. SoundBank(AddTop(maps', banks[b], new))
  BY <1>1, AddTopSound
<1>3. SoundBank(DelMap(maps', AddTop(maps', banks[b], new), new))
  BY <1>2, DelMapSound
<1> QED BY <1>1, <1>2, <1>3 DEF AddRest

\* r_io_map_remap of a map that wraps keeps the invariant.
LEMMA RemapWrappingInv ==
  ASSUME IInv, NEW id \in LiveIds, NEW addr \in Addr, RemapWrapping(id, addr)
  PROVE  IInv'
<1>1. CASE NoCurrentBank(1)
  BY <1>1, NoCurrentBankInv
<1>2. CASE ~ NoCurrentBank(1)
  <2> DEFINE m == maps[id]
  <2>1. /\ Wraps(addr, Size(m)) /\ RestBacked(m, addr)
        /\ mts + 1 <= MaxTs /\ mts' = mts + 1 /\ UNCHANGED <<open, cur>>
    BY <1>2 DEF RemapWrapping
  <2>2. PICK new \in FreeIds :
          /\ maps' = [Place(id, addr, MaxAddr) EXCEPT ![new] = Rest(m, addr, Size(m))]
          /\ banks' = [b \in BankIds |->
                         IF b \in open
                         THEN UpdateBoundaries(maps', AddRest(b, banks[b], id, new), id, m)
                         ELSE banks[b]]
    BY <1>2 DEF RemapWrapping, InOpenBanks
  <2>3. new \in MapIds /\ mts' \in 0 .. MaxTs
    BY <2>1, <2>2, InvFacts, BoundsAssumption DEF FreeIds
  <2>4. Size(m) \in Nat /\ Size(m) <= MaxAddr + 1
    BY LiveMap, MaxAddrAssumption DEF Size
  <2>5. GoodMaps(maps')
    BY <2>1, <2>2, <2>4, PlaceRestGood
  <2>6. \A b \in BankIds :
          SoundBank(UpdateBoundaries(maps', AddRest(b, banks[b], id, new), id, m))
    BY <2>3, <2>5, AddRestSound, UpdateBoundariesSound DEF GoodMaps
  <2>7. banks' = [b \in BankIds |-> banks'[b]]
        /\ \A b \in BankIds : banks'[b] = banks[b] \/ SoundBank(banks'[b])
    BY <2>2, <2>6
  <2> QED BY <2>1, <2>3, <2>5, <2>7, BanksInv
<1> QED BY <1>1, <1>2

\* r_io_map_resize of a map that wraps keeps the invariant.
LEMMA ResizeWrappingInv ==
  ASSUME IInv, NEW id \in LiveIds, NEW size \in Sizes, ResizeWrapping(id, size)
  PROVE  IInv'
<1>1. CASE NoCurrentBank(1)
  BY <1>1, NoCurrentBankInv
<1>2. CASE ~ NoCurrentBank(1)
  <2> DEFINE m == maps[id]
  <2>1. /\ Wraps(m.from, size) /\ RestBacked(m, m.from)
        /\ mts + 1 <= MaxTs /\ mts' = mts + 1 /\ UNCHANGED <<open, cur>>
    BY <1>2 DEF ResizeWrapping
  <2>2. PICK new \in FreeIds :
          /\ maps' = [Place(id, m.from, MaxAddr) EXCEPT ![new] = Rest(m, m.from, size)]
          /\ banks' = [b \in BankIds |->
               IF b \in open
               THEN IF b # cur THEN AddRest(b, banks[b], id, new)
                    ELSE IF OtherHolders(id) = {}
                    THEN UpdateBoundaries(maps', AddRest(b, banks[b], id, new), id, m)
                    ELSE UpdateBoundaries(maps',
                           UpdateBoundaries(maps', AddRest(b, banks[b], id, new), id, m), id, m)
               ELSE banks[b]]
    BY <1>2 DEF ResizeWrapping, InOpenBanks
  <2>3. new \in MapIds /\ mts' \in 0 .. MaxTs
    BY <2>1, <2>2, InvFacts, BoundsAssumption DEF FreeIds
  <2>4. m.from \in Addr /\ size \in Nat /\ size <= MaxAddr + 1
    BY LiveMap, InputsAssumption, MaxAddrAssumption DEF Addr
  <2>5. GoodMaps(maps')
    BY <2>1, <2>2, <2>4, PlaceRestGood
  <2>6. ASSUME NEW b \in BankIds
        PROVE  /\ SoundBank(AddRest(b, banks[b], id, new))
               /\ SoundBank(UpdateBoundaries(maps', AddRest(b, banks[b], id, new), id, m))
               /\ SoundBank(UpdateBoundaries(maps',
                    UpdateBoundaries(maps', AddRest(b, banks[b], id, new), id, m), id, m))
    BY <2>3, <2>5, AddRestSound, UpdateBoundariesSound DEF GoodMaps
  <2>7. banks' = [b \in BankIds |-> banks'[b]]
        /\ \A b \in BankIds : banks'[b] = banks[b] \/ SoundBank(banks'[b])
    BY <2>2, <2>6
  <2> QED BY <2>1, <2>3, <2>5, <2>7, BanksInv
<1> QED BY <1>1, <1>2

-----------------------------------------------------------------------------
(* The operations on one bank, and on the set of banks.                     *)

\* Each operation on one map of the current bank keeps the invariant.
LEMMA BankOperationInv ==
  ASSUME IInv, NEW id \in MapIds,
         MapPriorize(id) \/ MapDepriorize(id) \/ BankMapAdd(id) \/ BankMapDel(id)
  PROVE  IInv'
<1>1. cur \in BankIds
  BY InvFacts DEF MapPriorize, MapDepriorize, BankMapAdd, BankMapDel, InCurrentBank
<1>2. SoundMaps(maps) /\ SoundBank(banks[cur])
  BY <1>1, InvFacts DEF GoodMaps
<1>3. CASE MapPriorize(id)
  BY <1>2, <1>3, PriorizeSound, CurrentBankInv DEF MapPriorize
<1>4. CASE MapDepriorize(id)
  BY <1>2, <1>4, DepriorizeSound, CurrentBankInv DEF MapDepriorize
<1>5. CASE BankMapAdd(id)
  BY <1>2, <1>5, AddTopSound, CurrentBankInv DEF BankMapAdd
<1>6. CASE BankMapDel(id)
  BY <1>2, <1>6, DelMapSound, CurrentBankInv DEF BankMapDel
<1> QED BY <1>3, <1>4, <1>5, <1>6

\* Draining, accesses and drained accesses keep the invariant.
LEMMA AccessInv ==
  ASSUME IInv, NEW x, NEW addr, BankDrain \/ BankAccess(x) \/ SubMapAccess(addr)
  PROVE  IInv'
<1>1. /\ cur \in BankIds
      /\ \/ InCurrentBank(Drain(banks[cur]))
         \/ InCurrentBank(Touch(maps, banks[cur], x))
         \/ InCurrentBank(Touch(maps, Drain(banks[cur]), [from |-> addr, to |-> addr]))
  BY InvFacts DEF BankDrain, BankAccess, SubMapAccess, InCurrentBank
<1>2. SoundBank(banks[cur])
  BY <1>1, InvFacts
<1> QED BY <1>1, <1>2, DrainSound, TouchSound, CurrentBankInv

\* Opening, using and closing banks keeps the invariant.
LEMMA BankSetInv ==
  ASSUME IInv, NEW b \in BankIds, BankAdd \/ BankUse(b) \/ BankDel(b)
  PROVE  IInv'
<1>1. GoodMaps(maps') /\ mts' \in 0 .. MaxTs
  BY InvFacts DEF BankAdd, BankUse, BankDel
<1>2. open' \in SUBSET BankIds
  BY InvFacts DEF BankAdd, BankUse, BankDel
<1>3. cur' \in BankIds \cup {NoBank}
  <2>1. CASE BankDel(b)
    BY <1>2, <2>1, InvFacts, LowestBankId DEF BankDel, LowestBank
  <2>2. CASE BankAdd \/ BankUse(b)
    BY <2>2, InvFacts DEF BankAdd, BankUse
  <2> QED BY <2>1, <2>2
<1>4. /\ banks' = [c \in BankIds |-> banks'[c]]
      /\ \A c \in BankIds : banks'[c] = banks[c] \/ banks'[c] = EmptyBank
  BY InvFacts DEF BankAdd, BankUse, BankDel
<1>5. \A c \in BankIds : SoundBank(banks'[c])
  BY <1>4, InvFacts, EmptyBankSound
<1>6. banks' \in [BankIds -> Bank]
  BY <1>4, <1>5 DEF SoundBank
<1> QED BY <1>1, <1>2, <1>3, <1>5, <1>6, InvAfter DEF IInv

\* The command that drains and goes back to the first bank keeps the invariant.
LEMMA BankDrainAllInv ==
  ASSUME IInv, BankDrainAll
  PROVE  IInv'
<1>1. GoodMaps(maps') /\ mts' \in 0 .. MaxTs /\ open' \in SUBSET BankIds
  BY InvFacts DEF BankDrainAll
<1>2. cur' \in BankIds \cup {NoBank}
  BY InvFacts, LowestBankId DEF BankDrainAll, LowestBank
<1>3. \A b \in BankIds : SoundBank(banks'[b])
  BY InvFacts, DrainSound DEF BankDrainAll
<1>4. banks' \in [BankIds -> Bank]
  BY <1>3 DEF BankDrainAll, SoundBank
<1> QED BY <1>1, <1>2, <1>3, <1>4, InvAfter DEF IInv

-----------------------------------------------------------------------------
(* The invariant.                                                           *)

\* r_io_init establishes the invariant.
LEMMA InitInv == Init => IInv
<1> SUFFICES ASSUME Init PROVE IInv
  OBVIOUS
<1>1. maps = [id \in MapIds |-> NoMap] /\ mts = 0 /\ banks = [b \in BankIds |-> EmptyBank]
  BY DEF Init
<1>2. open \in SUBSET BankIds /\ cur \in BankIds
  BY BankIdsAssumption, LowestBankId DEF Init
<1>3. \A b \in BankIds : SoundBank(banks[b])
  BY <1>1, EmptyBankSound
<1>4. banks \in [BankIds -> Bank]
  BY <1>1, EmptyBankSound DEF SoundBank
<1>5. SoundMaps(maps) /\ maps \in [MapIds -> Map \cup {NoMap}]
  BY <1>1 DEF SoundMaps
<1>6. mts \in 0 .. MaxTs
  BY <1>1, BoundsAssumption
<1> QED BY <1>2, <1>3, <1>4, <1>5, <1>6 DEF IInv, TypeOK

\* Every operation of the program keeps the invariant.
LEMMA StepInv == IInv /\ [Next]_vars => IInv'
<1> SUFFICES ASSUME IInv, [Next]_vars PROVE IInv'
  OBVIOUS
<1>1. ASSUME NEW fd \in Fds, NEW addr \in Addr, NEW size \in Sizes,
             MapAdd(fd, 0, addr, size) \/ MapAddBottom(fd, 0, addr, size)
      PROVE  IInv'
  <2>1. \/ AddFitting(AddTop, fd, 0, addr, size) \/ AddFitting(AddBottom, fd, 0, addr, size)
        \/ AddWrapping(AddTop, fd, 0, addr, size) \/ AddWrapping(AddBottom, fd, 0, addr, size)
    BY <1>1 DEF MapAdd, MapAddBottom
  <2> QED BY <2>1, MapAddFittingInv, MapAddWrappingInv
<1>2. ASSUME NEW id \in MapIds, NEW addr \in Addr, MapRemap(id, addr)
      PROVE  IInv'
  BY <1>2, RemapFittingInv, RemapWrappingInv DEF MapRemap
<1>3. ASSUME NEW id \in MapIds, NEW size \in Sizes, MapResize(id, size)
      PROVE  IInv'
  BY <1>3, ResizeFittingInv, ResizeWrappingInv DEF MapResize
<1>4. ASSUME NEW id \in MapIds, \/ MapDel(id) \/ MapPriorize(id) \/ MapDepriorize(id)
                                \/ BankMapAdd(id) \/ BankMapDel(id)
      PROVE  IInv'
  BY <1>4, MapDelInv, BankOperationInv
<1>5. ASSUME NEW x, NEW addr, BankDrain \/ BankAccess(x) \/ SubMapAccess(addr)
      PROVE  IInv'
  BY <1>5, AccessInv
<1>6. ASSUME NEW b \in BankIds, BankAdd \/ BankUse(b) \/ BankDel(b)
      PROVE  IInv'
  BY <1>6, BankSetInv
<1>7. CASE CommonNext
  <2>1. CASE \E fd \in Fds, addr \in Addr, size \in Sizes :
               MapAdd(fd, 0, addr, size) \/ MapAddBottom(fd, 0, addr, size)
    BY <1>1, <2>1
  <2>2. CASE \E id \in MapIds : \/ MapDel(id)
                                \/ MapPriorize(id)
                                \/ MapDepriorize(id)
                                \/ BankMapDel(id)
                                \/ \E addr \in Addr : MapRemap(id, addr)
    BY <1>2, <1>4, <2>2
  <2>3. CASE \E addr \in Probes :
               \/ \E to \in addr .. MaxAddr : BankAccess([from |-> addr, to |-> to])
               \/ SubMapAccess(addr)
    BY <1>5, <2>3
  <2>4. CASE (\E b \in BankIds : BankUse(b) \/ BankDel(b)) \/ BankAdd
    BY <1>6, <2>4, BankIdsAssumption
  <2>5. CASE MapReset \/ BankDrain \/ BankDrainAll
    BY <1>5, <2>5, MapResetInv, BankDrainAllInv
  <2> QED BY <1>7, <2>1, <2>2, <2>3, <2>4, <2>5 DEF CommonNext
<1>8. CASE \E id \in MapIds : BankMapAdd(id) \/ \E size \in Sizes : MapResize(id, size)
  BY <1>3, <1>4, <1>8
<1>9. CASE UNCHANGED vars
  BY <1>9 DEF vars, IInv, TypeOK
<1> QED BY <1>7, <1>8, <1>9 DEF Next

(* IInv, the inductive strengthening of the three properties below, holds of *)
(* every state the program reaches, however carelessly it is used.           *)
THEOREM Invariance == Spec => []IInv
BY InitInv, StepInv, PTL DEF Spec

(* Every operation of the program keeps every variable in its kind: no map   *)
(* leaves the address space when it is created, moved, resized or split.     *)
THEOREM TypeCorrect == Spec => []TypeOK
<1>1. IInv => TypeOK
  BY DEF IInv
<1> QED BY <1>1, Invariance, PTL

(* Whatever the order in which maps are added, moved, resized, priorized and *)
(* dropped, the nodes of a bank's tree never overlap: the careless uses that *)
(* break the other invariants do not break this one.                         *)
THEOREM SubMapsDisjoint == Spec => []DisjointSubMaps
<1>1. IInv => DisjointSubMaps
  BY DEF IInv, TypeOK, SoundBank, Tidy, Apart, DisjointSubMaps, Overlaps
<1> QED BY <1>1, Invariance, PTL

(* The cached node of a bank is never one that an operation has deleted, cut *)
(* or merged.                                                                *)
THEOREM LastUsedValid == Spec => []LastUsedInTree
<1>1. IInv => LastUsedInTree
  BY DEF IInv, TypeOK, SoundBank, LastUsedInTree
<1> QED BY <1>1, Invariance, PTL

(* A careful user is a user: what holds of Spec holds of CarefulSpec, the    *)
(* specification that most runs check.                                       *)
THEOREM CarefulIsSpec == CarefulSpec => Spec
<1>1. [CarefulNext]_vars => [Next]_vars
  BY DEF CarefulNext, Next, AssociateOnce, ResizeAlone
<1> QED BY <1>1, PTL DEF CarefulSpec, Spec
-----------------------------------------------------------------------------
(* Where the bytes of a map are after it was moved.                         *)

\* The k-th byte of map id is shown at the address a, by a map that is new or was changed.
Shows(id, k, a) ==
  \E m \in MapIds :
    /\ maps'[m] # NoMap
    /\ maps[m] # maps'[m]
    /\ a \in Span(maps'[m])
    /\ maps'[m].fd = maps[id].fd
    /\ maps'[m].delta + (a - maps'[m].from) = maps[id].delta + k

\* The addresses behind addr, around the top of the address space.
LEMMA AroundTheTop ==
  ASSUME NEW addr \in Addr, NEW k \in Nat, k <= MaxAddr + 1
  PROVE  (addr + k) % (MaxAddr + 1)
           = IF addr + k <= MaxAddr THEN addr + k ELSE (addr + k) - (MaxAddr + 1)
<1> DEFINE N == MaxAddr + 1
<1>1. MaxAddr \in Nat /\ N \in Nat \ {0} /\ addr \in Nat /\ addr < N
  BY MaxAddrAssumption DEF Addr
<1>2. ASSUME NEW x \in Nat
      PROVE  (x < N => x % N = x) /\ (N <= x /\ x < 2 * N => x % N = x - N)
  BY <1>1
<1> DEFINE x == addr + k
<1>3. x \in Nat /\ (x <= MaxAddr => x < N) /\ (~(x <= MaxAddr) => N <= x /\ x < 2 * N)
  BY <1>1
<1> HIDE DEF N, x
<1>4. x % N = IF x <= MaxAddr THEN x ELSE x - N
  <2>1. CASE x <= MaxAddr
    BY <1>2, <1>3, <2>1, Zenon
  <2>2. CASE ~(x <= MaxAddr)
    BY <1>2, <1>3, <2>2, Zenon
  <2> QED BY <2>1, <2>2, Zenon
<1> QED BY <1>4, Zenon DEF x, N

\* A part of the map that is moved below the top.
LEMMA PlacedShows ==
  ASSUME IInv, NEW id \in LiveIds, NEW addr \in Addr, NEW to \in Addr,
         maps'[id] = Place(id, addr, to)[id], maps'[id] # maps[id],
         NEW k \in Nat, addr + k <= to
  PROVE  Shows(id, k, addr + k)
<1>1. id \in MapIds /\ maps[id] \in Map /\ maps[id] # NoMap /\ addr \in Nat /\ to \in Nat
  BY LiveMap, MaxAddrAssumption DEF Addr
<1>2. maps \in [MapIds -> Map \cup {NoMap}]
  BY InvFacts DEF GoodMaps
<1>3. maps'[id] = [maps[id] EXCEPT !.from = addr, !.to = to]
  BY <1>1, <1>2 DEF Place
<1>4. /\ maps'[id] \in Map /\ maps'[id].from = addr /\ maps'[id].to = to
      /\ maps'[id].fd = maps[id].fd /\ maps'[id].delta = maps[id].delta
      /\ maps[id].delta \in Nat
  BY <1>1, <1>3 DEF Map
<1>5. maps'[id] # NoMap /\ addr + k \in Span(maps'[id])
  BY <1>1, <1>4, NoMapAssumption DEF Span
<1>6. maps'[id].delta + ((addr + k) - maps'[id].from) = maps[id].delta + k
  BY <1>1, <1>4
<1> QED BY <1>1, <1>4, <1>5, <1>6 DEF Shows

\* The rest of a map that is split, at the bottom.
LEMMA RestShows ==
  ASSUME IInv, NEW id \in LiveIds, NEW addr \in Addr, NEW new \in FreeIds,
         Wraps(addr, Size(maps[id])), RestBacked(maps[id], addr),
         maps'[new] = Rest(maps[id], addr, Size(maps[id])),
         NEW k \in Nat, addr + k > MaxAddr,
         k < Size(maps[id]), k < FdSize[maps[id].fd] - maps[id].delta
  PROVE  Shows(id, k, (addr + k) - (MaxAddr + 1))
<1> DEFINE m == maps[id]
           high == MaxAddr - addr + 1
           size == Size(m)
<1>1. /\ m \in Map /\ m.fd \in Fds /\ m.delta \in Nat /\ FdSize[m.fd] \in Nat
      /\ size \in Nat /\ size <= MaxAddr + 1
  BY LiveMap, FdSizeAssumption, MaxAddrAssumption DEF Map, Size
<1>2. addr \in Nat /\ MaxAddr \in Nat /\ high \in Nat /\ k >= high
  BY MaxAddrAssumption DEF Addr
<1>3. maps'[new] \in Map
  BY <1>1, RestGood
<1>4. /\ maps'[new].from = 0 /\ maps'[new].fd = m.fd /\ maps'[new].delta = m.delta + high
      /\ maps'[new].to = 0 + Min2(size - high, FdSize[m.fd] - (m.delta + high)) - 1
  BY DEF Rest, NewMap
<1>5. new \in MapIds /\ maps'[new] # NoMap /\ maps[new] # maps'[new]
  BY <1>3, NoMapAssumption DEF FreeIds
<1>6. k < size /\ k < FdSize[m.fd] - m.delta
  OBVIOUS
<1> HIDE DEF m, high, size
<1>7. k - high \in 0 .. maps'[new].to
  BY <1>1, <1>2, <1>4, <1>6 DEF Min2
<1>8. (addr + k) - (MaxAddr + 1) = k - high
  BY <1>2 DEF high
<1>9. maps'[new].delta + ((k - high) - maps'[new].from) = m.delta + k
  BY <1>1, <1>2, <1>4
<1>10. k - high \in Span(maps'[new])
  BY <1>4, <1>7 DEF Span
<1> QED BY <1>4, <1>5, <1>8, <1>9, <1>10 DEF Shows, m

\* r_io_map_remap, byte by byte.
LEMMA RemapShows ==
  ASSUME IInv, NEW id \in MapIds, NEW addr \in Addr, MapRemap(id, addr), maps' # maps,
         NEW k \in 0 .. Min2(Size(maps[id]), FdSize[maps[id].fd] - maps[id].delta) - 1
  PROVE  Shows(id, k, (addr + k) % (MaxAddr + 1))
<1> DEFINE size == Size(maps[id])
           a == (addr + k) % (MaxAddr + 1)
<1>1. /\ id \in LiveIds /\ size \in Nat \ {0} /\ size <= MaxAddr + 1
      /\ maps[id] \in Map /\ maps[id].delta \in Nat /\ FdSize[maps[id].fd] \in Nat
      /\ maps[id].from \in Nat /\ maps[id].to \in Nat
      /\ size = maps[id].to - maps[id].from + 1
  BY LiveMap, FdSizeAssumption, MaxAddrAssumption DEF MapRemap, Map, Size
<1>2. addr \in Nat /\ MaxAddr \in Nat /\ addr <= MaxAddr
  BY MaxAddrAssumption DEF Addr
<1>3. k \in Nat /\ k < size /\ k < FdSize[maps[id].fd] - maps[id].delta
  BY <1>1 DEF Min2
<1>4. a = IF addr + k <= MaxAddr THEN addr + k ELSE (addr + k) - (MaxAddr + 1)
  <2>1. k <= MaxAddr + 1
    BY <1>1, <1>2, <1>3
  <2> QED BY <1>3, <2>1, AroundTheTop, Zenon
<1>5. maps \in [MapIds -> Map \cup {NoMap}]
  BY InvFacts DEF GoodMaps
<1> HIDE DEF size, a
<1>6. CASE RemapFitting(id, addr)
  <2>1. ~Wraps(addr, size) /\ maps' = Place(id, addr, addr + size - 1)
    BY <1>6 DEF RemapFitting, size
  <2>2. addr + size - 1 \in Addr /\ addr + k <= addr + size - 1 /\ addr + k <= MaxAddr
    BY <1>1, <1>2, <1>3, <2>1 DEF Wraps, Addr
  <2>3. maps'[id] # maps[id]
    BY <1>5, <2>1 DEF Place
  <2> QED BY <1>1, <1>3, <1>4, <2>1, <2>2, <2>3, PlacedShows DEF a
<1>7. CASE RemapWrapping(id, addr)
  <2>1. PICK new \in FreeIds :
          maps' = [Place(id, addr, MaxAddr) EXCEPT ![new] = Rest(maps[id], addr, size)]
    BY <1>7 DEF RemapWrapping, NoCurrentBank, size
  <2>2. Wraps(addr, size) /\ RestBacked(maps[id], addr)
    BY <1>7 DEF RemapWrapping, size
  <2>3. new \in MapIds /\ new # id /\ MaxAddr \in Addr
    BY <1>1, <1>2 DEF FreeIds, LiveIds, Addr
  <2>4. maps'[id] = Place(id, addr, MaxAddr)[id] /\ maps'[new] = Rest(maps[id], addr, size)
    BY <1>5, <2>1, <2>3 DEF Place
  <2>5. CASE addr + k <= MaxAddr
    <3>1. maps'[id] = [maps[id] EXCEPT !.from = addr, !.to = MaxAddr]
      BY <1>5, <2>4 DEF Place
    <3>2. maps'[id].from = addr /\ maps'[id].to = MaxAddr
      BY <1>1, <3>1 DEF Map
    <3>3. maps'[id] # maps[id]
      BY <1>1, <1>2, <2>2, <3>2 DEF Wraps
    <3> QED BY <1>1, <1>3, <1>4, <2>3, <2>4, <2>5, <3>3, PlacedShows DEF a
  <2>6. CASE ~(addr + k <= MaxAddr)
    <3>1. addr + k > MaxAddr
      BY <1>2, <1>3, <2>6
    <3> QED BY <1>1, <1>3, <1>4, <2>2, <2>4, <2>6, <3>1, RestShows DEF a, size
  <2> QED BY <2>5, <2>6
<1> QED BY <1>6, <1>7 DEF MapRemap, a

(* Moving a map moves its bytes: the k-th is at the k-th address from the new *)
(* start, counted around the top of the address space, whether the map had to *)
(* be split or not; for every user.                                          *)
THEOREM RemapMoves == Spec => RemapMovesBytes
<1> DEFINE A == \A id \in MapIds, addr \in Addr :
                  MapRemap(id, addr) /\ maps' # maps =>
                    \A k \in 0 .. Min2(Size(maps[id]), FdSize[maps[id].fd] - maps[id].delta) - 1 :
                      LET a == (addr + k) % (MaxAddr + 1) IN
                      \E m \in MapIds :
                        /\ maps'[m] # NoMap
                        /\ maps[m] # maps'[m]
                        /\ a \in Span(maps'[m])
                        /\ maps'[m].fd = maps[id].fd
                        /\ maps'[m].delta + (a - maps'[m].from) = maps[id].delta + k
<1>1. IInv => A
  BY RemapShows DEF Shows
<1>2. IInv /\ [Next]_vars => [A]_vars
  BY <1>1
<1> QED BY <1>2, Invariance, PTL DEF Spec, RemapMovesBytes
-----------------------------------------------------------------------------
(* Careful use: what the tree of a bank shows at an address is what its     *)
(* priority list promises there.                                            *)

\* A bank that shows what it lists, lists only maps there are, each once, and
\* says when it could merge.
Faithful(ms, bank) == Exact(ms, bank) /\ Announced(bank)

\* The inductive strengthening: every open bank is so.
Shown == \A b \in open : Faithful(maps, banks[b])
HInv == IInv /\ Shown

NotListed(bank, id) == \A i \in DOMAIN bank.maprefs : bank.maprefs[i].id # id

-----------------------------------------------------------------------------
(* Lists and tables of maps.                                                *)

\* A sound bank lists well-formed references.
LEMMA ListType ==
  ASSUME NEW bank, SoundBank(bank)
  PROVE  /\ bank.maprefs \in Seq(MapRef)
         /\ \A i \in DOMAIN bank.maprefs : bank.maprefs[i].id \in MapIds
<1>1. bank.maprefs \in Seq(MapRef)
  BY BankFields DEF SoundBank
<1>2. \A i \in DOMAIN bank.maprefs : bank.maprefs[i] \in MapRef
  BY <1>1
<1> QED BY <1>1, <1>2 DEF MapRef

\* A table of maps that agrees on what a bank lists will do for the bank.
LEMMA FaithfulAgree ==
  ASSUME NEW ms, NEW other, NEW bank, SoundBank(bank), Faithful(ms, bank),
         \A i \in DOMAIN bank.maprefs : other[bank.maprefs[i].id] = ms[bank.maprefs[i].id]
  PROVE  Faithful(other, bank)
<1>1. AgreeBut(ms, other, bank.maprefs, 0)
  BY DEF AgreeBut
<1> QED BY <1>1, ListType, ExactAgree DEF Faithful

\* A free id is not listed: references do not outlive their map.
LEMMA FreeNotListed ==
  ASSUME NEW ms, NEW bank, Faithful(ms, bank), NEW id, ms[id] = NoMap
  PROVE  NotListed(bank, id)
BY DEF Faithful, Exact, AllLive, Live, NotListed

\* A bank has a map when it lists it.
LEMMA NotListedHas ==
  ASSUME NEW bank, NEW id
  PROVE  NotListed(bank, id) <=> ~ HasMap(bank, id)
BY DEF NotListed, HasMap, Positions

\* Adding a map lists no other map.
LEMMA AddNotListed ==
  ASSUME NEW ms, SoundMaps(ms), NEW bank, SoundBank(bank), NEW id, NotListed(bank, id),
         NEW new \in MapIds, new # id
  PROVE  NotListed(AddTop(ms, bank, new), id) /\ NotListed(AddBottom(ms, bank, new), id)
<1> DEFINE ref == RefOf(ms, new)
           refs == bank.maprefs
<1>1. CASE ms[new] = NoMap
  BY <1>1 DEF AddTop, AddBottom
<1>2. CASE ms[new] # NoMap
  <2>1. refs \in Seq(MapRef) /\ ref \in MapRef /\ ref.id = new
    BY <1>2, ListType, RefOfType DEF RefOf
  <2>2. /\ AddTop(ms, bank, new).maprefs = Append(refs, ref)
        /\ AddBottom(ms, bank, new).maprefs = <<ref>> \o refs
    <3>1. bank = [submaps |-> bank.submaps, maprefs |-> refs, lastUsed |-> bank.lastUsed,
                  drainMe |-> bank.drainMe]
      BY BankFields DEF SoundBank
    <3> QED BY <1>2, <3>1 DEF AddTop, AddBottom
  <2> HIDE DEF ref, refs
  <2>3. \A i \in DOMAIN Append(refs, ref) :
          Append(refs, ref)[i] = ref \/ \E j \in DOMAIN refs : Append(refs, ref)[i] = refs[j]
    BY <2>1
  <2>4. \A i \in DOMAIN (<<ref>> \o refs) :
          (<<ref>> \o refs)[i] = ref \/ \E j \in DOMAIN refs : (<<ref>> \o refs)[i] = refs[j]
    BY <2>1
  <2> QED BY <2>1, <2>2, <2>3, <2>4 DEF NotListed, refs
<1> QED BY <1>1, <1>2

\* Taking a map out of a bank lists no other.
LEMMA DelNotListed ==
  ASSUME NEW ms, NEW bank, SoundBank(bank), Faithful(ms, bank), NEW id,
         NotListed(bank, id), NEW new
  PROVE  NotListed(DelMap(ms, bank, new), id)
<1> DEFINE k == Highest(Positions(bank, new))
           fresh == Fresh(bank)
           left == Withdraw(ms, fresh, k, new, ms[new])
<1>1. CASE ms[new] = NoMap
  BY <1>1 DEF DelMap
<1>2. SoundBank(fresh) /\ fresh.maprefs = bank.maprefs /\ fresh.lastUsed = NoSubMap
  BY FreshExact DEF Faithful
<1>3. CASE ms[new] # NoMap /\ ~ HasMap(bank, new)
  BY <1>2, <1>3 DEF DelMap, NotListed
<1>4. CASE ms[new] # NoMap /\ HasMap(bank, new)
  <2>1. k \in DOMAIN bank.maprefs
    BY <1>4, OnlyPosition DEF SoundBank, Faithful, Exact
  <2>2. k \in 1 .. Len(fresh.maprefs)
    BY <1>2, <2>1, ListType
  <2>3. SoundBank(left) /\ left.maprefs = bank.maprefs
    <3> HIDE DEF fresh, k
    <3> QED BY <1>2, <2>2, WithdrawSound
  <2>4. DelMap(ms, bank, new) = Forget(left, k)
    BY <1>4 DEF DelMap
  <2> HIDE DEF left, k
  <2>5. Forget(left, k).maprefs = Without(bank.maprefs, k)
    <3>1. left = [submaps |-> left.submaps, maprefs |-> bank.maprefs,
                  lastUsed |-> left.lastUsed, drainMe |-> left.drainMe]
      BY <2>3, BankFields DEF SoundBank
    <3> QED BY <3>1 DEF Forget
  <2>6. \A j \in DOMAIN Without(bank.maprefs, k) :
          \E i \in DOMAIN bank.maprefs : Without(bank.maprefs, k)[j] = bank.maprefs[i]
    BY <2>1, ListType, WithoutFrom
  <2> QED BY <2>4, <2>5, <2>6 DEF NotListed
<1> QED BY <1>1, <1>3, <1>4

-----------------------------------------------------------------------------
(* The operations of a bank.                                                *)

\* r_io_bank_map_add_top and r_io_bank_map_add_bottom of a map the bank has not.
LEMMA AddTopFaithful ==
  ASSUME NEW ms, SoundMaps(ms), NEW id \in MapIds, NEW bank, SoundBank(bank),
         Faithful(ms, bank), NotListed(bank, id)
  PROVE  /\ SoundBank(AddTop(ms, bank, id)) /\ Faithful(ms, AddTop(ms, bank, id))
         /\ SoundBank(AddBottom(ms, bank, id)) /\ Faithful(ms, AddBottom(ms, bank, id))
BY AddTopSound, AddBottomSound, AddTopExact, AddBottomExact, AddTopAnnounced,
   AddBottomAnnounced DEF Faithful, NotListed

\* r_io_bank_del_map
LEMMA DelMapFaithful ==
  ASSUME NEW ms, NEW id, NEW bank, SoundBank(bank), Faithful(ms, bank)
  PROVE  /\ SoundBank(DelMap(ms, bank, id)) /\ Faithful(ms, DelMap(ms, bank, id))
         /\ NotListed(DelMap(ms, bank, id), id)
BY DelMapSound, DelMapExact, DelMapAnnounced DEF Faithful, NotListed

\* r_io_bank_update_map_boundaries
LEMMA UpdateBoundariesFaithful ==
  ASSUME NEW ms, NEW other, SoundMaps(other), NEW id, NEW bank, SoundBank(bank),
         Faithful(ms, bank), ms[id] # NoMap, other[id] # NoMap, other[id].ts = ms[id].ts,
         \A i \in DOMAIN bank.maprefs : bank.maprefs[i].id # id =>
           other[bank.maprefs[i].id] = ms[bank.maprefs[i].id]
  PROVE  Faithful(other, UpdateBoundaries(other, bank, id, ms[id]))
BY UpdateBoundariesExact, UpdateBoundariesAnnounced DEF Faithful

\* The map table of the bank operations that look at one map only.
LEMMA AddTopLocal ==
  ASSUME NEW ms, NEW other, NEW bank, NEW id, other[id] = ms[id]
  PROVE  AddTop(other, bank, id) = AddTop(ms, bank, id)
BY DEF AddTop, RefOf, SubMapOf

\* A map that is split: its rest goes on top of a bank that has it, and then the
\* map itself is cut; a bank that has it not is as before.
LEMMA SplitFaithful ==
  ASSUME NEW ms, GoodMaps(ms), NEW next, GoodMaps(next), NEW id \in MapIds,
         ms[id] # NoMap, NEW new \in MapIds, ms[new] = NoMap, next[id] # NoMap,
         next[id].ts = ms[id].ts, \A j \in MapIds \ {id, new} : next[j] = ms[j],
         NEW bank, SoundBank(bank), Faithful(ms, bank)
  PROVE  /\ HasMap(bank, id) =>
              Faithful(next, UpdateBoundaries(next, AddTop(next, bank, new), id, ms[id]))
         /\ ~ HasMap(bank, id) =>
              /\ Faithful(next, bank)
              /\ Faithful(next, UpdateBoundaries(next, bank, id, ms[id]))
              /\ Faithful(next, UpdateBoundaries(next,
                   DelMap(next, AddTop(next, bank, new), new), id, ms[id]))
<1>1. NotListed(bank, new) /\ new # id /\ SoundMaps(ms) /\ SoundMaps(next)
      /\ ms \in [MapIds -> Map \cup {NoMap}]
  BY FreeNotListed DEF GoodMaps
<1>2. ASSUME HasMap(bank, id)
      PROVE  Faithful(next, UpdateBoundaries(next, AddTop(next, bank, new), id, ms[id]))
  <2> DEFINE mid == [ms EXCEPT ![new] = next[new]]
             added == AddTop(mid, bank, new)
  <2>1. mid[new] = next[new] /\ mid[id] = ms[id] /\ \A j \in MapIds \ {new} : mid[j] = ms[j]
    BY <1>1
  <2>2. SoundMaps(mid)
    BY <1>1, <2>1 DEF SoundMaps
  <2>3. \A j \in MapIds \ {id} : next[j] = mid[j]
    BY <1>1, <2>1
  <2> HIDE DEF mid
  <2>4. Faithful(mid, bank)
    BY <1>1, <2>1, ListType, FaithfulAgree DEF NotListed
  <2>5. SoundBank(added) /\ Faithful(mid, added)
    BY <1>1, <2>2, <2>4, AddTopFaithful
  <2>6. AddTop(next, bank, new) = added
    BY <2>1, AddTopLocal
  <2> HIDE DEF added
  <2>7. \A i \in DOMAIN added.maprefs : added.maprefs[i].id # id =>
          next[added.maprefs[i].id] = mid[added.maprefs[i].id]
    BY <2>3, <2>5, ListType
  <2>8. Faithful(next, UpdateBoundaries(next, added, id, mid[id]))
    BY <1>1, <2>1, <2>5, <2>7, UpdateBoundariesFaithful
  <2> QED BY <2>1, <2>6, <2>8
<1>3. ASSUME ~ HasMap(bank, id)
      PROVE  /\ Faithful(next, bank)
             /\ Faithful(next, UpdateBoundaries(next, bank, id, ms[id]))
             /\ Faithful(next, UpdateBoundaries(next,
                  DelMap(next, AddTop(next, bank, new), new), id, ms[id]))
  <2> DEFINE added == AddTop(next, bank, new)
             gone == DelMap(next, added, new)
  <2>1. NotListed(bank, id)
    BY <1>3, NotListedHas
  <2>2. Faithful(next, bank)
    BY <1>1, <2>1, ListType, FaithfulAgree DEF NotListed
  <2>3. SoundBank(added) /\ Faithful(next, added) /\ NotListed(added, id)
    BY <1>1, <2>1, <2>2, AddTopFaithful, AddNotListed
  <2> HIDE DEF added
  <2>4. SoundBank(gone) /\ Faithful(next, gone) /\ NotListed(gone, id)
    BY <2>3, DelMapFaithful, DelNotListed
  <2> HIDE DEF gone
  <2>5. UpdateBoundaries(next, bank, id, ms[id]) = bank
        /\ UpdateBoundaries(next, gone, id, ms[id]) = gone
    BY <1>3, <2>4, NotListedHas DEF UpdateBoundaries
  <2> QED BY <2>2, <2>4, <2>5 DEF gone, added
<1> QED BY <1>2, <1>3

-----------------------------------------------------------------------------
(* The actions.                                                             *)

\* What the proofs of the actions use of the invariant, before and after a step.
LEMMA HInvFacts ==
  ASSUME HInv
  PROVE  /\ IInv /\ GoodMaps(maps) /\ SoundMaps(maps) /\ open \in SUBSET BankIds
         /\ banks \in [BankIds -> Bank]
         /\ \A b \in open : b \in BankIds /\ SoundBank(banks[b]) /\ Faithful(maps, banks[b])
BY InvFacts DEF HInv, Shown, GoodMaps

\* The table of maps after a step.
LEMMA InvAfterFacts ==
  ASSUME IInv'
  PROVE  GoodMaps(maps') /\ SoundMaps(maps')
BY DEF IInv, TypeOK, GoodMaps

\* A step that changes the current bank only.
LEMMA CurrentBankShown ==
  ASSUME HInv, NEW bank, cur \in open => Faithful(maps, bank), InCurrentBank(bank)
  PROVE  Shown'
BY HInvFacts DEF InCurrentBank, Shown

\* Failing for want of a current bank.
LEMMA NoCurrentBankShown ==
  ASSUME HInv, NEW spent, NoCurrentBank(spent)
  PROVE  Shown'
BY DEF HInv, Shown, NoCurrentBank

\* A new map that fits.
LEMMA MapAddFittingShown ==
  ASSUME HInv, IInv', NEW fd, NEW addr, NEW size,
         \/ AddFitting(AddTop, fd, 0, addr, size)
         \/ AddFitting(AddBottom, fd, 0, addr, size)
  PROVE  Shown'
<1>1. CASE NoCurrentBank(1)
  BY <1>1, NoCurrentBankShown
<1>2. CASE ~ NoCurrentBank(1)
  <2> DEFINE m == NewMap(fd, 0, addr, size, mts)
  <2>1. cur \in open /\ UNCHANGED <<open, cur>>
    BY <1>2 DEF AddFitting
  <2>2. PICK id \in FreeIds :
          /\ maps' = [maps EXCEPT ![id] = m]
          /\ \/ banks' = [banks EXCEPT ![cur] = AddTop(maps', @, id)]
             \/ banks' = [banks EXCEPT ![cur] = AddBottom(maps', @, id)]
    BY <1>2 DEF AddFitting
  <2> HIDE DEF m
  <2>3. id \in MapIds /\ maps[id] = NoMap /\ SoundMaps(maps')
    BY <2>2, InvAfterFacts DEF FreeIds
  <2>4. \A j \in MapIds \ {id} : maps'[j] = maps[j]
    BY <2>2, HInvFacts DEF GoodMaps
  <2>5. ASSUME NEW b \in open
        PROVE  SoundBank(banks[b]) /\ Faithful(maps', banks[b]) /\ NotListed(banks[b], id)
    <3>1. SoundBank(banks[b]) /\ Faithful(maps, banks[b])
      BY HInvFacts
    <3>2. NotListed(banks[b], id)
      BY <2>3, <3>1, FreeNotListed
    <3> QED BY <2>4, <3>1, <3>2, ListType, FaithfulAgree DEF NotListed
  <2>6. /\ Faithful(maps', AddTop(maps', banks[cur], id))
        /\ Faithful(maps', AddBottom(maps', banks[cur], id))
    BY <2>1, <2>3, <2>5, AddTopFaithful
  <2>7. banks \in [BankIds -> Bank] /\ open \in SUBSET BankIds
    BY HInvFacts
  <2> QED BY <2>1, <2>2, <2>5, <2>6, <2>7 DEF Shown
<1> QED BY <1>1, <1>2

\* A new map that wraps.
LEMMA MapAddWrappingShown ==
  ASSUME HInv, IInv', NEW fd, NEW addr, NEW size,
         \/ AddWrapping(AddTop, fd, 0, addr, size)
         \/ AddWrapping(AddBottom, fd, 0, addr, size)
  PROVE  Shown'
<1>1. CASE NoCurrentBank(1)
  BY <1>1, NoCurrentBankShown
<1>2. CASE ~ NoCurrentBank(1)
  <2> DEFINE high == MaxAddr - addr + 1
             low == size - high
             m0 == NewMap(fd, 0 + high, 0, low, mts)
             m1 == NewMap(fd, 0, addr, high, mts + 1)
  <2>1. cur \in open /\ UNCHANGED <<open, cur>>
    BY <1>2 DEF AddWrapping
  <2>2. PICK id0 \in FreeIds, id1 \in FreeIds :
          /\ id0 # id1
          /\ maps' = [maps EXCEPT ![id0] = m0, ![id1] = m1]
          /\ \/ banks' = [banks EXCEPT
                            ![cur] = AddTop(maps', AddTop(maps', @, id0), id1)]
             \/ banks' = [banks EXCEPT
                            ![cur] = AddBottom(maps', AddBottom(maps', @, id0), id1)]
    BY <1>2 DEF AddWrapping
  <2> HIDE DEF m0, m1
  <2>3. /\ id0 \in MapIds /\ maps[id0] = NoMap /\ id1 \in MapIds /\ maps[id1] = NoMap
        /\ SoundMaps(maps')
    BY <2>2, InvAfterFacts DEF FreeIds
  <2>4. \A j \in MapIds \ {id0, id1} : maps'[j] = maps[j]
    BY <2>2, HInvFacts DEF GoodMaps
  <2>5. ASSUME NEW b \in open
        PROVE  /\ SoundBank(banks[b]) /\ Faithful(maps', banks[b])
               /\ NotListed(banks[b], id0) /\ NotListed(banks[b], id1)
    <3>1. SoundBank(banks[b]) /\ Faithful(maps, banks[b])
      BY HInvFacts
    <3>2. NotListed(banks[b], id0) /\ NotListed(banks[b], id1)
      BY <2>3, <3>1, FreeNotListed
    <3> QED BY <2>4, <3>1, <3>2, ListType, FaithfulAgree DEF NotListed
  <2>6. /\ Faithful(maps', AddTop(maps', AddTop(maps', banks[cur], id0), id1))
        /\ Faithful(maps', AddBottom(maps', AddBottom(maps', banks[cur], id0), id1))
    <3> DEFINE top == AddTop(maps', banks[cur], id0)
               bottom == AddBottom(maps', banks[cur], id0)
    <3>1. /\ SoundBank(top) /\ Faithful(maps', top) /\ NotListed(top, id1)
          /\ SoundBank(bottom) /\ Faithful(maps', bottom) /\ NotListed(bottom, id1)
      BY <2>1, <2>2, <2>3, <2>5, AddTopFaithful, AddNotListed
    <3> HIDE DEF top, bottom
    <3>2. Faithful(maps', AddTop(maps', top, id1)) /\ Faithful(maps', AddBottom(maps', bottom, id1))
      BY <2>3, <3>1, AddTopFaithful
    <3> QED BY <3>2 DEF top, bottom
  <2>7. banks \in [BankIds -> Bank] /\ open \in SUBSET BankIds
    BY HInvFacts
  <2> QED BY <2>1, <2>2, <2>5, <2>6, <2>7 DEF Shown
<1> QED BY <1>1, <1>2

\* r_io_map_del: no open bank lists the map any more when its id is freed.
LEMMA MapDelShown ==
  ASSUME HInv, NEW id \in MapIds, MapDel(id)
  PROVE  Shown'
<1>1. /\ banks' = [b \in BankIds |-> IF b \in open THEN DelMap(maps, banks[b], id)
                                                   ELSE banks[b]]
      /\ maps' = [maps EXCEPT ![id] = NoMap]
      /\ UNCHANGED <<mts, open, cur>>
  BY DEF MapDel, InOpenBanks
<1>2. \A j \in MapIds \ {id} : maps'[j] = maps[j]
  BY <1>1, HInvFacts DEF GoodMaps
<1>3. ASSUME NEW b \in open PROVE Faithful(maps', banks'[b])
  <2> DEFINE left == DelMap(maps, banks[b], id)
  <2>1. b \in BankIds /\ SoundBank(left) /\ Faithful(maps, left) /\ NotListed(left, id)
    BY HInvFacts, DelMapFaithful
  <2> HIDE DEF left
  <2>2. Faithful(maps', left)
    BY <1>2, <2>1, ListType, FaithfulAgree DEF NotListed
  <2> QED BY <1>1, <2>1, <2>2 DEF left
<1> QED BY <1>1, <1>3 DEF Shown

\* r_io_map_reset
LEMMA MapResetShown ==
  ASSUME HInv, MapReset
  PROVE  Shown'
<1>1. /\ banks' = [b \in BankIds |->
                     IF b \in open THEN [EmptyBank EXCEPT !.drainMe = banks[b].drainMe]
                                   ELSE banks[b]]
      /\ UNCHANGED open
  BY DEF MapReset, InOpenBanks
<1>2. ASSUME NEW b \in open PROVE Faithful(maps', banks'[b])
  <2>1. banks'[b] = [EmptyBank EXCEPT !.drainMe = banks[b].drainMe]
    BY <1>1, HInvFacts
  <2>2. banks'[b].submaps = {} /\ banks'[b].maprefs = <<>>
    BY <2>1 DEF EmptyBank
  <2> QED BY <2>2, NothingExact, NothingAnnounced DEF Faithful
<1> QED BY <1>1, <1>2 DEF Shown

\* A map that moves or grows where it fits.
LEMMA PlaceShown ==
  ASSUME HInv, IInv', NEW id \in LiveIds, NEW from \in Addr, NEW to \in Addr,
         maps' = Place(id, from, to),
         banks' = [b \in BankIds |->
                     IF b \in open THEN UpdateBoundaries(maps', banks[b], id, maps[id])
                                   ELSE banks[b]],
         UNCHANGED open
  PROVE  Shown'
<1>1. /\ maps \in [MapIds -> Map \cup {NoMap}] /\ SoundMaps(maps')
      /\ maps' \in [MapIds -> Map \cup {NoMap}]
  BY HInvFacts, InvAfterFacts DEF GoodMaps
<1>2. id \in MapIds /\ maps[id] \in Map /\ maps[id] # NoMap
  BY HInvFacts, LiveMap
<1>3. /\ maps'[id] = [maps[id] EXCEPT !.from = from, !.to = to]
      /\ \A j \in MapIds \ {id} : maps'[j] = maps[j]
  BY <1>1, <1>2 DEF Place
<1>4. maps'[id].ts = maps[id].ts /\ maps'[id] # NoMap
  <2>1. maps'[id] = [from |-> from, to |-> to, fd |-> maps[id].fd, delta |-> maps[id].delta,
                     ts |-> maps[id].ts]
    BY <1>2, <1>3 DEF Map
  <2>2. maps'[id] \in Map
    BY <1>2, <2>1 DEF Map
  <2> QED BY <2>1, <2>2, NoMapAssumption
<1>5. ASSUME NEW b \in open PROVE Faithful(maps', banks'[b])
  <2>1. b \in BankIds /\ SoundBank(banks[b]) /\ Faithful(maps, banks[b])
    BY HInvFacts
  <2>2. \A i \in DOMAIN banks[b].maprefs : banks[b].maprefs[i].id # id =>
          maps'[banks[b].maprefs[i].id] = maps[banks[b].maprefs[i].id]
    BY <1>3, <2>1, ListType
  <2>3. Faithful(maps', UpdateBoundaries(maps', banks[b], id, maps[id]))
    BY <1>1, <1>2, <1>4, <2>1, <2>2, UpdateBoundariesFaithful
  <2> QED BY <2>1, <2>3
<1> QED BY <1>5 DEF Shown

\* r_io_map_remap of a map that fits.
LEMMA RemapFittingShown ==
  ASSUME HInv, IInv', NEW id \in LiveIds, NEW addr \in Addr, RemapFitting(id, addr)
  PROVE  Shown'
<1> DEFINE to == addr + Size(maps[id]) - 1
<1>1. /\ ~ Wraps(addr, Size(maps[id])) /\ maps' = Place(id, addr, to)
      /\ banks' = [b \in BankIds |->
                     IF b \in open THEN UpdateBoundaries(maps', banks[b], id, maps[id])
                                   ELSE banks[b]]
      /\ UNCHANGED open
  BY DEF RemapFitting, InOpenBanks
<1>2. to \in Addr
  BY <1>1, HInvFacts, LiveMap, MaxAddrAssumption DEF Wraps, Addr
<1> HIDE DEF to
<1> QED BY <1>1, <1>2, PlaceShown

\* r_io_map_resize of a map that fits.
LEMMA ResizeFittingShown ==
  ASSUME HInv, IInv', NEW id \in LiveIds, NEW size \in Sizes, ResizeFitting(id, size)
  PROVE  Shown'
<1> DEFINE from == maps[id].from
           to == from + size - 1
<1>1. /\ ~ Wraps(from, size) /\ maps' = Place(id, from, to)
      /\ banks' = [b \in BankIds |->
                     IF b \in open THEN UpdateBoundaries(maps', banks[b], id, maps[id])
                                   ELSE banks[b]]
      /\ UNCHANGED open
  BY DEF ResizeFitting, InOpenBanks
<1>2. from \in Addr /\ to \in Addr
  <2>1. from \in Nat /\ from <= MaxAddr /\ size \in Nat \ {0}
    BY HInvFacts, LiveMap, InputsAssumption, MaxAddrAssumption
  <2> QED BY <1>1, <2>1, MaxAddrAssumption DEF Wraps, Addr
<1> HIDE DEF from, to
<1> QED BY <1>1, <1>2, PlaceShown

\* What a split does to the table of maps.
LEMMA SplitMaps ==
  ASSUME HInv, IInv', NEW id \in LiveIds, NEW from \in Addr, NEW new \in FreeIds, NEW rest,
         maps' = [Place(id, from, MaxAddr) EXCEPT ![new] = rest]
  PROVE  /\ id \in MapIds /\ new \in MapIds /\ maps[id] # NoMap /\ maps[new] = NoMap
         /\ maps'[id] # NoMap /\ maps'[id].ts = maps[id].ts
         /\ \A j \in MapIds \ {id, new} : maps'[j] = maps[j]
<1>1. maps \in [MapIds -> Map \cup {NoMap}]
  BY HInvFacts DEF GoodMaps
<1>2. /\ id \in MapIds /\ maps[id] \in Map /\ maps[id] # NoMap
      /\ new \in MapIds /\ maps[new] = NoMap
  BY HInvFacts, LiveMap DEF FreeIds
<1>3. /\ maps'[id] = [maps[id] EXCEPT !.from = from, !.to = MaxAddr]
      /\ \A j \in MapIds \ {id, new} : maps'[j] = maps[j]
  BY <1>1, <1>2 DEF Place
<1>4. maps'[id] = [from |-> from, to |-> MaxAddr, fd |-> maps[id].fd,
                   delta |-> maps[id].delta, ts |-> maps[id].ts]
  <2>1. maps[id] = [from |-> maps[id].from, to |-> maps[id].to, fd |-> maps[id].fd,
                    delta |-> maps[id].delta, ts |-> maps[id].ts]
    BY <1>2 DEF Map
  <2>2. maps'[id] = [maps[id] EXCEPT !.from = from, !.to = MaxAddr]
    BY <1>3
  <2> QED BY <2>1, <2>2
<1>5. maps'[id] \in Map
  BY <1>2, <1>4, MaxAddrAssumption DEF Map, Addr
<1> QED BY <1>2, <1>3, <1>4, <1>5, NoMapAssumption

\* What a split does to an open bank: it is right, cut or untouched.
LEMMA SplitBank ==
  ASSUME HInv, IInv', NEW id \in LiveIds, NEW from \in Addr, NEW new \in FreeIds, NEW rest,
         maps' = [Place(id, from, MaxAddr) EXCEPT ![new] = rest], NEW b \in open
  PROVE  /\ Faithful(maps', UpdateBoundaries(maps', AddRest(b, banks[b], id, new), id, maps[id]))
         /\ b # cur /\ ~ HasMap(banks[b], id) =>
              Faithful(maps', AddRest(b, banks[b], id, new))
<1>1. b \in BankIds /\ SoundBank(banks[b]) /\ Faithful(maps, banks[b])
      /\ GoodMaps(maps) /\ GoodMaps(maps')
  BY HInvFacts, InvAfterFacts
<1>2. /\ id \in MapIds /\ new \in MapIds /\ maps[id] # NoMap /\ maps[new] = NoMap
      /\ maps'[id] # NoMap /\ maps'[id].ts = maps[id].ts
      /\ \A j \in MapIds \ {id, new} : maps'[j] = maps[j]
  BY SplitMaps
<1>3. CASE HasMap(banks[b], id)
  <2>1. Faithful(maps', UpdateBoundaries(maps', AddTop(maps', banks[b], new), id, maps[id]))
    BY <1>1, <1>2, <1>3, SplitFaithful
  <2> QED BY <1>3, <2>1 DEF AddRest
<1>4. CASE ~ HasMap(banks[b], id)
  <2>1. /\ Faithful(maps', banks[b])
        /\ Faithful(maps', UpdateBoundaries(maps', banks[b], id, maps[id]))
        /\ Faithful(maps', UpdateBoundaries(maps',
             DelMap(maps', AddTop(maps', banks[b], new), new), id, maps[id]))
    BY <1>1, <1>2, <1>4, SplitFaithful
  <2> QED BY <1>4, <2>1 DEF AddRest
<1> QED BY <1>3, <1>4

\* r_io_map_remap of a map that wraps.
LEMMA RemapWrappingShown ==
  ASSUME HInv, IInv', NEW id \in LiveIds, NEW addr \in Addr, RemapWrapping(id, addr)
  PROVE  Shown'
<1>1. CASE NoCurrentBank(1)
  BY <1>1, NoCurrentBankShown
<1>2. CASE ~ NoCurrentBank(1)
  <2> DEFINE rest == Rest(maps[id], addr, Size(maps[id]))
  <2>1. PICK new \in FreeIds :
          /\ maps' = [Place(id, addr, MaxAddr) EXCEPT ![new] = rest]
          /\ banks' = [b \in BankIds |->
                         IF b \in open
                         THEN UpdateBoundaries(maps', AddRest(b, banks[b], id, new),
                                               id, maps[id])
                         ELSE banks[b]]
    BY <1>2 DEF RemapWrapping, InOpenBanks
  <2>2. UNCHANGED open /\ open \in SUBSET BankIds
    BY <1>2, HInvFacts DEF RemapWrapping
  <2> HIDE DEF rest
  <2>3. \A b \in open : Faithful(maps', banks'[b])
    BY <2>1, <2>2, SplitBank
  <2> QED BY <2>2, <2>3 DEF Shown
<1> QED BY <1>1, <1>2

\* r_io_map_resize of a map that wraps and that no other bank holds.
LEMMA ResizeWrappingShown ==
  ASSUME HInv, IInv', NEW id \in LiveIds, NEW size \in Sizes, ResizeWrapping(id, size),
         OtherHolders(id) = {}
  PROVE  Shown'
<1>1. CASE NoCurrentBank(1)
  BY <1>1, NoCurrentBankShown
<1>2. CASE ~ NoCurrentBank(1)
  <2> DEFINE from == maps[id].from
             rest == Rest(maps[id], from, size)
  <2>1. PICK new \in FreeIds :
          /\ maps' = [Place(id, from, MaxAddr) EXCEPT ![new] = rest]
          /\ banks' = [b \in BankIds |->
                         IF b \in open
                         THEN IF b # cur THEN AddRest(b, banks[b], id, new)
                              ELSE UpdateBoundaries(maps', AddRest(b, banks[b], id, new),
                                                    id, maps[id])
                         ELSE banks[b]]
    BY <1>2 DEF ResizeWrapping, InOpenBanks
  <2>2. UNCHANGED open /\ open \in SUBSET BankIds
    BY <1>2, HInvFacts DEF ResizeWrapping
  <2>3. \A b \in open : b # cur => ~ HasMap(banks[b], id)
    BY DEF OtherHolders
  <2>4. from \in Addr
    BY HInvFacts, LiveMap DEF Map
  <2> HIDE DEF rest, from
  <2>5. \A b \in open : Faithful(maps', banks'[b])
    BY <2>1, <2>2, <2>3, <2>4, SplitBank
  <2> QED BY <2>2, <2>5 DEF Shown
<1> QED BY <1>1, <1>2

\* Each operation on one map of the current bank; a map is not added twice.
LEMMA BankOperationShown ==
  ASSUME HInv, NEW id \in MapIds,
         MapPriorize(id) \/ MapDepriorize(id) \/ AssociateOnce(id) \/ BankMapDel(id)
  PROVE  Shown'
<1>1. SoundMaps(maps) /\ cur \in open /\ SoundBank(banks[cur]) /\ Faithful(maps, banks[cur])
  BY HInvFacts DEF MapPriorize, MapDepriorize, AssociateOnce, BankMapDel, InCurrentBank
<1>2. CASE MapPriorize(id)
  <2>1. Faithful(maps, Priorize(maps, banks[cur], id))
    BY <1>1, PriorizeExact, PriorizeAnnounced DEF Faithful
  <2> QED BY <1>2, <2>1, CurrentBankShown DEF MapPriorize
<1>3. CASE MapDepriorize(id)
  <2>1. Faithful(maps, Depriorize(maps, banks[cur], id))
    BY <1>1, DepriorizeExact, DepriorizeAnnounced DEF Faithful
  <2> QED BY <1>3, <2>1, CurrentBankShown DEF MapDepriorize
<1>4. CASE AssociateOnce(id)
  <2>1. NotListed(banks[cur], id) /\ InCurrentBank(AddTop(maps, banks[cur], id))
    BY <1>4, NotListedHas DEF AssociateOnce, BankMapAdd
  <2>2. Faithful(maps, AddTop(maps, banks[cur], id))
    BY <1>1, <2>1, AddTopFaithful
  <2> QED BY <2>1, <2>2, CurrentBankShown
<1>5. CASE BankMapDel(id)
  <2>1. Faithful(maps, DelMap(maps, banks[cur], id))
    BY <1>1, DelMapFaithful
  <2> QED BY <1>5, <2>1, CurrentBankShown DEF BankMapDel
<1> QED BY <1>2, <1>3, <1>4, <1>5

\* Draining and accesses.
LEMMA DrainFaithful ==
  ASSUME HInv, NEW b \in open
  PROVE  SoundBank(Drain(banks[b])) /\ Faithful(maps, Drain(banks[b]))
BY HInvFacts, DrainSound, DrainExact, DrainAnnounced DEF Faithful

\* r_io_bank_drain, r_io_bank_read_at and write_at, r_io_nread_at.
LEMMA AccessShown ==
  ASSUME HInv, NEW x, NEW addr, BankDrain \/ BankAccess(x) \/ SubMapAccess(addr)
  PROVE  Shown'
<1>1. cur \in open /\ SoundBank(banks[cur]) /\ Faithful(maps, banks[cur])
  BY HInvFacts DEF BankDrain, BankAccess, SubMapAccess, InCurrentBank
<1>2. CASE BankDrain
  BY <1>1, <1>2, DrainFaithful, CurrentBankShown DEF BankDrain
<1>3. CASE BankAccess(x)
  <2>1. Faithful(maps, Touch(maps, banks[cur], x))
    BY <1>1, TouchExact, TouchAnnounced DEF Faithful
  <2> QED BY <1>3, <2>1, CurrentBankShown DEF BankAccess
<1>4. CASE SubMapAccess(addr)
  <2> DEFINE y == [from |-> addr, to |-> addr]
             drained == Drain(banks[cur])
  <2>1. SoundBank(drained) /\ Faithful(maps, drained)
    BY <1>1, DrainFaithful
  <2>2. InCurrentBank(Touch(maps, drained, y))
    BY <1>4 DEF SubMapAccess
  <2> HIDE DEF y, drained
  <2>3. Faithful(maps, Touch(maps, drained, y))
    BY <2>1, TouchExact, TouchAnnounced DEF Faithful
  <2> QED BY <2>2, <2>3, CurrentBankShown
<1> QED BY <1>2, <1>3, <1>4

\* Opening, using and closing banks, and the command that drains.
LEMMA BankSetShown ==
  ASSUME HInv, NEW b \in BankIds, BankAdd \/ BankUse(b) \/ BankDel(b) \/ BankDrainAll
  PROVE  Shown'
<1>1. Faithful(maps, EmptyBank)
  BY NothingExact, NothingAnnounced DEF Faithful, EmptyBank
<1>2. banks \in [BankIds -> Bank] /\ open \in SUBSET BankIds
      /\ \A c \in open : Faithful(maps, banks[c])
  BY HInvFacts
<1>3. CASE BankAdd
  BY <1>1, <1>2, <1>3 DEF BankAdd, Shown
<1>4. CASE BankUse(b)
  BY <1>2, <1>4 DEF BankUse, Shown
<1>5. CASE BankDel(b)
  BY <1>2, <1>5 DEF BankDel, Shown
<1>6. CASE BankDrainAll
  BY <1>2, <1>6, DrainFaithful DEF BankDrainAll, Shown
<1> QED BY <1>3, <1>4, <1>5, <1>6

-----------------------------------------------------------------------------
(* The invariant.                                                           *)

\* r_io_init: a bank that lists and shows nothing.
LEMMA InitShown == Init => HInv
<1> SUFFICES ASSUME Init PROVE HInv
  OBVIOUS
<1>1. IInv
  BY InitInv
<1>2. \A b \in open : banks[b] = EmptyBank
  BY <1>1 DEF Init, IInv, TypeOK
<1>3. Faithful(maps, EmptyBank)
  BY NothingExact, NothingAnnounced DEF Faithful, EmptyBank
<1> QED BY <1>1, <1>2, <1>3 DEF HInv, Shown

\* Every careful step keeps the invariant.
LEMMA StepShown == HInv /\ [CarefulNext]_vars => HInv'
<1> SUFFICES ASSUME HInv, [CarefulNext]_vars PROVE HInv'
  OBVIOUS
<1>1. IInv'
  <2>1. [Next]_vars
    BY DEF CarefulNext, Next, AssociateOnce, ResizeAlone
  <2> QED BY <2>1, StepInv DEF HInv
<1> SUFFICES Shown'
  BY <1>1 DEF HInv
<1>2. ASSUME NEW fd \in Fds, NEW addr \in Addr, NEW size \in Sizes,
             MapAdd(fd, 0, addr, size) \/ MapAddBottom(fd, 0, addr, size)
      PROVE  Shown'
  <2>1. \/ AddFitting(AddTop, fd, 0, addr, size) \/ AddFitting(AddBottom, fd, 0, addr, size)
        \/ AddWrapping(AddTop, fd, 0, addr, size) \/ AddWrapping(AddBottom, fd, 0, addr, size)
    BY <1>2 DEF MapAdd, MapAddBottom
  <2> QED BY <1>1, <2>1, MapAddFittingShown, MapAddWrappingShown
<1>3. ASSUME NEW id \in MapIds, NEW addr \in Addr, MapRemap(id, addr)
      PROVE  Shown'
  BY <1>1, <1>3, RemapFittingShown, RemapWrappingShown DEF MapRemap
<1>4. ASSUME NEW id \in MapIds, NEW size \in Sizes, ResizeAlone(id, size)
      PROVE  Shown'
  <2>1. id \in LiveIds /\ (ResizeFitting(id, size) \/ ResizeWrapping(id, size))
        /\ (Wraps(maps[id].from, size) => OtherHolders(id) = {})
    BY <1>4 DEF ResizeAlone, MapResize
  <2>2. CASE ResizeFitting(id, size)
    BY <1>1, <2>1, <2>2, ResizeFittingShown
  <2>3. CASE ResizeWrapping(id, size)
    <3>1. OtherHolders(id) = {}
      BY <2>1, <2>3 DEF ResizeWrapping
    <3> QED BY <1>1, <2>1, <2>3, <3>1, ResizeWrappingShown
  <2> QED BY <2>1, <2>2, <2>3
<1>5. ASSUME NEW id \in MapIds, \/ MapDel(id) \/ MapPriorize(id) \/ MapDepriorize(id)
                                \/ AssociateOnce(id) \/ BankMapDel(id)
      PROVE  Shown'
  BY <1>5, MapDelShown, BankOperationShown
<1>6. ASSUME NEW x, NEW addr, BankDrain \/ BankAccess(x) \/ SubMapAccess(addr)
      PROVE  Shown'
  BY <1>6, AccessShown
<1>7. ASSUME NEW b \in BankIds, BankAdd \/ BankUse(b) \/ BankDel(b) \/ BankDrainAll
      PROVE  Shown'
  BY <1>7, BankSetShown
<1>8. CASE CommonNext
  <2>1. CASE \E fd \in Fds, addr \in Addr, size \in Sizes :
               MapAdd(fd, 0, addr, size) \/ MapAddBottom(fd, 0, addr, size)
    BY <1>2, <2>1
  <2>2. CASE \E id \in MapIds : \/ MapDel(id)
                                \/ MapPriorize(id)
                                \/ MapDepriorize(id)
                                \/ BankMapDel(id)
                                \/ \E addr \in Addr : MapRemap(id, addr)
    BY <1>3, <1>5, <2>2
  <2>3. CASE \E addr \in Probes :
               \/ \E to \in addr .. MaxAddr : BankAccess([from |-> addr, to |-> to])
               \/ SubMapAccess(addr)
    BY <1>6, <2>3
  <2>4. CASE (\E b \in BankIds : BankUse(b) \/ BankDel(b)) \/ BankAdd \/ BankDrainAll
    BY <1>7, <2>4, BankIdsAssumption
  <2>5. CASE MapReset \/ BankDrain
    BY <1>6, <2>5, MapResetShown
  <2> QED BY <1>8, <2>1, <2>2, <2>3, <2>4, <2>5 DEF CommonNext
<1>9. CASE \E id \in MapIds : \/ AssociateOnce(id)
                              \/ \E size \in Sizes : ResizeAlone(id, size)
  BY <1>4, <1>5, <1>9
<1>10. CASE UNCHANGED vars
  BY <1>10 DEF vars, HInv, Shown
<1> QED BY <1>8, <1>9, <1>10 DEF CarefulNext

\* At one address the list of a bank has one highest map, and the tree has a node
\* exactly where there is one.
LEMMA ShownIsPromised ==
  ASSUME HInv, NEW b \in open, NEW a \in Addr
  PROVE  Resolve(banks[b], a) = Promised(b, a)
<1> DEFINE S == banks[b].submaps
           refs == banks[b].maprefs
           server(i) == Serves(maps, refs, Len(refs) + 1, i, a)
<1>1. /\ SoundBank(banks[b]) /\ Tidy(S) /\ refs \in Seq(MapRef) /\ RightBut(maps, S, refs, 0)
      /\ DOMAIN refs = 1 .. Len(refs) /\ Len(refs) \in Nat
  <2>1. SoundBank(banks[b]) /\ Tidy(S) /\ RightBut(maps, S, refs, 0)
    BY HInvFacts DEF Faithful, Exact, SoundBank
  <2>2. refs \in Seq(MapRef)
    BY <2>1, ListType
  <2> HIDE DEF S, refs
  <2> QED BY <2>1, <2>2 DEF S
<1> HIDE DEF S, refs
<1>2. ASSUME NEW i PROVE server(i) <=> TopBut(maps, refs, 0, i, a)
  BY <1>1 DEF Serves, TopBut
<1>3. CASE a \in Covered(S)
  <2> DEFINE s == CHOOSE t \in S : a \in Span(t)
  <2>1. s \in S /\ a \in Span(s)
    BY <1>3 DEF Covered
  <2> HIDE DEF s
  <2>2. PICK i \in DOMAIN refs : refs[i] = s.ref /\ TopBut(maps, refs, 0, i, a)
    BY <1>1, <2>1 DEF RightBut, ShowsBut
  <2>3. \A j \in DOMAIN refs : server(j) => j = i
    BY <1>1, <1>2, <2>2, OneTop
  <2>4. server(i)
    BY <1>2, <2>2
  <2> HIDE DEF server
  <2>5. (CHOOSE j \in DOMAIN refs : server(j)) = i
    BY <2>3, <2>4
  <2>6. Promised(b, a) = refs[i]
    BY <2>4, <2>5 DEF Promised, server, refs
  <2>7. Resolve(banks[b], a) = s.ref
    BY <1>3 DEF Resolve, S, s
  <2> QED BY <2>2, <2>6, <2>7
<1>4. CASE a \notin Covered(S)
  <2>1. \A i \in DOMAIN refs : ~ server(i)
    <3> SUFFICES ASSUME NEW i \in DOMAIN refs, server(i) PROVE FALSE
      OBVIOUS
    <3>1. i \in DOMAIN refs \ {0} /\ Covers(maps, refs[i], a)
      BY <1>2 DEF TopBut
    <3> QED BY <1>1, <1>4, <3>1 DEF RightBut, ReachesBut
  <2>2. Promised(b, a) = NoRef
    <3> HIDE DEF server
    <3> QED BY <2>1 DEF Promised, server, refs
  <2>3. Resolve(banks[b], a) = NoRef
    BY <1>4 DEF Resolve, S
  <2> QED BY <2>2, <2>3
<1> QED BY <1>3, <1>4

(* HInv, the inductive strengthening of the four properties below, holds of  *)
(* every state that careful use reaches: no map put twice into a bank, and   *)
(* no map that other banks hold grown past the end of the address space.     *)
THEOREM CarefulInvariance == CarefulSpec => []HInv
BY InitShown, StepShown, PTL DEF CarefulSpec

(* What r_io_bank_get_map_at finds in the tree at any address of any bank is *)
(* what a search down the list by priority would find: after every sequence  *)
(* of insertions, removals, moves, splits, reorderings and merges.           *)
THEOREM HighestMapShown == CarefulSpec => []HighestPriority
<1>1. HInv => HighestPriority
  BY ShownIsPromised DEF HighestPriority
<1> QED BY <1>1, CarefulInvariance, PTL

(* No bank refers to a map that was deleted, or to a map that took its id:   *)
(* r_io_map_del takes the reference out of every bank before it frees the id.*)
THEOREM ReferencesLive == CarefulSpec => []LiveRefs
<1>1. HInv => LiveRefs
  BY DEF HInv, Shown, Faithful, Exact, AllLive, LiveRefs
<1> QED BY <1>1, CarefulInvariance, PTL

(* No bank lists a map twice, though priorizing, depriorizing and splitting  *)
(* put references back that they took out.                                   *)
THEOREM ReferencesOnce == CarefulSpec => []NoDuplicateRefs
<1>1. HInv => NoDuplicateRefs
  BY DEF HInv, Shown, Faithful, Exact, Once, NoDuplicateRefs
<1> QED BY <1>1, CarefulInvariance, PTL

(* A bank never holds two neighbours it could merge while drain_me is unset, *)
(* so that r_io_bank_drain may return early without missing one.             *)
THEOREM FragmentsAnnounced == CarefulSpec => []DrainMeCoversFragments
<1>1. HInv => DrainMeCoversFragments
  BY DEF HInv, Shown, Faithful, Announced, NoFragments, DrainMeCoversFragments
<1> QED BY <1>1, CarefulInvariance, PTL
=============================================================================
