------------------------------ MODULE IOMaps ------------------------------
(***************************************************************************)
(* The map and bank operations of RIO (src/libr/io/io_map.c, and the bank   *)
(* handlers of src/libr/io/io_bank.c and src/libr/core/cmd_open.inc.c).     *)
(*                                                                          *)
(* A map shows an interval of a file descriptor at an interval of           *)
(* addresses; it belongs to any number of banks, and one bank is current.   *)
(* Addresses are 64-bit and a map may be placed so that it wraps: it is     *)
(* split, and the part past the end becomes a second map at address 0.      *)
(***************************************************************************)
EXTENDS IOBankOps

CONSTANTS
  BankIds,      \* the ids r_id_storage can hand out for banks
  NoBank,       \* UT32_MAX, the current bank when there is none
  Fds,          \* the open file descriptors
  FdSize,       \* r_io_fd_size of each of them
  MaxTs,        \* bound: how many maps are ever created
  Sizes,        \* bound: the sizes that are asked for
  Probes,       \* bound: the addresses where an access begins
  MaxRefs       \* bound: the length of a bank's list where a command adds to it

ASSUME BankIdsAssumption == BankIds \subseteq Nat /\ BankIds # {}
ASSUME NoBankAssumption == NoBank \notin BankIds
ASSUME FdSizeAssumption == FdSize \in [Fds -> Nat]
ASSUME BoundsAssumption == MaxTs \in Nat /\ MaxRefs \in Nat
ASSUME InputsAssumption == Sizes \subseteq 1 .. MaxAddr /\ Probes \subseteq Addr

Map == [from : Addr, to : Addr, fd : Fds, delta : Nat, ts : Nat]
ASSUME NoMapAssumption == NoMap \notin Map

VARIABLES
  maps,         \* io->maps
  mts,          \* io->mts, the timestamp of the next map
  banks,        \* the bank of each id
  open,         \* the ids in io->banks
  cur           \* io->bank

vars == <<maps, mts, banks, open, cur>>

Min2(x, y) == IF x <= y THEN x ELSE y
Size(m) == m.to - m.from + 1
FreeIds == {id \in MapIds : maps[id] = NoMap}
LiveIds == MapIds \ FreeIds
LowestBank(B) == IF B = {} THEN NoBank ELSE Lowest(B)

\* Mutant: one address too many fits.
WrapsLate(addr, size) == MaxAddr + 2 - size < addr

\* The interval [addr, addr + size) does not fit below 2^64.
Wraps(addr, size) == MaxAddr + 1 - size < addr

\* io_map_new: a map ends where its file does.
Backed(fd, delta) == delta < FdSize[fd]
NewMap(fd, delta, addr, size, ts) ==
  [from |-> addr, to |-> addr + Min2(size, FdSize[fd] - delta) - 1,
   fd |-> fd, delta |-> delta, ts |-> ts]

InOpenBanks(Op(_, _)) ==
  banks' = [b \in BankIds |-> IF b \in open THEN Op(b, banks[b]) ELSE banks[b]]

-----------------------------------------------------------------------------
(* Creating and deleting maps.                                              *)

\* Without a current bank the new map is freed again; its timestamp is spent.
NoCurrentBank(spent) ==
  /\ cur \notin open
  /\ mts + spent <= MaxTs
  /\ mts' = mts + spent
  /\ UNCHANGED <<maps, banks, open, cur>>

\* r_io_map_add and r_io_map_add_bottom of an interval that fits.
AddFitting(Place(_, _, _), fd, delta, addr, size) ==
  /\ ~Wraps(addr, size)
  /\ Backed(fd, delta)
  /\ \/ NoCurrentBank(1)
     \/ /\ cur \in open
        /\ mts + 1 <= MaxTs
        /\ \E id \in FreeIds :
             /\ maps' = [maps EXCEPT ![id] = NewMap(fd, delta, addr, size, mts)]
             /\ banks' = [banks EXCEPT ![cur] = Place(maps', @, id)]
        /\ mts' = mts + 1
        /\ UNCHANGED <<open, cur>>

\* The same for an interval that wraps: the part at address 0 is placed first.
AddWrapping(Place(_, _, _), fd, delta, addr, size) ==
  LET high == MaxAddr - addr + 1
      low == size - high
  IN /\ Wraps(addr, size)
     /\ Backed(fd, delta + high)
     /\ \/ NoCurrentBank(1)
        \/ /\ cur \in open
           /\ mts + 2 <= MaxTs
           /\ \E id0, id1 \in FreeIds :
                /\ id0 # id1
                /\ maps' = [maps EXCEPT
                              ![id0] = NewMap(fd, delta + high, 0, low, mts),
                              ![id1] = NewMap(fd, delta, addr, high, mts + 1)]
                /\ banks' = [banks EXCEPT
                               ![cur] = Place(maps', Place(maps', @, id0), id1)]
           /\ mts' = mts + 2
           /\ UNCHANGED <<open, cur>>

\* r_io_map_add
MapAdd(fd, delta, addr, size) ==
  \/ AddFitting(AddTop, fd, delta, addr, size)
  \/ AddWrapping(AddTop, fd, delta, addr, size)

\* r_io_map_add_bottom
MapAddBottom(fd, delta, addr, size) ==
  \/ AddFitting(AddBottom, fd, delta, addr, size)
  \/ AddWrapping(AddBottom, fd, delta, addr, size)

\* Mutant: the map is taken out of the current bank only.
MapDelHere(id) ==
  /\ id \in LiveIds
  /\ cur \in open
  /\ banks' = [banks EXCEPT ![cur] = DelMap(maps, @, id)]
  /\ maps' = [maps EXCEPT ![id] = NoMap]
  /\ UNCHANGED <<mts, open, cur>>

\* r_io_map_del: out of every bank first; nothing happens if there is no bank.
MapDel(id) ==
  /\ id \in LiveIds
  /\ open # {}
  /\ LET Drop(b, bank) == DelMap(maps, bank, id) IN InOpenBanks(Drop)
  /\ maps' = [maps EXCEPT ![id] = NoMap]
  /\ UNCHANGED <<mts, open, cur>>

\* r_io_map_reset: r_io_map_fini clears every bank, but not its drain_me.
MapReset ==
  /\ LET Clear(b, bank) == [EmptyBank EXCEPT !.drainMe = bank.drainMe]
     IN InOpenBanks(Clear)
  /\ maps' = [id \in MapIds |-> NoMap]
  /\ UNCHANGED <<mts, open, cur>>

-----------------------------------------------------------------------------
(* Moving and resizing maps.                                                *)

Place(id, from, to) == [maps EXCEPT ![id].from = from, ![id].to = to]

\* r_io_map_remap to an interval that fits.
RemapFitting(id, addr) ==
  LET m == maps[id] IN
  /\ ~Wraps(addr, Size(m))
  /\ maps' = Place(id, addr, addr + Size(m) - 1)
  /\ LET Update(b, bank) == UpdateBoundaries(maps', bank, id, m)
     IN InOpenBanks(Update)
  /\ UNCHANGED <<mts, open, cur>>

\* Mutant: the rest shows the beginning of the file again.
RestFromStart(m, addr, size) == NewMap(m.fd, m.delta, 0, size - (MaxAddr - addr + 1), mts)

\* Splitting map m at the top of the address space: what r_io_map_add makes of
\* the rest.  It fails when the file has no byte for it.
Rest(m, addr, size) == NewMap(m.fd, m.delta + (MaxAddr - addr + 1), 0,
                              size - (MaxAddr - addr + 1), mts)
RestBacked(m, addr) == Backed(m.fd, m.delta + (MaxAddr - addr + 1))

\* The rest of map id is put on top of the current bank, and taken out again
\* if the bank does not hold id.
AddRest(b, bank, id, new) ==
  IF HasMap(bank, id) THEN AddTop(maps', bank, new)
  ELSE IF b = cur THEN DelMap(maps', AddTop(maps', bank, new), new)
  ELSE bank

\* r_io_map_remap to an interval that wraps.
RemapWrapping(id, addr) ==
  LET m == maps[id] IN
  /\ Wraps(addr, Size(m))
  /\ RestBacked(m, addr)
  /\ \/ NoCurrentBank(1)
     \/ /\ cur \in open
        /\ mts + 1 <= MaxTs
        /\ \E new \in FreeIds :
             /\ maps' = [Place(id, addr, MaxAddr)
                           EXCEPT ![new] = Rest(m, addr, Size(m))]
             /\ LET Update(b, bank) ==
                      UpdateBoundaries(maps', AddRest(b, bank, id, new), id, m)
                IN InOpenBanks(Update)
        /\ mts' = mts + 1
        /\ UNCHANGED <<open, cur>>

\* r_io_map_remap
MapRemap(id, addr) ==
  /\ id \in LiveIds
  /\ RemapFitting(id, addr) \/ RemapWrapping(id, addr)

\* io_map_resize to an interval that fits.
ResizeFitting(id, size) ==
  LET m == maps[id] IN
  /\ ~Wraps(m.from, size)
  /\ maps' = Place(id, m.from, m.from + size - 1)
  /\ LET Update(b, bank) == UpdateBoundaries(maps', bank, id, m)
     IN InOpenBanks(Update)
  /\ UNCHANGED <<mts, open, cur>>

OtherHolders(id) == {b \in open \ {cur} : HasMap(banks[b], id)}

\* io_map_resize to an interval that wraps.  The loop over the other banks
\* updates the boundaries in the current bank, once for each of them: a second
\* update of a bank stands for every further one.
ResizeWrapping(id, size) ==
  LET m == maps[id] IN
  /\ Wraps(m.from, size)
  /\ RestBacked(m, m.from)
  /\ \/ NoCurrentBank(1)
     \/ /\ cur \in open
        /\ mts + 1 <= MaxTs
        /\ \E new \in FreeIds :
             /\ maps' = [Place(id, m.from, MaxAddr)
                           EXCEPT ![new] = Rest(m, m.from, size)]
             /\ LET Once(bank) == UpdateBoundaries(maps', bank, id, m)
                    Update(b, bank) ==
                      LET added == AddRest(b, bank, id, new)
                      IN IF b # cur THEN added
                         ELSE IF OtherHolders(id) = {} THEN Once(added)
                         ELSE Once(Once(added))
                IN InOpenBanks(Update)
        /\ mts' = mts + 1
        /\ UNCHANGED <<open, cur>>

\* r_io_map_resize, of a map that is not tied to the size of its descriptor.
MapResize(id, size) ==
  /\ id \in LiveIds
  /\ size # Size(maps[id])
  /\ ResizeFitting(id, size) \/ ResizeWrapping(id, size)

-----------------------------------------------------------------------------
(* Priorities, banks and accesses.                                          *)

InCurrentBank(bank) ==
  /\ cur \in open
  /\ banks' = [banks EXCEPT ![cur] = bank]
  /\ UNCHANGED <<maps, mts, open, cur>>

\* r_io_map_priorize
MapPriorize(id) == InCurrentBank(Priorize(maps, banks[cur], id))

\* r_io_map_depriorize
MapDepriorize(id) == InCurrentBank(Depriorize(maps, banks[cur], id))

\* The commands omba, ombg and omb+.
BankMapAdd(id) ==
  /\ cur \in open
  /\ Len(banks[cur].maprefs) < MaxRefs
  /\ InCurrentBank(AddTop(maps, banks[cur], id))

\* The command ombd.
BankMapDel(id) == InCurrentBank(DelMap(maps, banks[cur], id))

\* r_io_bank_drain
BankDrain == InCurrentBank(Drain(banks[cur]))

\* The command "omb-" with a star: the banks stay, the lowest is used next.
BankDrainAll ==
  /\ banks' = [b \in BankIds |-> IF b = cur THEN Drain(banks[b]) ELSE banks[b]]
  /\ cur' = LowestBank(open)
  /\ UNCHANGED <<maps, mts, open>>

\* r_io_bank_read_at and write_at, on the addresses x.
BankAccess(x) == InCurrentBank(Touch(maps, banks[cur], x))

\* r_io_nread_at: drain, then read from the submap at addr.
SubMapAccess(addr) ==
  InCurrentBank(Touch(maps, Drain(banks[cur]), [from |-> addr, to |-> addr]))

\* r_io_bank_add of a bank from r_io_bank_new
BankAdd ==
  \E b \in BankIds \ open :
    /\ open' = open \cup {b}
    /\ banks' = [banks EXCEPT ![b] = EmptyBank]
    /\ UNCHANGED <<maps, mts, cur>>

\* r_io_bank_use
BankUse(b) ==
  /\ b \in open
  /\ cur' = b
  /\ UNCHANGED <<maps, mts, banks, open>>

\* r_io_bank_del
BankDel(b) ==
  /\ b \in open
  /\ open' = open \ {b}
  /\ banks' = [banks EXCEPT ![b] = EmptyBank]
  /\ cur' = IF cur = b THEN LowestBank(open') ELSE cur
  /\ UNCHANGED <<maps, mts>>

-----------------------------------------------------------------------------
\* r_io_init: one bank, "default", is current.
Init ==
  /\ maps = [id \in MapIds |-> NoMap]
  /\ mts = 0
  /\ banks = [b \in BankIds |-> EmptyBank]
  /\ open = {Lowest(BankIds)}
  /\ cur = Lowest(BankIds)

\* Every operation that treats all the banks of a map alike.
CommonNext ==
  \/ \E fd \in Fds, addr \in Addr, size \in Sizes :
       MapAdd(fd, 0, addr, size) \/ MapAddBottom(fd, 0, addr, size)
  \/ \E id \in MapIds : \/ MapDel(id)
                        \/ MapPriorize(id)
                        \/ MapDepriorize(id)
                        \/ BankMapDel(id)
                        \/ \E addr \in Addr : MapRemap(id, addr)
  \/ \E addr \in Probes :
       \/ \E to \in addr .. MaxAddr : BankAccess([from |-> addr, to |-> to])
       \/ SubMapAccess(addr)
  \/ \E b \in BankIds : BankUse(b) \/ BankDel(b)
  \/ MapReset \/ BankDrain \/ BankDrainAll \/ BankAdd

\* Associating a map with the current bank, unless the bank holds it already.
AssociateOnce(id) == cur \in open /\ ~HasMap(banks[cur], id) /\ BankMapAdd(id)

\* Resizing, but a map that grows past the end of the address space must not
\* be held by a bank other than the current one.
ResizeAlone(id, size) ==
  /\ id \in LiveIds
  /\ Wraps(maps[id].from, size) => OtherHolders(id) = {}
  /\ MapResize(id, size)

\* The program used with that care, and everything it can do.
CarefulNext ==
  \/ CommonNext
  \/ \E id \in MapIds : \/ AssociateOnce(id)
                        \/ \E size \in Sizes : ResizeAlone(id, size)

Next ==
  \/ CommonNext
  \/ \E id \in MapIds : \/ BankMapAdd(id)
                        \/ \E size \in Sizes : MapResize(id, size)

CarefulSpec == Init /\ [][CarefulNext]_vars
Spec == Init /\ [][Next]_vars

\* One kind of carelessness at a time.
ResizeSpec ==
  Init /\ [][CarefulNext \/ \E id \in MapIds, size \in Sizes : MapResize(id, size)]_vars
AssociateSpec ==
  Init /\ [][CarefulNext \/ \E id \in MapIds : BankMapAdd(id)]_vars
-----------------------------------------------------------------------------
\* The kind of every variable.
TypeOK ==
  /\ maps \in [MapIds -> Map \cup {NoMap}]
  /\ mts \in 0 .. MaxTs
  /\ banks \in [BankIds -> Bank]
  /\ open \in SUBSET BankIds
  /\ cur \in BankIds \cup {NoBank}

\* What the list of a bank promises at address a: its highest live map there.
Promised(b, a) ==
  LET refs == banks[b].maprefs
      Server(i) == Serves(maps, refs, Len(refs) + 1, i, a)
  IN IF \E i \in DOMAIN refs : Server(i)
     THEN refs[CHOOSE i \in DOMAIN refs : Server(i)]
     ELSE NoRef

(* r_io_map_get_at "returns the map at vaddr with the highest priority"      *)
(* (r_io.h:409): what the tree finds at an address is what a search down the *)
(* priority list would find, however the fragments came about.               *)
HighestPriority ==
  \A b \in open, a \in Addr : Resolve(banks[b], a) = Promised(b, a)

(* The submaps of a bank never overlap, so that a search of the tree by      *)
(* address, and the deletion of a node by its first address, are defined.    *)
DisjointSubMaps ==
  \A b \in open : \A s, t \in banks[b].submaps :
    /\ s.from <= s.to
    /\ s # t => ~Overlaps(s, t)

(* The cached node of a bank is a node of its tree, as it stands: every      *)
(* operation that cuts, merges or deletes it has dropped the cache.          *)
LastUsedInTree ==
  \A b \in open : banks[b].lastUsed \in banks[b].submaps \cup {NoSubMap}

(* "references to maps, avoid double-free and dups" (r_io.h): no bank lists  *)
(* a map twice, so deleting the map leaves no reference to it behind.        *)
NoDuplicateRefs ==
  \A b \in open : \A j, k \in DOMAIN banks[b].maprefs :
    banks[b].maprefs[j].id = banks[b].maprefs[k].id => j = k

(* Every reference of a bank is to a live map: r_io_map_get_by_fd uses the   *)
(* map of each one without a check, and a read that meets a dead one stops.  *)
LiveRefs ==
  \A b \in open : \A k \in DOMAIN banks[b].maprefs : Live(maps, banks[b].maprefs[k])

(* A bank that holds two mergeable neighbours has its drain_me flag set.     *)
DrainMeCoversFragments ==
  \A b \in open : \A s, t \in banks[b].submaps :
    s.to + 1 = t.from /\ s.ref = t.ref => banks[b].drainMe

(* Moving a map moves its bytes: the k-th byte of map id is at addr + k,     *)
(* modulo 2^64, whether the map had to be split or not.  A map that was      *)
(* resized past the end of its file loses that part when it is split.        *)
RemapMovesBytes ==
  [][\A id \in MapIds, addr \in Addr :
       MapRemap(id, addr) /\ maps' # maps =>
         \A k \in 0 .. Min2(Size(maps[id]), FdSize[maps[id].fd] - maps[id].delta) - 1 :
           LET a == (addr + k) % (MaxAddr + 1) IN
           \E m \in MapIds :
             /\ maps'[m] # NoMap
             /\ maps[m] # maps'[m]
             /\ a \in Span(maps'[m])
             /\ maps'[m].fd = maps[id].fd
             /\ maps'[m].delta + (a - maps'[m].from) = maps[id].delta + k]_vars
=============================================================================
