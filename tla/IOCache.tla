------------------------------ MODULE IOCache ------------------------------
(***************************************************************************)
(* The write cache of RIO (src/libr/io/io_cache.c) over the bytes below it. *)
(*                                                                          *)
(* A layer keeps every cached write as an item in a vector, in the order of *)
(* the writes, and a tree of the parts of items that are not hidden by      *)
(* later ones.  An item has                                                 *)
(*   itv    the addresses its two buffers belong to,                        *)
(*   tree   tree_itv, the part that shows, NoItv for NULL,                  *)
(*   live   whether the tree holds a node for it (a full commit empties the *)
(*          tree and leaves tree_itv as it was),                            *)
(*   data, odata   the bytes written, and those that a read gave before.    *)
(* Buffers are functions on addresses; bytes are <<write, index>>, so that  *)
(* a byte copied from a wrong place is seen to be wrong.                    *)
(*                                                                          *)
(* A search of the tree is exact as long as its nodes are disjoint          *)
(* (TreeSound); allocations do not fail.  The mode of the cache is not kept: *)
(* reading through it is on (io.cache.read), and each write goes to the cache *)
(* or past it, as if io.cache were set before each of them.                  *)
(***************************************************************************)
EXTENDS Integers, Sequences, FiniteSets, SequencesExt

CONSTANTS
  MaxAddr,      \* the highest address, UT64_MAX in the code
  Sizes,        \* the sizes of the writes
  Ranges,       \* the ranges <<from, to>> that are invalidated and committed
  MaxWrites,    \* bound on the number of writes
  MaxOps,       \* bound on the number of operations but cached writes and undos
  MaxLayers,    \* bound on the number of layers
  Writable,     \* whether the file was opened for writing
  ReallocNull,  \* realloc to size 0 frees the buffer and returns NULL, as glibc does
  NoItv,        \* tree_itv is NULL
  Freed         \* a byte of a buffer that was freed

M == MaxAddr + 1
Addr == 0 .. MaxAddr
Itv == [addr : Addr, size : Addr]
Byte == ((0 .. MaxWrites) \X Addr) \cup {Freed}

ASSUME SizesAssumption ==
  /\ MaxAddr \in Nat /\ Sizes \subseteq 1 .. MaxAddr
  /\ Ranges \subseteq {r \in Addr \X Addr : r[1] <= r[2]}
  /\ {MaxWrites, MaxOps, MaxLayers} \subseteq Nat
  /\ Writable \in BOOLEAN /\ ReallocNull \in BOOLEAN
ASSUME NoneAssumption == NoItv \notin Itv /\ Freed \notin (0 .. MaxWrites) \X Addr

VARIABLES
  file,         \* the bytes below the cache
  layers,       \* io->cache.layers, each one a sequence of items
  writes,       \* how many writes there were
  ops,          \* how many operations there were that are not cached writes or undos
  past          \* history: what was shown before each write that can be undone

vars == <<file, layers, writes, ops, past>>

-----------------------------------------------------------------------------
(* Intervals: sizes and ends are those of the code, modulo 2^64.            *)

End(v) == (v.addr + v.size) % M
Cells(v) == v.addr .. v.addr + v.size - 1

Include(v, x) ==
  v.addr <= x.addr /\ (End(v) = 0 \/ (End(x) # 0 /\ End(x) <= End(v)))

Overlap(v, x) ==
  (End(x) = 0 \/ v.addr < End(x)) /\ (End(v) = 0 \/ x.addr < End(v))

Smaller(a, b) == IF a < b THEN a ELSE b
Larger(a, b) == IF a < b THEN b ELSE a

Intersect(v, x) ==
  LET a == Larger(v.addr, x.addr)
      e == Smaller((End(v) - 1) % M, (End(x) - 1) % M) + 1
  IN  [addr |-> a, size |-> (e - a) % M]

\* Closed boundaries, as the commands give them.
Closed(from, to) == [addr |-> from, size |-> (to + 1 - from) % M]

-----------------------------------------------------------------------------
(* Items and reading.                                                       *)

NewItem(v, d, o) == [itv |-> v, tree |-> v, live |-> TRUE, data |-> d, odata |-> o]

ByteOf(d, a) == IF a \in DOMAIN d THEN d[a] ELSE Freed
Sliced(d, v, shift) == [a \in Cells(v) |-> ByteOf(d, a + shift)]

InTree(i, v) == i.live /\ Overlap(i.tree, v)

\* The addresses of v that a read copies from the item i.
Served(i, v) ==
  IF ~InTree(i, v) THEN {}
  ELSE LET its == Intersect(i.tree, v)
       IN  its.addr .. its.addr + Smaller(its.size, i.itv.size) - 1

\* The items of the layer L that a read of v copies the byte at a from, and the
\* layers of ls that have such an item.
Serving(L, v, a) == {k \in DOMAIN L : a \in Served(L[k], v)}
ServingLayers(ls, v, a) == {n \in DOMAIN ls : Serving(ls[n], v, a) # {}}

Highest(K) == CHOOSE k \in K : \A j \in K : j <= k

\* The byte that the layer L has for a read of v: that of the node that comes last in the tree.
ServedByte(L, v, a) ==
  LET K == Serving(L, v, a)
  IN  ByteOf(L[CHOOSE k \in K : \A j \in K : L[j].tree.addr <= L[k].tree.addr].data, a)

\* The byte read: later layers win.
ReadByte(ls, v, a) ==
  LET byte == [n \in DOMAIN ls |-> ServedByte(ls[n], v, a)]
  IN  byte[Highest(ServingLayers(ls, v, a))]

\* Reading v from the layers ls over the bytes below.
ReadLayers(ls, v, below) ==
  [a \in Cells(v) |-> IF ServingLayers(ls, v, a) = {} THEN below[a] ELSE ReadByte(ls, v, a)]

ReadAt(v) == ReadLayers(layers, v, file)

\* What is read byte by byte.
View == [a \in Addr |-> ReadAt([addr |-> a, size |-> 1])[a]]

-----------------------------------------------------------------------------
(* Writing.                                                                 *)

\* A write to v falls inside what shows of the item i.
Nested(i, v) ==
  /\ InTree(i, v)
  /\ v.addr > i.tree.addr
  /\ End(i.tree) > End(v)
  /\ End(v) # 0             \* else the tail would have nearly 2^64 bytes and cannot be allocated

\* The item made for the part of i behind v.  The offset into the buffers is
\* taken from the start of tree_itv, although they start with itv.
TailOf(i, v) ==
  LET t == [addr |-> End(v), size |-> End(i.tree) - End(v)]
      shift == i.itv.addr - i.tree.addr
  IN  NewItem(t, Sliced(i.data, t, shift), Sliced(i.odata, t, shift))

\* Mutant: the rest of an item keeps its old end.
CutLong(i, v) ==
  IF ~InTree(i, v) THEN i
  ELSE IF v.addr > i.tree.addr THEN i
  ELSE IF Include(v, i.tree) THEN [i EXCEPT !.tree = NoItv, !.live = FALSE]
  ELSE [i EXCEPT !.tree = [addr |-> End(v), size |-> (End(i.tree) - End(v)) % M]]

\* What is left of the node of i when v is written over it.
Cut(i, v) ==
  IF ~InTree(i, v) THEN i
  ELSE IF v.addr > i.tree.addr THEN [i EXCEPT !.tree.size = v.addr - i.tree.addr]
  ELSE IF Include(v, i.tree) THEN [i EXCEPT !.tree = NoItv, !.live = FALSE]
  ELSE [i EXCEPT !.tree = [addr |-> End(v), size |-> (End(i.tree) - End(v)) % M]]

\* Mutant: the bytes to undo with are read from the file and not through the cache.
WriteInBelow(L, v, d) ==
  LET K == {k \in DOMAIN L : Nested(L[k], v)}
      tail == IF K = {} THEN <<>> ELSE <<TailOf(L[CHOOSE k \in K : TRUE], v)>>
  IN  [k \in DOMAIN L |-> Cut(L[k], v)] \o tail \o <<NewItem(v, d, [a \in Cells(v) |-> file[a]])>>

WriteIn(L, v, d) ==
  LET K == {k \in DOMAIN L : Nested(L[k], v)}
      tail == IF K = {} THEN <<>> ELSE <<TailOf(L[CHOOSE k \in K : TRUE], v)>>
  IN  [k \in DOMAIN L |-> Cut(L[k], v)] \o tail \o <<NewItem(v, d, ReadAt(v))>>

-----------------------------------------------------------------------------
(* Invalidating.                                                            *)

\* The item i reduced to the interval v.
Clip(i, v) ==
  LET shows == i.tree # NoItv /\ Overlap(v, i.tree)
  IN  [itv  |-> v,
       tree |-> IF shows THEN Intersect(i.tree, v) ELSE NoItv,
       live |-> shows /\ i.live,
       data |-> Sliced(i.data, v, 0), odata |-> Sliced(i.odata, v, 0)]

Before(i, r) == [addr |-> i.itv.addr, size |-> r.addr - i.itv.addr]
\* Mutant: the end of the range is taken as one address more.
BehindNext(i, r) == [addr |-> End(r), size |-> (End(i.itv) - End(r) - 1) % M]
Behind(i, r) == [addr |-> End(r), size |-> (End(i.itv) - End(r)) % M]

\* Reducing the buffers to nothing fails, and leaves them freed.
Lost(i, r) == ReallocNull /\ Include(i.itv, r) /\ r.addr = i.itv.addr

\* What is left of i in its place when r goes.  (A deletion from the tree is by
\* start address; for an item without a node it finds none: a node there would be
\* of a later write, which overlaps r too and was dealt with before.)
Kept(i, r) ==
  IF ~Overlap(r, i.itv) THEN <<i>>
  ELSE IF Include(r, i.itv) THEN <<>>
  ELSE IF Lost(i, r) THEN <<[i EXCEPT !.itv.size = 0, !.data = <<>>]>>
  ELSE IF Include(i.itv, r) \/ i.itv.addr < r.addr THEN <<Clip(i, Before(i, r))>>
  ELSE <<Clip(i, Behind(i, r))>>

\* Mutant: the new item always gets a node.
SplitShown(i, r) ==
  IF ~Overlap(r, i.itv) \/ Include(r, i.itv) \/ ~Include(i.itv, r) \/ Lost(i, r) THEN <<>>
  ELSE <<[Clip(i, Behind(i, r)) EXCEPT !.live = TRUE]>>

\* What becomes of the part of i behind r when r is inside: a new item, in the
\* tree whenever i has a tree_itv.
Split(i, r) ==
  IF ~Overlap(r, i.itv) \/ Include(r, i.itv) \/ ~Include(i.itv, r) \/ Lost(i, r) THEN <<>>
  ELSE LET c == Clip(i, Behind(i, r)) IN <<[c EXCEPT !.live = c.tree # NoItv]>>

InvalidateIn(L, r) ==
  FlattenSeq([k \in DOMAIN L |-> Kept(L[k], r)])
    \o FlattenSeq(Reverse([k \in DOMAIN L |-> Split(L[k], r)]))

InvalidateAll(ls, r) == [n \in DOMAIN ls |-> InvalidateIn(ls[n], r)]

-----------------------------------------------------------------------------
(* Committing.                                                              *)

\* The items of the layer L with a node at the address a of v, and the layers of ls
\* with such an item.
Flushing(L, v, a) == {k \in DOMAIN L : InTree(L[k], v) /\ a \in Cells(Intersect(L[k].tree, v))}
FlushingLayers(ls, v, a) == {n \in DOMAIN ls : Flushing(ls[n], v, a) # {}}

\* Mutant: the layers are written from the top one down.
FlushDown(ls, v, f) ==
  [a \in Addr |->
     IF FlushingLayers(ls, v, a) = {} \/ ~Writable THEN f[a]
     ELSE LET n == CHOOSE k \in FlushingLayers(ls, v, a) : \A j \in FlushingLayers(ls, v, a) : k <= j
          IN  ByteOf(ls[n][CHOOSE k \in Flushing(ls[n], v, a) : TRUE].data, a)]

\* Writing what shows of the layers ls in v to the bytes f, one layer after the other,
\* if they can be written.
Flush(ls, v, f) ==
  [a \in Addr |->
     IF FlushingLayers(ls, v, a) = {} \/ ~Writable THEN f[a]
     ELSE LET L == ls[Highest(FlushingLayers(ls, v, a))]
          IN  ByteOf(L[CHOOSE k \in Flushing(L, v, a) : TRUE].data, a)]

\* Without "many" only the first layer is looked at.
Reach(many) == IF many \/ layers = <<>> THEN Len(layers) ELSE 1

\* The tree of the layer is emptied, its vector is not.
Detach(L) == [k \in DOMAIN L |-> [L[k] EXCEPT !.live = FALSE]]

Whole == Closed(0, MaxAddr)

\* One layer of a commit of r: its bytes go down, and r goes from all layers.
SettleLayer(s, n, r) ==
  IF \A k \in DOMAIN s.ls[n] : ~InTree(s.ls[n][k], r) THEN s
  ELSE [f |-> Flush(<<s.ls[n]>>, r, s.f), ls |-> InvalidateAll(s.ls, r)]

-----------------------------------------------------------------------------
(* The operations.                                                          *)

Counted == ops < MaxOps /\ ops' = ops + 1

Init ==
  /\ file = [a \in Addr |-> <<0, a>>]
  /\ layers = <<<<>>>>
  /\ writes = 0
  /\ ops = 0
  /\ past = <<>>

\* A write past the end of the address space is done in two, the rest first.
PastEnd(addr, len) == M - len < addr
Rest(addr, len) == [addr |-> 0, size |-> len - (M - addr)]
UpToEnd(addr) == [addr |-> addr, size |-> M - addr]

Parts(addr, len) ==
  IF PastEnd(addr, len) THEN {Rest(addr, len), UpToEnd(addr)}
  ELSE {[addr |-> addr, size |-> len]}

Buf(addr, v) == [a \in Cells(v) |-> <<writes + 1, (a - addr) % M>>]

WriteParts(L, addr, len) ==
  LET write(K, v) == WriteIn(K, v, Buf(addr, v))
  IN  IF PastEnd(addr, len) THEN write(write(L, Rest(addr, len)), UpToEnd(addr))
      ELSE write(L, [addr |-> addr, size |-> len])

\* One undo can take a write back if it made one item, in the only layer.
Undoable(addr, len) ==
  /\ Len(layers) = 1
  /\ ~PastEnd(addr, len)
  /\ \A k \in DOMAIN Last(layers) : ~Nested(Last(layers)[k], [addr |-> addr, size |-> len])

CachedWrite(addr, len) ==
  /\ writes < MaxWrites
  /\ layers # <<>>
  /\ layers' = [layers EXCEPT ![Len(layers)] = WriteParts(@, addr, len)]
  /\ writes' = writes + 1
  /\ past' = IF Undoable(addr, len) THEN Append(past, View) ELSE <<>>
  /\ UNCHANGED <<file, ops>>

DirectWrite(addr, len) ==
  /\ Counted
  /\ writes < MaxWrites
  /\ Writable
  /\ file' = [a \in Addr |-> IF \E v \in Parts(addr, len) : a \in Cells(v)
                               THEN <<writes + 1, (a - addr) % M>> ELSE file[a]]
  /\ writes' = writes + 1
  /\ past' = <<>>
  /\ UNCHANGED layers

Invalidate(from, to) ==
  /\ Counted
  /\ past' = <<>>
  /\ UNCHANGED <<file, writes>>
  /\ layers' = InvalidateAll(layers, Closed(from, to))

CommitAll(many) ==
  /\ Counted
  /\ UNCHANGED <<writes, past>>
  /\ file' = Flush(SubSeq(layers, 1, Reach(many)), Whole, file)
  /\ layers' = [n \in DOMAIN layers |->
                  IF n <= Reach(many) THEN Detach(layers[n]) ELSE layers[n]]

CommitRange(from, to, many) ==
  /\ Counted
  /\ <<from, to>> # <<0, MaxAddr>>
  /\ past' = <<>>
  /\ UNCHANGED writes
  /\ LET s[n \in 0 .. Reach(many)] ==
           IF n = 0 THEN [f |-> file, ls |-> layers]
           ELSE SettleLayer(s[n - 1], n, Closed(from, to))
     IN  file' = s[Reach(many)].f /\ layers' = s[Reach(many)].ls

\* The last item of the last layer goes, and the bytes read before the write are
\* written with the cache off: below it.
Undo ==
  /\ layers # <<>>
  /\ Last(layers) # <<>>
  /\ LET c == Last(Last(layers))
     IN  file' = [a \in Addr |-> IF Writable /\ a \in Cells(c.itv) THEN ByteOf(c.odata, a)
                                  ELSE file[a]]
  /\ layers' = [layers EXCEPT ![Len(layers)] = Front(@)]
  /\ past' = IF past = <<>> THEN past ELSE Front(past)
  /\ UNCHANGED <<writes, ops>>

PushLayer ==
  /\ Counted
  /\ Len(layers) < MaxLayers
  /\ layers' = Append(layers, <<>>)
  /\ past' = <<>>
  /\ UNCHANGED <<file, writes>>

PopLayer ==
  /\ Counted
  /\ layers # <<>>
  /\ layers' = Front(layers)
  /\ past' = <<>>
  /\ UNCHANGED <<file, writes>>

Reset ==
  /\ Counted
  /\ layers' = <<<<>>>>
  /\ past' = <<>>
  /\ UNCHANGED <<file, writes>>

-----------------------------------------------------------------------------
(* Specifications.                                                          *)

\* Everything the commands accept.
Next ==
  \/ \E addr \in Addr, len \in Sizes : CachedWrite(addr, len) \/ DirectWrite(addr, len)
  \/ \E r \in Ranges :
       \/ Invalidate(r[1], r[2])
       \/ \E many \in BOOLEAN : CommitRange(r[1], r[2], many)
  \/ \E many \in BOOLEAN : CommitAll(many)
  \/ Undo \/ PushLayer \/ PopLayer \/ Reset

Spec == Init /\ [][Next]_vars

\* The nodes of the last layer that begin before v and reach into it.
ReachInto(v) == {i \in ToSet(Last(layers)) : InTree(i, v) /\ v.addr > i.tree.addr}

\* No write falls inside a node that ends at the last address: its end is 0, and
\* the comparison with the end of the write does not see the tail.
ClearOfTop(addr, len) ==
  \A v \in Parts(addr, len) : \A i \in ReachInto(v) : End(i.tree) = 0 => End(v) = 0

\* No write falls inside a node that lost its head to an earlier write.
HeadsKept(addr, len) ==
  \A v \in Parts(addr, len) : \A i \in ReachInto(v) :
    Nested(i, v) => i.tree.addr = i.itv.addr

\* Items that the interval r cuts were not committed, and r does not start or end
\* with them in the two ways the code gets wrong.
CutsClean(r) ==
  \A n \in DOMAIN layers : \A k \in DOMAIN layers[n] :
    LET i == layers[n][k]
    IN  Overlap(r, i.itv) /\ ~Include(r, i.itv) =>
          /\ i.tree = NoItv \/ i.live
          /\ Include(i.itv, r) => r.addr # i.itv.addr /\ End(r) # 0

\* One layer has bytes in r, and the commit reaches it.
OneLayer(r, many) ==
  LET has == {n \in DOMAIN layers : \E k \in DOMAIN layers[n] : InTree(layers[n][k], r)}
  IN  \/ has \cap 1 .. Reach(many) = {}
      \/ Cardinality(has) = 1

CarefulNext ==
  \/ \E addr \in Addr, len \in Sizes :
       \/ layers # <<>> /\ ClearOfTop(addr, len) /\ HeadsKept(addr, len) /\ CachedWrite(addr, len)
       \/ DirectWrite(addr, len)
  \/ \E r \in Ranges :
       /\ CutsClean(Closed(r[1], r[2]))
       /\ \/ Invalidate(r[1], r[2])
          \/ \E many \in BOOLEAN :
               Writable /\ OneLayer(Closed(r[1], r[2]), many) /\ CommitRange(r[1], r[2], many)
  \/ \E many \in BOOLEAN : Writable /\ CommitAll(many)
  \/ Undo \/ PushLayer \/ PopLayer \/ Reset

CarefulSpec == Init /\ [][CarefulNext]_vars

\* Writes below the last address, and undos.
WriteNext ==
  \/ \E addr \in Addr, len \in Sizes : ClearOfTop(addr, len) /\ CachedWrite(addr, len)
  \/ Undo

WriteSpec == Init /\ [][WriteNext]_vars

-----------------------------------------------------------------------------
(* Properties.                                                              *)

(* Every buffer keeps bytes, with their origin known, and a node belongs to  *)
(* an item whose tree_itv is set: _ci_start_cmp_cb reports a corrupted tree   *)
(* otherwise.                                                                 *)
TypeOK ==
  /\ file \in [Addr -> Byte]
  /\ \A n \in DOMAIN layers : \A k \in DOMAIN layers[n] :
       LET i == layers[n][k]
       IN  /\ i.itv \in Itv
           /\ i.tree \in Itv \cup {NoItv}
           /\ i.live \in BOOLEAN /\ (i.live => i.tree # NoItv)
           /\ {i.data, i.odata} \subseteq [Cells(i.itv) -> Byte]
  /\ writes \in 0 .. MaxWrites /\ ops \in 0 .. MaxOps
  /\ Len(past) <= writes

(* The nodes of a layer are disjoint, and each lies where its item has bytes: *)
(* the search of _find_entry_ci_node and the offsets of every memcpy rely on  *)
(* it, after any mix of writes, invalidations, commits and undos.             *)
TreeSound ==
  \A n \in DOMAIN layers : \A k \in DOMAIN layers[n] :
    LET i == layers[n][k]
    IN  i.live =>
          /\ Cells(i.tree) # {}
          /\ Cells(i.tree) \subseteq Cells(i.itv)
          /\ \A j \in DOMAIN layers[n] \ {k} :
               layers[n][j].live => Cells(i.tree) \cap Cells(layers[n][j].tree) = {}

(* A write with the cache on is what is read back, byte by byte, and nothing  *)
(* else that is shown changes: the tail of a cached write that is written     *)
(* into is preserved.                                                         *)
WriteShows ==
  [][\A addr \in Addr, len \in Sizes :
       CachedWrite(addr, len) =>
         \A a \in Addr :
           View'[a] = IF \E v \in Parts(addr, len) : a \in Cells(v)
                        THEN <<writes + 1, (a - addr) % M>> ELSE View[a]]_vars

(* Undoing takes the last write back: where the file can be written, what is  *)
(* shown is again what was shown before it, although parts of that were hidden *)
(* by the write, and also when it was committed in between.                   *)
UndoRestores ==
  [][Writable /\ past # <<>> /\ Undo => View' = Last(past)]_vars
=============================================================================
