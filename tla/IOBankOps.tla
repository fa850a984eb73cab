----------------------------- MODULE IOBankOps -----------------------------
(***************************************************************************)
(* The operations of one I/O bank (src/libr/io/io_bank.c).                  *)
(*                                                                          *)
(* A bank shows a set of maps to the reader of an address.  It keeps        *)
(*   submaps   the red-black tree of disjoint address intervals, each one   *)
(*             naming the map that serves it,                               *)
(*   maprefs   the list of the maps of the bank; the tail has the highest   *)
(*             priority,                                                    *)
(*   lastUsed  the tree node the last access ended on (a cache),            *)
(*   drainMe   whether the tree may hold fragments that could be merged.    *)
(* The tree is a set here: its order is the order of the addresses.  The    *)
(* loops that walk it are given in closed form; module IOBankWalks has them *)
(* node by node, and is proved to compute the same banks.                   *)
(***************************************************************************)
EXTENDS Integers, Sequences, FiniteSets

CONSTANTS
  MaxAddr,      \* the highest address, UT64_MAX in the code
  MapIds,       \* the ids r_id_storage can hand out for maps
  NoMap,        \* what a free id holds: NULL
  NoSubMap,     \* no cached tree node: NULL
  NoRef         \* no submap contains the address

Addr == 0 .. MaxAddr
MapRef == [id : MapIds, ts : Nat]
SubMap == [from : Addr, to : Addr, ref : MapRef]
Bank == [submaps : SUBSET SubMap, maprefs : Seq(MapRef),
         lastUsed : SubMap \cup {NoSubMap}, drainMe : BOOLEAN]

ASSUME MaxAddrAssumption == MaxAddr \in Nat
ASSUME NoSubMapAssumption == NoSubMap \notin SubMap
ASSUME NoRefAssumption == NoRef \notin MapRef

Span(x) == x.from .. x.to
Overlaps(x, y) == Span(x) \cap Span(y) # {}

-----------------------------------------------------------------------------
(* Sets of addresses as intervals.                                          *)

\* The maximal intervals <<first, last>> of a set of addresses.
Runs(A) == {r \in A \X A : /\ r[1] <= r[2]
                           /\ r[1] .. r[2] \subseteq A
                           /\ r[1] - 1 \notin A
                           /\ r[2] + 1 \notin A}

\* One submap per maximal interval of A.
Pieces(A, ref) == {[from |-> r[1], to |-> r[2], ref |-> ref] : r \in Runs(A)}

Lowest(K) == CHOOSE k \in K : \A j \in K : k <= j
Highest(K) == CHOOSE k \in K : \A j \in K : k >= j

Covered(S) == UNION {Span(s) : s \in S}

\* Mutant: one address too few is cut.
CarveShort(S, A) == UNION {Pieces(Span(s) \ (A \ {Highest(A)}), s.ref) : s \in S}

\* The submaps of S without the addresses in A.
Carve(S, A) == UNION {Pieces(Span(s) \ A, s.ref) : s \in S}

-----------------------------------------------------------------------------
(* Maps and references to them.                                             *)

RefOf(maps, id) == [id |-> id, ts |-> maps[id].ts]

\* A reference outlives its map: the timestamp tells a reused id apart.
Live(maps, ref) == maps[ref.id] # NoMap /\ maps[ref.id].ts = ref.ts

SubMapOf(maps, ref) ==
  [from |-> maps[ref.id].from, to |-> maps[ref.id].to, ref |-> ref]

Positions(bank, id) == {k \in DOMAIN bank.maprefs : bank.maprefs[k].id = id}
HasMap(bank, id) == Positions(bank, id) # {}

\* Mutant: the reference after the k-th goes.
WithoutNext(refs, k) ==
  [j \in 1 .. Len(refs) - 1 |-> IF j <= k THEN refs[j] ELSE refs[j + 1]]

Without(refs, k) ==
  [j \in 1 .. Len(refs) - 1 |-> IF j < k THEN refs[j] ELSE refs[j + 1]]

Covers(maps, ref, a) == Live(maps, ref) /\ a \in Span(maps[ref.id])

\* Of the references below position k, the i-th serves address a.
Serves(maps, refs, k, i, a) ==
  /\ i \in 1 .. k - 1
  /\ Covers(maps, refs[i], a)
  /\ \A j \in i + 1 .. k - 1 : ~Covers(maps, refs[j], a)

-----------------------------------------------------------------------------
(* The bank.                                                                *)

EmptyBank == [submaps |-> {}, maprefs |-> <<>>,
              lastUsed |-> NoSubMap, drainMe |-> FALSE]

\* Mutant: the cached node is kept.
Stale(bank) == bank

Fresh(bank) == [bank EXCEPT !.lastUsed = NoSubMap]

Hits(S, sm) == {s \in S : Overlaps(s, sm)}

\* r_io_bank_map_add_top
AddTop(maps, bank, id) ==
  LET ref == RefOf(maps, id)
      sm == SubMapOf(maps, ref)
  IN IF maps[id] = NoMap THEN bank
     ELSE [bank EXCEPT
             !.submaps = Carve(@, Span(sm)) \cup {sm},
             !.maprefs = Append(@, ref),
             !.lastUsed = IF Hits(bank.submaps, sm) = {} THEN @ ELSE NoSubMap]

\* Mutant: r_list_append for r_list_prepend.
AddBottomLast(maps, bank, id) ==
  LET ref == RefOf(maps, id)
      sm == SubMapOf(maps, ref)
  IN IF maps[id] = NoMap THEN bank
     ELSE [bank EXCEPT
             !.submaps = @ \cup Pieces(Span(sm) \ Covered(@), ref),
             !.maprefs = Append(@, ref)]

\* r_io_bank_map_add_bottom
AddBottom(maps, bank, id) ==
  LET ref == RefOf(maps, id)
      sm == SubMapOf(maps, ref)
  IN IF maps[id] = NoMap THEN bank
     ELSE [bank EXCEPT
             !.submaps = @ \cup Pieces(Span(sm) \ Covered(@), ref),
             !.maprefs = <<ref>> \o @]

\* r_io_bank_map_priorize.  The interval of a map that is found whole in the
\* tree only changes its reference, and nothing is left to merge.
Priorize(maps, bank, id) ==
  LET k == Lowest(Positions(bank, id))
      ref == bank.maprefs[k]
      sm == SubMapOf(maps, ref)
      whole == \E s \in bank.submaps : s.from = sm.from /\ s.to = sm.to
  IN IF \/ ~HasMap(bank, id)
        \/ k = Len(bank.maprefs)
        \/ ~Live(maps, ref)
        \/ Hits(bank.submaps, sm) = {}
     THEN bank
     ELSE [submaps |-> Carve(bank.submaps, Span(sm)) \cup {sm},
           maprefs |-> Append(Without(bank.maprefs, k), ref),
           lastUsed |-> NoSubMap,
           drainMe |-> bank.drainMe \/ ~whole]

\* Mutant: whatever touches x goes, without a look at the map it shows.
WithdrawAll(maps, bank, k, id, x) ==
  LET gone == Hits(bank.submaps, x)
      Left(s, i) == {a \in Span(s) : Serves(maps, bank.maprefs, k, i, a)}
      fill == UNION {Pieces(Left(s, i), bank.maprefs[i]) :
                       s \in gone, i \in 1 .. k - 1}
  IN [bank EXCEPT !.submaps = (@ \ gone) \cup fill,
                  !.drainMe = @ \/ fill # {}]

\* _delete_submaps_from_bank_tree: the submaps of map id that touch x go, and
\* the live references below position k serve what they leave.
Withdraw(maps, bank, k, id, x) ==
  LET gone == {s \in bank.submaps : s.ref.id = id /\ Overlaps(s, x)}
      Left(s, i) == {a \in Span(s) : Serves(maps, bank.maprefs, k, i, a)}
      fill == UNION {Pieces(Left(s, i), bank.maprefs[i]) :
                       s \in gone, i \in 1 .. k - 1}
  IN [bank EXCEPT !.submaps = (@ \ gone) \cup fill,
                  !.drainMe = @ \/ fill # {}]

Forget(bank, k) == [bank EXCEPT !.maprefs = Without(@, k)]

\* r_io_bank_map_depriorize
Depriorize(maps, bank, id) ==
  LET k == Lowest(Positions(bank, id))
  IN IF maps[id] = NoMap \/ ~HasMap(bank, id) \/ k = 1
     THEN bank
     ELSE AddBottom(maps, Forget(Withdraw(maps, Fresh(bank), k, id, maps[id]), k), id)

\* r_io_bank_update_map_boundaries, after map id moved away from interval old.
\* Submaps that _mapref_priority_cmp does not put below position k are kept.
UpdateBoundaries(maps, bank, id, old) ==
  LET k == Highest(Positions(bank, id))
      ref == bank.maprefs[k]
      sm == SubMapOf(maps, ref)
      left == Withdraw(maps, Fresh(bank), k, id, old)
      above == {s \in left.submaps :
                  \/ s.ref.id = id
                  \/ \E j \in k + 1 .. Len(bank.maprefs) :
                       bank.maprefs[j].id = s.ref.id}
  IN IF \/ ~HasMap(bank, id)
        \/ ~Live(maps, ref)
        \/ Span(sm) = Span(old)
     THEN bank
     ELSE [left EXCEPT
             !.submaps = above \cup Carve(@ \ above, Span(sm))
                               \cup Pieces(Span(sm) \ Covered(above), ref),
             !.drainMe = @ \/ Hits(left.submaps, sm) # {}]

\* r_io_bank_del_map
DelMap(maps, bank, id) ==
  LET k == Highest(Positions(bank, id))
  IN IF maps[id] = NoMap THEN bank
     ELSE IF ~HasMap(bank, id) THEN Fresh(bank)
     ELSE Forget(Withdraw(maps, Fresh(bank), k, id, maps[id]), k)

\* Mutant: nothing is merged.
ChainedAlone(S, s, t) == s = t

\* No submap between s and t, in address order, names another map.
Chained(S, s, t) ==
  /\ s.from <= t.from
  /\ \A u \in S : s.from <= u.from /\ u.from <= t.from
                    => u.ref = s.ref /\ u.ref = t.ref

\* r_io_bank_drain: every longest chain becomes one submap.
Drain(bank) ==
  LET S == bank.submaps
      longest == {c \in S \X S :
                    /\ Chained(S, c[1], c[2])
                    /\ \A u \in S : /\ Chained(S, u, c[1]) => u = c[1]
                                    /\ Chained(S, c[2], u) => u = c[2]}
  IN IF ~bank.drainMe THEN bank
     ELSE [bank EXCEPT
             !.submaps = {[from |-> c[1].from, to |-> c[2].to, ref |-> c[1].ref] :
                            c \in longest},
             !.lastUsed = NoSubMap,
             !.drainMe = FALSE]

-----------------------------------------------------------------------------
(* Looking an address up.                                                   *)

\* r_io_bank_get_map_at: the reference in the tree, whether it is live or not.
Resolve(bank, a) ==
  IF a \in Covered(bank.submaps)
  THEN (CHOOSE s \in bank.submaps : a \in Span(s)).ref
  ELSE NoRef

\* r_io_bank_read_at, write_at: the walk ends after x, or on a dead reference.
Touch(maps, bank, x) ==
  LET hit == Hits(bank.submaps, x)
      dead == {s \in hit : ~Live(maps, s.ref)}
      walked == {s \in hit : \A d \in dead : s.from <= d.from}
  IN IF hit = {} THEN bank
     ELSE [bank EXCEPT
             !.lastUsed = CHOOSE s \in walked : \A u \in walked : u.from <= s.from]
=============================================================================
