---------------------------- MODULE IOBankWalks ----------------------------
(***************************************************************************)
(* The bank operations of src/libr/io/io_bank.c node by node: what they      *)
(* search, cut, delete, enqueue and insert while they walk the submap tree,  *)
(* where IOBankOps has each of them as one step in closed form.              *)
(*                                                                          *)
(* One call runs at a time.  A node is the submap it holds, NoSubMap is the  *)
(* null node, and the order of the tree is the order of the addresses.       *)
(***************************************************************************)
EXTENDS IOBankOps

CONSTANTS
  Stamps,       \* bound: the timestamps of maps
  Sizes,        \* bound: the sizes r_io_bank_locate is asked for
  Aligns,       \* bound: its alignments
  NoPlace       \* r_io_bank_locate returns false

ASSUME StampsAssumption == Stamps \subseteq Nat
ASSUME AskedAssumption == Sizes \subseteq 1 .. MaxAddr /\ Aligns \subseteq Nat \ {0}
ASSUME NoMapAssumption == NoMap \notin [from : Addr, to : Addr, ts : Nat]
ASSUME NoPlaceAssumption == NoPlace \notin Addr

VARIABLES
  maps,         \* io->maps
  tree,         \* bank->submaps
  refs,         \* bank->maprefs
  used,         \* bank->last_used
  drain,        \* bank->drain_me
  pc,           \* where the call is
  op, id,       \* the function and the map it was called for
  found,        \* history: the bank as the call found it
  old,          \* the interval submaps are withdrawn from (fake_sm)
  at,           \* the node the walk is at (entry)
  sm,           \* the submap to insert, or the one off the queue
  todo,         \* bank->todo
  prio, ator,   \* positions in the list
  ask,          \* what r_io_bank_locate was asked for
  answer        \* and what it found

bank == <<tree, refs, used, drain>>
call == <<op, id, found, old, prio, ask>>
walk == <<call, at, sm, todo, ator, answer>>
vars == <<maps, bank, pc, walk>>

Now == [submaps |-> tree, maprefs |-> refs, lastUsed |-> used, drainMe |-> drain]

-----------------------------------------------------------------------------
(* Nodes.                                                                   *)

First(S) == IF S = {} THEN NoSubMap
            ELSE CHOOSE s \in S : \A t \in S : s.from <= t.from

\* _find_entry_submap_node: the first node that intersects x.
Entry(S, x) == First(Hits(S, x))

\* r_rbnode_next
After(S, s) == First({t \in S : t.from > s.from})

\* Mutants: a submap is never cut to one address.
SetFromEarly(s, from) == IF s.to <= from THEN s ELSE [s EXCEPT !.from = from]
SetToLate(s, to) == IF s.from >= to THEN s ELSE [s EXCEPT !.to = to]

\* r_io_submap_set_from and r_io_submap_set_to: refused if s would be empty.
SetFrom(s, from) == IF s.to < from THEN s ELSE [s EXCEPT !.from = from]
SetTo(s, to) == IF s.from > to THEN s ELSE [s EXCEPT !.to = to]

Change(S, s, t) == (S \ {s}) \cup {t}
CutBefore(S, e, x) == Change(S, e, SetTo(e, x.from - 1))
CutBehind(S, e, x) == IF e.from <= x.to THEN Change(S, e, SetFrom(e, x.to + 1)) ELSE S
Split(S, e, x) == CutBefore(S, e, x) \cup {x, SetFrom(e, x.to + 1)}

\* Walking the list from its tail, id is met before other.
MetFirst(list, i, other) ==
  /\ i # other
  /\ \E n \in DOMAIN list : /\ list[n].id = i
                            /\ \A m \in n + 1 .. Len(list) : list[m].id # other

\* Mutant: the arguments of _mapref_priority_cmp swapped.
OutrankedBy(list, s, bd) == MetFirst(list, bd.ref.id, s.ref.id)

\* _mapref_priority_cmp (bank, s, bd) == 1
Outranks(list, s, bd) == MetFirst(list, s.ref.id, bd.ref.id)

-----------------------------------------------------------------------------
(* Between the calls: the table of maps, an access, and a call's return.    *)

\* io_map_new, and r_io_map_del once no bank has the map.
MapNew(i, from, to, ts) ==
  /\ pc = "idle" /\ maps[i] = NoMap
  /\ maps' = [maps EXCEPT ![i] = [from |-> from, to |-> to, ts |-> ts]]
  /\ UNCHANGED <<bank, pc, walk>>
MapFree(i) ==
  /\ pc = "idle" /\ maps[i] # NoMap /\ ~HasMap(Now, i)
  /\ maps' = [maps EXCEPT ![i] = NoMap]
  /\ UNCHANGED <<bank, pc, walk>>

\* An access ends on a node.
Access(s) == pc = "idle" /\ used' = s /\ UNCHANGED <<maps, tree, refs, drain, pc, walk>>

Begin(o, i) == pc = "idle" /\ op' = o /\ id' = i /\ found' = Now

Return ==
  /\ pc = "done"
  /\ pc' = "idle" /\ op' = "none" /\ id' = NoMap /\ found' = EmptyBank /\ old' = NoMap
  /\ at' = NoSubMap /\ sm' = NoSubMap /\ todo' = <<>> /\ prio' = 0 /\ ator' = 0
  /\ ask' = <<>> /\ answer' = NoPlace
  /\ UNCHANGED <<maps, bank>>

-----------------------------------------------------------------------------
(* A map laid on top: r_io_bank_map_add_top, r_io_bank_map_priorize.        *)

\* What the two share once x is in the tree.
Listed(o, k, x) ==
  /\ refs' = Append(IF o = "Priorize" THEN Without(refs, k) ELSE refs, x.ref)
  /\ drain' = (drain \/ o = "Priorize")
  /\ pc' = "done"

\* Node e is split, or cut where x begins, or the first of those to delete.
LayOver(o, k, e, x) ==
  /\ used' = NoSubMap /\ sm' = x
  /\ \/ /\ e.from < x.from /\ x.to < e.to
        /\ tree' = Split(tree, e, x) /\ Listed(o, k, x) /\ UNCHANGED at
     \/ /\ e.from < x.from /\ e.to <= x.to
        /\ tree' = CutBefore(tree, e, x) /\ at' = After(tree, e)
        /\ pc' = "cut" /\ UNCHANGED <<refs, drain>>
     \/ /\ x.from <= e.from
        /\ at' = e /\ pc' = "cut" /\ UNCHANGED <<tree, refs, drain>>

CallAddTop(i) ==
  LET x == SubMapOf(maps, RefOf(maps, i))
      e == Entry(tree, x)
      whole == e.to = x.to /\ e.from >= x.from
  IN /\ Begin("AddTop", i) /\ UNCHANGED <<maps, old, todo, prio, ator, ask, answer>>
     /\ \/ maps[i] = NoMap /\ pc' = "done" /\ UNCHANGED <<bank, at, sm>>
        \/ /\ maps[i] # NoMap /\ e = NoSubMap
           /\ tree' = tree \cup {x} /\ Listed("AddTop", 0, x) /\ UNCHANGED <<used, at, sm>>
        \/ /\ maps[i] # NoMap /\ e # NoSubMap /\ whole
           /\ tree' = Change(tree, e, x) /\ used' = NoSubMap
           /\ Listed("AddTop", 0, x) /\ UNCHANGED <<at, sm>>
        \/ maps[i] # NoMap /\ e # NoSubMap /\ ~whole /\ LayOver("AddTop", 0, e, x)

CallPriorize(i) ==
  LET k == Lowest(Positions(Now, i))
      x == SubMapOf(maps, refs[k])
      e == Entry(tree, x)
      below == HasMap(Now, i) /\ k # Len(refs) /\ Live(maps, refs[k]) /\ e # NoSubMap
      whole == e.from = x.from /\ e.to = x.to
  IN /\ Begin("Priorize", i) /\ UNCHANGED <<maps, old, todo, ator, ask, answer>>
     /\ \/ ~below /\ pc' = "done" /\ UNCHANGED <<bank, at, sm, prio>>
        \/ /\ below /\ whole
           /\ tree' = Change(tree, e, [e EXCEPT !.ref = x.ref]) /\ used' = NoSubMap
           /\ refs' = Append(Without(refs, k), x.ref)
           /\ pc' = "done" /\ UNCHANGED <<drain, at, sm, prio>>
        \/ below /\ ~whole /\ prio' = k /\ LayOver("Priorize", k, e, x)

\* "delete all submaps that are completly included in sm"
CutNode ==
  /\ pc = "cut" /\ at # NoSubMap /\ at.to <= sm.to
  /\ tree' = tree \ {at} /\ at' = After(tree, at)
  /\ UNCHANGED <<maps, refs, used, drain, pc, call, sm, todo, ator, answer>>

\* Then the next node is cut, and sm inserted.
CutEnd ==
  /\ pc = "cut" /\ (at # NoSubMap => at.to > sm.to)
  /\ tree' = (IF at = NoSubMap THEN tree ELSE CutBehind(tree, at, sm)) \cup {sm}
  /\ Listed(op, prio, sm)
  /\ UNCHANGED <<maps, used, walk>>

-----------------------------------------------------------------------------
(* A map laid underneath: r_io_bank_map_add_bottom.                         *)

CallAddBottom(i) ==
  LET x == SubMapOf(maps, RefOf(maps, i))
  IN /\ Begin("AddBottom", i) /\ UNCHANGED <<maps, bank, old, todo, prio, ator, ask, answer>>
     /\ \/ maps[i] = NoMap /\ pc' = "done" /\ UNCHANGED <<at, sm>>
        \/ maps[i] # NoMap /\ sm' = x /\ at' = Entry(tree, x) /\ pc' = "bottom"

\* Mutant: one address too far.
GapFilledOver(S, e, x) == IF x.from < e.from THEN S \cup {SetTo(x, e.from)} ELSE S

\* The gap before node e is filled, if there is one.
GapFilled(S, e, x) == IF x.from < e.from THEN S \cup {SetTo(x, e.from - 1)} ELSE S

BottomNode ==
  /\ pc = "bottom" /\ at # NoSubMap /\ at.from <= sm.to
  /\ tree' = GapFilled(tree, at, sm)
  /\ \/ sm.to <= at.to /\ refs' = <<sm.ref>> \o refs /\ pc' = "done" /\ UNCHANGED <<at, sm>>
     \/ /\ sm.to > at.to
        /\ sm' = SetFrom(sm, at.to + 1) /\ at' = After(tree, at) /\ UNCHANGED <<refs, pc>>
  /\ UNCHANGED <<maps, used, drain, call, todo, ator, answer>>

BottomEnd ==
  /\ pc = "bottom" /\ (at # NoSubMap => at.from > sm.to)
  /\ tree' = tree \cup {sm} /\ refs' = <<sm.ref>> \o refs /\ pc' = "done"
  /\ UNCHANGED <<maps, used, drain, walk>>

-----------------------------------------------------------------------------
(* Taking submaps out: _delete_submaps_from_bank_tree and its callers.      *)

StartWithdraw(k, x) ==
  prio' = k /\ old' = x /\ at' = Entry(tree, x) /\ todo' = <<>> /\ pc' = "enqueue"
NoWithdraw == pc' = "done" /\ UNCHANGED <<at, todo, prio>>

CallDelMap(i) ==
  /\ Begin("DelMap", i) /\ UNCHANGED <<maps, tree, refs, drain, sm, ator, ask, answer>>
  /\ \/ maps[i] = NoMap /\ NoWithdraw /\ UNCHANGED <<used, old>>
     \/ maps[i] # NoMap /\ ~HasMap(Now, i) /\ NoWithdraw /\ used' = NoSubMap /\ UNCHANGED old
     \/ /\ maps[i] # NoMap /\ HasMap(Now, i)
        /\ StartWithdraw(Highest(Positions(Now, i)), maps[i]) /\ UNCHANGED used

CallDepriorize(i) ==
  LET k == Lowest(Positions(Now, i))
      above == maps[i] # NoMap /\ HasMap(Now, i) /\ k # 1
  IN /\ Begin("Depriorize", i) /\ UNCHANGED <<maps, tree, refs, drain, sm, ator, ask, answer>>
     /\ \/ ~above /\ NoWithdraw /\ UNCHANGED <<used, old>>
        \/ above /\ StartWithdraw(k, maps[i]) /\ used' = NoSubMap

\* r_io_bank_update_map_boundaries, after map i was given another interval.
CallUpdate(i, from, to) ==
  LET k == Highest(Positions(Now, i))
      moved == /\ HasMap(Now, i) /\ Live(maps, refs[k])
               /\ ~(maps[i].from = from /\ maps[i].to = to)
  IN /\ Begin("Update", i) /\ UNCHANGED <<tree, refs, drain, sm, ator, ask, answer>>
     /\ maps[i] # NoMap
     /\ maps' = [maps EXCEPT ![i].from = from, ![i].to = to]
     /\ \/ ~moved /\ NoWithdraw /\ old' = maps[i] /\ UNCHANGED used
        \/ moved /\ StartWithdraw(k, maps[i]) /\ used' = NoSubMap

\* The first loop: the submaps of the map leave the tree for the queue.
EnqueueNode ==
  /\ pc = "enqueue" /\ at # NoSubMap /\ Overlaps(at, old)
  /\ \/ at.ref.id = id /\ todo' = Append(todo, at) /\ tree' = tree \ {at}
     \/ at.ref.id # id /\ UNCHANGED <<todo, tree>>
  /\ at' = After(tree, at)
  /\ UNCHANGED <<maps, refs, used, drain, pc, call, sm, ator, answer>>

EnqueueEnd ==
  /\ pc = "enqueue" /\ (at # NoSubMap => ~Overlaps(at, old))
  /\ at' = NoSubMap /\ pc' = "dequeue"
  /\ UNCHANGED <<maps, bank, call, sm, todo, ator, answer>>

\* The second loop: the maps below fill what each submap of the queue leaves.
Dequeue ==
  /\ pc = "dequeue" /\ todo # <<>>
  /\ sm' = Head(todo) /\ todo' = Tail(todo) /\ ator' = prio - 1 /\ pc' = "fill"
  /\ UNCHANGED <<maps, bank, call, at, answer>>

\* Where sm meets the map of a reference, bd is its submap: all over sm, over its
\* lower end, over its upper end, or inside.
FillWith(bd) ==
  /\ drain' = TRUE
  /\ \/ /\ bd.from <= sm.from /\ sm.to <= bd.to
        /\ tree' = tree \cup {SetTo(SetFrom(bd, sm.from), sm.to)}
        /\ ator' = 0 /\ UNCHANGED <<sm, todo>>
     \/ /\ bd.from <= sm.from /\ bd.to < sm.to
        /\ tree' = tree \cup {SetFrom(bd, sm.from)} /\ sm' = SetFrom(sm, bd.to + 1)
        /\ ator' = ator - 1 /\ UNCHANGED todo
     \/ /\ sm.from < bd.from /\ sm.to <= bd.to
        /\ tree' = tree \cup {SetTo(bd, sm.to)} /\ sm' = SetTo(sm, bd.from - 1)
        /\ ator' = ator - 1 /\ UNCHANGED todo
     \/ /\ sm.from < bd.from /\ bd.to < sm.to
        /\ tree' = tree \cup {bd} /\ sm' = SetTo(sm, bd.from - 1)
        /\ todo' = Append(todo, SetFrom(sm, bd.to + 1)) /\ ator' = ator - 1

\* The next reference down the list, dead, elsewhere or over a part of sm.
FillNode ==
  LET bd == SubMapOf(maps, refs[ator])
      meets == Live(maps, refs[ator]) /\ bd.from <= sm.to /\ sm.from <= bd.to
  IN /\ pc = "fill" /\ ator # 0
     /\ \/ ~meets /\ ator' = ator - 1 /\ UNCHANGED <<tree, drain, sm, todo>>
        \/ meets /\ FillWith(bd)
     /\ UNCHANGED <<maps, refs, used, pc, call, at, answer>>

FillEnd ==
  /\ pc = "fill" /\ ator = 0
  /\ pc' = "dequeue"
  /\ UNCHANGED <<maps, bank, walk>>

\* What follows the second loop in each caller.
Withdrawn(o) == pc = "dequeue" /\ todo = <<>> /\ op = o

DelMapEnd ==
  /\ Withdrawn("DelMap")
  /\ refs' = Without(refs, prio) /\ used' = NoSubMap /\ pc' = "done"
  /\ UNCHANGED <<maps, tree, drain, walk>>

DepriorizeNext ==
  /\ Withdrawn("Depriorize")
  /\ refs' = Without(refs, prio)
  /\ sm' = SubMapOf(maps, RefOf(maps, id)) /\ at' = Entry(tree, sm') /\ pc' = "bottom"
  /\ UNCHANGED <<maps, tree, used, drain, call, todo, ator, answer>>

-----------------------------------------------------------------------------
(* A map laid in between: r_io_bank_update_map_boundaries.                  *)

\* No node meets x.
UpdateAlone ==
  LET x == SubMapOf(maps, refs[prio])
  IN /\ Withdrawn("Update") /\ Entry(tree, x) = NoSubMap
     /\ tree' = tree \cup {x} /\ pc' = "done"
     /\ UNCHANGED <<maps, refs, used, drain, walk>>

\* The first node that meets x has a lower priority.
UpdateOver ==
  LET x == SubMapOf(maps, refs[prio])
      e == Entry(tree, x)
  IN /\ Withdrawn("Update") /\ e # NoSubMap /\ Outranks(refs, x, e)
     /\ drain' = TRUE /\ sm' = x
     /\ \/ /\ e.to = x.to /\ x.from <= e.from
           /\ tree' = Change(tree, e, x) /\ pc' = "done" /\ UNCHANGED at
        \/ /\ e.to = x.to /\ e.from < x.from
           /\ tree' = CutBefore(tree, e, x) \cup {x} /\ pc' = "done" /\ UNCHANGED at
        \/ /\ e.from < x.from /\ x.to < e.to
           /\ tree' = Split(tree, e, x) /\ pc' = "done" /\ UNCHANGED at
        \/ /\ e.from < x.from /\ e.to < x.to
           /\ tree' = CutBefore(tree, e, x) /\ at' = After(tree, e) /\ pc' = "update"
        \/ /\ e.to # x.to /\ x.from <= e.from
           /\ at' = e /\ pc' = "update" /\ UNCHANGED tree
     /\ UNCHANGED <<maps, refs, used, call, todo, ator, answer>>

\* It has a higher one: x is shrunk instead.
UpdateUnder ==
  LET x == SubMapOf(maps, refs[prio])
      e == Entry(tree, x)
  IN /\ Withdrawn("Update") /\ e # NoSubMap /\ ~Outranks(refs, x, e)
     /\ drain' = TRUE /\ tree' = GapFilled(tree, e, x)
     /\ \/ x.to <= e.to /\ pc' = "done" /\ UNCHANGED <<at, sm>>
        \/ /\ e.to < x.to
           /\ sm' = SetFrom(x, e.to + 1) /\ pc' = "update"
           /\ at' = IF e.from <= x.from THEN e ELSE After(tree, e)
     /\ UNCHANGED <<maps, refs, used, call, todo, ator, answer>>

\* The loop, while the node ends inside sm.
UpdateNode ==
  /\ pc = "update" /\ at # NoSubMap /\ at.to <= sm.to
  /\ \/ /\ Outranks(refs, sm, at)
        /\ tree' = tree \ {at} /\ at' = After(tree, at) /\ UNCHANGED <<sm, pc>>
     \/ /\ ~Outranks(refs, sm, at)
        /\ tree' = GapFilled(tree, at, sm)
        /\ \/ at.to = sm.to /\ pc' = "done" /\ UNCHANGED <<at, sm>>
           \/ /\ at.to # sm.to
              /\ sm' = SetFrom(sm, at.to + 1) /\ at' = After(tree, at) /\ UNCHANGED pc
  /\ UNCHANGED <<maps, refs, used, drain, call, todo, ator, answer>>

\* Behind the loop: no node is left, or one that ends after sm.
UpdateEnd ==
  /\ pc = "update" /\ (at # NoSubMap => at.to > sm.to)
  /\ \/ at = NoSubMap /\ tree' = tree \cup {sm}
     \/ at # NoSubMap /\ Outranks(refs, sm, at) /\ tree' = CutBehind(tree, at, sm) \cup {sm}
     \/ /\ at # NoSubMap /\ ~Outranks(refs, sm, at)
        /\ tree' = IF sm.from >= at.from THEN tree
                   ELSE tree \cup {IF at.from <= sm.to THEN SetTo(sm, at.from - 1) ELSE sm}
  /\ pc' = "done"
  /\ UNCHANGED <<maps, refs, used, drain, walk>>

-----------------------------------------------------------------------------
(* Merging neighbours: r_io_bank_drain.                                     *)

CallDrain ==
  /\ Begin("Drain", NoMap)
  /\ \/ ~drain /\ pc' = "done" /\ UNCHANGED <<used, at>>
     \/ drain /\ used' = NoSubMap /\ at' = First(tree) /\ pc' = "drain"
  /\ UNCHANGED <<maps, tree, refs, drain, old, sm, todo, prio, ator, ask, answer>>

DrainNode ==
  LET next == After(tree, at)
      same == next # NoSubMap /\ at.ref = next.ref
  IN /\ pc = "drain" /\ at # NoSubMap
     /\ \/ same /\ at' = SetTo(at, next.to) /\ tree' = (tree \ {at, next}) \cup {at'}
        \/ ~same /\ at' = next /\ UNCHANGED tree
     /\ UNCHANGED <<maps, refs, used, drain, pc, call, sm, todo, ator, answer>>

DrainEnd ==
  /\ pc = "drain" /\ at = NoSubMap
  /\ drain' = FALSE /\ pc' = "done"
  /\ UNCHANGED <<maps, tree, refs, used, walk>>

-----------------------------------------------------------------------------
(* Looking for a free place: r_io_bank_locate, in addresses modulo 2^64.    *)

Cyclic(a) == a % (MaxAddr + 1)

\* Mutant: an aligned address is moved on as well.
AlignUpPast(a, n) == Cyclic(a + (n - (a % n)))

AlignUp(a, n) == Cyclic(a + ((n - (a % n)) % n))

\* The nodes r_crbtree_find_node may stop at: those that meet [a, a + size), where
\* an end of 0 is the top.
Met(S, a, size) ==
  {s \in S : a <= s.to /\ (Cyclic(a + size) = 0 \/ s.from < Cyclic(a + size))}

\* The interval [a, a + size) does not fit below 2^64.
Wraps(a, size) == MaxAddr + 1 - size < a

\* The checks at the end.
Checked(a, place, size) ==
  IF place = 0 \/ Cyclic(place + size) < a \/ Wraps(place, size) THEN NoPlace ELSE place

Answered(p) == answer' = p /\ pc' = "done" /\ UNCHANGED at

CallLocate(a, size, align) ==
  LET place == AlignUp(a, align)
  IN /\ Begin("Locate", NoMap) /\ UNCHANGED <<maps, bank, old, sm, todo, prio, ator>>
     /\ ask' = [addr |-> a, size |-> size, align |-> align]
     /\ \/ Met(tree, place, size) = {} /\ Answered(place)
        \/ /\ at' \in Met(tree, place, size)
           /\ pc' = IF align = 1 THEN "byte" ELSE "aligned"
           /\ UNCHANGED answer

\* Alignment 1: the first gap behind the node, or what follows the last one.
ByteNode ==
  LET place == Cyclic(at.to + 1)
      next == After(tree, at)
      fits == ask.size <= next.from - place
  IN /\ pc = "byte" /\ UNCHANGED <<maps, bank, call, sm, todo, ator>>
     /\ \/ next = NoSubMap /\ Answered(Checked(ask.addr, place, ask.size))
        \/ next # NoSubMap /\ fits /\ Answered(place)
        \/ next # NoSubMap /\ ~fits /\ at' = next /\ UNCHANGED <<pc, answer>>

\* Other alignments: from the node met to the next aligned address behind it.  The
\* loop never ends when each place meets a node, the one at address 0 as well.
AlignedNode ==
  LET place == AlignUp(Cyclic(at.to + 1), ask.align)
      met == Met(tree, place, ask.size)
  IN /\ pc = "aligned" /\ UNCHANGED <<maps, bank, call, sm, todo, ator>>
     /\ \/ met = {} /\ Answered(Checked(ask.addr, place, ask.size))
        \/ at' \in met /\ UNCHANGED <<pc, answer>>

-----------------------------------------------------------------------------
Init ==
  /\ maps = [i \in MapIds |-> NoMap]
  /\ tree = {} /\ refs = <<>> /\ used = NoSubMap /\ drain = FALSE
  /\ pc = "idle" /\ op = "none" /\ id = NoMap /\ found = EmptyBank /\ old = NoMap
  /\ at = NoSubMap /\ sm = NoSubMap /\ todo = <<>> /\ prio = 0 /\ ator = 0
  /\ ask = <<>> /\ answer = NoPlace

Call ==
  \/ \E i \in MapIds : \/ ~HasMap(Now, i) /\ (CallAddTop(i) \/ CallAddBottom(i))
                       \/ CallPriorize(i)
                       \/ CallDepriorize(i)
                       \/ CallDelMap(i)
                       \/ \E from \in Addr : \E to \in from .. MaxAddr :
                            to - from + 1 \in Sizes /\ CallUpdate(i, from, to)
  \/ CallDrain
  \/ \E a \in Addr, size \in Sizes, align \in Aligns : CallLocate(a, size, align)

Walk ==
  \/ CutNode \/ CutEnd
  \/ BottomNode \/ BottomEnd
  \/ EnqueueNode \/ EnqueueEnd \/ Dequeue \/ FillNode \/ FillEnd
  \/ DelMapEnd \/ DepriorizeNext
  \/ UpdateAlone \/ UpdateOver \/ UpdateUnder \/ UpdateNode \/ UpdateEnd
  \/ DrainNode \/ DrainEnd
  \/ ByteNode \/ AlignedNode

Next ==
  \/ \E i \in MapIds, from \in Addr, ts \in Stamps :
       \E to \in from .. MaxAddr : to - from + 1 \in Sizes /\ MapNew(i, from, to, ts)
  \/ \E i \in MapIds : MapFree(i)
  \/ \E s \in tree : Access(s)
  \/ Call \/ Walk \/ Return

Spec == Init /\ [][Next]_vars

-----------------------------------------------------------------------------
(* A finished call that lays a map on top of the others or underneath has    *)
(* left the bank that AddTop, AddBottom or Priorize gives for what it found: *)
(* node by node it cut what is in the way, and nothing else.                 *)
AddWalksAgree ==
  pc = "done" =>
    /\ op = "AddTop" => Now = AddTop(maps, found, id)
    /\ op = "AddBottom" => Now = AddBottom(maps, found, id)
    /\ op = "Priorize" => Now = Priorize(maps, found, id)

(* Taking a map out leaves, through the todo queue and its five cases, the   *)
(* bank that DelMap or Depriorize gives: every address shows the next map    *)
(* down the list, and drain_me is set if there was one.                      *)
WithdrawWalksAgree ==
  pc = "done" =>
    /\ op = "DelMap" => Now = DelMap(maps, found, id)
    /\ op = "Depriorize" => Now = Depriorize(maps, found, id)

(* Moving a map to any interval leaves the bank that UpdateBoundaries gives, *)
(* whichever of the nodes it meets have the higher priority.                 *)
UpdateWalkAgrees ==
  pc = "done" /\ op = "Update" => Now = UpdateBoundaries(maps, found, id, old)

(* Merging neighbours one pair at a time gives the submaps of Drain.         *)
DrainWalkAgrees == pc = "done" /\ op = "Drain" => Now = Drain(found)

(* In the middle of every walk no two submaps overlap, and the node it is at *)
(* is in the tree: no insertion meets a node with its key, and none goes on  *)
(* from a node that was deleted (io_bank.c:279 "next" is taken before).      *)
WalksInTree ==
  /\ pc # "done" => at \in tree \cup {NoSubMap}
  /\ \A s, t \in tree : s # t => ~Overlaps(s, t)

(* "locates next available address for a map with given size and alignment   *)
(* starting at *addr" (io_bank.c:753): of the aligned places that no submap   *)
(* is in the way of, the lowest is found, whichever node a search stops at;   *)
(* without one, byte alignment finds none.  It is not so for a place that     *)
(* ends with the last address, which the final checks may refuse.             *)
LocateFinds ==
  pc = "done" /\ op = "Locate" =>
    LET places == {p \in ask.addr .. MaxAddr :
                     /\ p % ask.align = 0
                     /\ ~Wraps(p, ask.size)
                     /\ p .. p + ask.size - 1 \cap Covered(tree) = {}}
    IN /\ places # {} /\ Lowest(places) + ask.size <= MaxAddr => answer = Lowest(places)
       /\ places = {} /\ ask.align = 1 /\ ~Wraps(ask.addr, ask.size) => answer = NoPlace
=============================================================================
