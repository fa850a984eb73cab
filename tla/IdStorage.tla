----------------------------- MODULE IdStorage -----------------------------
(***************************************************************************)
(* RIDStorage and the RIDPool in it (src/libr/util/idpool.c): the array of  *)
(* numbered objects that RIO keeps its maps, banks and files in, and ESIL   *)
(* its voyeurs.                                                             *)
(*                                                                          *)
(* An id comes from the queue of freed ids or, when that is empty, from the *)
(* counter next.  The array grows and shrinks with the highest id in use,   *)
(* and an empty storage starts over with a new pool.  Objects are stored in *)
(* one step with their id (r_id_storage_add) or in two (r_io_desc_new, then *)
(* r_io_desc_add, with several descriptors in between in r_io_open_many).   *)
(*                                                                          *)
(* The array is the set of the ids whose slot is not NULL; a write past its *)
(* end puts an id outside 0 .. size - 1 into that set (see InArray).        *)
(* Allocations do not fail.                                                 *)
(***************************************************************************)
EXTENDS Integers, Sequences

CONSTANTS
  StartId,      \* start_id, the first id
  LastId,       \* last_id, one more than the highest id
  MaxFreed,     \* bound on the length of the queue of freed ids
  MaxPending,   \* bound on the number of ids grabbed and not yet stored
  Fail          \* the answer of an operation that returns false

ASSUME IdAssumption == StartId \in Nat /\ LastId \in Nat /\ StartId < LastId
ASSUME FailAssumption == Fail \notin Nat

Ids == StartId .. LastId - 1

VARIABLES
  next,         \* pool->next_id
  freed,        \* pool->freed_ids, empty for NULL
  data,         \* the ids whose slot of the array holds an object
  size,         \* the length of the array
  top,          \* top_id
  pending,      \* the ids of descriptors that are made and not yet added
  answer        \* the id the last request got, or Fail

pool == <<next, freed>>
array == <<data, size, top>>
vars == <<next, freed, data, size, top, pending, answer>>

Elements(s) == {s[k] : k \in DOMAIN s}
InUse == data \cup Elements(pending)
-----------------------------------------------------------------------------
(* The pool.                                                                *)

\* Mutant: the last id of the pool is one too many.
CanGrabLate == freed # <<>> \/ next <= LastId

CanGrab == freed # <<>> \/ next < LastId

Offered == IF freed # <<>> THEN Head(freed) ELSE next

GrabId ==
  IF freed # <<>> THEN freed' = Tail(freed) /\ next' = next
                  ELSE freed' = freed /\ next' = next + 1

\* Mutant: a highest id that is given back is queued as well.
KickIdTwice(id) ==
  IF id < StartId \/ StartId = next THEN UNCHANGED pool
  ELSE IF id = next - 1 THEN next' = next - 1 /\ freed' = Append(freed, id)
  ELSE next' = next /\ freed' = Append(freed, id)

KickId(id) ==
  IF id < StartId \/ StartId = next THEN UNCHANGED pool
  ELSE IF id = next - 1 THEN next' = next - 1 /\ freed' = freed
  ELSE next' = next /\ freed' = Append(freed, id)
-----------------------------------------------------------------------------
(* The array.                                                               *)

\* 1U << i
Bit[i \in Nat] == IF i = 0 THEN 1 ELSE 2 * Bit[i - 1]

\* get_msb: n is the highest bit set in v.
IsMsb(n, v) == n <= v /\ v < 2 * n /\ \E i \in 0 .. n : n = Bit[i]

\* Mutant: the array is taken to be long enough until the power of two is past it.
GrownLate(n) ==
  IF n <= size THEN size
  ELSE IF 2 * n < LastId THEN 2 * n
  ELSE IF n # LastId THEN LastId
  ELSE size

\* The length of the array when an id is stored, n being the highest bit of id + 1.
Grown(n) ==
  IF n <= (size \div 2) + (size \div 4) THEN size
  ELSE IF 2 * n < LastId THEN 2 * n
  ELSE IF n # LastId THEN LastId
  ELSE size

\* Mutant: the top follows the last id stored.
RaisedAlways(id) == id

Raised(id) == IF id > top THEN id ELSE top

\* r_id_storage_set, with nx the counter of the pool: nothing for an id it never gave.
Store(id, nx) ==
  IF id >= nx THEN UNCHANGED array
  ELSE /\ data' = data \cup {id}
       /\ \E n \in 1 .. id + 1 : IsMsb(n, id + 1) /\ size' = Grown(n)
       /\ top' = Raised(id)

\* The array cut to n slots.
Resize(D, n) == data' = D \cap 0 .. n - 1 /\ size' = n

\* The walk down from the top to the first slot that is set, or to 0.
Descends(D, t) ==
  /\ t \in 0 .. top
  /\ t = 0 \/ t \in D
  /\ \A u \in t + 1 .. top : u \notin D

\* Mutant: an object at 0 is not looked at.
EmptyAtZero(D, t) == t = 0

\* The walk found nothing.
Empty(D, t) == t = 0 /\ 0 \notin D
-----------------------------------------------------------------------------
(* The operations.                                                          *)

Init ==
  /\ next = StartId
  /\ freed = <<>>
  /\ data = {} /\ size = 0 /\ top = 0
  /\ pending = <<>>
  /\ answer = Fail

Refused == ~CanGrab /\ answer' = Fail /\ UNCHANGED <<pool, array, pending>>

Add ==
  \/ Refused
  \/ /\ CanGrab
     /\ GrabId
     /\ Store(Offered, next')
     /\ answer' = IF Offered < next' THEN Offered ELSE Fail
     /\ UNCHANGED pending

DescNew ==
  /\ Len(pending) < MaxPending
  /\ \/ Refused
     \/ /\ CanGrab
        /\ GrabId
        /\ pending' = Append(pending, Offered)
        /\ answer' = Offered
        /\ UNCHANGED array

DescAdd ==
  /\ pending # <<>>
  /\ Store(Head(pending), next)
  /\ pending' = Tail(pending)
  /\ UNCHANGED <<pool, answer>>

StartOver ==
  /\ data' = {} /\ size' = 0
  /\ next' = StartId /\ freed' = <<>>

\* Deleting the object with the highest id: the array may shrink, and the pool of an
\* empty storage is made anew.
DeleteTop(id) ==
  LET D == data \ {id}
  IN  \E t \in 0 .. top :
        /\ Descends(D, t)
        /\ top' = t
        /\ IF Empty(D, t) THEN StartOver
           ELSE /\ IF t = 0 THEN Resize(D, 2)
                   ELSE IF t + 1 < size \div 4 THEN Resize(D, size \div 2)
                   ELSE data' = D /\ size' = size
                /\ KickId(id)

Delete(id) ==
  /\ Len(freed) < MaxFreed
  /\ UNCHANGED <<pending, answer>>
  /\ IF size <= id THEN UNCHANGED <<pool, array>>
     ELSE IF id = top THEN DeleteTop(id)
     ELSE data' = data \ {id} /\ UNCHANGED <<size, top>> /\ KickId(id)

\* What the code can be made to do: "omb-" passes on any number.
Next == Add \/ DescNew \/ DescAdd \/ \E id \in 0 .. LastId : Delete(id)

Spec == Init /\ [][Next]_vars

\* Objects are deleted once, and not while a descriptor is between its making and
\* its adding.
CarefulNext ==
  \/ Add \/ DescNew \/ DescAdd
  \/ \E id \in data : pending = <<>> /\ Delete(id)

CarefulSpec == Init /\ [][CarefulNext]_vars
-----------------------------------------------------------------------------
(* Properties.                                                              *)

TypeOK ==
  /\ next \in StartId .. LastId
  /\ freed \in Seq(Ids) /\ pending \in Seq(Ids)
  /\ data \subseteq Ids
  /\ size \in 0 .. LastId
  /\ top \in 0 .. LastId - 1
  /\ answer \in Ids \cup {Fail}

Distinct(s) == \A j, k \in DOMAIN s : s[j] = s[k] => j = k

(* "Every map has a mapid which is a unique identifier" (doc/siol.md): an id   *)
(* that waits to be given out again waits once, belongs to no object, and was   *)
(* given out before, across shrinking arrays and pools that start over.        *)
IdsUnique ==
  /\ Distinct(freed) /\ Distinct(pending)
  /\ Elements(freed) \cap InUse = {}
  /\ data \cap Elements(pending) = {}
  /\ \A id \in Elements(freed) \cup InUse : id \in StartId .. next - 1

(* Every object is inside the array: the test for growing by three quarters,  *)
(* with sizes that are powers of two or last_id halved, never leaves a slot    *)
(* that is written past the end, and shrinking loses no object.               *)
InArray == data \subseteq 0 .. size - 1

(* r_id_storage_foreach, which stops at top_id and reads that slot unchecked,  *)
(* reaches every object and reads no slot that is not there: r_io_map_fini,    *)
(* r_io_bank_fini and r_io_desc_fini free what it visits.                      *)
ForeachVisitsAll ==
  /\ \A id \in data : id <= top
  /\ size > 0 => top < size

Abstract == INSTANCE UniqueIds WITH taken <- InUse

(* An id is given out only when nobody has it, and refused only when all are   *)
(* in use: no id is lost in the queue, the counter or a pool that starts over. *)
ImplementsIds == Abstract!Spec
=============================================================================
