-------------------------- MODULE IdStorageProofs --------------------------
(***************************************************************************)
(* Proofs about IdStorage, for every range of ids and every bound: ids are  *)
(* unique, none is lost, and the storage implements UniqueIds.  The         *)
(* inductive invariant says that the ids given out so far are exactly those *)
(* that wait in the queue and those in use, and that no object is above     *)
(* top_id, without which a pool could start over too early and a shrinking  *)
(* array could lose objects.                                                *)
(***************************************************************************)
EXTENDS IdStorage, NatFacts, FiniteSetTheorems, TLAPS

\* The ids given out so far: queued once, or in use once.
Partition ==
  /\ Distinct(freed) /\ Distinct(pending)
  /\ Elements(freed) \cap InUse = {}
  /\ data \cap Elements(pending) = {}
  /\ Elements(freed) \cup InUse = StartId .. next - 1

IInv ==
  /\ next \in StartId .. LastId
  /\ freed \in Seq(Nat) /\ pending \in Seq(Nat)
  /\ data \subseteq Nat
  /\ size \in Nat /\ top \in Nat
  /\ \A id \in data : id <= top
  /\ Partition
-----------------------------------------------------------------------------
(* Queues of distinct ids.                                                  *)

\* Taking the first element off a queue takes it out of its elements.
LEMMA TailElements ==
  ASSUME NEW s \in Seq(Nat), s # <<>>
  PROVE  /\ Head(s) \in Nat /\ Tail(s) \in Seq(Nat)
         /\ Elements(s) = {Head(s)} \cup Elements(Tail(s))
         /\ Distinct(s) => Distinct(Tail(s)) /\ Head(s) \notin Elements(Tail(s))
<1>1. Head(s) \in Nat /\ Tail(s) \in Seq(Nat) /\ Head(s) = s[1] /\ 1 \in DOMAIN s
  OBVIOUS
<1>2. \A k \in DOMAIN Tail(s) : k + 1 \in DOMAIN s /\ Tail(s)[k] = s[k + 1]
  OBVIOUS
<1>3. \A k \in DOMAIN s : k = 1 \/ (k - 1 \in DOMAIN Tail(s) /\ Tail(s)[k - 1] = s[k])
  OBVIOUS
<1>4. Elements(s) = {Head(s)} \cup Elements(Tail(s))
  <2>1. ASSUME NEW x \in Elements(s)
        PROVE  x \in {Head(s)} \cup Elements(Tail(s))
    <3>1. PICK k \in DOMAIN s : x = s[k]
      BY <2>1 DEF Elements
    <3>2. CASE k = 1
      BY <1>1, <3>1, <3>2
    <3>3. CASE k - 1 \in DOMAIN Tail(s) /\ Tail(s)[k - 1] = s[k]
      BY <3>1, <3>3 DEF Elements
    <3>4. QED
      BY <1>3, <3>2, <3>3
  <2>2. Head(s) \in Elements(s)
    BY <1>1 DEF Elements
  <2>3. ASSUME NEW x \in Elements(Tail(s))
        PROVE  x \in Elements(s)
    <3>1. PICK k \in DOMAIN Tail(s) : x = Tail(s)[k]
      BY <2>3 DEF Elements
    <3>2. QED
      BY <1>2, <3>1 DEF Elements
  <2>4. QED
    BY <2>1, <2>2, <2>3
<1>5. ASSUME Distinct(s)
      PROVE  Distinct(Tail(s)) /\ Head(s) \notin Elements(Tail(s))
  <2>1. \A k \in DOMAIN Tail(s) : k \in Nat /\ k >= 1
    OBVIOUS
  <2>2. Distinct(Tail(s))
    BY <1>2, <1>5, <2>1 DEF Distinct
  <2>3. Head(s) \notin Elements(Tail(s))
    BY <1>1, <1>2, <1>5, <2>1 DEF Distinct, Elements
  <2>4. QED
    BY <2>2, <2>3
<1>6. QED
  BY <1>1, <1>4, <1>5

\* Appending to a queue.
LEMMA AppendElements ==
  ASSUME NEW s \in Seq(Nat), NEW x \in Nat
  PROVE  /\ Append(s, x) \in Seq(Nat)
         /\ Elements(Append(s, x)) = Elements(s) \cup {x}
         /\ Distinct(s) /\ x \notin Elements(s) => Distinct(Append(s, x))
<1>1. /\ Append(s, x) \in Seq(Nat)
      /\ DOMAIN Append(s, x) = 1 .. Len(s) + 1 /\ DOMAIN s = 1 .. Len(s) /\ Len(s) \in Nat
      /\ Append(s, x)[Len(s) + 1] = x
      /\ \A k \in 1 .. Len(s) : Append(s, x)[k] = s[k]
  OBVIOUS
<1>2. Elements(Append(s, x)) = Elements(s) \cup {x}
  BY <1>1 DEF Elements
<1>3. Distinct(s) /\ x \notin Elements(s) => Distinct(Append(s, x))
  BY <1>1 DEF Elements, Distinct
<1>4. QED
  BY <1>1, <1>2, <1>3

\* Nothing is in an empty queue.
LEMMA NoElements == Elements(<<>>) = {} /\ Distinct(<<>>) /\ <<>> \in Seq(Nat)
BY DEF Elements, Distinct
-----------------------------------------------------------------------------
(* What the steps do to the pool.                                           *)

\* An id that is offered was not in use, and leaves the queue or the counter.
LEMMA Grabbing ==
  ASSUME IInv, CanGrab, GrabId
  PROVE  /\ Offered \in Ids /\ Offered < next' /\ next' \in StartId .. LastId
         /\ freed' \in Seq(Nat) /\ Distinct(freed')
         /\ Offered \notin Elements(freed') /\ Offered \notin InUse
         /\ Elements(freed') \cap InUse = {}
         /\ Elements(freed') \cup InUse \cup {Offered} = StartId .. next' - 1
<1> USE IdAssumption
<1>1. CASE freed # <<>>
  <2>1. Offered = Head(freed) /\ freed' = Tail(freed) /\ next' = next
    BY <1>1 DEF Offered, GrabId
  <2>2. /\ Offered \in Nat /\ freed' \in Seq(Nat) /\ Distinct(freed')
        /\ Elements(freed) = {Offered} \cup Elements(freed')
        /\ Offered \notin Elements(freed')
    BY <1>1, <2>1, TailElements DEF IInv, Partition
  <2>3. Offered \in StartId .. next - 1 /\ Offered \notin InUse
    BY <2>2 DEF IInv, Partition
  <2>4. QED
    BY <2>1, <2>2, <2>3 DEF IInv, Partition, Ids
<1>2. CASE freed = <<>>
  <2>1. Offered = next /\ freed' = freed /\ next' = next + 1 /\ next < LastId
    BY <1>2 DEF Offered, GrabId, CanGrab
  <2>2. next \notin Elements(freed) \cup InUse
    BY DEF IInv, Partition
  <2>3. StartId .. next' - 1 = (StartId .. next - 1) \cup {next}
    BY <2>1 DEF IInv
  <2>4. QED
    BY <2>1, <2>2, <2>3 DEF IInv, Partition, Ids
<1>3. QED
  BY <1>1, <1>2

\* Giving back an id that is in use, U being the others, keeps the account.
LEMMA Kicking ==
  ASSUME IInv, NEW id \in InUse, KickId(id), NEW U, U = InUse \ {id}
  PROVE  /\ next' \in StartId .. LastId
         /\ freed' \in Seq(Nat) /\ Distinct(freed')
         /\ Elements(freed') \cap U = {}
         /\ Elements(freed') \cup U = StartId .. next' - 1
<1> USE IdAssumption
<1>1. id \in StartId .. next - 1 /\ id \notin Elements(freed) /\ id \in Nat
  BY DEF IInv, Partition
<1>2. CASE id = next - 1
  <2>1. next' = next - 1 /\ freed' = freed
    BY <1>1, <1>2 DEF KickId, IInv
  <2>2. StartId .. next' - 1 = (StartId .. next - 1) \ {id}
    BY <1>1, <1>2, <2>1 DEF IInv
  <2>3. QED
    BY <1>1, <1>2, <2>1, <2>2 DEF IInv, Partition
<1>3. CASE id # next - 1
  <2>1. next' = next /\ freed' = Append(freed, id)
    BY <1>1, <1>3 DEF KickId, IInv
  <2>2. /\ freed' \in Seq(Nat) /\ Distinct(freed')
        /\ Elements(freed') = Elements(freed) \cup {id}
    BY <1>1, <2>1, AppendElements DEF IInv, Partition
  <2>3. QED
    BY <1>1, <2>1, <2>2 DEF IInv, Partition
<1>4. QED
  BY <1>2, <1>3

\* Storing an id below the counter.
LEMMA Storing ==
  ASSUME IInv, NEW id \in Nat, NEW nx \in Nat, id < nx, Store(id, nx)
  PROVE  /\ data' = data \cup {id} /\ size' \in Nat /\ top' \in Nat
         /\ \A i \in data' : i <= top'
<1>1. data' = data \cup {id} /\ top' = Raised(id)
  BY DEF Store
<1>2. PICK n \in 1 .. id + 1 : size' = Grown(n)
  BY DEF Store
<1>3. size' \in Nat
  BY <1>2, IdAssumption DEF Grown, IInv
<1>4. top' \in Nat /\ \A i \in data' : i <= top'
  BY <1>1 DEF Raised, IInv
<1>5. QED
  BY <1>1, <1>3, <1>4
-----------------------------------------------------------------------------
(* The invariant.                                                           *)

LEMMA InitIInv == Init => IInv
<1> SUFFICES ASSUME Init PROVE IInv
  OBVIOUS
<1>1. Elements(freed) = {} /\ Elements(pending) = {} /\ InUse = {}
  BY NoElements DEF Init, InUse
<1>2. StartId .. next - 1 = {}
  BY IdAssumption DEF Init
<1>3. freed = <<>> /\ pending = <<>> /\ Distinct(freed) /\ Distinct(pending)
  BY NoElements DEF Init
<1>4. Partition
  BY <1>1, <1>2, <1>3 DEF Partition
<1>5. freed \in Seq(Nat) /\ pending \in Seq(Nat)
  BY <1>3
<1>6. QED
  BY <1>4, <1>5, IdAssumption DEF Init, IInv

LEMMA AddIInv == IInv /\ Add => IInv'
<1> SUFFICES ASSUME IInv, Add PROVE IInv'
  OBVIOUS
<1>1. CASE Refused
  BY <1>1 DEF Refused, pool, array, IInv, Partition, InUse
<1>2. CASE CanGrab /\ GrabId /\ Store(Offered, next') /\ UNCHANGED pending
  <2>1. Offered \in Nat /\ next' \in Nat /\ Offered < next'
    BY <1>2, Grabbing, IdAssumption DEF Ids
  <2>2. /\ data' = data \cup {Offered} /\ size' \in Nat /\ top' \in Nat
        /\ \A i \in data' : i <= top'
    BY <1>2, <2>1, Storing
  <2>3. InUse' = InUse \cup {Offered}
    BY <1>2, <2>2 DEF InUse
  <2>4. data' \subseteq Nat /\ data' \cap Elements(pending') = {}
    BY <1>2, <2>1, <2>2, Grabbing DEF IInv, Partition, InUse
  <2>5. Partition'
    BY <1>2, <2>3, <2>4, Grabbing DEF IInv, Partition
  <2>6. QED
    BY <1>2, <2>2, <2>4, <2>5, Grabbing DEF IInv
<1>3. QED
  BY <1>1, <1>2 DEF Add

LEMMA DescNewIInv == IInv /\ DescNew => IInv'
<1> SUFFICES ASSUME IInv, DescNew PROVE IInv'
  OBVIOUS
<1>1. CASE Refused
  BY <1>1 DEF Refused, pool, array, IInv, Partition, InUse
<1>2. CASE CanGrab /\ GrabId /\ pending' = Append(pending, Offered) /\ UNCHANGED array
  <2>1. Offered \in Nat /\ Offered \notin InUse
    BY <1>2, Grabbing, IdAssumption DEF Ids
  <2>2. Offered \notin Elements(pending) /\ Offered \notin data
    BY <2>1 DEF InUse
  <2>3. /\ pending' \in Seq(Nat) /\ Distinct(pending')
        /\ Elements(pending') = Elements(pending) \cup {Offered}
    BY <1>2, <2>1, <2>2, AppendElements DEF IInv, Partition
  <2>4. InUse' = InUse \cup {Offered} /\ data' = data
    BY <1>2, <2>3 DEF InUse, array
  <2>5. data' \cap Elements(pending') = {}
    BY <2>2, <2>3, <2>4 DEF IInv, Partition
  <2>6. Partition'
    BY <1>2, <2>3, <2>4, <2>5, Grabbing DEF IInv, Partition
  <2>7. QED
    BY <1>2, <2>3, <2>6, Grabbing DEF IInv, array
<1>3. QED
  BY <1>1, <1>2 DEF DescNew

LEMMA DescAddIInv == IInv /\ DescAdd => IInv'
<1> SUFFICES ASSUME IInv, DescAdd PROVE IInv'
  OBVIOUS
<1> DEFINE id == Head(pending)
<1>1. /\ id \in Nat /\ pending' \in Seq(Nat) /\ Distinct(pending')
      /\ Elements(pending) = {id} \cup Elements(pending') /\ id \notin Elements(pending')
  BY TailElements DEF IInv, Partition, DescAdd
<1>2. id \in StartId .. next - 1 /\ next \in Nat
  BY <1>1, IdAssumption DEF IInv, Partition, InUse
<1>3. /\ data' = data \cup {id} /\ size' \in Nat /\ top' \in Nat
      /\ \A i \in data' : i <= top'
  BY <1>1, <1>2, Storing, IdAssumption DEF DescAdd, IInv
<1>4. next' = next /\ freed' = freed
  BY DEF DescAdd, pool
<1>5. InUse' = InUse
  BY <1>1, <1>3 DEF InUse
<1>6. data' \cap Elements(pending') = {}
  BY <1>1, <1>3 DEF IInv, Partition
<1>7. Partition'
  BY <1>1, <1>4, <1>5, <1>6 DEF IInv, Partition
<1>8. QED
  BY <1>1, <1>3, <1>4, <1>7 DEF IInv

\* Deleting an object takes its id out of use: the array loses no other, and an id
\* that is not queued is one the counter has stepped back over.
LEMMA Deleting ==
  ASSUME IInv, NEW id \in data, pending = <<>>, Delete(id)
  PROVE  \/ UNCHANGED <<next, freed, data, size, top, pending, answer>>
         \/ /\ data' = data \ {id} /\ pending' = pending /\ answer' = answer
            /\ size' \in Nat /\ top' \in Nat
            /\ \A i \in data' : i <= top'
            /\ next' \in StartId .. LastId
            /\ freed' \in Seq(Nat) /\ Distinct(freed')
            /\ Elements(freed') \cap data' = {}
            /\ Elements(freed') \cup data' = StartId .. next' - 1
<1> USE IdAssumption
<1> DEFINE D == data \ {id}
<1>1. pending' = pending /\ answer' = answer
  BY DEF Delete
<1>2. InUse = data /\ id \in InUse
  BY NoElements DEF InUse
<1>3. ASSUME KickId(id)
      PROVE  /\ next' \in StartId .. LastId
             /\ freed' \in Seq(Nat) /\ Distinct(freed')
             /\ Elements(freed') \cap D = {}
             /\ Elements(freed') \cup D = StartId .. next' - 1
  BY <1>2, <1>3, Kicking
<1>4. CASE size <= id
  BY <1>1, <1>4 DEF Delete, pool, array
<1>5. CASE ~(size <= id) /\ id # top
  <2>1. data' = D /\ size' = size /\ top' = top /\ KickId(id)
    BY <1>5 DEF Delete
  <2>2. size' \in Nat /\ top' \in Nat /\ \A i \in data' : i <= top'
    BY <2>1 DEF IInv
  <2>3. QED
    BY <1>1, <1>3, <2>1, <2>2
<1>6. CASE ~(size <= id) /\ id = top
  <2>1. DeleteTop(id)
    BY <1>6 DEF Delete
  <2>2. PICK t \in 0 .. top :
          /\ Descends(D, t)
          /\ top' = t
          /\ IF Empty(D, t) THEN StartOver
             ELSE /\ IF t = 0 THEN Resize(D, 2)
                     ELSE IF t + 1 < size \div 4 THEN Resize(D, size \div 2)
                     ELSE data' = D /\ size' = size
                  /\ KickId(id)
    BY <2>1 DEF DeleteTop
  <2>3. top' \in Nat /\ D \subseteq Nat /\ size \in Nat /\ t \in Nat
    BY <2>2 DEF IInv
  <2>4. \A i \in D : i <= t
    BY <2>2, <2>3 DEF Descends, IInv
  <2>5. CASE Empty(D, t)
    <3>1. D = {}
      BY <2>3, <2>4, <2>5 DEF Empty
    <3>2. data' = D /\ size' = 0 /\ next' = StartId /\ freed' = <<>>
      BY <2>2, <2>5, <3>1 DEF StartOver
    <3>3. /\ freed' \in Seq(Nat) /\ Distinct(freed') /\ Elements(freed') = {}
          /\ StartId .. next' - 1 = {}
      BY <3>2, NoElements
    <3>4. QED
      BY <1>1, <2>3, <3>1, <3>2, <3>3
  <2>6. CASE ~Empty(D, t)
    <3>1. KickId(id)
      BY <2>2, <2>6
    <3>2. data' = D /\ size' \in Nat
      <4>1. CASE t = 0
        BY <2>2, <2>3, <2>4, <2>6, <4>1 DEF Resize
      <4>2. CASE t # 0 /\ t + 1 < size \div 4
        <5>1. data' = D \cap 0 .. (size \div 2) - 1 /\ size' = size \div 2
          BY <2>2, <2>6, <4>2 DEF Resize
        <5>2. t <= (size \div 2) - 1
          BY <2>3, <4>2
        <5>3. QED
          BY <2>3, <2>4, <5>1, <5>2
      <4>3. CASE t # 0 /\ ~(t + 1 < size \div 4)
        BY <2>2, <2>3, <2>6, <4>3
      <4>4. QED
        BY <4>1, <4>2, <4>3
    <3>3. QED
      BY <1>1, <1>3, <2>2, <2>3, <2>4, <3>1, <3>2
  <2>7. QED
    BY <2>5, <2>6
<1>7. QED
  BY <1>4, <1>5, <1>6

LEMMA DeleteIInv ==
  ASSUME IInv, NEW id \in data, pending = <<>>, Delete(id)
  PROVE  IInv'
<1>1. CASE UNCHANGED <<next, freed, data, size, top, pending, answer>>
  BY <1>1 DEF IInv, Partition, InUse
<1>2. CASE /\ data' = data \ {id} /\ pending' = pending
           /\ size' \in Nat /\ top' \in Nat
           /\ \A i \in data' : i <= top'
           /\ next' \in StartId .. LastId
           /\ freed' \in Seq(Nat) /\ Distinct(freed')
           /\ Elements(freed') \cap data' = {}
           /\ Elements(freed') \cup data' = StartId .. next' - 1
  <2>1. InUse' = data' /\ Elements(pending') = {}
    BY <1>2, NoElements DEF InUse
  <2>2. Partition'
    BY <1>2, <2>1 DEF Partition, IInv
  <2>3. QED
    BY <1>2, <2>2 DEF IInv
<1>3. QED
  BY <1>1, <1>2, Deleting

LEMMA NextIInv == IInv /\ [CarefulNext]_vars => IInv'
<1>1. IInv /\ UNCHANGED vars => IInv'
  BY DEF vars, IInv, Partition, InUse
<1>2. ASSUME IInv, CarefulNext PROVE IInv'
  BY <1>2, AddIInv, DescNewIInv, DescAddIInv, DeleteIInv DEF CarefulNext
<1>3. QED
  BY <1>1, <1>2

(* What the pool's queue and counter and the objects account for is exactly   *)
(* the ids given out, and no object is above the top, in every state of every  *)
(* storage whose objects are deleted once.                                     *)
THEOREM Invariance == CarefulSpec => []IInv
BY InitIInv, NextIInv, PTL DEF CarefulSpec

(* Map ids, bank ids and file descriptors are unique: an id that waits to be   *)
(* given out again waits once and belongs to no object.                        *)
THEOREM Unique == CarefulSpec => []IdsUnique
<1>1. IInv => IdsUnique
  BY DEF IInv, Partition, IdsUnique
<1>2. QED
  BY <1>1, Invariance, PTL
-----------------------------------------------------------------------------
(* The storage implements UniqueIds.                                        *)

LEMMA AbstractInit == Init => Abstract!Init
BY NoElements DEF Init, Abstract!Init, InUse

\* A request is refused only when the counter is at its end and the queue empty.
LEMMA RefusedWhenFull ==
  ASSUME IInv, Refused
  PROVE  InUse = Ids /\ answer' = Fail /\ InUse' = InUse
<1>1. freed = <<>> /\ next = LastId
  BY IdAssumption DEF Refused, CanGrab, IInv
<1>2. InUse = Ids
  BY <1>1, NoElements DEF IInv, Partition, Ids
<1>3. QED
  BY <1>2 DEF Refused, array, InUse

LEMMA AbstractStep ==
  ASSUME IInv, CarefulNext
  PROVE  Abstract!Take \/ Abstract!GiveBack \/ UNCHANGED <<InUse, answer>>
<1>1. CASE Add
  <2>1. CASE Refused
    BY <2>1, RefusedWhenFull DEF Abstract!Take
  <2>2. CASE /\ CanGrab /\ GrabId /\ Store(Offered, next') /\ UNCHANGED pending
             /\ answer' = IF Offered < next' THEN Offered ELSE Fail
    <3>1. Offered \in Ids /\ Offered \notin InUse /\ Offered < next' /\ answer' = Offered
      BY <2>2, Grabbing
    <3>2. data' = data \cup {Offered}
      BY <2>2, <3>1, Grabbing, Storing, IdAssumption DEF Ids
    <3>3. InUse' = InUse \cup {Offered}
      BY <2>2, <3>2 DEF InUse
    <3>4. QED
      BY <3>1, <3>3 DEF Abstract!Take
  <2>3. QED
    BY <1>1, <2>1, <2>2 DEF Add
<1>2. CASE DescNew
  <2>1. CASE Refused
    BY <2>1, RefusedWhenFull DEF Abstract!Take
  <2>2. CASE /\ CanGrab /\ GrabId /\ pending' = Append(pending, Offered)
             /\ answer' = Offered /\ UNCHANGED array
    <3>1. Offered \in Ids /\ Offered \notin InUse /\ Offered \in Nat
      BY <2>2, Grabbing, IdAssumption DEF Ids
    <3>2. Elements(pending') = Elements(pending) \cup {Offered}
      BY <2>2, <3>1, AppendElements DEF IInv
    <3>3. InUse' = InUse \cup {Offered}
      BY <2>2, <3>2 DEF InUse, array
    <3>4. QED
      BY <2>2, <3>1, <3>3 DEF Abstract!Take
  <2>3. QED
    BY <1>2, <2>1, <2>2 DEF DescNew
<1>3. CASE DescAdd
  <2>1. /\ Head(pending) \in Nat
        /\ Elements(pending) = {Head(pending)} \cup Elements(pending')
    BY <1>3, TailElements DEF IInv, DescAdd
  <2>2. Head(pending) \in StartId .. next - 1 /\ next \in Nat
    BY <2>1, IdAssumption DEF IInv, Partition, InUse
  <2>3. data' = data \cup {Head(pending)}
    BY <1>3, <2>1, <2>2, Storing, IdAssumption DEF DescAdd, IInv
  <2>4. QED
    BY <1>3, <2>1, <2>3 DEF InUse, DescAdd
<1>4. ASSUME NEW id \in data, pending = <<>>, Delete(id)
      PROVE  Abstract!GiveBack \/ UNCHANGED <<InUse, answer>>
  <2>1. CASE UNCHANGED <<next, freed, data, size, top, pending, answer>>
    BY <2>1 DEF InUse
  <2>2. CASE data' = data \ {id} /\ pending' = pending /\ answer' = answer
    <3>1. InUse = data /\ InUse' = data'
      BY <1>4, <2>2, NoElements DEF InUse
    <3>2. QED
      BY <2>2, <3>1 DEF Abstract!GiveBack
  <2>3. QED
    BY <1>4, <2>1, <2>2, Deleting
<1>5. QED
  BY <1>1, <1>2, <1>3, <1>4 DEF CarefulNext

(* Whoever asks for an id gets one that nobody has, as long as there is one,   *)
(* and keeps it until it is deleted: the queue, the counter, the array and its *)
(* pools that start over are an implementation of a set of ids.                *)
THEOREM Refinement == CarefulSpec => ImplementsIds
<1>1. IInv /\ [CarefulNext]_vars => [Abstract!Take \/ Abstract!GiveBack]_<<InUse, answer>>
  <2>1. UNCHANGED vars => UNCHANGED <<InUse, answer>>
    BY DEF vars, InUse
  <2>2. QED
    BY <2>1, AbstractStep
<1>2. QED
  BY <1>1, AbstractInit, Invariance, PTL DEF CarefulSpec, ImplementsIds, Abstract!Spec
-----------------------------------------------------------------------------
(* The types.                                                               *)

\* A queue whose elements are in a set is a queue of that set.
LEMMA SeqOfElements ==
  ASSUME NEW s \in Seq(Nat), NEW A, Elements(s) \subseteq A
  PROVE  s \in Seq(A)
<1>1. Len(s) \in Nat /\ s = [k \in 1 .. Len(s) |-> s[k]] /\ \A k \in 1 .. Len(s) : s[k] \in A
  BY DEF Elements
<1>2. QED
  BY <1>1

TInv ==
  /\ IInv
  /\ size <= LastId /\ top < LastId
  /\ answer \in Ids \cup {Fail}

\* The highest object is below the last id, and so is an array grown for it.
LEMMA GrownInBounds ==
  ASSUME IInv, size <= LastId, NEW n \in Nat
  PROVE  Grown(n) \in Nat /\ Grown(n) <= LastId
BY IdAssumption DEF IInv, Grown

LEMMA StoringInBounds ==
  ASSUME TInv, NEW id \in Ids, NEW nx, Store(id, nx)
  PROVE  size' <= LastId /\ top' < LastId
<1>1. CASE id >= nx
  BY <1>1 DEF TInv, Store, array
<1>2. CASE ~(id >= nx)
  <2>1. PICK n \in 1 .. id + 1 : size' = Grown(n)
    BY <1>2 DEF Store
  <2>2. n \in Nat /\ id < LastId /\ id \in Nat
    BY IdAssumption DEF Ids
  <2>3. top' = Raised(id)
    BY <1>2 DEF Store
  <2>4. QED
    BY <2>1, <2>2, <2>3, GrownInBounds DEF TInv, Raised
<1>3. QED
  BY <1>1, <1>2

LEMMA DeletingInBounds ==
  ASSUME TInv, NEW id \in data, Delete(id)
  PROVE  size' <= LastId /\ top' < LastId
<1>1. size \in Nat /\ top \in Nat /\ size <= LastId /\ top < LastId /\ LastId \in Nat
  BY IdAssumption DEF TInv, IInv
<1>2. CASE ~(size > id /\ id = top)
  BY <1>1, <1>2 DEF Delete, array, pool, TInv, IInv
<1>3. CASE size > id /\ id = top
  <2>1. DeleteTop(id)
    BY <1>1, <1>3 DEF Delete, TInv, IInv
  <2>2. PICK t \in 0 .. top :
          /\ top' = t /\ Descends(data \ {id}, t)
          /\ IF Empty(data \ {id}, t) THEN StartOver
             ELSE IF t = 0 THEN Resize(data \ {id}, 2)
             ELSE IF t + 1 < size \div 4 THEN Resize(data \ {id}, size \div 2)
             ELSE size' = size
    BY <2>1 DEF DeleteTop
  <2>3. CASE Empty(data \ {id}, t)
    BY <1>1, <2>2, <2>3 DEF StartOver
  <2>4. CASE ~Empty(data \ {id}, t) /\ t = 0
    <3>1. 0 \in data /\ id # 0 /\ id \in Nat
      BY <2>4 DEF Empty, TInv, IInv
    <3>2. size' = 2 /\ id >= 1 /\ LastId >= 2
      BY <1>1, <1>3, <2>2, <2>4, <3>1 DEF Resize
    <3>3. QED
      BY <1>1, <2>2, <3>2
  <2>5. CASE ~Empty(data \ {id}, t) /\ t # 0
    BY <1>1, <2>2, <2>5 DEF Resize
  <2>6. QED
    BY <2>3, <2>4, <2>5
<1>4. QED
  BY <1>2, <1>3

LEMMA NextTInv == TInv /\ [CarefulNext]_vars => TInv'
<1> SUFFICES ASSUME TInv, [CarefulNext]_vars PROVE TInv'
  OBVIOUS
<1>1. IInv'
  BY NextIInv DEF TInv
<1>2. ASSUME Refused PROVE TInv'
  BY <1>1, <1>2 DEF Refused, TInv, array
<1>3. CASE Add
  <2>1. CASE /\ CanGrab /\ GrabId /\ Store(Offered, next')
             /\ answer' = IF Offered < next' THEN Offered ELSE Fail
    <3>1. Offered \in Ids
      BY <2>1, Grabbing DEF TInv
    <3>2. size' <= LastId /\ top' < LastId
      BY <2>1, <3>1, StoringInBounds
    <3>3. QED
      BY <1>1, <2>1, <3>1, <3>2 DEF TInv
  <2>2. QED
    BY <1>2, <1>3, <2>1 DEF Add
<1>4. CASE DescNew
  <2>1. CASE CanGrab /\ GrabId /\ answer' = Offered /\ UNCHANGED array
    BY <1>1, <2>1, Grabbing DEF TInv, array
  <2>2. QED
    BY <1>2, <1>4, <2>1 DEF DescNew
<1>5. CASE DescAdd
  <2>1. Head(pending) \in Elements(pending)
    BY <1>5, TailElements DEF DescAdd, TInv, IInv
  <2>2. Head(pending) \in Ids
    BY <2>1, IdAssumption DEF TInv, IInv, Partition, InUse, Ids
  <2>3. size' <= LastId /\ top' < LastId /\ answer' = answer
    BY <1>5, <2>2, StoringInBounds DEF DescAdd
  <2>4. QED
    BY <1>1, <2>3 DEF TInv
<1>6. ASSUME NEW id \in data, Delete(id) PROVE TInv'
  <2>1. answer' = answer
    BY <1>6 DEF Delete
  <2>2. QED
    BY <1>1, <1>6, <2>1, DeletingInBounds DEF TInv
<1>7. CASE UNCHANGED vars
  BY <1>1, <1>7 DEF vars, TInv
<1>8. QED
  BY <1>3, <1>4, <1>5, <1>6, <1>7 DEF CarefulNext

(* Every variable keeps its kind: ids that wait or are in use are ids of the   *)
(* pool, and the array never has more slots than there are ids.                *)
THEOREM TypeCorrect == CarefulSpec => []TypeOK
<1>1. Init => TInv
  BY InitIInv, IdAssumption DEF Init, TInv
<1>2. TInv => TypeOK
  <2> SUFFICES ASSUME TInv PROVE TypeOK
    OBVIOUS
  <2>1. Elements(freed) \subseteq Ids /\ data \subseteq Ids /\ Elements(pending) \subseteq Ids
    BY IdAssumption DEF TInv, IInv, Partition, InUse, Ids
  <2>2. freed \in Seq(Ids) /\ pending \in Seq(Ids)
    BY <2>1, SeqOfElements DEF TInv, IInv
  <2>3. QED
    BY <2>1, <2>2, IdAssumption DEF TInv, IInv, TypeOK
<1>3. QED
  BY <1>1, <1>2, NextTInv, PTL DEF CarefulSpec
-----------------------------------------------------------------------------
(* The bits of a number.                                                    *)

\* The recursive function Bit exists: each bit is twice the one before.
LEMMA BitDoubles ==
  /\ Bit \in [Nat -> Nat \ {0}]
  /\ Bit[0] = 1
  /\ \A i \in Nat : Bit[i + 1] = 2 * Bit[i]
<1> DEFINE V == Nat \ {0}
           G == [p \in V \X Nat |-> 2 * p[1]]
           one == 1
<1>1. G \in [V \X Nat -> V] /\ one \in V
  OBVIOUS
<1>2. \A v \in V, i \in Nat : G[<<v, i>>] = 2 * v
  OBVIOUS
<1> HIDE DEF G, V, one
<1>3. PICK f \in [Nat -> V] : SolvesAll(f, one, G)
  BY <1>1, SolutionExists
<1>4. ASSUME NEW i \in Nat PROVE f[i] = IF i = 0 THEN 1 ELSE 2 * f[i - 1]
  <2>1. CASE i = 0
    BY <1>3, <2>1 DEF SolvesAll, one
  <2>2. CASE i # 0
    <3>1. i - 1 \in Nat /\ i \in Nat \ {0} /\ f[i - 1] \in V
      BY <1>3, <2>2
    <3>2. QED
      BY <1>2, <1>3, <2>2, <3>1 DEF SolvesAll
  <2>3. QED
    BY <2>1, <2>2
<1>5. f = [i \in Nat |-> IF i = 0 THEN 1 ELSE 2 * f[i - 1]]
  BY <1>3, <1>4
<1>6. Bit = [i \in Nat |-> IF i = 0 THEN 1 ELSE 2 * Bit[i - 1]]
  BY <1>5 DEF Bit
<1>7. Bit[0] = 1
  BY <1>6
<1>8. \A i \in Nat : Bit[i + 1] = 2 * Bit[i]
  BY <1>6
<1>9. \A i \in Nat : Bit[i] \in Nat \ {0}
  <2> DEFINE T == {i \in Nat : Bit[i] \notin Nat \ {0}}
  <2> SUFFICES ASSUME T # {} PROVE FALSE
    OBVIOUS
  <2>1. PICK i \in T : \A j \in T : i <= j
    <3>1. T \in SUBSET Nat
      OBVIOUS
    <3> HIDE DEF T
    <3> QED BY <3>1, LeastExists
  <2>2. i \in Nat /\ Bit[i] \notin Nat \ {0}
    OBVIOUS
  <2>3. i # 0
    BY <1>7, <2>2
  <2>4. i - 1 \in Nat /\ i - 1 \notin T
    <3>1. i - 1 \in Nat /\ ~(i <= i - 1)
      BY <2>2, <2>3
    <3> HIDE DEF T
    <3> QED BY <2>1, <3>1
  <2>5. Bit[i - 1] \in Nat \ {0} /\ Bit[(i - 1) + 1] = 2 * Bit[i - 1]
    BY <1>8, <2>4
  <2>6. QED
    BY <2>2, <2>4, <2>5
<1>10. QED
  BY <1>6, <1>7, <1>8, <1>9

\* Higher bits are greater.
LEMMA BitsGrow ==
  ASSUME NEW i \in Nat, NEW j \in Nat, i <= j
  PROVE  Bit[i] <= Bit[j]
<1> DEFINE T == {k \in Nat : i <= k /\ ~(Bit[i] <= Bit[k])}
<1> SUFFICES ASSUME T # {} PROVE FALSE
  OBVIOUS
<1>1. PICK k \in T : \A l \in T : k <= l
  <2>1. T \in SUBSET Nat
    OBVIOUS
  <2> HIDE DEF T
  <2> QED BY <2>1, LeastExists
<1>2. k \in Nat /\ i <= k /\ ~(Bit[i] <= Bit[k])
  OBVIOUS
<1>3. Bit[i] \in Nat /\ Bit[k] \in Nat
  BY <1>2, BitDoubles
<1>4. i # k
  BY <1>2, <1>3
<1>5. k - 1 \in Nat /\ i <= k - 1 /\ k - 1 \notin T
  <2>1. k - 1 \in Nat /\ i <= k - 1 /\ ~(k <= k - 1)
    BY <1>2, <1>4
  <2> HIDE DEF T
  <2> QED BY <1>1, <2>1
<1>6. Bit[i] <= Bit[k - 1]
  BY <1>5
<1>7. Bit[(k - 1) + 1] = 2 * Bit[k - 1] /\ Bit[k - 1] \in Nat
  BY <1>5, BitDoubles
<1>8. QED
  BY <1>2, <1>3, <1>6, <1>7

\* Between a bit and its double there is no other.
LEMMA BitsSpread ==
  ASSUME NEW i \in Nat, NEW j \in Nat, Bit[i] < Bit[j]
  PROVE  2 * Bit[i] <= Bit[j]
<1>1. Bit[i] \in Nat /\ Bit[j] \in Nat
  BY BitDoubles
<1>2. ~(j <= i)
  BY <1>1, BitsGrow
<1>3. i + 1 \in Nat /\ i + 1 <= j
  BY <1>2
<1>4. Bit[i + 1] <= Bit[j]
  BY <1>3, BitsGrow
<1>5. QED
  BY <1>4, BitDoubles
-----------------------------------------------------------------------------
(* The array.                                                               *)

\* The last ids that the array fits: one or two below a power of two, as UT32_MAX,
\* ST32_MAX, MAX_VOYEURS and 0xfffe, or the power itself, as that of io->files, if more
\* ids lie in its upper half than are ever made and not yet stored.
Roomy(n) ==
  /\ \E i \in Nat : n = Bit[i]
  /\ MaxPending \in Nat
  /\ n \div 2 > MaxPending + 1 /\ n - StartId > MaxPending + 1

Below(n) == \E i \in Nat : n = Bit[i] - 1 \/ n = Bit[i] - 2

FittingLastId == LastId > 2 /\ (Below(LastId) \/ Roomy(LastId))

\* The lengths the array can have.
Length(n) ==
  \/ n = 0 \/ n = LastId
  \/ \E i \in Nat : n = Bit[i] \/ (n = Bit[i] - 1 /\ Below(LastId))

\* The highest id never waits in the queue, and while the descriptor that has it is
\* not stored, no id waits.
HighestLast ==
  /\ LastId - 1 \notin Elements(freed)
  /\ LastId - 1 \in Elements(pending) => freed = <<>>

AInv ==
  /\ TInv
  /\ Length(size)
  /\ data \subseteq 0 .. size - 1
  /\ top = 0 \/ top \in data
  /\ MaxPending \in Nat => Len(pending) <= MaxPending
  /\ HighestLast

\* Storing an object makes its slot, and loses none.
LEMMA GrownFits ==
  ASSUME FittingLastId, NEW s \in 0 .. LastId, Length(s), s = size,
         NEW id \in Ids, NEW n \in Nat, IsMsb(n, id + 1), n = LastId => s = LastId
  PROVE  Length(Grown(n)) /\ id < Grown(n) /\ s <= Grown(n)
<1>1. PICK i \in Nat : n = Bit[i] /\ n <= id + 1 /\ id + 1 < 2 * n
  BY DEF IsMsb
<1>2. id \in Nat /\ LastId \in Nat /\ id < LastId /\ s \in Nat /\ n > 0
  BY <1>1, BitDoubles, IdAssumption DEF Ids
<1>3. CASE n <= (s \div 2) + (s \div 4)
  <2>1. Grown(n) = s /\ n < s
    BY <1>2, <1>3 DEF Grown
  <2>2. id < s
    <3>1. CASE s = 0 \/ s = LastId
      BY <1>2, <2>1, <3>1
    <3>2. ASSUME NEW j \in Nat, s = Bit[j] \/ s = Bit[j] - 1
          PROVE  id < s
      <4>1. Bit[j] \in Nat /\ n < Bit[j]
        BY <2>1, <3>2, <1>2, BitDoubles
      <4>2. 2 * n <= Bit[j]
        BY <1>1, <4>1, BitsSpread
      <4>3. QED
        BY <1>1, <1>2, <3>2, <4>1, <4>2
    <3>3. QED
      BY <3>1, <3>2 DEF Length
  <2>3. QED
    BY <1>2, <2>1, <2>2
<1>4. CASE ~(n <= (s \div 2) + (s \div 4)) /\ 2 * n < LastId
  <2>1. Grown(n) = 2 * n
    BY <1>4 DEF Grown
  <2>2. Length(2 * n)
    BY <1>1, BitDoubles DEF Length
  <2>3. QED
    BY <1>1, <1>2, <1>4, <2>1, <2>2
<1>5. CASE ~(n <= (s \div 2) + (s \div 4)) /\ ~(2 * n < LastId)
  <2>1. Grown(n) = LastId
    BY <1>2, <1>5 DEF Grown
  <2>2. QED
    BY <1>2, <2>1 DEF Length
<1>6. QED
  BY <1>3, <1>4, <1>5

\* A queue has no more elements than its length.
LEMMA ElementsCounted ==
  ASSUME NEW s \in Seq(Nat)
  PROVE  IsFiniteSet(Elements(s)) /\ Cardinality(Elements(s)) <= Len(s)
<1>1. Len(s) \in Nat /\ DOMAIN s = 1 .. Len(s)
  OBVIOUS
<1>2. s \in Surjection(1 .. Len(s), Elements(s))
  <2>1. s \in [1 .. Len(s) -> Elements(s)]
    BY <1>1 DEF Elements
  <2>2. QED
    BY <1>1, <2>1 DEF Elements, Surjection
<1>3. IsFiniteSet(1 .. Len(s)) /\ Cardinality(1 .. Len(s)) = Len(s)
  <2>1. /\ IsFiniteSet(1 .. Len(s))
        /\ Cardinality(1 .. Len(s)) = IF 1 > Len(s) THEN 0 ELSE Len(s) - 1 + 1
    <3>1. 1 \in Int /\ Len(s) \in Int
      BY <1>1
    <3>2. QED
      BY <3>1, FS_Interval, Zenon
  <2>2. QED
    BY <1>1, <2>1
<1>4. QED
  BY <1>2, <1>3, FS_Surjection

\* Above half of a last id that is a power of two there is no other length.
LEMMA AboveHalf ==
  ASSUME Roomy(LastId), NEW s \in 0 .. LastId, Length(s), LastId \div 2 < s
  PROVE  s = LastId
<1>1. PICK i \in Nat : LastId = Bit[i]
  BY DEF Roomy
<1>2. LastId \in Nat /\ LastId > 2 /\ s \in Nat
  BY IdAssumption DEF Roomy
<1>3. ASSUME NEW j \in Nat
      PROVE  /\ Bit[j] \in Nat /\ (Bit[j] < LastId => 2 * Bit[j] <= LastId)
             /\ (LastId < Bit[j] => 2 * LastId <= Bit[j])
  BY <1>1, BitDoubles, BitsSpread
<1>4. ~Below(LastId)
  BY <1>2, <1>3 DEF Below
<1>5. PICK j \in Nat : s = 0 \/ s = LastId \/ s = Bit[j]
  BY <1>4 DEF Length
<1>6. QED
  BY <1>2, <1>3, <1>5

\* When the highest of the ids is stored, an id of the upper half is in the array,
\* unless all those are still to be stored.
LEMMA HighestFits ==
  ASSUME Roomy(LastId), AInv, freed = <<>>, StartId .. LastId - 2 \subseteq InUse
  PROVE  size = LastId
<1> DEFINE half == LastId \div 2
           low == IF StartId < half THEN half ELSE StartId
<1>1. /\ LastId \in Nat /\ StartId \in Nat /\ half \in Nat /\ low \in Nat
      /\ MaxPending \in Nat /\ half > MaxPending + 1 /\ LastId - StartId > MaxPending + 1
      /\ 2 * half <= LastId
  BY IdAssumption DEF Roomy
<1>2. low >= half /\ low >= StartId /\ (LastId - 2) - low + 1 > MaxPending /\ low <= LastId - 2
  BY <1>1
<1> HIDE DEF low, half
<1>3. Cardinality(low .. LastId - 2) > MaxPending
  <2>1. Cardinality(low .. LastId - 2) = (LastId - 2) - low + 1
    BY <1>1, <1>2, FS_Interval
  <2>2. QED
    BY <1>2, <2>1
<1>4. /\ IsFiniteSet(Elements(pending)) /\ Cardinality(Elements(pending)) <= MaxPending
      /\ Cardinality(Elements(pending)) \in Nat
  <2>1. pending \in Seq(Nat) /\ Len(pending) \in Nat /\ Len(pending) <= MaxPending
    BY <1>1 DEF AInv, TInv, IInv
  <2>2. IsFiniteSet(Elements(pending)) /\ Cardinality(Elements(pending)) <= Len(pending)
    BY <2>1, ElementsCounted
  <2>3. Cardinality(Elements(pending)) \in Nat
    BY <2>2, FS_CardinalityType
  <2>4. QED
    BY <1>1, <2>1, <2>2, <2>3
<1>5. ~(low .. LastId - 2 \subseteq Elements(pending))
  <2> SUFFICES ASSUME low .. LastId - 2 \subseteq Elements(pending) PROVE FALSE
    OBVIOUS
  <2>1. Cardinality(low .. LastId - 2) <= Cardinality(Elements(pending))
    BY <1>4, FS_Subset
  <2>2. Cardinality(low .. LastId - 2) \in Nat
    BY <1>1, <1>2, FS_Interval
  <2>3. QED
    BY <1>1, <1>3, <1>4, <2>1, <2>2
<1>6. PICK h \in low .. LastId - 2 : h \in data
  <2>1. low .. LastId - 2 \subseteq StartId .. LastId - 2
    BY <1>1, <1>2
  <2>2. QED
    BY <1>5, <2>1 DEF InUse
<1>7. size \in 0 .. LastId /\ half < size
  BY <1>1, <1>2, <1>6 DEF AInv, TInv, IInv
<1>8. QED
  BY <1>7, AboveHalf DEF AInv, half

LEMMA StoringFits ==
  ASSUME FittingLastId, AInv, NEW id \in Ids, NEW nx, id < nx, nx \in Nat, Store(id, nx),
         id = LastId - 1 => freed = <<>> /\ StartId .. LastId - 2 \subseteq InUse
  PROVE  /\ Length(size') /\ data' \subseteq 0 .. size' - 1
         /\ top' = 0 \/ top' \in data'
<1>1. data' = data \cup {id} /\ top' = Raised(id) /\ id \in Nat
  BY IdAssumption DEF Store, Ids
<1>2. PICK n \in 1 .. id + 1 : IsMsb(n, id + 1) /\ size' = Grown(n)
  BY <1>1 DEF Store
<1>3. size \in 0 .. LastId
  BY IdAssumption DEF AInv, TInv, IInv
<1>4. Length(size') /\ id < size' /\ size <= size'
  <2>1. n \in Nat /\ (n = LastId => size = LastId)
    <3>1. n \in Nat /\ LastId \in Nat /\ id < LastId
      BY <1>1, <1>2, IdAssumption DEF Ids
    <3>2. CASE Below(LastId)
      <4>1. PICK i, j \in Nat : n = Bit[i] /\ (LastId = Bit[j] - 1 \/ LastId = Bit[j] - 2)
        BY <1>2, <3>1, <3>2 DEF IsMsb, Below
      <4>2. Bit[j] \in Nat /\ (n < Bit[j] => 2 * n <= Bit[j])
        BY <4>1, BitDoubles, BitsSpread
      <4>3. QED
        BY <3>1, <4>1, <4>2 DEF FittingLastId
    <3>3. CASE Roomy(LastId) /\ n = LastId
      <4>1. id = LastId - 1
        BY <1>1, <1>2, <3>1, <3>3 DEF IsMsb
      <4>2. QED
        BY <3>1, <3>3, <4>1, HighestFits
    <3>4. QED
      BY <3>1, <3>2, <3>3 DEF FittingLastId
  <2>2. QED
    BY <1>1, <1>2, <1>3, <2>1, GrownFits DEF AInv
<1>5. size' \in Nat
  BY <1>1, <1>2, IdAssumption, GrownInBounds DEF AInv, TInv
<1>6. ASSUME NEW x \in data' PROVE x \in 0 .. size' - 1
  <2>1. x = id \/ x \in 0 .. size - 1
    BY <1>1 DEF AInv
  <2>2. QED
    BY <1>1, <1>3, <1>4, <1>5, <2>1
<1>7. QED
  BY <1>1, <1>4, <1>6 DEF Raised, AInv

\* Half of a length is a length.
LEMMA HalfFits ==
  ASSUME FittingLastId, NEW s \in Nat, Length(s), s > 3
  PROVE  Length(s \div 2)
<1>1. PICK i \in Nat : s = Bit[i] \/ (Below(LastId) /\ (s = Bit[i] - 1 \/ s = Bit[i] - 2))
  BY DEF Length, FittingLastId, Roomy, Below
<1>2. Bit[i] \in Nat /\ Bit[i] > 3
  BY <1>1, BitDoubles
<1>3. i # 0
  BY <1>2, BitDoubles
<1>4. i - 1 \in Nat /\ Bit[(i - 1) + 1] = 2 * Bit[i - 1] /\ Bit[i - 1] \in Nat
  BY <1>3, BitDoubles
<1>5. s \div 2 = Bit[i - 1] \/ (Below(LastId) /\ s \div 2 = Bit[i - 1] - 1)
  BY <1>1, <1>2, <1>4
<1>6. QED
  BY <1>4, <1>5 DEF Length

LEMMA DeletingFits ==
  ASSUME FittingLastId, AInv, NEW id \in data, Delete(id)
  PROVE  /\ Length(size') /\ data' \subseteq 0 .. size' - 1
         /\ top' = 0 \/ top' \in data'
<1>1. size \in Nat /\ top \in Nat /\ id \in Nat /\ id < size /\ data \subseteq Nat
      /\ \A i \in data : i <= top
  BY DEF AInv, TInv, IInv
<1>2. CASE id # top
  <2>1. data' = data \ {id} /\ size' = size /\ top' = top
    BY <1>1, <1>2 DEF Delete
  <2>2. Length(size') /\ data' \subseteq 0 .. size' - 1
    BY <2>1 DEF AInv
  <2>3. top' = 0 \/ top' \in data'
    BY <1>2, <2>1 DEF AInv
  <2>4. QED
    BY <2>2, <2>3
<1>3. CASE id = top
  <2> DEFINE D == data \ {id}
  <2>1. PICK t \in 0 .. top :
          /\ Descends(D, t) /\ top' = t
          /\ IF Empty(D, t) THEN StartOver
             ELSE IF t = 0 THEN Resize(D, 2)
             ELSE IF t + 1 < size \div 4 THEN Resize(D, size \div 2)
             ELSE data' = D /\ size' = size
    <3>1. ~(size <= id)
      BY <1>1
    <3>2. DeleteTop(id)
      BY <1>3, <3>1 DEF Delete
    <3>3. QED
      BY <3>2 DEF DeleteTop
  <2>2. \A i \in D : i <= t
    BY <1>1, <2>1 DEF Descends
  <2>3. t \in Nat /\ (t = 0 \/ t \in D) /\ D \subseteq data
    BY <1>1, <2>1 DEF Descends
  <2> HIDE DEF D
  <2>4. CASE Empty(D, t)
    BY <2>1, <2>3, <2>4 DEF StartOver, Empty, Length
  <2>5. CASE ~Empty(D, t) /\ t = 0
    <3>1. size' = 2 /\ data' = D \cap 0 .. 1
      BY <2>1, <2>5 DEF Resize
    <3>2. Bit[0 + 1] = 2
      BY BitDoubles
    <3>3. Length(2)
      BY <3>2 DEF Length
    <3>4. QED
      BY <2>1, <2>5, <3>1, <3>3
  <2>6. CASE ~Empty(D, t) /\ t # 0 /\ t + 1 < size \div 4
    <3>1. size' = size \div 2 /\ data' = D \cap 0 .. (size \div 2) - 1
      BY <2>1, <2>6 DEF Resize
    <3>2. size > 3 /\ t <= (size \div 2) - 1
      BY <1>1, <2>3, <2>6
    <3>3. Length(size')
      BY <1>1, <3>1, <3>2, HalfFits DEF AInv
    <3>4. QED
      BY <1>1, <2>1, <2>3, <3>1, <3>2, <3>3
  <2>7. CASE ~Empty(D, t) /\ t # 0 /\ ~(t + 1 < size \div 4)
    BY <2>1, <2>3, <2>7 DEF AInv
  <2>8. QED
    BY <2>4, <2>5, <2>6, <2>7
<1>4. QED
  BY <1>2, <1>3

\* What a step does to the queues, as far as the highest id is concerned.
LEMMA NextHighest ==
  ASSUME AInv, [CarefulNext]_vars
  PROVE  (MaxPending \in Nat => Len(pending') <= MaxPending) /\ HighestLast'
<1> DEFINE Bounded == MaxPending \in Nat => Len(pending) <= MaxPending
<1>1. /\ IInv /\ LastId \in Nat /\ StartId \in Nat /\ next \in Nat /\ next <= LastId
      /\ freed \in Seq(Nat) /\ pending \in Seq(Nat) /\ Bounded /\ HighestLast
  BY IdAssumption DEF AInv, TInv, IInv
<1>2. ASSUME UNCHANGED <<freed, pending>> PROVE Bounded' /\ HighestLast'
  BY <1>1, <1>2 DEF HighestLast, Elements
<1>3. ASSUME CanGrab, GrabId
      PROVE  LastId - 1 \notin Elements(freed') /\ (freed = <<>> => freed' = <<>>)
             /\ (Offered = LastId - 1 => freed' = <<>>)
  <2>1. CASE freed # <<>>
    <3>1. Elements(freed) = {Head(freed)} \cup Elements(Tail(freed))
      BY <1>1, <2>1, TailElements
    <3>2. QED
      BY <1>1, <1>3, <2>1, <3>1 DEF GrabId, Offered, HighestLast
  <2>2. CASE freed = <<>>
    BY <1>1, <1>3, <2>2, NoElements DEF GrabId
  <2>3. QED
    BY <2>1, <2>2
<1>4. CASE Add
  <2>1. CASE CanGrab /\ GrabId /\ UNCHANGED pending
    BY <1>1, <1>3, <2>1 DEF HighestLast
  <2>2. QED
    BY <1>2, <1>4, <2>1 DEF Add, Refused, pool
<1>5. CASE DescNew
  <2>1. CASE CanGrab /\ GrabId /\ pending' = Append(pending, Offered)
    <3>1. Offered \in Nat
      BY <1>1, <2>1, Grabbing DEF Ids
    <3>2. Elements(pending') = Elements(pending) \cup {Offered} /\ Len(pending') = Len(pending) + 1
          /\ Len(pending) \in Nat
      BY <1>1, <2>1, <3>1, AppendElements
    <3>3. Len(pending) < MaxPending
      BY <1>5 DEF DescNew
    <3>4. QED
      BY <1>1, <1>3, <2>1, <3>2, <3>3 DEF HighestLast
  <2>2. QED
    BY <1>2, <1>5, <2>1 DEF DescNew, Refused, pool
<1>6. CASE DescAdd
  <2>1. pending # <<>> /\ pending' = Tail(pending) /\ freed' = freed
    BY <1>6 DEF DescAdd, pool
  <2>2. Elements(pending') \subseteq Elements(pending) /\ Len(pending') = Len(pending) - 1
        /\ Len(pending) \in Nat
    BY <1>1, <2>1, TailElements
  <2>3. QED
    BY <1>1, <2>1, <2>2 DEF HighestLast
<1>7. ASSUME NEW id \in data, pending = <<>>, Delete(id) PROVE Bounded' /\ HighestLast'
  <2>1. pending' = <<>> /\ Elements(pending') = {}
    BY <1>7, NoElements DEF Delete
  <2>2. id \in Nat /\ id < next
    BY <1>1 DEF IInv, Partition, InUse
  <2>3. LastId - 1 \notin Elements(freed')
    <3>1. freed' = freed \/ freed' = <<>> \/ (id # next - 1 /\ freed' = Append(freed, id))
      BY <1>7, <2>2 DEF Delete, DeleteTop, KickId, StartOver, pool
    <3>2. CASE id # next - 1 /\ freed' = Append(freed, id)
      <4>1. id # LastId - 1 /\ Elements(freed') = Elements(freed) \cup {id}
        BY <1>1, <2>2, <3>2, AppendElements
      <4>2. QED
        BY <1>1, <4>1 DEF HighestLast
    <3>3. QED
      BY <1>1, <3>1, <3>2, NoElements DEF HighestLast
  <2>4. QED
    BY <1>1, <1>7, <2>1, <2>3 DEF HighestLast
<1>8. CASE UNCHANGED vars
  BY <1>2, <1>8 DEF vars
<1>9. QED
  BY <1>4, <1>5, <1>6, <1>7, <1>8 DEF CarefulNext

LEMMA NextAInv == FittingLastId /\ AInv /\ [CarefulNext]_vars => AInv'
<1> SUFFICES ASSUME FittingLastId, AInv, [CarefulNext]_vars PROVE AInv'
  OBVIOUS
<1>1. TInv'
  BY NextTInv DEF AInv
<1> DEFINE Queues == (MaxPending \in Nat => Len(pending) <= MaxPending) /\ HighestLast
<1>0. Queues'
  BY NextHighest
<1> HIDE DEF Queues
<1>2. ASSUME UNCHANGED array PROVE AInv'
  BY <1>0, <1>1, <1>2 DEF array, AInv, Queues
<1>3. CASE Add
  <2>1. CASE CanGrab /\ GrabId /\ Store(Offered, next')
    <3>1. Offered \in Ids /\ Offered < next' /\ next' \in Nat
      BY <2>1, Grabbing, IdAssumption DEF AInv, TInv
    <3>2. ASSUME Offered = LastId - 1
          PROVE  freed = <<>> /\ StartId .. LastId - 2 \subseteq InUse
      <4>1. freed = <<>>
        <5>1. freed # <<>> => Head(freed) \in Elements(freed)
          BY TailElements DEF AInv, TInv, IInv
        <5>2. QED
          BY <3>2, <5>1 DEF Offered, AInv, HighestLast
      <4>2. Elements(freed) = {} /\ next = LastId - 1
        BY <3>2, <4>1, NoElements DEF Offered
      <4>3. InUse = StartId .. (LastId - 1) - 1
        BY <4>2 DEF AInv, TInv, IInv, Partition
      <4>4. (LastId - 1) - 1 = LastId - 2
        BY IdAssumption
      <4>5. QED
        BY <4>1, <4>3, <4>4
    <3>3. QED
      BY <1>0, <1>1, <2>1, <3>1, <3>2, StoringFits DEF AInv, Queues
  <2>2. QED
    BY <1>2, <1>3, <2>1 DEF Add, Refused
<1>4. CASE DescNew
  BY <1>2, <1>4 DEF DescNew, Refused
<1>5. CASE DescAdd
  <2>1. Head(pending) \in Elements(pending)
    BY <1>5, TailElements DEF DescAdd, AInv, TInv, IInv
  <2>2. Head(pending) \in Ids /\ Head(pending) < next /\ next \in Nat
    BY <2>1, IdAssumption DEF AInv, TInv, IInv, Partition, InUse, Ids
  <2>3. ASSUME Head(pending) = LastId - 1
        PROVE  freed = <<>> /\ StartId .. LastId - 2 \subseteq InUse
    <3>1. freed = <<>>
      BY <2>1, <2>3 DEF AInv, HighestLast
    <3>2. InUse = StartId .. next - 1
      BY <3>1, NoElements DEF AInv, TInv, IInv, Partition
    <3>3. next >= LastId
      BY <2>2, <2>3, IdAssumption
    <3>4. QED
      BY <2>2, <3>1, <3>2, <3>3, IdAssumption
  <2>4. QED
    BY <1>0, <1>1, <1>5, <2>2, <2>3, StoringFits DEF DescAdd, AInv, Queues
<1>6. ASSUME NEW id \in data, Delete(id) PROVE AInv'
  BY <1>0, <1>1, <1>6, DeletingFits DEF AInv, Queues
<1>7. CASE UNCHANGED vars
  BY <1>2, <1>7 DEF vars, array
<1>8. QED
  BY <1>3, <1>4, <1>5, <1>6, <1>7 DEF CarefulNext

LEMMA ArrayInvariance == FittingLastId => (CarefulSpec => []AInv)
<1> SUFFICES ASSUME FittingLastId PROVE CarefulSpec => []AInv
  OBVIOUS
<1>1. Init => AInv
  BY InitIInv, NoElements, IdAssumption DEF Init, TInv, AInv, Length, HighestLast
<1>2. AInv /\ [CarefulNext]_vars => AInv'
  BY NextAInv
<1>3. QED
  BY <1>1, <1>2, PTL DEF CarefulSpec

(* The array is never written past its end: growing by three quarters and     *)
(* halving keep every object's slot inside, for the last ids that the callers  *)
(* of r_id_storage_init use.                                                   *)
THEOREM InsideArray == FittingLastId => (CarefulSpec => []InArray)
<1>1. AInv => InArray
  BY DEF AInv, InArray
<1>2. QED
  BY <1>1, ArrayInvariance, PTL

(* A walk up to top_id reaches every object and no slot outside the array.     *)
THEOREM ForeachReaches == FittingLastId => (CarefulSpec => []ForeachVisitsAll)
<1>1. AInv => ForeachVisitsAll
  BY DEF AInv, TInv, IInv, ForeachVisitsAll
<1>2. QED
  BY <1>1, ArrayInvariance, PTL
=============================================================================
