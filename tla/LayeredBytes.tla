---------------------------- MODULE LayeredBytes ----------------------------
(***************************************************************************)
(* What the write cache of an I/O stack promises: a stack of layers of      *)
(* bytes over a file.  Each layer holds a byte at some addresses; a reader  *)
(* of an address gets the byte of the highest layer that has one there, and *)
(* the byte of the file otherwise.  The i-th byte of the k-th write is      *)
(* <<k, i>>, so that no two bytes ever written are alike.  A layer also     *)
(* knows what its writes found at their addresses, to take them back with.  *)
(***************************************************************************)
EXTENDS Integers, Sequences

CONSTANTS MaxAddr, MaxWrites,
  Writable,  \* whether the file takes the bytes of a write that is taken back
  Sizes,     \* the sizes of the writes
  Ranges     \* the intervals <<first, last>> that are given up or sent down

Addrs == 0 .. MaxAddr
Byte == (0 .. MaxWrites) \X Addrs

VARIABLES
  bytes,     \* the file below the layers
  over,      \* the layers, the bottom one first: partial functions on Addrs
  count,     \* how many writes there were
  found      \* what the writes of each layer found: the k-th one the byte b at a, for
             \* each <<k, a, b>>

vars == <<bytes, over, count, found>>

Empty == [a \in {} |-> <<0, 0>>]

\* The function f where it is defined, g elsewhere.
On(f, g) == [a \in DOMAIN f \cup DOMAIN g |-> IF a \in DOMAIN f THEN f[a] ELSE g[a]]
Without(f, A) == [a \in DOMAIN f \ A |-> f[a]]
Drop(ls, A) == [n \in DOMAIN ls |-> Without(ls[n], A)]

\* The layers know no more than f says.
KnowAtMost(f) == DOMAIN found' = DOMAIN f /\ \A n \in DOMAIN f : found'[n] \subseteq f[n]

\* The bytes that the lowest n layers show over the file.
Shown(n) ==
  [a \in Addrs |->
     LET has == {k \in 1 .. n : a \in DOMAIN over[k]}
     IN  IF has = {} THEN bytes[a] ELSE over[CHOOSE k \in has : \A j \in has : j <= k][a]]

View == Shown(Len(over))

Init ==
  /\ bytes = [a \in Addrs |-> <<0, a>>]
  /\ over = <<Empty>>
  /\ count = 0
  /\ found = <<{}>>

\* The next write, of len bytes from addr on and round the end of the space.
Written(addr, len) ==
  [a \in {(addr + i) % (MaxAddr + 1) : i \in 0 .. len - 1} |->
     <<count + 1, (a - addr) % (MaxAddr + 1)>>]

Put(addr, len) ==
  /\ over # <<>>
  /\ count' = count + 1
  /\ UNCHANGED bytes
  /\ over' = [over EXCEPT ![Len(over)] = On(Written(addr, len), @)]
  /\ LET v == View
         new == {<<count + 1, a, v[a]>> : a \in DOMAIN Written(addr, len)}
     IN  KnowAtMost([found EXCEPT ![Len(over)] = @ \cup new])

Store(addr, len) ==
  /\ count' = count + 1
  /\ bytes' = On(Written(addr, len), bytes)
  /\ UNCHANGED <<over, found>>

\* The cached bytes of an interval are given up, in all layers.
Forget(A) ==
  /\ UNCHANGED <<bytes, count>>
  /\ over' = Drop(over, A)
  /\ KnowAtMost(found)

\* The cached bytes of an interval go to the file: the reader sees no change.
Settle(A) ==
  /\ UNCHANGED count
  /\ LET v == View IN bytes' = [a \in Addrs |-> IF a \in A THEN v[a] ELSE bytes[a]]
  /\ over' = Drop(over, A)
  /\ KnowAtMost(found)

\* The lowest n layers go to the file: the reader sees no change.
SettleLayers(n) ==
  /\ n <= Len(over)
  /\ UNCHANGED count
  /\ bytes' = Shown(n)
  /\ over' = [k \in DOMAIN over |-> IF k <= n THEN Empty ELSE over[k]]
  /\ KnowAtMost(found)

\* What there is at the addresses A of the k-th write, one of the top layer, is
\* taken back: the layer gives up bytes of that write there, those that it still
\* holds, and the file, if it can be written, gets what the write found there.
TakeBack(k, A) ==
  /\ over # <<>>
  /\ UNCHANGED count
  /\ \A a \in A : \E t \in found[Len(over)] :
       t[1] = k /\ t[2] = a /\ bytes'[a] = IF Writable THEN t[3] ELSE bytes[a]
  /\ bytes' = [a \in Addrs |-> IF a \in A THEN bytes'[a] ELSE bytes[a]]
  /\ \E G \in SUBSET (A \cap DOMAIN over[Len(over)]) :
       /\ \A a \in G : over[Len(over)][a][1] = k
       /\ over' = [over EXCEPT ![Len(over)] = Without(@, G)]
  /\ KnowAtMost(found)

Push ==
  /\ UNCHANGED <<bytes, count>>
  /\ over' = Append(over, Empty)
  /\ KnowAtMost([n \in 1 .. Len(over) + 1 |-> IF n <= Len(over) THEN found[n] ELSE {}])

Pop ==
  /\ UNCHANGED <<bytes, count>>
  /\ over # <<>>
  /\ over' = SubSeq(over, 1, Len(over) - 1)
  /\ KnowAtMost([n \in 1 .. Len(over) - 1 |-> found[n]])

Reset == UNCHANGED <<bytes, count>> /\ over' = <<Empty>> /\ KnowAtMost(<<{}>>)

Next ==
  \/ \E addr \in Addrs, len \in Sizes :
       count < MaxWrites /\ (Put(addr, len) \/ (Writable /\ Store(addr, len)))
  \/ \E r \in Ranges : Forget(r[1] .. r[2]) \/ Settle(r[1] .. r[2])
  \/ \E n \in 1 .. Len(over) : SettleLayers(n)
  \/ \E k \in 1 .. count, from, to \in Addrs : TakeBack(k, from .. to)
  \/ Push \/ Pop \/ Reset

Spec == Init /\ [][Next]_vars
=============================================================================
