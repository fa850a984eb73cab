---------------------------- MODULE AddressView ----------------------------
(***************************************************************************)
(* What the reader of an address may rely on, whatever keeps the maps: each *)
(* bank shows at most one map at an address, and an operation on a map      *)
(* changes an address only to or from that map, or the new map that it is   *)
(* split into.  Which of two other maps an address shows is never           *)
(* disturbed, in any bank.                                                  *)
(***************************************************************************)
CONSTANTS Banks, Addrs, Refs, None

VARIABLE seen     \* the map that each bank shows at each address

Blank == [a \in Addrs |-> None]

Init == seen = [b \in Banks |-> Blank]

Unseen(r) == \A b \in Banks, a \in Addrs : seen[b][a] # r

\* An operation on the map r, and on the map s if one is made by it.
Operate(r, s) ==
  /\ s = r \/ Unseen(s)
  /\ seen' \in [Banks -> [Addrs -> Refs \cup {None}]]
  /\ \A b \in Banks, a \in Addrs :
       seen'[b][a] # seen[b][a] => {seen[b][a], seen'[b][a]} \cap {r, s} # {}

\* A bank is closed, or all maps are dropped.
Close(b) == seen' = [seen EXCEPT ![b] = Blank]
Clear == seen' = [b \in Banks |-> Blank]

Next ==
  \/ \E r, s \in Refs : Operate(r, s)
  \/ \E b \in Banks : Close(b)
  \/ Clear

Spec == Init /\ [][Next]_seen
=============================================================================
