----------------------------- MODULE UniqueIds -----------------------------
(***************************************************************************)
(* What a store of numbered objects promises: whoever asks for an id gets   *)
(* one that nobody has, as long as there is one, and keeps it until it is    *)
(* given back.                                                               *)
(***************************************************************************)
CONSTANTS
  Ids,     \* the ids
  Fail     \* the answer when none is left

VARIABLES
  taken,   \* the ids in use
  answer   \* the last answer

Init == taken = {} /\ answer = Fail

Take ==
  \/ \E id \in Ids \ taken : taken' = taken \cup {id} /\ answer' = id
  \/ taken = Ids /\ answer' = Fail /\ UNCHANGED taken

GiveBack == \E id \in taken : taken' = taken \ {id} /\ UNCHANGED answer

Spec == Init /\ [][Take \/ GiveBack]_<<taken, answer>>
=============================================================================
