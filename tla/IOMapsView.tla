---------------------------- MODULE IOMapsView ----------------------------
(***************************************************************************)
(* The maps and banks of RIO implement AddressView: what r_io_map_get_at    *)
(* finds in the tree of each bank is the abstract view.                     *)
(***************************************************************************)
EXTENDS IOMaps

Seen == [b \in BankIds |-> [a \in Addr |-> Resolve(banks[b], a)]]

View == INSTANCE AddressView
          WITH Banks <- BankIds, Addrs <- Addr, None <- NoRef, seen <- Seen,
               Refs <- [id : MapIds, ts : 0 .. MaxTs - 1]

(* Every step of the program, with all the banks it goes through, touches    *)
(* the view only where the operated map appears or disappears: cutting,      *)
(* filling and merging submaps never lets a third map through or hides it.   *)
ImplementsView == View!Spec
=============================================================================
