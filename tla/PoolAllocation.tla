--------------------------- MODULE PoolAllocation ---------------------------
(***************************************************************************)
(* What the pallet board promises about the positions of the pool: each    *)
(* pallet claims at most one, a claim is taken only when no other pallet   *)
(* has it, claims change one pallet at a time, and the pool never shrinks  *)
(* below a claim.                                                          *)
(***************************************************************************)
EXTENDS Naturals

CONSTANTS Pallets, MaxSlots

VARIABLES
  claim,  \* the position a pallet occupies or has reserved, 0 for none
  size    \* the number of positions

vars == <<claim, size>>

Init ==
  /\ claim = [p \in Pallets |-> 0]
  /\ size = MaxSlots

Take(p, n) ==
  /\ \A q \in Pallets \ {p} : claim[q] # n
  /\ claim' = [claim EXCEPT ![p] = n]
  /\ UNCHANGED size

Release(p) ==
  /\ claim' = [claim EXCEPT ![p] = 0]
  /\ UNCHANGED size

Resize(n) ==
  /\ \A p \in Pallets : claim[p] <= n
  /\ size' = n
  /\ UNCHANGED claim

Next ==
  \/ \E p \in Pallets, n \in 1..size : Take(p, n)
  \/ \E p \in Pallets : Release(p)
  \/ \E n \in 1..MaxSlots : Resize(n)

Spec == Init /\ [][Next]_vars
=============================================================================
