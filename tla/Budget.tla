------------------------------- MODULE Budget -------------------------------
(***************************************************************************)
(* The Budget layer (budget.rs): an allowance per key, shared by every     *)
(* store whose chain holds the layer.  A step is one `before' hook; it     *)
(* keeps the mutex throughout, so that hooks of different stores are       *)
(* ordered but never interleaved.                                          *)
(***************************************************************************)
EXTENDS Naturals

CONSTANTS
  Keys,        \* what the selector tells apart
  Limit,       \* the allowance of each key
  MaxU64,      \* the largest u64
  MaxCharged   \* bounds what one key is charged in all

ASSUME U64Assumption == MaxU64 \in Nat /\ Limit \in 0..MaxU64
ASSUME ChargedAssumption == MaxCharged \in Nat

VARIABLES
  used,        \* used[k]: the map's counter, an absent entry being 0
  charged,     \* history: the true sum of the quantities allowed
  refused      \* history: what was charged and asked at the last refusal

vars == <<used, charged, refused>>

Quantities == 0..MaxU64

None == [charged |-> Limit, quantity |-> 1]

Init ==
  /\ used = [k \in Keys |-> 0]
  /\ charged = [k \in Keys |-> 0]
  /\ refused = None

\* Variant: the addition wraps, as in a release build.
WrappingAdd(m, n) == (m + n) % (MaxU64 + 1)

SaturatingAdd(m, n) == IF m + n > MaxU64 THEN MaxU64 ELSE m + n

\* Variant: the counter may pass the limit once.
RefusesLate(k, n) == used[k] >= Limit

Refuses(k, n) == SaturatingAdd(used[k], n) > Limit \/ (n # 0 /\ used[k] = Limit)

\* The selector takes n units of key k and the allowance covers them.
Charge(k, n) ==
  /\ ~Refuses(k, n) /\ charged[k] + n <= MaxCharged
  /\ used' = [used EXCEPT ![k] = SaturatingAdd(@, n)]
  /\ charged' = [charged EXCEPT ![k] = @ + n]
  /\ UNCHANGED refused

\* Variant: what was asked counts although it was refused.
RefuseCounting(k, n) ==
  /\ Refuses(k, n)
  /\ used' = [used EXCEPT ![k] = SaturatingAdd(@, n)]
  /\ refused' = [charged |-> charged[k], quantity |-> n]
  /\ UNCHANGED charged

\* The allowance does not cover them and the counter stays.
Refuse(k, n) ==
  /\ Refuses(k, n)
  /\ refused' = [charged |-> charged[k], quantity |-> n]
  /\ UNCHANGED <<used, charged>>

Next == \E k \in Keys, n \in Quantities : Charge(k, n) \/ Refuse(k, n)

Spec == Init /\ [][Next]_vars

-----------------------------------------------------------------------------
(* Properties                                                              *)

TypeOK ==
  /\ used \in [Keys -> 0..Limit]
  /\ charged \in [Keys -> Nat]
  /\ refused \in [charged : Nat, quantity : Nat]

\* No key is charged more than its limit, whatever the calls of the other
\* stores (Budget::new: "limit units available independently per key").
AllowanceHeld == \A k \in Keys : charged[k] <= Limit

\* A call is refused only when its quantity does not fit what is left.
RefusedForCause == refused.charged + refused.quantity > Limit
=============================================================================
