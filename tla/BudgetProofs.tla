---------------------------- MODULE BudgetProofs ----------------------------
(* Theorems about Budget, for all keys, limits and widths of the counter.   *)
EXTENDS Budget, TLAPS

\* The counter is the true charge, cut at the largest value it can hold.
CountsCharges ==
  \A k \in Keys :
    used[k] = IF charged[k] > MaxU64 THEN MaxU64 ELSE charged[k]

IInv == TypeOK /\ CountsCharges /\ RefusedForCause

\* A call the layer allows leaves a counter within the limit, and the counter
\* follows the true charge whether or not the addition saturates.
LEMMA Counting ==
  ASSUME NEW u \in 0..Limit, NEW c \in Nat, NEW n \in Quantities,
         u = IF c > MaxU64 THEN MaxU64 ELSE c
  PROVE  /\ SaturatingAdd(u, n) \in Nat
         /\ SaturatingAdd(u, n) = IF c + n > MaxU64 THEN MaxU64 ELSE c + n
         /\ SaturatingAdd(u, n) > Limit => c + n > Limit
         /\ u = Limit /\ n # 0 => c + n > Limit
BY U64Assumption DEF Quantities, SaturatingAdd

\* IInv is inductive.
LEMMA Inductive == IInv /\ [Next]_vars => IInv'
<1>1. SUFFICES ASSUME IInv, Next PROVE IInv'
  BY DEF vars, IInv, TypeOK, CountsCharges, RefusedForCause
<1>2. PICK k \in Keys, n \in Quantities : Charge(k, n) \/ Refuse(k, n)
  BY <1>1 DEF Next
<1>3. used[k] \in 0..Limit /\ charged[k] \in Nat /\ n \in Nat
  BY <1>1, <1>2 DEF IInv, TypeOK, Quantities
<1>4. used[k] = IF charged[k] > MaxU64 THEN MaxU64 ELSE charged[k]
  BY <1>1 DEF IInv, CountsCharges
<1>5. /\ SaturatingAdd(used[k], n) \in Nat
      /\ SaturatingAdd(used[k], n) =
           IF charged[k] + n > MaxU64 THEN MaxU64 ELSE charged[k] + n
      /\ SaturatingAdd(used[k], n) > Limit => charged[k] + n > Limit
      /\ used[k] = Limit /\ n # 0 => charged[k] + n > Limit
  BY <1>3, <1>4, Counting
<1>6. CASE Charge(k, n)
  <2>1. SaturatingAdd(used[k], n) \in 0..Limit
    BY <1>5, <1>6, U64Assumption DEF Charge, Refuses
  <2>2. TypeOK'
    BY <1>1, <1>3, <1>6, <2>1 DEF IInv, TypeOK, Charge
  <2>3. CountsCharges'
    BY <1>1, <1>5, <1>6 DEF IInv, TypeOK, CountsCharges, Charge
  <2>4. RefusedForCause'
    BY <1>1, <1>6 DEF IInv, RefusedForCause, Charge
  <2>5. QED BY <2>2, <2>3, <2>4 DEF IInv
<1>7. CASE Refuse(k, n)
  <2>1. charged[k] + n > Limit
    BY <1>5, <1>7 DEF Refuse, Refuses
  <2>2. RefusedForCause'
    BY <1>7, <2>1 DEF RefusedForCause, Refuse
  <2>3. TypeOK' /\ CountsCharges'
    BY <1>1, <1>3, <1>7 DEF IInv, TypeOK, CountsCharges, Refuse
  <2>4. QED BY <2>2, <2>3 DEF IInv
<1>8. QED BY <1>2, <1>6, <1>7

\* The invariant holds in every behaviour.
THEOREM Invariance == Spec => []IInv
<1>1. Init => IInv
  BY U64Assumption DEF Init, IInv, TypeOK, CountsCharges, RefusedForCause, None
<1>2. QED BY <1>1, Inductive, PTL DEF Spec

\* A call is only ever refused for want of allowance, at any width and limit.
THEOREM RefusalsAreJustified == Spec => []RefusedForCause
<1>1. IInv => RefusedForCause
  BY DEF IInv
<1>2. QED BY <1>1, Invariance, PTL

\* The types of the counters, and of the calls that were charged.
THEOREM Typing == Spec => []TypeOK
<1>1. IInv => TypeOK
  BY DEF IInv
<1>2. QED BY <1>1, Invariance, PTL

\* The limit holds for every key, unless it is the largest value of the
\* counter: with that limit a saturated counter may hide a greater charge.
THEOREM LimitHolds ==
  ASSUME Limit < MaxU64
  PROVE  Spec => []AllowanceHeld
<1>1. ASSUME IInv, NEW k \in Keys PROVE charged[k] <= Limit
  <2>1. used[k] \in 0..Limit /\ charged[k] \in Nat
    BY <1>1 DEF IInv, TypeOK
  <2>2. used[k] = IF charged[k] > MaxU64 THEN MaxU64 ELSE charged[k]
    BY <1>1 DEF IInv, CountsCharges
  <2>3. QED BY <2>1, <2>2, U64Assumption
<1>2. IInv => AllowanceHeld
  BY <1>1 DEF AllowanceHeld
<1>3. QED BY <1>2, Invariance, PTL
=============================================================================
