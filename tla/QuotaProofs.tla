----------------------------- MODULE QuotaProofs -----------------------------
(* Quota keeps its promise, for every number of slots and every set of limits. *)
EXTENDS Quota, TLAPS

QuotaTypeOK == limit \in Limits /\ used \in Nat /\ pending \in 0 .. Slots

QuotaInv == QuotaTypeOK /\ Bounded

LEMMA QuotaInit ==
  ASSUME Slots \in Nat, Limits \subseteq Nat
  PROVE  Init => QuotaInv
  BY DEF Init, QuotaInv, QuotaTypeOK, Bounded, Unlimited

LEMMA QuotaStep ==
  ASSUME Slots \in Nat, Limits \subseteq Nat
  PROVE  QuotaInv /\ [LateNext]_quota => QuotaInv'
<1> SUFFICES ASSUME QuotaInv, [LateNext]_quota PROVE QuotaInv'
  OBVIOUS
<1> USE DEF QuotaInv, QuotaTypeOK, Bounded, Unlimited
<1>1. CASE AdmitLate
  BY <1>1 DEF AdmitLate, AdmitUnder, Room
<1>2. CASE Use
  BY <1>2 DEF Use
<1>3. CASE Abandon
  BY <1>3 DEF Abandon
<1>4. CASE SetLimit
  BY <1>4 DEF SetLimit
<1>5. CASE UNCHANGED quota
  BY <1>5 DEF quota
<1>6. QED
  BY <1>1, <1>2, <1>3, <1>4, <1>5 DEF LateNext

(* A quota never overshoots the largest limit it can have had by more than the  *)
(* other slots, though requests are judged by a limit that has changed since:   *)
(* the bound every limit of streaming.service.ts:186-222 inherits.              *)
THEOREM QuotaBounded ==
  ASSUME Slots \in Nat, Limits \subseteq Nat
  PROVE  LateSpec => []QuotaInv
  BY QuotaInit, QuotaStep, PTL DEF LateSpec

(* Judged by the limit in force, a fortiori.                                    *)
THEOREM QuotaIsLate ==
  ASSUME Slots \in Nat, Limits \subseteq Nat
  PROVE  Spec => []QuotaInv
<1>1. QuotaInv /\ [Next]_quota => [LateNext]_quota
  BY DEF QuotaInv, QuotaTypeOK, Next, LateNext, Admit, AdmitLate
<1>2. QED
  BY <1>1, QuotaInit, QuotaStep, PTL DEF Spec
=============================================================================
