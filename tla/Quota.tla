-------------------------------- MODULE Quota --------------------------------
(***************************************************************************)
(* What a limit of a link promises, whatever it counts (views, devices or  *)
(* sessions): a unit is used only after an admission that found the limit  *)
(* not reached.  Admission and use are separate steps, as they are in the  *)
(* access engine, and up to Slots admissions may be pending at a time, so  *)
(* the limit itself is not the promise: Bounded is.                        *)
(***************************************************************************)
EXTENDS Integers

CONSTANTS
  Slots,   \* how many admissions may be pending at a time
  Limits   \* the values the limit takes; 0 is no limit

VARIABLES limit, used, pending

quota == <<limit, used, pending>>

Unlimited == 0

Init == limit \in Limits /\ used = 0 /\ pending = 0

(* The check that a request passes, by the limit that it goes by. *)
Room(m) == m = Unlimited \/ used < m

AdmitUnder(m) ==
  /\ Room(m)
  /\ pending < Slots
  /\ pending' = pending + 1
  /\ UNCHANGED <<limit, used>>

Admit == AdmitUnder(limit)

(* The request goes by a limit that it read before, and that may have changed. *)
AdmitLate == \E m \in Limits : AdmitUnder(m)

(* An admitted request uses a unit; admissions of the same unit are settled too. *)
Use ==
  /\ used' = used + 1
  /\ \E n \in 0 .. pending - 1 : pending' = n
  /\ UNCHANGED limit

(* An admitted request is denied by a later check, or fails. *)
Abandon ==
  /\ \E n \in 0 .. pending - 1 : pending' = n
  /\ UNCHANGED <<limit, used>>

(* The link's owner changes the limit. *)
SetLimit ==
  /\ limit' \in Limits
  /\ UNCHANGED <<used, pending>>

Next == Admit \/ Use \/ Abandon \/ SetLimit

Spec == Init /\ [][Next]_quota

(* What is left of it when the limit changes between its read and its check. *)
LateNext == AdmitLate \/ Use \/ Abandon \/ SetLimit

LateSpec == Init /\ [][LateNext]_quota

(* The promise: with every value of the limit at most L, no more than L units   *)
(* and one per other slot are ever used or about to be.                         *)
Bounded ==
  \A L \in Limits :
    (\A m \in Limits : m # Unlimited /\ m <= L) => used + pending <= L + Slots - 1
=============================================================================
