---------------------------- MODULE MCLinkAlerts ----------------------------
(* Instances of LinkAlerts for TLC. *)
EXTENDS LinkAlerts, TLC

TwoRules == <<1, 2>>

Interchangeable == Permutations(Requests) \cup Permutations(SessionKeys)
=============================================================================
