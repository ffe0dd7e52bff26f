---------------------------- MODULE MCLinkLimits ----------------------------
(* Instances of LinkAdministration for TLC. *)
EXTENDS LinkAdministration, TLC

NoRules == <<>>

(* A PATCH that changes nothing. *)
Empty ==
  [kind |-> "update", neverExpire |-> Undefined, expiresAt |-> Undefined, maxViews |-> Undefined,
   maxDevices |-> Undefined, maxSessions |-> Undefined, maxConcurrent |-> Undefined,
   ipAllowlist |-> Undefined]

(* Bodies that raise or lower the limits, and one that lets no address pass.       *)
LimitBodies ==
  {[Empty EXCEPT !.maxViews = n, !.maxConcurrent = n] : n \in ViewLimits \cap ConcurrentLimits}
    \cup {[Empty EXCEPT !.maxSessions = 1, !.ipAllowlist = {}]}

Interchangeable ==
  Permutations(Requests) \cup Permutations(SessionKeys) \cup Permutations(Admins)
=============================================================================
