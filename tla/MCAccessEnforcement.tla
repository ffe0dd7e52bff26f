------------------------ MODULE MCAccessEnforcement ------------------------
(* Instances of AccessEnforcement for TLC. *)
EXTENDS AccessEnforcement, TLC

NoRules == <<>>
OneRule == <<1>>
TwoRules == <<1, 2>>

(* The viewers that no allowlist tells apart. *)
Alike == {v \in Viewers : \A list \in AllowLists : v \in list}

Interchangeable ==
  Permutations(Requests) \cup Permutations(SessionKeys) \cup Permutations(Alike)
=============================================================================
