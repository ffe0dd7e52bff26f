----------------------------- MODULE LinkRaces -----------------------------
(***************************************************************************)
(* Who writes the link's row on a decision that the row has outlived.  The *)
(* sweep, the lazy expiry and every admin handler decide on a row they     *)
(* have read and write by id; a history variable keeps those whose row     *)
(* changed in between.                                                     *)
(***************************************************************************)
EXTENDS LinkAdministration

VARIABLE overtaken  \* of those about to write, whose row has changed since they read it

Deciding ==
  {<<"request", r>> : r \in {r \in Requests : pc[r] = "expire"}}
    \cup {<<"sweep", w>> : w \in {w \in Sweeps : sweep[w] = "write"}}
    \cup {<<"admin", a>> : a \in {a \in Admins : op[a] # None}}

Overtakes ==
  overtaken' = IF status' # status \/ expiry' # expiry THEN Deciding' ELSE overtaken \cap Deciding'

RaceInit == LinkInit /\ overtaken = {}
RaceNext == LinkNext /\ Overtakes
RaceSpec == RaceInit /\ [][RaceNext]_<<everything, overtaken>>

-----------------------------------------------------------------------------
Expires ==
  \/ \E r \in Requests : ExpireLink(r) /\ <<"request", r>> \notin overtaken
  \/ \E w \in Sweeps : ExpireFound(w) /\ <<"sweep", w>> \notin overtaken

(* scheduler.ts:16-27, streaming.service.ts:152-156, link.service.ts:196-237: only  *)
(* someone whose row was written since he read it expires, and announces, what is *)
(* not active and overdue (an extension is lost, or one expiry announced twice),  *)
(* and only such a write gives a removed link another status than active, which   *)
(* enabling and extending give it.                                               *)
AgainstTheRowByRaceOnly ==
  [][/\ Expires => status = "ACTIVE" /\ Overdue
     /\ status = "DELETED" /\ status' \notin {"DELETED", "ACTIVE"} =>
          overtaken \ Deciding' # {}]_<<everything, overtaken>>
=============================================================================
