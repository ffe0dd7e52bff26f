--------------------------- MODULE DispatchProofs ---------------------------
(* What becomes of threshold alerts, for every number of rules, recipients and    *)
(* evaluations under way.                                                        *)
EXTENDS MCDispatch, FiniteSetTheorems, SequenceTheorems, TLAPS

(* What an evaluation knows at each of its steps: the loop has a threshold in     *)
(* hand, a row exists only for a recipient, its mail is as its step says, and    *)
(* no threshold above the views of its own row was crossed.                      *)
Knows(e) ==
  /\ eval[e].at \in {"create", "mail", "sent", "failed"} => eval[e].todo # <<>>
  /\ eval[e].at = "mark" => eval[e].todo = <<>>
  /\ eval[e].at \in {"mail", "sent", "failed"} => Recipient(Head(eval[e].todo)) # None
  /\ eval[e].at \in {"rules", "create", "mail"} => ~eval[e].mailed
  /\ eval[e].at = "sent" => eval[e].mailed = smtp
  /\ eval[e].at = "failed" /\ ~failed => ~eval[e].mailed
  /\ eval[e].highest <= eval[e].count

LoopsKnow == \A e \in Evaluations : eval[e] # None => Knows(e)

DispatchInv == TypeOK /\ LoopsKnow /\ StatusHonest

-----------------------------------------------------------------------------
(* What the helpers change.                                                     *)

SameLoop(e) ==
  eval'[e].count = eval[e].count /\ eval'[e].was = eval[e].was /\ eval'[e].highest = eval[e].highest

OnlyOf(e) == \A d \in Evaluations : d # e => eval'[d] = eval[d]

LEMMA HeadOfLoop ==
  ASSUME TypeOK, NEW e \in Evaluations, eval[e] # None, eval[e].todo # <<>>
  PROVE  /\ eval[e] \in Loops /\ eval[e].todo \in Seq(Alerts) /\ Len(eval[e].todo) \in Nat \ {0}
         /\ Head(eval[e].todo) \in Alerts /\ Tail(eval[e].todo) \in Seq(Alerts)
         /\ Tail(eval[e].todo) = <<>> <=> Len(eval[e].todo) = 1
         /\ Head(eval[e].todo) = eval[e].todo[1]
         /\ \A i \in DOMAIN eval[e].todo : i # 1 =>
              i - 1 \in DOMAIN Tail(eval[e].todo) /\ Tail(eval[e].todo)[i - 1] = eval[e].todo[i]
<1>1. eval[e] \in Loops /\ eval[e].todo \in Seq(Alerts)
  BY DEF TypeOK, Loops
<1> DEFINE todo == eval[e].todo
<1>2. todo \in Seq(Alerts) /\ todo # <<>>
  BY <1>1
<1> HIDE DEF todo
<1>3. /\ Head(todo) \in Alerts /\ Tail(todo) \in Seq(Alerts)
      /\ Len(todo) \in Nat \ {0} /\ Len(Tail(todo)) = Len(todo) - 1
      /\ \A i \in 1 .. Len(Tail(todo)) : Tail(todo)[i] = todo[i + 1]
  BY <1>2, HeadTailProperties, EmptySeq, LenProperties
<1>4. Tail(todo) = <<>> <=> Len(Tail(todo)) = 0
  BY <1>3, EmptySeq
<1>5. Tail(todo) = <<>> <=> Len(todo) = 1
  BY <1>3, <1>4
<1>6. Head(todo) = todo[1]
  BY <1>2
<1>7. DOMAIN todo = 1 .. Len(todo) /\ DOMAIN Tail(todo) = 1 .. Len(Tail(todo))
  BY <1>2, <1>3, LenProperties
<1>8. \A i \in DOMAIN todo : i # 1 => i - 1 \in DOMAIN Tail(todo) /\ Tail(todo)[i - 1] = todo[i]
  BY <1>3, <1>7
<1>9. QED
  BY <1>1, <1>3, <1>5, <1>6, <1>8 DEF todo

LEMMA GotoFacts ==
  ASSUME TypeOK, NEW e \in Evaluations, eval[e] # None, NEW m \in BOOLEAN,
         NEW l \in {"rules", "create", "mail", "sent", "failed", "mark"},
         eval' = [eval EXCEPT ![e].at = l, ![e].mailed = m]
  PROVE  /\ eval' \in [Evaluations -> Loops \cup {None}] /\ eval'[e] # None
         /\ eval'[e].at = l /\ eval'[e].mailed = m /\ eval'[e].todo = eval[e].todo
         /\ SameLoop(e) /\ OnlyOf(e)
<1> DEFINE now == [eval[e] EXCEPT !.at = l, !.mailed = m]
<1>1. eval[e] \in Loops /\ eval \in [Evaluations -> Loops \cup {None}]
  BY DEF TypeOK
<1>2. now \in Loops
  BY <1>1 DEF Loops
<1>3. eval' = [eval EXCEPT ![e] = now]
  BY <1>1
<1>4. /\ now.at = l /\ now.mailed = m /\ now.todo = eval[e].todo
      /\ now.count = eval[e].count /\ now.was = eval[e].was /\ now.highest = eval[e].highest
  BY <1>1 DEF Loops
<1> HIDE DEF now
<1>5. QED
  BY <1>1, <1>2, <1>3, <1>4, NoneAssumption DEF SameLoop, OnlyOf

LEMMA ContinueFacts ==
  ASSUME TypeOK, NEW e \in Evaluations, eval[e] # None, eval[e].todo # <<>>, Continue(e)
  PROVE  /\ eval' \in [Evaluations -> Loops \cup {None}] /\ eval'[e] # None
         /\ eval'[e].at = IF eval'[e].todo = <<>> THEN "mark" ELSE "create"
         /\ ~eval'[e].mailed /\ eval'[e].todo = Tail(eval[e].todo)
         /\ SameLoop(e) /\ OnlyOf(e)
<1> DEFINE rest == Tail(eval[e].todo)
<1> DEFINE l == IF Len(eval[e].todo) = 1 THEN "mark" ELSE "create"
<1> DEFINE now == [eval[e] EXCEPT !.todo = rest, !.mailed = FALSE, !.at = l]
<1>1. eval[e] \in Loops /\ eval \in [Evaluations -> Loops \cup {None}]
  BY DEF TypeOK
<1>2. rest \in Seq(Alerts) /\ l = IF rest = <<>> THEN "mark" ELSE "create"
  BY HeadOfLoop
<1>3. eval' = [eval EXCEPT ![e] = now]
  BY <1>1 DEF Continue
<1> HIDE DEF rest, l
<1>4. now \in Loops
  BY <1>1, <1>2 DEF Loops
<1>5. /\ now.at = l /\ ~now.mailed /\ now.todo = rest
      /\ now.count = eval[e].count /\ now.was = eval[e].was /\ now.highest = eval[e].highest
  BY <1>1 DEF Loops
<1> HIDE DEF now
<1>6. eval'[e] = now /\ eval' \in [Evaluations -> Loops \cup {None}] /\ now # None
  BY <1>1, <1>3, <1>4, NoneAssumption
<1>7. OnlyOf(e)
  BY <1>1, <1>3 DEF OnlyOf
<1>8. QED
  BY <1>2, <1>5, <1>6, <1>7 DEF SameLoop, rest

LEMMA DropFacts ==
  ASSUME TypeOK, NEW e \in Evaluations, eval' = [eval EXCEPT ![e] = None]
  PROVE  eval' \in [Evaluations -> Loops \cup {None}] /\ eval'[e] = None /\ OnlyOf(e)
  BY DEF TypeOK, OnlyOf

LEMMA LoopTyped ==
  ASSUME TypeOK, NEW e \in Evaluations, OnlyOf(e), views' = views,
         eval'[e] # None => eval[e] # None /\ SameLoop(e)
  PROVE  \A d \in Evaluations : eval'[d] # None =>
           eval'[d].count \in 1 .. views' /\ {eval'[d].was, eval'[d].highest} \subseteq 0 .. views'
  BY DEF TypeOK, OnlyOf, SameLoop

LEMMA LoopKnown ==
  ASSUME LoopsKnow, NEW e \in Evaluations, OnlyOf(e), env' = env, failed => failed',
         eval'[e] # None => Knows(e)'
  PROVE  LoopsKnow'
<1> SUFFICES ASSUME NEW d \in Evaluations, d # e, eval'[d] # None PROVE Knows(d)'
  BY DEF LoopsKnow
<1>1. eval'[d] = eval[d] /\ Knows(d)
  BY DEF LoopsKnow, OnlyOf
<1>2. QED
  BY <1>1 DEF Knows, Recipient, env

-----------------------------------------------------------------------------
(* The query of the rules in force.                                             *)

LEMMA RuleTyped ==
  ASSUME TypeOK, NEW r \in InForce
  PROVE  rule[r] \in RuleRows /\ rule[r].threshold \in Nat \ {0}
         /\ [threshold |-> rule[r].threshold, recipient |-> rule[r].recipient] \in Alerts
  BY ThresholdAssumption DEF TypeOK, InForce, RuleRows, Alerts

(* The ascending order is one of all the rules crossed.                          *)
LEMMA SortedFacts ==
  ASSUME NEW S, S \subseteq Rules, S # {}, NEW order \in Sorted(S)
  PROVE  /\ order \in Seq(S) /\ Len(order) \in Nat \ {0}
         /\ DOMAIN order = 1 .. Len(order)
         /\ \A r \in S : \E i \in DOMAIN order : order[i] = r
<1> DEFINE n == Cardinality(S)
<1>1. IsFiniteSet(S)
  BY ThresholdAssumption, FS_Subset
<1>2. n \in Nat /\ n # 0
  BY <1>1, FS_CardinalityType, FS_EmptySet
<1>3. IsFiniteSet(1 .. n) /\ Cardinality(1 .. n) = n
  BY <1>2, FS_Interval
<1>4. order \in [1 .. n -> S] /\ order \in Injection(1 .. n, S)
  BY DEF Sorted, Injection
<1>5. order \in Surjection(1 .. n, S)
  BY <1>1, <1>3, <1>4, FS_Injection
<1> HIDE DEF n
<1>6. order \in Seq(S)
  BY <1>2, <1>4, SeqDef
<1>7. DOMAIN order = 1 .. Len(order) /\ Len(order) \in Nat
  BY <1>6, LenProperties
<1>8. Len(order) = n
  BY <1>2, <1>4, <1>7
<1>9. \A r \in S : \E i \in DOMAIN order : order[i] = r
  BY <1>4, <1>5 DEF Surjection
<1>10. QED
  BY <1>2, <1>6, <1>7, <1>8, <1>9

(* What the query leaves behind.                                                *)
Picks(e, r) ==
  \E i \in DOMAIN eval'[e].todo :
    /\ eval'[e].todo[i].threshold = rule[r].threshold
    /\ \E q \in With(rule[r].threshold) : eval'[e].todo[i].recipient = rule[q].recipient

LEMMA FindFacts ==
  ASSUME TypeOK, NEW e \in Evaluations, FindRules(e), Crossed(e) # {}
  PROVE  /\ eval' \in [Evaluations -> Loops \cup {None}] /\ eval'[e] # None /\ OnlyOf(e)
         /\ eval'[e].at = "create" /\ eval'[e].mailed = eval[e].mailed /\ eval'[e].todo # <<>>
         /\ eval'[e].count = eval[e].count /\ eval'[e].was = eval[e].was
         /\ eval'[e].highest \in 0 .. eval[e].count
         /\ \A r \in Crossed(e) : Picks(e, r)
<1>1. eval[e] \in Loops /\ eval \in [Evaluations -> Loops \cup {None}] /\ eval[e] # None
  BY DEF TypeOK, FindRules
<1>2. PICK order \in Sorted(Crossed(e)), first \in [ThresholdsOf(Crossed(e)) -> InForce] :
        /\ \A t \in DOMAIN first : first[t] \in With(t)
        /\ eval' = [eval EXCEPT
             ![e].todo = [i \in DOMAIN order |->
               LET t == rule[order[i]].threshold IN
                 [threshold |-> t, recipient |-> rule[first[t]].recipient]],
             ![e].highest = Highest(order),
             ![e].at = "create"]
  BY DEF FindRules
<1>3. Crossed(e) \subseteq InForce /\ Crossed(e) \subseteq Rules
  BY DEF Crossed, InForce
<1>4. /\ order \in Seq(Crossed(e)) /\ Len(order) \in Nat \ {0} /\ DOMAIN order = 1 .. Len(order)
      /\ \A r \in Crossed(e) : \E i \in DOMAIN order : order[i] = r
  BY <1>3, SortedFacts
<1> DEFINE T(i) == rule[order[i]].threshold
<1> DEFINE list == [i \in 1 .. Len(order) |-> [threshold |-> T(i), recipient |-> rule[first[T(i)]].recipient]]
<1> DEFINE now == [eval[e] EXCEPT !.todo = list, !.highest = Highest(order), !.at = "create"]
<1>5. ASSUME NEW i \in 1 .. Len(order)
      PROVE  order[i] \in Crossed(e) /\ first[T(i)] \in With(T(i))
  <2>1. order[i] \in Crossed(e)
    BY <1>4, LenProperties
  <2>2. T(i) \in ThresholdsOf(Crossed(e))
    BY <2>1 DEF ThresholdsOf
  <2>3. T(i) \in DOMAIN first
    BY <2>2
  <2>4. QED
    BY <1>2, <2>1, <2>3
<1>6. list \in [1 .. Len(order) -> Alerts]
  <2> SUFFICES ASSUME NEW i \in 1 .. Len(order)
               PROVE  [threshold |-> T(i), recipient |-> rule[first[T(i)]].recipient] \in Alerts
    OBVIOUS
  <2>1. first[T(i)] \in InForce /\ rule[first[T(i)]].threshold = T(i)
    BY <1>5 DEF With
  <2>2. QED
    BY <2>1, RuleTyped
<1>7. list \in Seq(Alerts) /\ list # <<>>
  <2>1. list \in Seq(Alerts)
    BY <1>4, <1>6, SeqDef
  <2>2. DOMAIN list = 1 .. Len(list) /\ 1 \in DOMAIN list
    BY <2>1, <1>4, LenProperties
  <2> HIDE DEF list
  <2>3. list # <<>>
    BY <2>2, EmptySeq
  <2>4. QED
    BY <2>1, <2>3
<1>8. Highest(order) \in 0 .. eval[e].count /\ Highest(order) \in Nat
  <2>1. order[Len(order)] \in Crossed(e)
    BY <1>4, <1>5
  <2>2. rule[order[Len(order)]].threshold \in Nat
    BY <2>1, <1>3, RuleTyped
  <2>3. rule[order[Len(order)]].threshold <= eval[e].count
    BY <2>1 DEF Crossed
  <2>4. eval[e].count \in Nat
    BY <1>1 DEF Loops
  <2>5. QED
    BY <2>2, <2>3, <2>4 DEF Highest
<1>9. eval' = [eval EXCEPT ![e] = now]
  BY <1>1, <1>2, <1>4
<1>10. ASSUME NEW r \in Crossed(e)
       PROVE  \E i \in DOMAIN list :
                /\ list[i].threshold = rule[r].threshold
                /\ \E q \in With(rule[r].threshold) : list[i].recipient = rule[q].recipient
  BY <1>4, <1>5
<1> HIDE DEF list
<1>11. now \in Loops
  BY <1>1, <1>7, <1>8 DEF Loops
<1>12. /\ now.at = "create" /\ now.mailed = eval[e].mailed /\ now.todo = list
       /\ now.count = eval[e].count /\ now.was = eval[e].was /\ now.highest = Highest(order)
  BY <1>1 DEF Loops
<1> HIDE DEF now
<1>13. eval'[e] = now /\ eval' \in [Evaluations -> Loops \cup {None}] /\ now # None /\ OnlyOf(e)
  BY <1>1, <1>9, <1>11, NoneAssumption DEF OnlyOf
<1>14. QED
  BY <1>7, <1>8, <1>10, <1>12, <1>13 DEF Picks

-----------------------------------------------------------------------------
(* DispatchInv holds from the start and every step keeps it.                     *)

LEMMA DispatchInit == Init => DispatchInv
<1> SUFFICES ASSUME Init PROVE DispatchInv
  OBVIOUS
<1>1. TypeOK
  <2>1. views \in 0 .. MaxViews /\ mark \in 0 .. views
    BY ThresholdAssumption DEF Init
  <2>2. fallback \in Recipients \cup {None} /\ smtp \in BOOLEAN /\ failed \in BOOLEAN
    BY DEF Init
  <2>3. rule \in [Rules -> RuleRows \cup {None}] /\ notices \subseteq Notices
    BY DEF Init
  <2>4. eval \in [Evaluations -> Loops \cup {None}] /\ \A e \in Evaluations : eval[e] = None
    BY DEF Init
  <2>5. QED
    BY <2>1, <2>2, <2>3, <2>4 DEF TypeOK
<1>2. LoopsKnow /\ StatusHonest
  BY DEF Init, LoopsKnow, StatusHonest
<1>3. QED
  BY <1>1, <1>2 DEF DispatchInv

(* A step that leaves the notices alone and moves one loop on.                   *)
LEMMA LoopStep ==
  ASSUME DispatchInv, NEW e \in Evaluations, UNCHANGED <<env, rule, views, notices>>,
         mark' \in 0 .. views, failed' \in BOOLEAN, failed => failed',
         eval' \in [Evaluations -> Loops \cup {None}], OnlyOf(e),
         eval'[e] # None =>
           /\ eval'[e].count \in 1 .. views
           /\ {eval'[e].was, eval'[e].highest} \subseteq 0 .. views
           /\ Knows(e)'
  PROVE  DispatchInv'
<1>1. TypeOK /\ LoopsKnow /\ StatusHonest
  BY DEF DispatchInv
<1>2. \A d \in Evaluations : eval'[d] # None =>
        eval'[d].count \in 1 .. views /\ {eval'[d].was, eval'[d].highest} \subseteq 0 .. views
  BY <1>1 DEF TypeOK, OnlyOf
<1>3. TypeOK'
  BY <1>1, <1>2 DEF TypeOK, env
<1>4. LoopsKnow'
  BY <1>1, LoopKnown
<1>5. StatusHonest'
  BY <1>1 DEF StatusHonest, env
<1>6. QED
  BY <1>3, <1>4, <1>5 DEF DispatchInv

(* A step that leaves a row behind.                                             *)
LEMMA LeaveStep ==
  ASSUME DispatchInv, NEW e \in Evaluations, eval[e] # None, eval[e].at \in {"mail", "sent", "failed"},
         NEW status \in {"PENDING", "SENT", "FAILED"}, Leave(e, status),
         UNCHANGED <<env, rule, views, mark>>, failed' \in BOOLEAN, failed => failed',
         eval' \in [Evaluations -> Loops \cup {None}], OnlyOf(e),
         eval'[e] # None => SameLoop(e) /\ Knows(e)',
         status = "SENT" => (eval[e].mailed \/ ~smtp),
         status = "PENDING" => failed',
         status = "FAILED" => failed' \/ ~eval[e].mailed
  PROVE  DispatchInv'
<1>1. TypeOK /\ LoopsKnow /\ StatusHonest
  BY DEF DispatchInv
<1> DEFINE alert == Head(eval[e].todo)
<1> DEFINE row == [threshold |-> alert.threshold, recipient |-> Recipient(alert),
                   status |-> status, mailed |-> eval[e].mailed]
<1>2. notices' = notices \cup {row}
  BY DEF Leave
<1>3. eval[e].todo # <<>> /\ Recipient(alert) # None
  BY <1>1 DEF LoopsKnow, Knows
<1>4. eval[e] \in Loops /\ alert \in Alerts
  BY <1>1, <1>3, HeadOfLoop
<1> HIDE DEF alert
<1>5. Recipient(alert) \in Recipients
  BY <1>1, <1>3, <1>4 DEF Recipient, Alerts, TypeOK
<1>6. row \in Notices
  BY <1>4, <1>5 DEF Loops, Alerts, Notices
<1>7. row.status = status /\ row.mailed = eval[e].mailed
  OBVIOUS
<1> HIDE DEF row
<1>8. TypeOK'
  <2>1. notices' \subseteq Notices
    BY <1>1, <1>2, <1>6 DEF TypeOK
  <2>2. \A d \in Evaluations : eval'[d] # None =>
          eval'[d].count \in 1 .. views' /\ {eval'[d].was, eval'[d].highest} \subseteq 0 .. views'
    BY <1>1 DEF TypeOK, OnlyOf, SameLoop
  <2>3. QED
    BY <1>1, <2>1, <2>2 DEF TypeOK, env
<1>9. LoopsKnow'
  BY <1>1, LoopKnown
<1>10. StatusHonest'
  <2>1. \A n \in notices : n.status = "SENT" => (n.mailed \/ ~smtp)
    BY <1>1 DEF StatusHonest
  <2>2. ~failed' => \A n \in notices : n.status # "PENDING" /\ (n.status = "FAILED" => ~n.mailed)
    BY <1>1 DEF StatusHonest
  <2>3. \A n \in notices' : n \in notices \/ n = row
    BY <1>2
  <2>4. smtp' = smtp
    BY DEF env
  <2>5. \A n \in notices' : n.status = "SENT" => (n.mailed \/ ~smtp')
    BY <1>7, <2>1, <2>3, <2>4
  <2>6. ~failed' => \A n \in notices' : n.status # "PENDING" /\ (n.status = "FAILED" => ~n.mailed)
    BY <1>7, <2>2, <2>3
  <2>7. QED
    BY <2>5, <2>6 DEF StatusHonest
<1>11. QED
  BY <1>8, <1>9, <1>10 DEF DispatchInv

LEMMA AdministerKeeps == DispatchInv /\ Administer => DispatchInv'
<1> SUFFICES ASSUME DispatchInv, Administer PROVE DispatchInv'
  OBVIOUS
<1>1. TypeOK /\ LoopsKnow /\ StatusHonest
  BY DEF DispatchInv
<1>2. UNCHANGED <<env, views, mark, eval, notices, failed>>
  BY DEF Administer, CreateRule, UpdateRule, DeleteRule
<1>3. rule' \in [Rules -> RuleRows \cup {None}]
  BY <1>1 DEF Administer, CreateRule, UpdateRule, DeleteRule, TypeOK
<1>4. TypeOK'
  BY <1>1, <1>2, <1>3 DEF TypeOK, env
<1>5. LoopsKnow'
  BY <1>1, <1>2 DEF LoopsKnow, Knows, Recipient, env
<1>6. StatusHonest'
  BY <1>1, <1>2 DEF StatusHonest, env
<1>7. QED
  BY <1>4, <1>5, <1>6 DEF DispatchInv

LEMMA IncrementKeeps ==
  ASSUME DispatchInv, NEW e \in Evaluations, IncrementViewCount(e)
  PROVE  DispatchInv' /\ eval' \in [Evaluations -> Loops \cup {None}] /\ OnlyOf(e) /\ eval'[e] # None
         /\ eval'[e].count = views' /\ eval'[e].was = mark /\ eval'[e].at = "rules"
<1>1. TypeOK /\ LoopsKnow /\ StatusHonest
  BY DEF DispatchInv
<1> DEFINE now == [count |-> views', was |-> mark, todo |-> <<>>, highest |-> 0,
                   at |-> "rules", mailed |-> FALSE]
<1>2. views \in Nat /\ views' = views + 1 /\ views' \in 0 .. MaxViews /\ mark \in 0 .. views /\ mark \in Nat
  BY <1>1, ThresholdAssumption DEF TypeOK, IncrementViewCount
<1>3. UNCHANGED <<env, rule, mark, notices, failed>> /\ eval' = [eval EXCEPT ![e] = now]
  BY DEF IncrementViewCount
<1>4. now \in Loops
  <2>1. <<>> \in Seq(Alerts)
    BY EmptySeq
  <2>2. QED
    BY <1>2, <2>1 DEF Loops
<1>5. /\ now.count = views' /\ now.was = mark /\ now.at = "rules" /\ now.highest = 0 /\ ~now.mailed
  OBVIOUS
<1> HIDE DEF now
<1>6. eval'[e] = now /\ eval' \in [Evaluations -> Loops \cup {None}] /\ now # None /\ OnlyOf(e)
  BY <1>1, <1>3, <1>4, NoneAssumption DEF TypeOK, OnlyOf
<1>7. \A d \in Evaluations : eval'[d] # None =>
        eval'[d].count \in 1 .. views' /\ {eval'[d].was, eval'[d].highest} \subseteq 0 .. views'
  <2> SUFFICES ASSUME NEW d \in Evaluations, eval'[d] # None
               PROVE  eval'[d].count \in 1 .. views' /\ {eval'[d].was, eval'[d].highest} \subseteq 0 .. views'
    OBVIOUS
  <2>1. CASE d = e
    BY <1>2, <1>5, <1>6, <2>1
  <2>2. CASE d # e
    <3>1. eval'[d] = eval[d]
      BY <1>6, <2>2 DEF OnlyOf
    <3>2. eval[d].count \in 1 .. views /\ {eval[d].was, eval[d].highest} \subseteq 0 .. views
      BY <1>1, <3>1 DEF TypeOK
    <3>3. QED
      BY <1>2, <3>1, <3>2
  <2>3. QED
    BY <2>1, <2>2
<1>8. TypeOK'
  <2>1. mark' \in 0 .. views'
    BY <1>2, <1>3
  <2>2. QED
    BY <1>1, <1>2, <1>3, <1>6, <1>7, <2>1 DEF TypeOK, env
<1>9. Knows(e)'
  <2>1. eval'[e].highest <= eval'[e].count
    BY <1>2, <1>5, <1>6
  <2>2. QED
    BY <1>5, <1>6, <2>1 DEF Knows
<1>10. LoopsKnow'
  BY <1>1, <1>3, <1>6, <1>9, LoopKnown
<1>11. StatusHonest'
  BY <1>1, <1>3 DEF StatusHonest, env
<1>12. QED
  BY <1>5, <1>6, <1>8, <1>10, <1>11 DEF DispatchInv

LEMMA LoopNow ==
  ASSUME DispatchInv, NEW e \in Evaluations, eval[e] # None
  PROVE  /\ TypeOK /\ Knows(e) /\ eval[e] \in Loops
         /\ eval[e].count \in 1 .. views /\ {eval[e].was, eval[e].highest} \subseteq 0 .. views
         /\ mark \in 0 .. views /\ views \in Nat /\ failed \in BOOLEAN
         /\ eval[e].mailed \in BOOLEAN
         /\ eval = [eval EXCEPT ![e] = eval[e]]
  BY ThresholdAssumption DEF DispatchInv, TypeOK, LoopsKnow, Loops

LEMMA FindRulesKeeps ==
  ASSUME DispatchInv, NEW e \in Evaluations, FindRules(e)
  PROVE  DispatchInv'
<1>1. eval[e] # None /\ UNCHANGED <<env, rule, views, mark, notices, failed>>
  BY DEF FindRules
<1>2. TypeOK /\ mark' \in 0 .. views /\ failed' \in BOOLEAN
      /\ eval[e].count \in 1 .. views /\ eval[e].was \in 0 .. views /\ views \in Nat
  BY <1>1, LoopNow
<1>3. CASE Crossed(e) = {}
  <2>1. eval' = [eval EXCEPT ![e] = None]
    BY <1>3 DEF FindRules
  <2>2. QED
    BY <1>1, <1>2, <2>1, DropFacts, LoopStep
<1>4. CASE Crossed(e) # {}
  <2>1. /\ eval' \in [Evaluations -> Loops \cup {None}] /\ OnlyOf(e)
        /\ eval'[e].at = "create" /\ eval'[e].mailed = eval[e].mailed /\ eval'[e].todo # <<>>
        /\ eval'[e].count = eval[e].count /\ eval'[e].was = eval[e].was
        /\ eval'[e].highest \in 0 .. eval[e].count
    BY <1>2, <1>4, FindFacts
  <2>2. ~eval[e].mailed
    BY <1>1, LoopNow DEF Knows, FindRules
  <2>3. eval'[e].highest <= eval'[e].count
    BY <1>2, <2>1
  <2>4. Knows(e)'
    BY <2>1, <2>2, <2>3 DEF Knows
  <2>5. {eval'[e].was, eval'[e].highest} \subseteq 0 .. views
    BY <1>2, <2>1
  <2>6. QED
    BY <1>1, <1>2, <2>1, <2>4, <2>5, LoopStep
<1>5. QED
  BY <1>3, <1>4

LEMMA OnlyGoto ==
  ASSUME TypeOK, NEW e \in Evaluations, eval[e] # None,
         NEW l \in {"rules", "create", "mail", "sent", "failed", "mark"}, Goto(e, l)
  PROVE  eval' = [eval EXCEPT ![e].at = l, ![e].mailed = eval[e].mailed]
<1>1. eval[e] \in Loops /\ eval \in [Evaluations -> Loops \cup {None}]
  BY DEF TypeOK
<1>2. [eval[e] EXCEPT !.at = l] = [eval[e] EXCEPT !.at = l, !.mailed = eval[e].mailed]
  BY <1>1 DEF Loops
<1>3. QED
  BY <1>1, <1>2 DEF Goto

LEMMA CreateKeeps ==
  ASSUME DispatchInv, NEW e \in Evaluations, Create(e)
  PROVE  DispatchInv'
<1>1. eval[e] # None /\ UNCHANGED <<env, rule, views, mark, notices, failed>>
  BY DEF Create
<1>2. /\ TypeOK /\ Knows(e) /\ eval[e] \in Loops /\ mark' \in 0 .. views /\ failed' \in BOOLEAN
      /\ eval[e].count \in 1 .. views /\ {eval[e].was, eval[e].highest} \subseteq 0 .. views
      /\ eval[e].mailed \in BOOLEAN
  BY <1>1, LoopNow
<1>3. eval[e].todo # <<>> /\ ~eval[e].mailed /\ eval[e].highest <= eval[e].count
  BY <1>2 DEF Knows, Create
<1>4. CASE Recipient(Head(eval[e].todo)) = None
  <2>1. Continue(e)
    BY <1>4 DEF Create
  <2>2. /\ eval' \in [Evaluations -> Loops \cup {None}] /\ OnlyOf(e) /\ SameLoop(e) /\ ~eval'[e].mailed
        /\ eval'[e].at = IF eval'[e].todo = <<>> THEN "mark" ELSE "create"
    BY <1>1, <1>2, <1>3, <2>1, ContinueFacts
  <2>3. Knows(e)'
    BY <1>3, <2>2 DEF Knows, SameLoop
  <2>4. QED
    BY <1>1, <1>2, <2>2, <2>3, LoopStep DEF SameLoop
<1>5. CASE Recipient(Head(eval[e].todo)) # None
  <2>1. eval' = [eval EXCEPT ![e].at = "mail", ![e].mailed = eval[e].mailed]
    BY <1>1, <1>2, <1>5, OnlyGoto DEF Create
  <2>2. /\ eval' \in [Evaluations -> Loops \cup {None}] /\ OnlyOf(e) /\ SameLoop(e)
        /\ eval'[e].at = "mail" /\ eval'[e].mailed = eval[e].mailed /\ eval'[e].todo = eval[e].todo
    BY <1>1, <1>2, <2>1, GotoFacts
  <2>3. Recipient(Head(eval[e].todo))' # None
    BY <1>1, <1>5, <2>2 DEF Recipient, env
  <2>4. Knows(e)'
    BY <1>3, <2>2, <2>3 DEF Knows, SameLoop
  <2>5. QED
    BY <1>1, <1>2, <2>2, <2>4, LoopStep DEF SameLoop
<1>6. QED
  BY <1>4, <1>5

LEMMA SendKeeps ==
  ASSUME DispatchInv, NEW e \in Evaluations, Send(e) \/ SendFails(e) \/ MarkSentFails(e)
  PROVE  DispatchInv'
<1>1. eval[e] # None /\ UNCHANGED <<env, rule, views, mark, notices>> /\ eval[e].at \in {"mail", "sent"}
  BY DEF Send, SendFails, MarkSentFails
<1>2. /\ TypeOK /\ Knows(e) /\ eval[e] \in Loops /\ mark' \in 0 .. views
      /\ eval[e].count \in 1 .. views /\ {eval[e].was, eval[e].highest} \subseteq 0 .. views
      /\ eval[e].mailed \in BOOLEAN /\ failed \in BOOLEAN /\ smtp \in BOOLEAN
  BY <1>1, LoopNow DEF TypeOK
<1>3. /\ eval[e].todo # <<>> /\ eval[e].highest <= eval[e].count
      /\ Recipient(Head(eval[e].todo)) # None
  BY <1>1, <1>2 DEF Knows
<1>4. PICK l \in {"sent", "failed"}, m \in BOOLEAN :
        /\ eval' = [eval EXCEPT ![e].at = l, ![e].mailed = m]
        /\ l = "sent" => m = smtp
        /\ l = "failed" => failed' \/ ~m
        /\ failed' \in BOOLEAN /\ (failed => failed')
  <2>1. CASE Send(e)
    <3>1. eval' = [eval EXCEPT ![e].at = "sent", ![e].mailed = smtp] /\ failed' = failed
      BY <2>1 DEF Send
    <3>2. QED
      BY <1>2, <3>1
  <2>2. CASE SendFails(e)
    <3>1. eval' = [eval EXCEPT ![e].at = "failed", ![e].mailed = eval[e].mailed]
      BY <1>1, <1>2, <2>2, OnlyGoto DEF SendFails
    <3>2. failed' = failed /\ ~eval[e].mailed
      BY <1>2, <2>2 DEF SendFails, Knows
    <3>3. QED
      BY <1>2, <3>1, <3>2
  <2>3. CASE MarkSentFails(e)
    <3>1. eval' = [eval EXCEPT ![e].at = "failed", ![e].mailed = eval[e].mailed]
      BY <1>1, <1>2, <2>3, OnlyGoto DEF MarkSentFails
    <3>2. failed' = TRUE
      BY <2>3 DEF MarkSentFails
    <3>3. QED
      BY <1>2, <3>1, <3>2
  <2>4. QED
    BY <2>1, <2>2, <2>3
<1>5. /\ eval' \in [Evaluations -> Loops \cup {None}] /\ OnlyOf(e) /\ SameLoop(e)
      /\ eval'[e].at = l /\ eval'[e].mailed = m /\ eval'[e].todo = eval[e].todo
  BY <1>1, <1>2, <1>4, GotoFacts
<1>6. Recipient(Head(eval[e].todo))' # None /\ smtp' = smtp
  BY <1>1, <1>3, <1>5 DEF Recipient, env
<1>7. Knows(e)'
  <2>1. eval'[e].highest <= eval'[e].count
    BY <1>3, <1>5 DEF SameLoop
  <2>2. QED
    BY <1>3, <1>4, <1>5, <1>6, <2>1 DEF Knows
<1>8. QED
  BY <1>1, <1>2, <1>4, <1>5, <1>7, LoopStep DEF SameLoop

LEMMA MarkKeeps ==
  ASSUME DispatchInv, NEW e \in Evaluations, MarkSent(e) \/ MarkFailed(e)
  PROVE  DispatchInv'
<1>1. /\ eval[e] # None /\ UNCHANGED <<env, rule, views, mark, failed>> /\ Continue(e)
      /\ eval[e].at \in {"sent", "failed"}
  BY DEF MarkSent, MarkFailed
<1>2. TypeOK /\ Knows(e) /\ failed' \in BOOLEAN
  BY <1>1, LoopNow
<1>3. eval[e].todo # <<>> /\ eval[e].highest <= eval[e].count
  BY <1>1, <1>2 DEF Knows
<1>4. /\ eval' \in [Evaluations -> Loops \cup {None}] /\ OnlyOf(e) /\ SameLoop(e) /\ ~eval'[e].mailed
      /\ eval'[e].at = IF eval'[e].todo = <<>> THEN "mark" ELSE "create"
  BY <1>1, <1>2, <1>3, ContinueFacts
<1>5. Knows(e)'
  BY <1>3, <1>4 DEF Knows, SameLoop
<1>6. CASE MarkSent(e)
  <2>1. Leave(e, "SENT") /\ eval[e].mailed = smtp
    BY <1>2, <1>6 DEF MarkSent, Knows
  <2>2. eval[e].mailed \/ ~smtp
    BY <2>1
  <2>3. QED
    BY <1>1, <1>2, <1>4, <1>5, <2>1, <2>2, LeaveStep
<1>7. CASE MarkFailed(e)
  <2>1. Leave(e, "FAILED") /\ (failed' \/ ~eval[e].mailed)
    BY <1>1, <1>2, <1>7 DEF MarkFailed, Knows
  <2>2. QED
    BY <1>1, <1>2, <1>4, <1>5, <2>1, LeaveStep
<1>8. QED
  BY <1>1, <1>6, <1>7

LEMMA RecordKeeps ==
  ASSUME DispatchInv, NEW e \in Evaluations, RecordThreshold(e)
  PROVE  DispatchInv'
<1>1. /\ eval[e] # None /\ UNCHANGED <<env, rule, views, notices, failed>>
      /\ mark' = eval[e].highest /\ eval' = [eval EXCEPT ![e] = None]
  BY DEF RecordThreshold
<1>2. TypeOK /\ eval[e].highest \in 0 .. views /\ failed' \in BOOLEAN
  BY <1>1, LoopNow
<1>3. QED
  BY <1>1, <1>2, DropFacts, LoopStep

LEMMA AbortKeeps ==
  ASSUME DispatchInv, NEW e \in Evaluations, Abort(e)
  PROVE  DispatchInv'
<1>1. /\ eval[e] # None /\ UNCHANGED <<env, rule, views, mark>>
      /\ failed' = TRUE /\ eval' = [eval EXCEPT ![e] = None]
  BY DEF Abort
<1>2. TypeOK /\ mark' \in 0 .. views
  BY <1>1, LoopNow
<1>3. eval' \in [Evaluations -> Loops \cup {None}] /\ eval'[e] = None /\ OnlyOf(e)
  BY <1>1, <1>2, DropFacts
<1>4. CASE eval[e].at \in {"mail", "sent", "failed"}
  BY <1>1, <1>3, <1>4, LeaveStep DEF Abort
<1>5. CASE eval[e].at \notin {"mail", "sent", "failed"}
  BY <1>1, <1>2, <1>3, <1>5, LoopStep DEF Abort
<1>6. QED
  BY <1>4, <1>5

LEMMA DispatchStep == DispatchInv /\ [Next]_vars => DispatchInv'
<1> SUFFICES ASSUME DispatchInv, [Next]_vars PROVE DispatchInv'
  OBVIOUS
<1>1. CASE Administer
  BY <1>1, AdministerKeeps
<1>2. ASSUME NEW e \in Evaluations, Evaluate(e) PROVE DispatchInv'
  BY <1>2, IncrementKeeps, FindRulesKeeps, CreateKeeps, SendKeeps, MarkKeeps, RecordKeeps, AbortKeeps
     DEF Evaluate, Deliver
<1>3. CASE UNCHANGED vars
  BY <1>3 DEF DispatchInv, TypeOK, LoopsKnow, Knows, Recipient, StatusHonest, vars, env
<1>4. QED
  BY <1>1, <1>2, <1>3 DEF Next

(* What every evaluation and every row of notifications is at all times.         *)
THEOREM DispatchCorrect == Spec => []DispatchInv
  BY DispatchInit, DispatchStep, PTL DEF Spec

(* notification.service.ts:85-119: the mark and the rows evaluations work on stay  *)
(* within the views counted, and no evaluation comes to a row it cannot handle.   *)
THEOREM DispatchTyped == Spec => []TypeOK
<1>1. DispatchInv => TypeOK
  BY DEF DispatchInv
<1>2. QED
  BY <1>1, DispatchCorrect, PTL

LEMMA HistoryIsDispatch == HistorySpec => Spec
<1>1. HistoryInit => Init
  BY DEF HistoryInit
<1>2. [HistoryNext]_<<vars, edits, steady, mute>> => [Next]_vars
  BY DEF HistoryNext
<1>3. QED
  BY <1>1, <1>2, PTL DEF HistorySpec, Spec

(* notification.service.ts:57-83: SENT never stands for a mail the server did not  *)
(* take, and without failed queries FAILED never for one it took, nor does a row  *)
(* stay PENDING, however many evaluations are under way.                          *)
THEOREM StatusStaysHonest == HistorySpec => []StatusHonest
<1>1. DispatchInv => StatusHonest
  BY DEF DispatchInv
<1>2. QED
  BY <1>1, DispatchCorrect, HistoryIsDispatch, PTL

-----------------------------------------------------------------------------
(* Why no rule is passed over: a threshold below the mark, or below the mark an   *)
(* evaluation has read, is served; one below the views is served or in the loop  *)
(* of an evaluation that has still to come to it.                                *)
Served(r) ==
  /\ Heard(r) => Addressed(r) # {}
  /\ Alone(r) => Recipient(rule[r]) \in Addressed(r) \cup {None}

Ahead(e, r) ==
  \E i \in DOMAIN eval[e].todo :
    /\ eval[e].todo[i].threshold = rule[r].threshold
    /\ Alone(r) => eval[e].todo[i].recipient = rule[r].recipient
    /\ Heard(r) => Recipient(eval[e].todo[i]) # None

Awaited(e, r) ==
  /\ eval[e] # None /\ rule[r].threshold <= eval[e].count
  /\ eval[e].at = "rules" \/ Ahead(e, r)

OnItsWay(r) ==
  /\ rule[r].threshold <= mark => Served(r)
  /\ \A e \in Evaluations : eval[e] # None =>
       /\ rule[r].threshold <= eval[e].was => Served(r)
       /\ rule[r].threshold <= eval[e].count => Served(r) \/ Awaited(e, r)
  /\ rule[r].threshold <= views => Served(r) \/ \E e \in Evaluations : Awaited(e, r)

NonePassedOver ==
  /\ edits \in Nat /\ steady \subseteq InForce /\ Mute \subseteq mute
  /\ ~failed => \A r \in steady : OnItsWay(r)

(* What keeps a served rule served and an alert for it in its loop.              *)
Undisturbed(r) ==
  /\ UNCHANGED env /\ rule'[r] = rule[r] /\ notices \subseteq notices'
  /\ (Alone(r)' => Alone(r)) /\ (Heard(r)' => Heard(r))

LEMMA StaysServed ==
  ASSUME NEW r, Undisturbed(r)
  PROVE  /\ Served(r) => Served(r)'
         /\ \A e \in Evaluations : eval'[e] = eval[e] => (Awaited(e, r) => Awaited(e, r)')
<1>1. Addressed(r) \subseteq Addressed(r)'
  BY DEF Undisturbed, Addressed
<1>2. Recipient(rule[r])' = Recipient(rule[r]) /\ fallback' = fallback
  BY DEF Undisturbed, Recipient, env
<1>3. Served(r) => Served(r)'
  BY <1>1, <1>2 DEF Served, Undisturbed
<1>4. ASSUME NEW e \in Evaluations, eval'[e] = eval[e], Awaited(e, r)
      PROVE  Awaited(e, r)'
  BY <1>4 DEF Awaited, Ahead, Undisturbed, Recipient, env
<1>5. QED
  BY <1>3, <1>4

(* A step of one evaluation: what awaited the rule there is served or awaits it.  *)
LEMMA StaysOnItsWay ==
  ASSUME NEW r, Undisturbed(r), OnItsWay(r), NEW e \in Evaluations, OnlyOf(e), eval[e] # None,
         views' = views, rule[r].threshold <= mark' => Served(r)',
         eval'[e] # None => eval'[e].was = eval[e].was /\ eval'[e].count = eval[e].count,
         Awaited(e, r) => Served(r)' \/ Awaited(e, r)'
  PROVE  OnItsWay(r)'
<1>1. /\ rule'[r] = rule[r] /\ (Served(r) => Served(r)')
      /\ \A d \in Evaluations : eval'[d] = eval[d] => (Awaited(d, r) => Awaited(d, r)')
  BY StaysServed DEF Undisturbed
<1>2. rule'[r].threshold <= mark' => Served(r)'
  BY <1>1
<1>3. ASSUME NEW d \in Evaluations, eval'[d] # None
      PROVE  /\ rule'[r].threshold <= eval'[d].was => Served(r)'
             /\ rule'[r].threshold <= eval'[d].count => Served(r)' \/ Awaited(d, r)'
  <2>1. eval[d] # None /\ eval'[d].was = eval[d].was /\ eval'[d].count = eval[d].count
    BY <1>3 DEF OnlyOf
  <2>2. Awaited(d, r) => Served(r)' \/ Awaited(d, r)'
    BY <1>1 DEF OnlyOf
  <2>3. /\ rule[r].threshold <= eval[d].was => Served(r)
        /\ rule[r].threshold <= eval[d].count => Served(r) \/ Awaited(d, r)
    BY <2>1 DEF OnItsWay
  <2>4. QED
    BY <1>1, <2>1, <2>2, <2>3
<1>4. rule'[r].threshold <= views' => Served(r)' \/ \E d \in Evaluations : Awaited(d, r)'
  <2> SUFFICES ASSUME rule[r].threshold <= views, ~Served(r)'
               PROVE  \E d \in Evaluations : Awaited(d, r)'
    BY <1>1
  <2>1. PICK d \in Evaluations : Awaited(d, r)
    BY <1>1 DEF OnItsWay
  <2>2. Awaited(d, r)'
    BY <1>1, <2>1 DEF OnlyOf
  <2>3. QED
    BY <2>2
<1> DEFINE was == \A d \in Evaluations : eval[d] # None =>
                    /\ rule[r].threshold <= eval[d].was => Served(r)
                    /\ rule[r].threshold <= eval[d].count => Served(r) \/ Awaited(d, r)
<1>5. was'
  BY <1>3
<1>6. QED
  BY <1>2, <1>4, <1>5 DEF OnItsWay

LEMMA CountedOnItsWay ==
  ASSUME DispatchInv, NEW r \in InForce, Undisturbed(r), OnItsWay(r),
         NEW e \in Evaluations, IncrementViewCount(e)
  PROVE  OnItsWay(r)'
<1>1. /\ eval' \in [Evaluations -> Loops \cup {None}] /\ OnlyOf(e) /\ eval'[e] # None
      /\ eval'[e].count = views' /\ eval'[e].was = mark /\ eval'[e].at = "rules"
  BY IncrementKeeps
<1>2. /\ rule'[r] = rule[r] /\ (Served(r) => Served(r)')
      /\ \A d \in Evaluations : eval'[d] = eval[d] => (Awaited(d, r) => Awaited(d, r)')
  BY StaysServed DEF Undisturbed
<1>3. mark' = mark
  BY DEF IncrementViewCount
<1>4. rule'[r].threshold <= mark' => Served(r)'
  BY <1>2, <1>3 DEF OnItsWay
<1>5. rule'[r].threshold <= views' => Awaited(e, r)'
  BY <1>1 DEF Awaited
<1>6. ASSUME NEW d \in Evaluations, eval'[d] # None
      PROVE  /\ rule'[r].threshold <= eval'[d].was => Served(r)'
             /\ rule'[r].threshold <= eval'[d].count => Served(r)' \/ Awaited(d, r)'
  <2>1. CASE d = e
    BY <1>1, <1>2, <1>3, <1>4, <1>5, <2>1
  <2>2. CASE d # e
    BY <1>1, <1>2, <1>6, <2>2 DEF OnlyOf, OnItsWay
  <2>3. QED
    BY <2>1, <2>2
<1> DEFINE was == \A d \in Evaluations : eval[d] # None =>
                    /\ rule[r].threshold <= eval[d].was => Served(r)
                    /\ rule[r].threshold <= eval[d].count => Served(r) \/ Awaited(d, r)
<1>7. was'
  BY <1>6
<1>8. QED
  BY <1>4, <1>5, <1>7 DEF OnItsWay

LEMMA FoundOnItsWay ==
  ASSUME DispatchInv, NEW r \in InForce, Undisturbed(r), OnItsWay(r), edits' = edits,
         Mute \subseteq mute, NEW e \in Evaluations, FindRules(e)
  PROVE  OnItsWay(r)'
<1>1. eval[e] # None /\ eval[e].at = "rules" /\ UNCHANGED <<env, rule, views, mark, notices, failed>>
  BY DEF FindRules
<1>2. TypeOK /\ eval[e].was \in Nat /\ eval[e].count \in Nat /\ rule[r].threshold \in Nat
  BY <1>1, LoopNow, RuleTyped DEF Loops
<1>3. Served(r) => Served(r)'
  BY StaysServed
<1>4. rule[r].threshold <= mark' => Served(r)'
  BY <1>1, <1>3 DEF OnItsWay
<1>5. rule[r].threshold <= eval[e].was => Served(r)'
  BY <1>1, <1>3 DEF OnItsWay
<1>6. rule[r].threshold <= eval[e].count => Served(r)' \/ r \in Crossed(e)
  BY <1>2, <1>5 DEF Crossed
<1>7. CASE Crossed(e) = {}
  <2>1. eval' = [eval EXCEPT ![e] = None]
    BY <1>7 DEF FindRules
  <2>2. eval'[e] = None /\ OnlyOf(e)
    BY <1>2, <2>1, DropFacts
  <2>3. Awaited(e, r) => Served(r)'
    BY <1>6, <1>7 DEF Awaited
  <2>4. QED
    BY <1>1, <1>4, <2>2, <2>3, StaysOnItsWay
<1>8. CASE Crossed(e) # {}
  <2>1. /\ eval'[e] # None /\ OnlyOf(e) /\ eval'[e].at = "create"
        /\ eval'[e].count = eval[e].count /\ eval'[e].was = eval[e].was
        /\ \A q \in Crossed(e) : Picks(e, q)
    BY <1>2, <1>8, FindFacts
  <2>2. ASSUME r \in Crossed(e), rule[r].threshold <= eval[e].count
        PROVE  Awaited(e, r)'
    <3>1. PICK i \in DOMAIN eval'[e].todo :
            /\ eval'[e].todo[i].threshold = rule[r].threshold
            /\ \E q \in With(rule[r].threshold) : eval'[e].todo[i].recipient = rule[q].recipient
      BY <2>1, <2>2 DEF Picks
    <3>2. Alone(r)' => eval'[e].todo[i].recipient = rule[r].recipient
      BY <3>1 DEF Undisturbed, Alone
    <3>3. Heard(r)' => Recipient(eval'[e].todo[i]) # None
      <4>1. ASSUME eval'[e].todo[i].recipient = None PROVE rule[r].threshold \in mute
        BY <3>1, <4>1 DEF With, Mute, ThresholdsOf
      <4>2. QED
        BY <4>1 DEF Undisturbed, Heard, Recipient
    <3>4. Ahead(e, r)'
      BY <1>1, <3>1, <3>2, <3>3 DEF Ahead, Recipient, env
    <3>5. QED
      BY <1>1, <2>1, <2>2, <3>4 DEF Awaited
  <2>3. Awaited(e, r) => Served(r)' \/ Awaited(e, r)'
    BY <1>6, <2>2 DEF Awaited
  <2>4. QED
    BY <1>1, <1>4, <2>1, <2>3, StaysOnItsWay
<1>9. QED
  BY <1>7, <1>8

(* The alert in hand is one that rule r waits for.                               *)
InHand(e, r) ==
  /\ Head(eval[e].todo).threshold = rule[r].threshold
  /\ Alone(r) => Head(eval[e].todo).recipient = rule[r].recipient
  /\ Heard(r) => Recipient(Head(eval[e].todo)) # None

LEMMA ContinuesOnItsWay ==
  ASSUME DispatchInv, NEW r \in InForce, Undisturbed(r), OnItsWay(r), NEW e \in Evaluations,
         eval[e] # None, eval[e].at # "rules", eval[e].todo # <<>>, Continue(e),
         UNCHANGED <<views, mark>>, InHand(e, r) => Served(r)'
  PROVE  OnItsWay(r)'
<1>1. TypeOK
  BY DEF DispatchInv
<1>2. /\ eval'[e] # None /\ eval'[e].todo = Tail(eval[e].todo)
      /\ SameLoop(e) /\ OnlyOf(e)
  BY <1>1, ContinueFacts
<1>3. /\ Head(eval[e].todo) = eval[e].todo[1]
      /\ \A i \in DOMAIN eval[e].todo : i # 1 =>
           i - 1 \in DOMAIN Tail(eval[e].todo) /\ Tail(eval[e].todo)[i - 1] = eval[e].todo[i]
  BY <1>1, HeadOfLoop
<1>4. rule[r].threshold <= mark' => Served(r)'
  BY StaysServed DEF OnItsWay
<1>5. ASSUME Awaited(e, r) PROVE Served(r)' \/ Awaited(e, r)'
  <2>1. PICK i \in DOMAIN eval[e].todo :
          /\ eval[e].todo[i].threshold = rule[r].threshold
          /\ Alone(r) => eval[e].todo[i].recipient = rule[r].recipient
          /\ Heard(r) => Recipient(eval[e].todo[i]) # None
    BY <1>5 DEF Awaited, Ahead
  <2>2. CASE i = 1
    BY <1>3, <2>1, <2>2 DEF InHand
  <2>3. CASE i # 1
    <3>1. i - 1 \in DOMAIN eval'[e].todo /\ eval'[e].todo[i - 1] = eval[e].todo[i]
      BY <1>2, <1>3, <2>3
    <3>2. rule'[r] = rule[r] /\ (Alone(r)' => Alone(r)) /\ (Heard(r)' => Heard(r))
          /\ fallback' = fallback
      BY DEF Undisturbed, env
    <3>3. Ahead(e, r)'
      BY <2>1, <3>1, <3>2 DEF Ahead, Recipient
    <3>4. eval'[e].count = eval[e].count
      BY <1>2 DEF SameLoop
    <3>5. QED
      BY <1>2, <1>5, <3>2, <3>3, <3>4 DEF Awaited
  <2>4. QED
    BY <2>2, <2>3
<1>6. QED
  BY <1>2, <1>4, <1>5, StaysOnItsWay DEF SameLoop

LEMMA GoesOnItsWay ==
  ASSUME DispatchInv, NEW r \in InForce, Undisturbed(r), OnItsWay(r), NEW e \in Evaluations,
         eval[e] # None, eval[e].at # "rules", NEW l \in {"mail", "sent", "failed"}, NEW m \in BOOLEAN,
         eval' = [eval EXCEPT ![e].at = l, ![e].mailed = m], UNCHANGED <<views, mark>>
  PROVE  OnItsWay(r)'
<1>1. TypeOK
  BY DEF DispatchInv
<1>2. eval'[e] # None /\ eval'[e].todo = eval[e].todo /\ SameLoop(e) /\ OnlyOf(e)
  BY <1>1, GotoFacts
<1>3. rule[r].threshold <= mark' => Served(r)'
  BY StaysServed DEF OnItsWay
<1>4. ASSUME Awaited(e, r) PROVE Awaited(e, r)'
  <2>1. Ahead(e, r)'
    BY <1>2, <1>4 DEF Awaited, Ahead, Undisturbed, Recipient, env
  <2>2. QED
    BY <1>2, <1>4, <2>1 DEF Awaited, SameLoop, Undisturbed
<1>5. QED
  BY <1>2, <1>3, <1>4, StaysOnItsWay DEF SameLoop

LEMMA LeaveServes ==
  ASSUME NEW r, Undisturbed(r), NEW e \in Evaluations, NEW status, Leave(e, status), InHand(e, r)
  PROVE  Served(r)'
<1> DEFINE alert == Head(eval[e].todo)
<1> DEFINE row == [threshold |-> alert.threshold, recipient |-> Recipient(alert),
                   status |-> status, mailed |-> eval[e].mailed]
<1>1. row \in notices' /\ row.threshold = alert.threshold /\ row.recipient = Recipient(alert)
  BY DEF Leave
<1>2. rule'[r] = rule[r] /\ (Alone(r)' => Alone(r))
  BY DEF Undisturbed
<1>3. row.threshold = rule'[r].threshold
  BY <1>1, <1>2 DEF InHand
<1> HIDE DEF row
<1>4. Recipient(alert) \in Addressed(r)'
  BY <1>1, <1>3 DEF Addressed
<1>5. Alone(r)' => Recipient(rule[r])' = Recipient(alert)
  BY <1>2 DEF InHand, Recipient, Undisturbed, env
<1>6. QED
  BY <1>4, <1>5 DEF Served

LEMMA DeliverOnItsWay ==
  ASSUME DispatchInv, NEW r \in InForce, Undisturbed(r), OnItsWay(r), ~failed',
         NEW e \in Evaluations, Deliver(e)
  PROVE  OnItsWay(r)'
<1>1. /\ eval[e] # None /\ eval[e].at \in {"create", "mail", "sent", "failed"}
      /\ UNCHANGED <<views, mark>> /\ ~MarkSentFails(e)
  BY DEF Deliver, Create, Send, SendFails, MarkSent, MarkSentFails, MarkFailed
<1>2. TypeOK /\ Knows(e) /\ eval[e].mailed \in BOOLEAN /\ smtp \in BOOLEAN
  BY <1>1, LoopNow DEF TypeOK
<1>3. eval[e].todo # <<>> /\ eval[e].at # "rules"
  BY <1>1, <1>2 DEF Knows
<1>4. CASE Create(e)
  <2>1. CASE Recipient(Head(eval[e].todo)) = None
    <3>1. Continue(e)
      BY <1>4, <2>1 DEF Create
    <3>2. InHand(e, r) => Served(r)'
      BY <2>1 DEF InHand, Served, Recipient, Undisturbed, env
    <3>3. QED
      BY <1>1, <1>3, <3>1, <3>2, ContinuesOnItsWay
  <2>2. CASE Recipient(Head(eval[e].todo)) # None
    <3>1. eval' = [eval EXCEPT ![e].at = "mail", ![e].mailed = eval[e].mailed]
      BY <1>1, <1>2, <1>4, <2>2, OnlyGoto DEF Create
    <3>2. QED
      BY <1>1, <1>2, <1>3, <3>1, GoesOnItsWay
  <2>3. QED
    BY <2>1, <2>2
<1>5. CASE Send(e)
  <2>1. eval' = [eval EXCEPT ![e].at = "sent", ![e].mailed = smtp]
    BY <1>5 DEF Send
  <2>2. QED
    BY <1>1, <1>2, <1>3, <2>1, GoesOnItsWay
<1>6. CASE SendFails(e)
  <2>1. eval' = [eval EXCEPT ![e].at = "failed", ![e].mailed = eval[e].mailed]
    BY <1>1, <1>2, <1>6, OnlyGoto DEF SendFails
  <2>2. QED
    BY <1>1, <1>2, <1>3, <2>1, GoesOnItsWay
<1>7. CASE MarkSent(e) \/ MarkFailed(e)
  <2>1. Continue(e) /\ \E status \in {"SENT", "FAILED"} : Leave(e, status)
    BY <1>7 DEF MarkSent, MarkFailed
  <2>2. InHand(e, r) => Served(r)'
    BY <2>1, LeaveServes
  <2>3. QED
    BY <1>1, <1>3, <2>1, <2>2, ContinuesOnItsWay
<1>8. QED
  BY <1>1, <1>4, <1>5, <1>6, <1>7 DEF Deliver

LEMMA RecordedOnItsWay ==
  ASSUME DispatchInv, NEW r \in InForce, Undisturbed(r), OnItsWay(r),
         NEW e \in Evaluations, RecordThreshold(e)
  PROVE  OnItsWay(r)'
<1>1. /\ eval[e] # None /\ eval[e].at = "mark" /\ UNCHANGED <<env, rule, views, notices, failed>>
      /\ mark' = eval[e].highest /\ eval' = [eval EXCEPT ![e] = None]
  BY DEF RecordThreshold
<1>2. TypeOK /\ Knows(e) /\ eval[e].highest \in Nat /\ eval[e].count \in Nat /\ rule[r].threshold \in Nat
  BY <1>1, LoopNow, RuleTyped DEF Loops
<1>3. eval'[e] = None /\ OnlyOf(e)
  BY <1>1, <1>2, DropFacts
<1>4. ~Awaited(e, r)
  <2>1. eval[e].todo = <<>>
    BY <1>1, <1>2 DEF Knows
  <2>2. DOMAIN eval[e].todo = {}
    BY <2>1
  <2>3. QED
    BY <1>1, <2>2 DEF Awaited, Ahead
<1>5. eval[e].highest <= eval[e].count
  BY <1>2 DEF Knows
<1>6. rule[r].threshold <= mark' => rule[r].threshold <= eval[e].count
  BY <1>1, <1>2, <1>5
<1>7. rule[r].threshold <= mark' => Served(r)'
  BY <1>1, <1>4, <1>6, StaysServed DEF OnItsWay
<1>8. QED
  BY <1>1, <1>3, <1>4, <1>7, StaysOnItsWay

LEMMA ChangedOnItsWay ==
  ASSUME NEW r, Undisturbed(r), OnItsWay(r), UNCHANGED <<views, mark, eval>>
  PROVE  OnItsWay(r)'
<1>1. rule'[r] = rule[r]
  BY DEF Undisturbed
<1>2. Served(r) => Served(r)'
  BY StaysServed
<1>3. \A e \in Evaluations : Awaited(e, r) => Awaited(e, r)'
  BY StaysServed
<1> DEFINE was == \A d \in Evaluations : eval[d] # None =>
                    /\ rule[r].threshold <= eval[d].was => Served(r)
                    /\ rule[r].threshold <= eval[d].count => Served(r) \/ Awaited(d, r)
<1>4. was'
  BY <1>1, <1>2, <1>3 DEF OnItsWay
<1>5. (rule[r].threshold <= mark => Served(r))'
  BY <1>1, <1>2 DEF OnItsWay
<1>6. (rule[r].threshold <= views => Served(r) \/ \E e \in Evaluations : Awaited(e, r))'
  BY <1>1, <1>2, <1>3 DEF OnItsWay
<1>7. QED
  BY <1>4, <1>5, <1>6 DEF OnItsWay

-----------------------------------------------------------------------------
(* Both together are inductive.                                                 *)

LEMMA HistoryInitServed == HistoryInit => DispatchInv /\ NonePassedOver
<1> SUFFICES ASSUME HistoryInit PROVE NonePassedOver
  BY DispatchInit DEF HistoryInit
<1>1. Init /\ DispatchInv /\ edits = 0 /\ steady = InForce /\ mute = Mute
  BY DispatchInit DEF HistoryInit
<1>2. ASSUME NEW r \in InForce PROVE OnItsWay(r)
  <2>1. rule[r].threshold \in Nat \ {0}
    BY <1>1, RuleTyped DEF DispatchInv
  <2>2. ~(rule[r].threshold <= 0)
    BY <2>1
  <2>3. QED
    BY <1>1, <2>2 DEF OnItsWay, Init
<1>3. QED
  BY <1>1, <1>2 DEF NonePassedOver

LEMMA HistoryStepServed ==
  DispatchInv /\ NonePassedOver /\ [HistoryNext]_<<vars, edits, steady, mute>> => NonePassedOver'
<1> SUFFICES ASSUME DispatchInv, NonePassedOver, [HistoryNext]_<<vars, edits, steady, mute>>
             PROVE  NonePassedOver'
  OBVIOUS
<1>1. CASE UNCHANGED <<vars, edits, steady, mute>>
  BY <1>1 DEF NonePassedOver, InForce, OnItsWay, Served, Addressed, Alone, With, Recipient,
              Heard, Mute, ThresholdsOf, Awaited, Ahead, vars, env
<1>2. CASE HistoryNext
  <2>1. Next /\ edits' = (IF rule' = rule THEN edits ELSE edits + 1)
        /\ steady' = {r \in steady : rule'[r] = rule[r]} /\ edits \in Nat /\ steady \subseteq InForce
        /\ mute' = mute \cup Mute' /\ Mute \subseteq mute
    BY <1>2 DEF HistoryNext, NonePassedOver
  <2>2. edits' \in Nat /\ steady' \subseteq InForce' /\ Mute' \subseteq mute'
    BY <2>1 DEF InForce
  <2>3. UNCHANGED env /\ notices \subseteq notices' /\ (failed => failed')
    <3>1. CASE Administer
      BY <3>1 DEF Administer, CreateRule, UpdateRule, DeleteRule
    <3>2. ASSUME NEW e \in Evaluations, Evaluate(e)
          PROVE  UNCHANGED env /\ notices \subseteq notices' /\ (failed' = failed \/ failed' = TRUE)
      BY <3>2 DEF Evaluate, Deliver, IncrementViewCount, FindRules, Create, Send, SendFails,
                  MarkSent, MarkSentFails, MarkFailed, RecordThreshold, Abort, Leave
    <3>3. QED
      BY <2>1, <3>1, <3>2 DEF Next
  <2>4. ASSUME NEW r \in steady', ~failed' PROVE OnItsWay(r)'
    <3>1. r \in InForce /\ OnItsWay(r) /\ rule'[r] = rule[r]
      BY <2>1, <2>3, <2>4 DEF NonePassedOver
    <3>2. Alone(r)' => Alone(r)
      <4> SUFFICES ASSUME Alone(r)' PROVE Alone(r)
        OBVIOUS
      <4>1. edits' = 0
        BY DEF Alone
      <4>2. edits = 0 /\ rule' = rule
        BY <2>1, <4>1
      <4>3. QED
        BY <4>2 DEF Alone, With, InForce
    <3>3. Undisturbed(r)
      <4>1. Heard(r)' => Heard(r)
        BY <2>1, <2>3, <3>1 DEF Heard, env
      <4>2. QED
        BY <2>3, <3>1, <3>2, <4>1 DEF Undisturbed
    <3>4. CASE Administer
      BY <3>1, <3>3, <3>4, ChangedOnItsWay DEF Administer, CreateRule, UpdateRule, DeleteRule
    <3>5. ASSUME NEW e \in Evaluations, Evaluate(e) PROVE OnItsWay(r)'
      <4>1. CASE IncrementViewCount(e)
        BY <3>1, <3>3, <4>1, CountedOnItsWay
      <4>2. CASE FindRules(e)
        <5>1. edits' = edits
          BY <2>1, <4>2 DEF FindRules
        <5>2. QED
          BY <2>1, <3>1, <3>3, <4>2, <5>1, FoundOnItsWay
      <4>3. CASE Deliver(e)
        BY <2>4, <3>1, <3>3, <4>3, DeliverOnItsWay
      <4>4. CASE RecordThreshold(e)
        BY <3>1, <3>3, <4>4, RecordedOnItsWay
      <4>5. CASE Abort(e)
        BY <2>4, <4>5 DEF Abort
      <4>6. QED
        BY <3>5, <4>1, <4>2, <4>3, <4>4, <4>5 DEF Evaluate
    <3>6. QED
      BY <2>1, <3>4, <3>5 DEF Next
  <2>5. QED
    BY <2>2, <2>4 DEF NonePassedOver
<1>3. QED
  BY <1>1, <1>2

(* notification.service.ts:85-119: however evaluations overlap, mails fail and     *)
(* other rules are edited, a rule in force all the time is not passed over, and   *)
(* its own recipient is addressed if it is alone at its threshold.  Without a     *)
(* default recipient this needs every rule with its threshold to have its own.    *)
THEOREM EveryRuleIsServed == HistorySpec => []RulesServed
<1>1. DispatchInv /\ NonePassedOver /\ [HistoryNext]_<<vars, edits, steady, mute>> => DispatchInv'
  <2>1. [HistoryNext]_<<vars, edits, steady, mute>> => [Next]_vars
    BY DEF HistoryNext
  <2>2. QED
    BY <2>1, DispatchStep
<1>2. NonePassedOver => RulesServed
  <2> SUFFICES ASSUME NonePassedOver, Settled, NEW r \in steady, rule[r].threshold <= views
               PROVE  Served(r)
    BY DEF RulesServed, Served
  <2>1. OnItsWay(r) /\ \A e \in Evaluations : ~Awaited(e, r)
    BY DEF NonePassedOver, Settled, Awaited
  <2>2. QED
    BY <2>1 DEF OnItsWay
<1>3. QED
  BY <1>1, <1>2, HistoryInitServed, HistoryStepServed, PTL DEF HistorySpec
=============================================================================
