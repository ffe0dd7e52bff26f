------------------------ MODULE WatchProgressProofs -------------------------
(* What holds of the logs of the views and of the offers to resume, for every    *)
(* film, number of views and number of heartbeats on their way.                  *)
EXTENDS WatchProgress, FiniteSetTheorems, WellFoundedInduction, TLAPS

(* Of any views that have been opened one is the last: the one with the fewest   *)
(* numbers left after it.                                                       *)
LEMMA LastOfViews ==
  ASSUME NEW n \in Nat, NEW S \in SUBSET (1 .. n), S # {}
  PROVE  \E v \in S : \A u \in S : u <= v
<1> DEFINE T == {v + 1 .. n : v \in S}
<1> DEFINE R == StrictSubsetOrdering(1 .. n)
<1>1. T \subseteq FiniteSubsetsOf(1 .. n) /\ T # {}
  <2>1. IsFiniteSet(1 .. n)
    BY FS_Interval
  <2>2. FiniteSubsetsOf(1 .. n) = SUBSET (1 .. n)
    BY <2>1, FS_FiniteSubsetsOfFinite
  <2>3. \A v \in S : (v + 1 .. n) \in SUBSET (1 .. n)
    OBVIOUS
  <2>4. T \subseteq SUBSET (1 .. n)
    BY <2>3
  <2>5. T # {}
    OBVIOUS
  <2>6. QED
    BY <2>2, <2>4, <2>5
<1>2. IsWellFoundedOn(R, FiniteSubsetsOf(1 .. n))
  BY FS_StrictSubsetOrderingWellFounded
<1>3. \E x \in T : \A y \in T : <<y, x>> \notin R
  <2> HIDE DEF T, R
  <2> QED BY <1>1, <1>2, WFMin
<1>4. PICK v \in S : \A u \in S : <<u + 1 .. n, v + 1 .. n>> \notin R
  BY <1>3
<1>5. ASSUME NEW u \in S, u > v PROVE FALSE
  <2>1. u \in v + 1 .. n /\ u \notin u + 1 .. n /\ (u + 1 .. n) \subseteq v + 1 .. n
    BY <1>5
  <2>2. u + 1 .. n \in SUBSET (1 .. n) /\ v + 1 .. n \in SUBSET (1 .. n)
    OBVIOUS
  <2>3. QED
    BY <1>4, <2>1, <2>2 DEF StrictSubsetOrdering
<1>6. QED
  BY <1>5

(* Where a film that is started runs from: where it stands, or its beginning. *)
LEMMA StartOver ==
  ASSUME NEW position \in Positions
  PROVE  position % Length \in Positions /\ position % Length <= position
<1>1. CASE position = Length
  BY <1>1, LengthAssumption DEF Positions
<1>2. CASE position < Length
  BY <1>2, LengthAssumption DEF Positions
<1>3. QED
  BY <1>1, <1>2, LengthAssumption DEF Positions

-----------------------------------------------------------------------------
(* The player that runs belongs to a view, and stands no further than it got. *)
PlayerOpen ==
  /\ view = 0 => ~playing /\ resume = NoResume
  /\ view > 0 => at <= reached[view]

(* A heartbeat on its way claims no more than its view's player showed, and      *)
(* neither does what its handler read of the log.                               *)
BeatsHonest ==
  \A b \in Beats : beat[b] # None =>
    LET furthest == reached[beat[b].view]
    IN  /\ beat[b].watchSeconds <= furthest /\ (beat[b].completed => furthest = Length)
        /\ beat[b].was <= furthest /\ (beat[b].wasCompleted => furthest = Length)

WatchInv == TypeOK /\ PlayerOpen /\ BeatsHonest /\ ProgressHonest /\ OfferHonest

LEMMA WatchInit == Init => WatchInv
<1> SUFFICES ASSUME Init PROVE WatchInv
  OBVIOUS
<1>1. TypeOK
  <2>1. 0 \in Positions /\ 0 \in 0 .. MaxViews
    BY LengthAssumption DEF Positions
  <2>2. QED
    BY <2>1 DEF Init, TypeOK
<1>2. PlayerOpen /\ BeatsHonest /\ ProgressHonest /\ OfferHonest
  BY LengthAssumption
  DEF Init, PlayerOpen, BeatsHonest, ProgressHonest, OfferHonest, Positions, Numbers, NoResume
<1>3. QED
  BY <1>1, <1>2 DEF WatchInv

(* The furthest position of a view never falls back. *)
Onwards ==
  /\ reached' \in [Numbers -> Positions]
  /\ \A v \in Numbers : reached[v] <= reached'[v]

LEMMA MoveOnwards ==
  ASSUME TypeOK, view > 0, NEW position \in Positions, Move(position)
  PROVE  /\ at' = position /\ position <= reached'[view]
         /\ Onwards
  BY DEF TypeOK, Move, Onwards, Positions, Numbers

LEMMA StandOnwards == TypeOK /\ reached' = reached => Onwards
  BY DEF TypeOK, Onwards, Positions

(* The offer is made of a log that is worth resuming, and so of a position that  *)
(* one of the views so far showed.                                              *)
LEMMA OfferedShown ==
  ASSUME WatchInv, Offered # NoResume
  PROVE  /\ Offered \in Positions /\ Offered >= MinResume
         /\ nearEnd # NoDuration => Offered < nearEnd
         /\ \E v \in 1 .. view : Offered <= reached[v]
<1> DEFINE last == CHOOSE v \in Resumable : \A u \in Resumable : u <= v
<1>1. view \in Nat /\ Resumable \in SUBSET (1 .. view) /\ 1 .. view \subseteq Numbers
  BY LengthAssumption DEF WatchInv, TypeOK, Resumable, Numbers
<1>2. /\ LatestProgress # NoResume /\ Offered = LatestProgress
      /\ nearEnd # NoDuration => ~(LatestProgress >= nearEnd)
  BY DEF Offered
<1>3. Resumable # {}
  BY <1>2 DEF LatestProgress
<1>4. last \in Resumable
  BY <1>1, <1>3, LastOfViews
<1>5. LatestProgress = saved[last]
  BY <1>3 DEF LatestProgress
<1> HIDE DEF last
<1>6. saved[last] >= MinResume /\ saved[last] <= reached[last] /\ saved[last] \in Positions
  BY <1>1, <1>4 DEF WatchInv, ProgressHonest, Resumable, TypeOK
<1>7. nearEnd # NoDuration => nearEnd \in Nat
  BY LengthAssumption DEF WatchInv, TypeOK
<1>8. QED
  BY <1>1, <1>2, <1>4, <1>5, <1>6, <1>7, LengthAssumption DEF Positions

(* A report is of a position that its view's player showed. *)
LEMMA ReportHonest ==
  ASSUME WatchInv, Onwards, NEW v \in Numbers, NEW position \in Positions,
         Report(v, position), position <= reached'[v]
  PROVE  beat' \in [Beats -> Messages \cup {None}] /\ BeatsHonest'
<1> USE LengthAssumption DEF WatchInv, TypeOK, BeatsHonest, Onwards, Positions
<1>1. ASSUME NEW b \in Beats, beat[b] # None
      PROVE  beat[b] \in Messages /\ beat[b].view \in Numbers
  BY <1>1 DEF Messages
<1>2. CASE UNCHANGED beat
  BY <1>1, <1>2 DEF Messages
<1> DEFINE sent == [view |-> v, watchSeconds |-> position, completed |-> position = Length,
                    stage |-> "sent", was |-> 0, wasCompleted |-> FALSE]
<1>3. ASSUME NEW b \in Beats, beat' = [beat EXCEPT ![b] = sent]
      PROVE  beat' \in [Beats -> Messages \cup {None}] /\ BeatsHonest'
  <2>1. sent \in Messages
    BY DEF Messages
  <2>2. \A c \in Beats : beat'[c] = IF c = b THEN sent ELSE beat[c]
    BY <1>3
  <2>3. ASSUME NEW c \in Beats, c # b, beat[c] # None
        PROVE  LET furthest == reached'[beat[c].view]
               IN  /\ beat[c].watchSeconds <= furthest
                   /\ beat[c].completed => furthest = Length
                   /\ beat[c].was <= furthest
                   /\ beat[c].wasCompleted => furthest = Length
    <3>1. beat[c] \in Messages /\ beat[c].view \in Numbers
      BY <1>1, <2>3
    <3>2. reached[beat[c].view] <= reached'[beat[c].view] /\ reached'[beat[c].view] <= Length
      BY <3>1
    <3>3. QED
      BY <2>3, <3>1, <3>2 DEF Messages
  <2>4. /\ sent.watchSeconds <= reached'[sent.view]
        /\ sent.completed => reached'[sent.view] = Length
        /\ sent.was <= reached'[sent.view] /\ ~sent.wasCompleted
    <3>1. reached'[v] \in 0 .. Length
      OBVIOUS
    <3>2. sent.view = v /\ sent.watchSeconds = position /\ sent.was = 0 /\ ~sent.wasCompleted
      OBVIOUS
    <3>3. sent.completed => position = Length
      OBVIOUS
    <3>4. QED
      BY <3>1, <3>2, <3>3
  <2> HIDE DEF sent
  <2>5. BeatsHonest'
    BY <2>2, <2>3, <2>4
  <2>6. QED
    BY <1>3, <2>1, <2>5
<1>4. QED
  BY <1>2, <1>3 DEF Report

(* An offer that still stands was shown, and one that is answered is gone. *)
LEMMA OfferKept ==
  ASSUME WatchInv, Onwards, UNCHANGED nearEnd,
         (resume' = resume /\ view' = view) \/ resume' = NoResume
  PROVE  OfferHonest'
<1>1. CASE resume' = NoResume
  BY <1>1 DEF OfferHonest
<1>2. CASE resume' = resume /\ view' = view /\ resume # NoResume
  <2>1. resume \in Positions /\ resume >= MinResume /\ (nearEnd # NoDuration => resume < nearEnd)
    BY <1>2 DEF WatchInv, TypeOK, OfferHonest
  <2>2. PICK v \in 1 .. view : resume <= reached[v]
    BY <1>2 DEF WatchInv, OfferHonest
  <2>3. v \in Numbers /\ reached[v] <= reached'[v] /\ reached[v] \in Nat /\ reached'[v] \in Nat
    BY LengthAssumption DEF WatchInv, TypeOK, Onwards, Numbers, Positions
  <2>4. resume <= reached'[v]
    BY <2>1, <2>2, <2>3 DEF Positions
  <2>5. QED
    BY <1>2, <2>1, <2>2, <2>4 DEF OfferHonest
<1>3. QED
  BY <1>1, <1>2

(* What an event of the player leaves: a player of an open view, a furthest       *)
(* position that only grows, an offer of a position that was shown, and at most  *)
(* a report of such a position.                                                 *)
PlayerTyped ==
  /\ view \in 0 .. MaxViews /\ at \in Positions /\ playing \in BOOLEAN
  /\ resume \in {NoResume} \cup Positions

ReportsShown ==
  \/ UNCHANGED beat
  \/ \E v \in Numbers, position \in Positions :
       Report(v, position) /\ position <= reached'[v]

PlayerStep == PlayerTyped' /\ Onwards /\ PlayerOpen' /\ OfferHonest' /\ ReportsShown

LEMMA OpenViewStep == WatchInv /\ OpenView /\ UNCHANGED nearEnd => PlayerStep
<1> SUFFICES ASSUME WatchInv, OpenView, UNCHANGED nearEnd PROVE PlayerStep
  OBVIOUS
<1>1. Onwards /\ ReportsShown
  BY StandOnwards DEF WatchInv, OpenView, ReportsShown
<1>2. view' = view + 1 /\ view' \in 1 .. MaxViews /\ at' = 0 /\ playing' = FALSE /\ resume' = Offered
  BY LengthAssumption DEF WatchInv, TypeOK, OpenView
<1>3. 0 \in Positions
  BY LengthAssumption DEF Positions
<1>4. PlayerTyped'
  <2>1. Offered \in {NoResume} \cup Positions
    BY OfferedShown
  <2>2. view' \in 0 .. MaxViews
    BY <1>2, LengthAssumption
  <2>3. playing' \in BOOLEAN
    BY <1>2
  <2>4. QED
    BY <1>2, <1>3, <2>1, <2>2, <2>3 DEF PlayerTyped
<1>5. PlayerOpen'
  <2>1. reached'[view'] \in Nat
    BY <1>1, <1>2 DEF Onwards, Numbers, Positions
  <2>2. QED
    BY <1>2, <2>1 DEF PlayerOpen
<1>6. OfferHonest'
  <2>1. CASE Offered # NoResume
    <3>1. PICK v \in 1 .. view : Offered <= reached[v]
      BY <2>1, OfferedShown
    <3>2. v \in 1 .. view' /\ reached'[v] = reached[v]
      BY <1>2 DEF OpenView, WatchInv, TypeOK
    <3>3. QED
      BY <1>2, <2>1, <3>1, <3>2, OfferedShown DEF OfferHonest
  <2>2. QED
    BY <1>2, <2>1 DEF OfferHonest
<1>7. QED
  BY <1>1, <1>4, <1>5, <1>6 DEF PlayerStep

(* The events that leave the player where it is, or start its film over. *)
LEMMA StandingStep == WatchInv /\ (Play \/ Progress \/ Pause \/ Leave) /\ UNCHANGED nearEnd => PlayerStep
<1> SUFFICES ASSUME WatchInv, Play \/ Progress \/ Pause \/ Leave, UNCHANGED nearEnd
             PROVE  PlayerStep
  OBVIOUS
<1>1. /\ view > 0 /\ view' = view /\ resume' = resume /\ reached' = reached
      /\ playing' \in BOOLEAN
      /\ at' \in {at, at % Length} /\ Report(view, at')
  <2>1. playing => view > 0
    BY DEF WatchInv, TypeOK, PlayerOpen
  <2>2. playing \in BOOLEAN
    BY DEF WatchInv, TypeOK
  <2>3. CASE Play
    <3>1. at' = at % Length /\ Report(view, at')
      BY <2>3 DEF Play
    <3>2. QED
      BY <2>3, <3>1 DEF Play
  <2>4. CASE Progress \/ Pause \/ Leave
    BY <2>1, <2>2, <2>4 DEF Progress, Pause, Leave, player
  <2>5. QED
    BY <2>3, <2>4
<1>2. view \in Numbers /\ at \in Positions /\ at <= reached[view] /\ reached[view] \in Nat
  BY <1>1, LengthAssumption DEF WatchInv, TypeOK, PlayerOpen, Numbers, Positions
<1>3. at' \in Positions /\ at' <= reached[view]
  BY <1>1, <1>2, StartOver DEF Positions
<1>4. Onwards /\ OfferHonest'
  BY <1>1, StandOnwards, OfferKept DEF WatchInv
<1>5. PlayerTyped' /\ PlayerOpen' /\ ReportsShown
  BY <1>1, <1>2, <1>3 DEF PlayerTyped, PlayerOpen, ReportsShown, WatchInv, TypeOK
<1>6. QED
  BY <1>4, <1>5 DEF PlayerStep

(* The events that move it. *)
LEMMA MovingStep ==
  ASSUME WatchInv, NEW position \in Positions, Move(position), view > 0, UNCHANGED nearEnd,
         view' = view, playing' \in BOOLEAN, resume' \in {resume, NoResume},
         UNCHANGED beat \/ Report(view, position)
  PROVE  PlayerStep
<1>1. at' = position /\ position <= reached'[view] /\ Onwards
  BY MoveOnwards DEF WatchInv
<1>2. view \in Numbers
  BY LengthAssumption DEF WatchInv, TypeOK, Numbers
<1>3. OfferHonest'
  BY <1>1, OfferKept
<1>4. PlayerTyped' /\ PlayerOpen' /\ ReportsShown
  BY <1>1, <1>2 DEF PlayerTyped, PlayerOpen, ReportsShown, WatchInv, TypeOK
<1>5. QED
  BY <1>1, <1>3, <1>4 DEF PlayerStep

LEMMA WatchStep == WatchInv /\ Watch /\ UNCHANGED nearEnd => PlayerStep /\ UNCHANGED log
<1> SUFFICES ASSUME WatchInv, Watch, UNCHANGED nearEnd PROVE PlayerStep /\ UNCHANGED log
  OBVIOUS
<1>1. UNCHANGED log
  BY DEF Watch, OpenView, Play, Advance, Progress, Pause, Leave, Seek, ApplyResume,
         StartFromBeginning
<1>2. CASE OpenView \/ Play \/ Progress \/ Pause \/ Leave
  BY <1>1, <1>2, OpenViewStep, StandingStep
<1>3. CASE Advance
  <2>1. view > 0 /\ at + 1 \in Positions
    BY <1>3, LengthAssumption DEF Advance, WatchInv, TypeOK, PlayerOpen, Positions
  <2>2. QED
    BY <1>1, <1>3, <2>1, MovingStep DEF Advance, WatchInv, TypeOK
<1>4. ASSUME NEW position \in Positions, Seek(position) PROVE PlayerStep
  BY <1>4, MovingStep DEF Seek, WatchInv, TypeOK
<1>5. CASE ApplyResume \/ StartFromBeginning
  <2>1. view > 0 /\ resume \in Positions /\ 0 \in Positions
    BY <1>5, LengthAssumption
    DEF ApplyResume, StartFromBeginning, WatchInv, TypeOK, PlayerOpen, Positions
  <2>2. QED
    BY <1>1, <1>5, <2>1, MovingStep DEF ApplyResume, StartFromBeginning, WatchInv, TypeOK
<1>6. QED
  BY <1>1, <1>2, <1>3, <1>4, <1>5 DEF Watch

-----------------------------------------------------------------------------
(* The two queries of the handler, whatever comes in between them, and the loss    *)
(* of a heartbeat: only the logs and the heartbeats change.                       *)
LEMMA BeatFacts ==
  ASSUME WatchInv, NEW b \in Beats, beat[b] # None
  PROVE  LET furthest == reached[beat[b].view]
         IN  /\ beat[b] \in Messages /\ beat[b].view \in Numbers
             /\ furthest \in Positions
             /\ beat[b].watchSeconds <= furthest /\ (beat[b].completed => furthest = Length)
             /\ beat[b].was <= furthest /\ (beat[b].wasCompleted => furthest = Length)
<1>1. beat[b] \in Messages /\ beat[b].view \in Numbers
  BY DEF WatchInv, TypeOK, Messages
<1>2. QED
  BY <1>1 DEF WatchInv, TypeOK, BeatsHonest

LEMMA ReadStep ==
  ASSUME WatchInv, NEW b \in Beats, ReadLog(b)
  PROVE  beat' \in [Beats -> Messages \cup {None}] /\ BeatsHonest'
<1> DEFINE m == beat[b]
<1> DEFINE read == [m EXCEPT !.stage = "read", !.was = saved[m.view],
                             !.wasCompleted = completed[m.view]]
<1>1. m # None /\ beat' = [beat EXCEPT ![b] = read] /\ reached' = reached
  BY DEF ReadLog, player
<1>2. /\ m \in Messages /\ m.view \in Numbers
      /\ m.watchSeconds <= reached[m.view] /\ (m.completed => reached[m.view] = Length)
  BY <1>1, BeatFacts
<1>3. saved[m.view] \in Positions /\ completed[m.view] \in BOOLEAN
  BY <1>2 DEF WatchInv, TypeOK
<1>4. read \in Messages
  BY <1>2, <1>3 DEF Messages
<1>5. /\ read.view = m.view /\ read.watchSeconds = m.watchSeconds
      /\ read.completed = m.completed
      /\ read.was = saved[m.view] /\ read.wasCompleted = completed[m.view]
  BY <1>2 DEF Messages
<1>6. /\ read.was <= reached[read.view] /\ (read.wasCompleted => reached[read.view] = Length)
      /\ read.watchSeconds <= reached[read.view]
      /\ read.completed => reached[read.view] = Length
  BY <1>2, <1>5 DEF WatchInv, ProgressHonest
<1> HIDE DEF read, m
<1>7. \A c \in Beats : beat'[c] = IF c = b THEN read ELSE beat[c]
  BY <1>1 DEF WatchInv, TypeOK
<1>8. BeatsHonest'
  BY <1>1, <1>6, <1>7 DEF BeatsHonest, WatchInv
<1>9. QED
  BY <1>1, <1>4, <1>8 DEF WatchInv, TypeOK

LEMMA DropStep ==
  ASSUME WatchInv, NEW b \in Beats, beat' = [beat EXCEPT ![b] = None], reached' = reached
  PROVE  beat' \in [Beats -> Messages \cup {None}] /\ BeatsHonest'
<1>1. \A c \in Beats : beat'[c] = IF c = b THEN None ELSE beat[c]
  BY DEF WatchInv, TypeOK
<1>2. BeatsHonest'
  BY <1>1 DEF BeatsHonest, WatchInv
<1>3. QED
  BY <1>2 DEF WatchInv, TypeOK

(* What is written of a heartbeat was shown: the larger of what it reports and     *)
(* of what its handler read, and a completion that either claims.                *)
LEMMA WriteStep ==
  ASSUME WatchInv, NEW b \in Beats, WriteLog(b)
  PROVE  /\ saved' \in [Numbers -> Positions] /\ completed' \in [Numbers -> BOOLEAN]
         /\ ProgressHonest'
<1> DEFINE v == beat[b].view
<1> DEFINE now == Merge(beat[b].was, beat[b].watchSeconds)
<1> DEFINE whole == Completes(beat[b].wasCompleted, beat[b].completed)
<1>1. /\ beat[b] # None /\ reached' = reached
      /\ saved' = [saved EXCEPT ![v] = now] /\ completed' = [completed EXCEPT ![v] = whole]
  BY DEF WriteLog, player
<1>2. v \in Numbers /\ now \in Positions /\ whole \in BOOLEAN
  BY <1>1, BeatFacts DEF Merge, Completes, Messages
<1>3. now <= reached[v] /\ (whole => reached[v] = Length)
  BY <1>1, BeatFacts DEF Merge, Completes
<1> HIDE DEF v, now, whole
<1>4. saved' \in [Numbers -> Positions] /\ completed' \in [Numbers -> BOOLEAN]
  BY <1>1, <1>2 DEF WatchInv, TypeOK
<1>5. ASSUME NEW w \in Numbers
      PROVE  saved'[w] <= reached[w] /\ (completed'[w] => reached[w] = Length)
  BY <1>1, <1>2, <1>3 DEF WatchInv, TypeOK, ProgressHonest
<1>6. QED
  BY <1>1, <1>4, <1>5 DEF ProgressHonest

LEMMA WatchStepKeeps == WatchInv /\ [Next]_vars => WatchInv'
<1> SUFFICES ASSUME WatchInv, [Next]_vars PROVE WatchInv'
  OBVIOUS
<1>5. UNCHANGED nearEnd
  BY DEF Next, vars
<1>1. CASE UNCHANGED vars
  BY <1>1 DEF WatchInv, TypeOK, PlayerOpen, BeatsHonest, ProgressHonest, OfferHonest,
              vars, player, log
<1>2. CASE Watch
  <2>1. PlayerStep /\ saved' = saved /\ completed' = completed
    BY <1>2, <1>5, WatchStep DEF log
  <2>2. beat' \in [Beats -> Messages \cup {None}] /\ BeatsHonest'
    <3>1. CASE UNCHANGED beat
      <4>1. ASSUME NEW b \in Beats, beat[b] # None
            PROVE  LET furthest == reached'[beat[b].view]
                   IN  /\ beat[b].watchSeconds <= furthest
                       /\ beat[b].completed => furthest = Length
                       /\ beat[b].was <= furthest
                       /\ beat[b].wasCompleted => furthest = Length
        BY <2>1, <4>1, BeatFacts DEF PlayerStep, Onwards, Messages, Positions
      <4>2. QED
        BY <3>1, <4>1 DEF BeatsHonest, WatchInv, TypeOK
    <3>2. QED
      BY <2>1, <3>1, ReportHonest DEF PlayerStep, ReportsShown
  <2>3. ProgressHonest'
    <3>1. ASSUME NEW v \in Numbers
          PROVE  saved[v] <= reached'[v] /\ (completed[v] => reached'[v] = Length)
      BY <2>1, LengthAssumption
      DEF WatchInv, TypeOK, ProgressHonest, PlayerStep, Onwards, Positions
    <3>2. QED
      BY <2>1, <3>1 DEF ProgressHonest
  <2>4. TypeOK'
    BY <1>5, <2>1, <2>2 DEF WatchInv, TypeOK, PlayerStep, PlayerTyped, Onwards
  <2>5. QED
    BY <2>1, <2>2, <2>3, <2>4 DEF WatchInv, PlayerStep
<1>3. ASSUME NEW b \in Beats, Handle(b) PROVE WatchInv'
  <2>1. UNCHANGED player
    BY <1>3 DEF Handle, ReadLog, WriteLog, LoseBeat
  <2>2. PlayerOpen' /\ OfferHonest'
    BY <1>5, <2>1 DEF WatchInv, PlayerOpen, OfferHonest, player
  <2>3. /\ beat' \in [Beats -> Messages \cup {None}]
        /\ BeatsHonest'
    BY <1>3, <2>1, ReadStep, DropStep DEF Handle, WriteLog, LoseBeat, player
  <2>4. /\ saved' \in [Numbers -> Positions] /\ completed' \in [Numbers -> BOOLEAN]
        /\ ProgressHonest'
    <3>1. CASE WriteLog(b)
      BY <3>1, WriteStep
    <3>2. CASE ReadLog(b) \/ LoseBeat(b)
      BY <2>1, <3>2 DEF ReadLog, LoseBeat, log, player, WatchInv, TypeOK, ProgressHonest
    <3>3. QED
      BY <1>3, <3>1, <3>2 DEF Handle
  <2>5. TypeOK'
    BY <1>5, <2>1, <2>3, <2>4 DEF WatchInv, TypeOK, player
  <2>6. QED
    BY <2>2, <2>3, <2>4, <2>5 DEF WatchInv
<1>4. QED
  BY <1>1, <1>2, <1>3 DEF Next

(* CdsVideoPlayer.tsx reports positions and nothing else, and the heartbeat        *)
(* handler of streaming.service.ts only merges what it was told with what it     *)
(* read: whatever is lost, late, repeated or interleaved.                        *)
THEOREM WatchCorrect == Spec => []WatchInv
<1>1. QED
  BY WatchInit, WatchStepKeeps, PTL DEF Spec

(* What the player, the heartbeats on their way and the logs say of a position is one  *)
(* of the film (streaming.service.ts:352-390).                                    *)
THEOREM WatchTyped == Spec => []TypeOK
<1>1. WatchInv => TypeOK
  BY DEF WatchInv
<1>2. QED
  BY <1>1, WatchCorrect, PTL

(* A log never claims more than its own player showed: watchSeconds that the       *)
(* player was not at, or a completion without having been at the end.           *)
THEOREM ProgressStaysHonest == Spec => []ProgressHonest
<1>1. WatchInv => ProgressHonest
  BY DEF WatchInv
<1>2. QED
  BY <1>1, WatchCorrect, PTL

(* findLatestProgress and the access service offer to resume at a position worth   *)
(* it, that a view of the same device has been at and that lies before the last   *)
(* five percent of the content's duration, if its row has one.                   *)
THEOREM OfferStaysHonest == Spec => []OfferHonest
<1>1. WatchInv => OfferHonest
  BY DEF WatchInv
<1>2. QED
  BY <1>1, WatchCorrect, PTL

(* A write takes progress or a completion back only if the handler's read has     *)
(* been overtaken by another's write; nothing else takes any back.              *)
THEOREM TakenBackOnlyByRace == Spec => TakenBackByRaceOnly
<1> DEFINE Overtaken(v) ==
      \E b \in Beats :
        /\ beat[b] # None /\ beat[b].view = v /\ beat[b].stage = "read"
        /\ beat[b].was # saved[v] \/ beat[b].wasCompleted # completed[v]
<1> DEFINE TakenBack(v) == saved'[v] < saved[v] \/ (completed[v] /\ ~completed'[v])
<1>1. ASSUME WatchInv, Next, NEW v \in Numbers, TakenBack(v) PROVE Overtaken(v)
  <2>1. saved[v] \in Positions
    BY <1>1 DEF WatchInv, TypeOK
  <2>2. saved'[v] # saved[v] \/ completed'[v] # completed[v]
    BY <1>1, <2>1, LengthAssumption DEF Positions
  <2>3. PICK b \in Beats : WriteLog(b)
    BY <1>1, <2>2, WatchStep DEF Next, Handle, ReadLog, LoseBeat, log
  <2>4. beat[b] # None /\ beat[b].stage = "read"
    BY <2>3 DEF WriteLog
  <2>5. beat[b] \in Messages /\ beat[b].view \in Numbers
    BY <1>1, <2>4, BeatFacts
  <2>6. beat[b].view = v
    BY <1>1, <2>2, <2>3, <2>5 DEF WriteLog, WatchInv, TypeOK
  <2>7. CASE saved'[v] < saved[v]
    <3>1. saved'[v] = Merge(beat[b].was, beat[b].watchSeconds)
      BY <1>1, <2>3, <2>6 DEF WriteLog, WatchInv, TypeOK
    <3>2. beat[b].was # saved[v]
      BY <2>1, <2>5, <2>7, <3>1, LengthAssumption DEF Merge, Messages, Positions
    <3>3. QED
      BY <2>4, <2>6, <3>2
  <2>8. CASE completed[v] /\ ~completed'[v]
    <3>1. completed'[v] = Completes(beat[b].wasCompleted, beat[b].completed)
      BY <1>1, <2>3, <2>6 DEF WriteLog, WatchInv, TypeOK
    <3>2. beat[b].wasCompleted # completed[v]
      BY <2>8, <3>1 DEF Completes
    <3>3. QED
      BY <2>4, <2>6, <3>2
  <2>9. QED
    BY <1>1, <2>7, <2>8
<1> DEFINE A == \A v \in Numbers : TakenBack(v) => Overtaken(v)
<1>2. ASSUME WatchInv, [Next]_vars PROVE [A]_vars
  BY <1>1, <1>2
<1>3. TakenBackByRaceOnly <=> [][A]_vars
  BY PTL DEF TakenBackByRaceOnly
<1>4. QED
  BY <1>2, <1>3, WatchCorrect, PTL DEF Spec
=============================================================================
