---------------------------- MODULE WatchProgress ----------------------------
(***************************************************************************)
(* How far a viewer got: the player (frontend CdsVideoPlayer.tsx) reports  *)
(* its position in heartbeats that nobody awaits, and the heartbeat        *)
(* handler (streaming.service.ts) folds each into the view's log by        *)
(* reading the row and writing it back.  Heartbeats overtake each other,   *)
(* get lost, and their two queries interleave.  The next view on the same  *)
(* device is offered to resume from what the logs say.                     *)
(*                                                                         *)
(* Positions are in units of the film: what the code compares them with    *)
(* (five seconds, 95 percent of the duration) are positions too; the       *)
(* content's row need not know its duration.                               *)
(***************************************************************************)
EXTENDS Integers

CONSTANTS
  MaxViews,    \* bound: how often the viewer opens the link
  Length,      \* the film's last position
  MinResume,   \* the position from which a log is worth resuming
  NearEnds,    \* where 95 percent lie of the durations the content may have
  Beats,       \* slots for heartbeats in flight at the same time
  None         \* no heartbeat

ASSUME LengthAssumption ==
  /\ MaxViews \in Nat \ {0} /\ Length \in Nat \ {0} /\ MinResume \in Nat \ {0}
  /\ NearEnds \subseteq Nat

VARIABLES
  nearEnd,     \* the content's row: the position from which its duration makes a log
               \* not worth resuming any more, or NoDuration if that is null or 0
  view,        \* the number of the view that is open; 0 before the first
  at, playing, \* the player's position, and whether it runs
  resume,      \* the position the view was offered to resume from, or NoResume
  reached,     \* history: view -> the furthest position its player was at
  saved, completed,  \* the view's log: watchSeconds and completed
  beat         \* the heartbeats on their way or being handled

player == <<view, at, playing, resume, reached>>
log == <<saved, completed>>
vars == <<nearEnd, player, log, beat>>

Positions == 0 .. Length
Numbers == 1 .. MaxViews
NoResume == -1
NoDuration == -1

Messages ==
  [view : Numbers, watchSeconds : Positions, completed : BOOLEAN,
   stage : {"sent", "read"}, was : Positions, wasCompleted : BOOLEAN]

ASSUME NoneAssumption == None \notin Messages

TypeOK ==
  /\ nearEnd \in NearEnds \cup {NoDuration}
  /\ view \in 0 .. MaxViews
  /\ at \in Positions
  /\ playing \in BOOLEAN
  /\ resume \in {NoResume} \cup Positions
  /\ reached \in [Numbers -> Positions]
  /\ saved \in [Numbers -> Positions]
  /\ completed \in [Numbers -> BOOLEAN]
  /\ beat \in [Beats -> Messages \cup {None}]

Init ==
  /\ nearEnd \in NearEnds \cup {NoDuration}
  /\ view = 0 /\ at = 0 /\ playing = FALSE /\ resume = NoResume
  /\ reached = [v \in Numbers |-> 0]
  /\ saved = [v \in Numbers |-> 0]
  /\ completed = [v \in Numbers |-> FALSE]
  /\ beat = [b \in Beats |-> None]

-----------------------------------------------------------------------------
(* Server side: the two queries of the handler that concern the log, and the    *)
(* query of the next access request.                                            *)

MergeLatest(was, seconds) == seconds
MergeSum(was, seconds) == was + seconds
Merge(was, seconds) == IF was >= seconds THEN was ELSE seconds

Completes(was, now) == now \/ was

ReadLog(b) ==
  /\ beat[b] # None /\ beat[b].stage = "sent"
  /\ beat' = [beat EXCEPT ![b].stage = "read",
                          ![b].was = saved[beat[b].view],
                          ![b].wasCompleted = completed[beat[b].view]]
  /\ UNCHANGED <<player, log>>

WriteLog(b) ==
  /\ beat[b] # None /\ beat[b].stage = "read"
  /\ saved' = [saved EXCEPT ![beat[b].view] = Merge(beat[b].was, beat[b].watchSeconds)]
  /\ completed' =
       [completed EXCEPT ![beat[b].view] = Completes(beat[b].wasCompleted, beat[b].completed)]
  /\ beat' = [beat EXCEPT ![b] = None]
  /\ UNCHANGED player

(* A heartbeat is lost on the way, or its handler fails before the write. *)
LoseBeat(b) ==
  /\ beat[b] # None
  /\ beat' = [beat EXCEPT ![b] = None]
  /\ UNCHANGED <<player, log>>

(* The logs that findLatestProgress looks at; the newest of them decides. *)
Resumable == {v \in 1 .. view : ~completed[v] /\ saved[v] >= MinResume}

LatestProgress ==
  IF Resumable = {} THEN NoResume
  ELSE saved[CHOOSE v \in Resumable : \A u \in Resumable : u <= v]

OfferedAlways == LatestProgress
Offered ==
  IF nearEnd # NoDuration /\ LatestProgress >= nearEnd THEN NoResume ELSE LatestProgress

-----------------------------------------------------------------------------
(* The player.  Every event sends a heartbeat unless the network swallows it.   *)

Report(v, position) ==
  \/ \E b \in Beats :
       /\ beat[b] = None
       /\ beat' = [beat EXCEPT ![b] =
            [view |-> v, watchSeconds |-> position, completed |-> position = Length,
             stage |-> "sent", was |-> 0, wasCompleted |-> FALSE]]
  \/ UNCHANGED beat

Move(position) ==
  /\ at' = position
  /\ reached' = [reached EXCEPT ![view] = IF @ >= position THEN @ ELSE position]

(* The page is opened again: a new access request, a new log. *)
OpenView ==
  /\ view < MaxViews
  /\ view' = view + 1
  /\ resume' = Offered
  /\ at' = 0 /\ playing' = FALSE
  /\ UNCHANGED <<reached, log, beat>>

(* A film at its end starts over. *)
Play ==
  /\ view > 0 /\ ~playing
  /\ playing' = TRUE
  /\ at' = at % Length
  /\ Report(view, at')
  /\ UNCHANGED <<view, resume, reached, log>>

Advance ==
  /\ playing /\ at < Length
  /\ Move(at + 1)
  /\ UNCHANGED <<view, playing, resume, log, beat>>

(* The ten-second timer, which reports while the film runs. *)
Progress ==
  /\ playing /\ at < Length
  /\ Report(view, at)
  /\ UNCHANGED <<player, log>>

(* Paused by the viewer, or by the end of the film. *)
Pause ==
  /\ playing
  /\ playing' = FALSE
  /\ Report(view, at)
  /\ UNCHANGED <<view, at, resume, reached, log>>

(* beforeunload and pagehide: the page is left, with a last report each. *)
Leave ==
  /\ view > 0
  /\ playing' = FALSE
  /\ Report(view, at)
  /\ UNCHANGED <<view, at, resume, reached, log>>

Seek(position) ==
  /\ view > 0 /\ position # at
  /\ Move(position)
  /\ IF position = 0 THEN Report(view, 0) ELSE UNCHANGED beat
  /\ UNCHANGED <<view, playing, resume, log>>

(* The viewer accepts the offer, which starts a paused player, or starts over.   *)
ApplyResume ==
  /\ resume # NoResume
  /\ Move(resume)
  /\ playing' = TRUE
  /\ resume' = NoResume
  /\ IF playing THEN UNCHANGED beat ELSE Report(view, resume)
  /\ UNCHANGED <<view, log>>

StartFromBeginning ==
  /\ resume # NoResume
  /\ Move(0)
  /\ resume' = NoResume
  /\ Report(view, 0)
  /\ UNCHANGED <<view, playing, log>>

-----------------------------------------------------------------------------
Watch ==
  \/ OpenView \/ Play \/ Advance \/ Progress \/ Pause \/ Leave
  \/ \E position \in Positions : Seek(position)
  \/ ApplyResume \/ StartFromBeginning

Handle(b) == ReadLog(b) \/ WriteLog(b) \/ LoseBeat(b)

Next ==
  /\ Watch \/ \E b \in Beats : Handle(b)
  /\ UNCHANGED nearEnd

Spec == Init /\ [][Next]_vars

-----------------------------------------------------------------------------
(* No interleaving, loss or reordering makes a log claim more than its own      *)
(* player showed.                                                               *)
ProgressHonest ==
  \A v \in Numbers :
    /\ saved[v] <= reached[v]
    /\ completed[v] => reached[v] = Length

(* tracking.repository.ts:93 and streaming.service.ts:247: what is offered is    *)
(* worth resuming and was seen on this device, and it is not in the last five    *)
(* percent of the duration in the content's row.  A content without a duration   *)
(* has no last five percent: it is offered up to its end.                        *)
OfferHonest ==
  resume # NoResume =>
    /\ resume >= MinResume
    /\ nearEnd # NoDuration => resume < nearEnd
    /\ \E v \in 1 .. view : resume <= reached[v]

(* streaming.service.ts:351 "accumulate watch progress": the progress and the     *)
(* completed flag are taken back only by a heartbeat that read the log before   *)
(* another wrote it; one that is handled on its own, however late it arrives,   *)
(* takes nothing back.                                                          *)
TakenBackByRaceOnly ==
  [][\A v \in Numbers :
       (saved'[v] < saved[v] \/ (completed[v] /\ ~completed'[v])) =>
         \E b \in Beats :
           /\ beat[b] # None /\ beat[b].view = v /\ beat[b].stage = "read"
           /\ beat[b].was # saved[v] \/ beat[b].wasCompleted # completed[v]]_vars
=============================================================================
