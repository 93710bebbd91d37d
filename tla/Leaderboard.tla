------------------------------ MODULE Leaderboard ------------------------------
(***************************************************************************)
(* The contest leaderboard in Redis, beside the scores in Postgres         *)
(* (apps/relay/src/contest/leaderboard.ts, published to by service.ts).    *)
(*                                                                         *)
(* Commands to Redis are steps of their own.  Relay instances share the    *)
(* sorted set and the keys a rebuild stages it under.  Names and event     *)
(* counts, kept in a hash beside it, are left out.                         *)
(***************************************************************************)
EXTENDS Naturals, FiniteSets

CONSTANTS
  Player,
  Instance,            \* relay instances: each scores one event at a time
  MaxScore, MaxLosses  \* bounds: of a score; of commands Redis rejects and expiries

ASSUME LeaderboardAssumption == {MaxScore, MaxLosses} \subseteq Nat

VARIABLES
  score,      \* contest_participants.current_score
  out,        \* disqualified participants
  board,      \* the sorted set: a score, or Off
  staging,    \* the set a rebuild prepares
  writer,     \* per instance: the standing it publishes
  removal,    \* a disqualification in progress
  rebuilding, \* per instance: its rebuild (ContestLeaderboard.rebuilds)
  disturbed,  \* history: participants whose entry may be stale or missing for good
  losses

boardVars == <<score, out, board, staging, writer, removal, rebuilding, disturbed, losses>>

Off == MaxScore + 1
Empty == [p \in Player |-> Off]
Resting == [stage |-> "none"]

BoardInit ==
  /\ score = [p \in Player |-> 0]
  /\ out = {} /\ board = Empty /\ staging = Empty
  /\ writer = [i \in Instance |-> Resting] /\ rebuilding = [i \in Instance |-> Resting]
  /\ removal = Resting /\ disturbed = {} /\ losses = 0

\* Publications, removals and rebuilds that know p as it was.
Pending(p) == \E i \in Instance : writer[i] # Resting /\ writer[i].who = p
Outdated(p) ==
  \/ \E i \in Instance : writer[i].stage = "publish" /\ writer[i].who = p
  \/ \E i \in Instance : rebuilding[i] # Resting

-------------------------------------------------------------------------------
(* Scores. *)

\* An event is credited, or reversed: the transaction commits, then the standing is
\* published.  Only an eligible participant is credited.
settleEvent(i, p, points) ==
  /\ writer[i] = Resting
  /\ points > score[p] => p \notin out
  /\ points # score[p]
  /\ score' = [score EXCEPT ![p] = points]
  /\ writer' = [writer EXCEPT ![i] = [stage |-> "read", who |-> p]]
  /\ disturbed' = IF Outdated(p) THEN disturbed \cup {p} ELSE disturbed
  /\ UNCHANGED <<out, board, staging, removal, rebuilding, losses>>

\* The standing is read, then written, whoever has written since.
publishStanding(i) ==
  /\ writer[i].stage = "read"
  /\ writer' = [writer EXCEPT ![i] = [stage |-> "publish", who |-> @.who,
                                      score |-> score[writer[i].who]]]
  /\ UNCHANGED <<score, out, board, staging, removal, rebuilding, disturbed, losses>>

\* An entry only ever goes up.
publishScore_Raise(i) ==
  /\ writer[i].stage = "publish"
  /\ LET p == writer[i].who
     IN board' = [board EXCEPT ![p] = IF @ = Off \/ @ < writer[i].score THEN writer[i].score ELSE @]
  /\ writer' = [writer EXCEPT ![i] = Resting]
  /\ UNCHANGED <<score, out, staging, removal, rebuilding, disturbed, losses>>

\* zAdd: on a board that has gone cold it begins a new one, which is not complete; and
\* a participant disqualified since comes back.
publishScore(i) ==
  /\ writer[i].stage = "publish"
  /\ LET p == writer[i].who
     IN /\ board' = [board EXCEPT ![p] = writer[i].score]
        /\ disturbed' = disturbed \cup (IF board = Empty THEN Player \ {p} ELSE {})
                                  \cup (IF p \in out THEN {p} ELSE {})
  /\ writer' = [writer EXCEPT ![i] = Resting]
  /\ UNCHANGED <<score, out, staging, removal, rebuilding, losses>>

\* Redis rejects it, or the instance stops.
LosePublish(i) ==
  /\ writer[i] # Resting
  /\ losses < MaxLosses
  /\ losses' = losses + 1
  /\ disturbed' = disturbed \cup {writer[i].who}
  /\ writer' = [writer EXCEPT ![i] = Resting]
  /\ UNCHANGED <<score, out, board, staging, removal, rebuilding>>

-------------------------------------------------------------------------------
(* Review. *)

\* The standing is recorded; the points are reversed one by one afterwards, and none of
\* those reversals is published.
disqualify(p) ==
  /\ removal = Resting
  /\ out' = out \cup {p}
  /\ removal' = [stage |-> "reverse", who |-> p]
  /\ disturbed' = IF Outdated(p) \/ Pending(p) THEN disturbed \cup {p} ELSE disturbed
  /\ UNCHANGED <<score, board, staging, writer, rebuilding, losses>>

reverseParticipantEvents ==
  /\ removal.stage = "reverse"
  /\ score' = [score EXCEPT ![removal.who] = 0]
  /\ removal' = [removal EXCEPT !.stage = "remove"]
  /\ disturbed' = IF Outdated(removal.who) THEN disturbed \cup {removal.who} ELSE disturbed
  /\ UNCHANGED <<out, board, staging, writer, rebuilding, losses>>

\* The entry of a disqualified participant stays.
remove_Skip ==
  /\ removal.stage = "remove"
  /\ removal' = Resting
  /\ UNCHANGED <<score, out, board, staging, writer, rebuilding, disturbed, losses>>

remove ==
  /\ removal.stage = "remove"
  /\ board' = [board EXCEPT ![removal.who] = Off]
  /\ removal' = Resting
  /\ UNCHANGED <<score, out, staging, writer, rebuilding, disturbed, losses>>

LoseRemove ==
  /\ removal # Resting
  /\ losses < MaxLosses
  /\ losses' = losses + 1
  /\ disturbed' = disturbed \cup {removal.who}
  /\ removal' = Resting
  /\ UNCHANGED <<score, out, board, staging, writer, rebuilding>>

\* A participant who is back is on the board only once it is rebuilt or they score.
reinstate(p) ==
  /\ p \in out /\ removal = Resting
  /\ out' = out \ {p}
  /\ disturbed' = disturbed \cup {p}
  /\ UNCHANGED <<score, board, staging, writer, removal, rebuilding, losses>>

-------------------------------------------------------------------------------
(* Rebuilding. *)

\* Those who have not scored are left out.
Snapshot_Scorers == [p \in Player |-> IF p \in out \/ score[p] = 0 THEN Off ELSE score[p]]

\* leaderboardSnapshot: everyone who is not disqualified.
Snapshot == [p \in Player |-> IF p \in out THEN Off ELSE score[p]]

\* A reader finds no board, or an administrator asks; one rebuild at a time on an
\* instance.
rebuild(i, asked) ==
  /\ rebuilding[i] = Resting
  /\ asked \/ board = Empty
  /\ rebuilding' = [rebuilding EXCEPT ![i] = [stage |-> "clear", snapshot |-> Snapshot]]
  /\ UNCHANGED <<score, out, board, staging, writer, removal, disturbed, losses>>

ClearStaging(i) ==
  /\ rebuilding[i].stage = "clear"
  /\ staging' = Empty
  /\ rebuilding' = [rebuilding EXCEPT ![i].stage = "fill"]
  /\ UNCHANGED <<score, out, board, writer, removal, disturbed, losses>>

\* zAdd of the whole snapshot, over what another instance has staged; nothing to add
\* drops the board.
FillStaging(i) ==
  /\ rebuilding[i].stage = "fill"
  /\ LET s == rebuilding[i].snapshot
     IN IF s = Empty
        THEN /\ board' = Empty
             /\ rebuilding' = [rebuilding EXCEPT ![i] = Resting]
             /\ UNCHANGED staging
        ELSE /\ staging' = [p \in Player |-> IF s[p] = Off THEN staging[p] ELSE s[p]]
             /\ rebuilding' = [rebuilding EXCEPT ![i].stage = "swap"]
             /\ UNCHANGED board
  /\ UNCHANGED <<score, out, writer, removal, disturbed, losses>>

\* rename: fails when another instance has renamed the key away.  Entries written by
\* publications since the snapshot are gone.
SwapBoard(i) ==
  /\ rebuilding[i].stage = "swap"
  /\ board' = IF staging = Empty THEN board ELSE staging
  /\ staging' = Empty
  /\ rebuilding' = [rebuilding EXCEPT ![i] = Resting]
  /\ UNCHANGED <<score, out, writer, removal, disturbed, losses>>

LoseRebuild(i) ==
  /\ rebuilding[i] # Resting
  /\ losses < MaxLosses
  /\ losses' = losses + 1
  /\ rebuilding' = [rebuilding EXCEPT ![i] = Resting]
  /\ UNCHANGED <<score, out, board, staging, writer, removal, disturbed>>

\* Six hours without a publication, or Redis loses its memory.
Expire ==
  /\ board # Empty
  /\ losses < MaxLosses
  /\ losses' = losses + 1
  /\ board' = Empty
  /\ UNCHANGED <<score, out, staging, writer, removal, rebuilding, disturbed>>

BoardNext ==
  \/ \E i \in Instance :
       \/ \E p \in Player, n \in 0..MaxScore : settleEvent(i, p, n)
       \/ publishStanding(i) \/ publishScore(i) \/ LosePublish(i)
       \/ \E asked \in BOOLEAN : rebuild(i, asked)
       \/ ClearStaging(i) \/ FillStaging(i) \/ SwapBoard(i) \/ LoseRebuild(i)
  \/ \E p \in Player : disqualify(p) \/ reinstate(p)
  \/ reverseParticipantEvents \/ remove \/ LoseRemove \/ Expire

BoardSpec == BoardInit /\ [][BoardNext]_boardVars

-------------------------------------------------------------------------------
(* Properties. *)

\* A board that is there lists everyone who is eligible, never part of them, unless a
\* publication began it or a participant was reinstated (leaderboard.ts:153).
BoardIsWhole ==
  board # Empty => \A p \in Player \ (out \cup disturbed) : board[p] # Off

\* The board is whole, and what it shows of a participant is their score in Postgres, and nothing once a
\* review has disqualified them, unless a publication is under way or was lost, or
\* writers overlapped (service.ts:312).
BoardIsCurrent ==
  /\ BoardIsWhole
  /\ \A p \in Player \ disturbed :
       (removal # Resting => removal.who # p) =>
         /\ ~Pending(p) => board[p] \in {Off, score[p]}
         /\ p \in out => board[p] = Off
===============================================================================
