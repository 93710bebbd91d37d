------------------------------ MODULE MCServices ------------------------------
(***************************************************************************)
(* The relay's services that share no state with one another, with message *)
(* delivery or with the transactions of the contest engine, checked one at *)
(* a time: the initial state chooses the part, and only that part moves.   *)
(***************************************************************************)
EXTENDS Payments, Prekeys, Leaderboard, TtlCache, Awards, Scoring, ContestDesk, TLC

CONSTANTS Parts, c1, c2, s1, p1, x1, x2, r1, r2

VARIABLE part

tableVars == <<boardVars, cacheVars>>
contestVars == <<awardVars, scoringVars, deskVars>>

\* A subscription that is cancelled, and two sessions of one payer.
StripeEvents ==
  {[about |-> s1, at |-> 1, says |-> "active"], [about |-> s1, at |-> 2, says |-> "canceled"],
   [about |-> c1, at |-> 1, says |-> "paid"], [about |-> c2, at |-> 1, says |-> "unpaid"]}
OnePayer == [x \in {c1, c2, s1} |-> p1]

\* Two reactions and a reflection by one actor, and what an earner does themselves.
Did(kind, actor, at, on) == [kind |-> kind, actor |-> actor, earner |-> 1, source |-> <<on>>, at |-> at]
Interactions ==
  {Did("REACTION_RECEIVED", 2, 1, "p"), Did("REACTION_RECEIVED", 2, 2, "q"),
   Did("REFLECTION_RECEIVED", 2, 3, "p"), Did("REACTION_RECEIVED", 1, 2, "p"),
   Did("ECHO_CREATED", 1, 0, "p"), Did("ECHO_CREATED", 1, 2, "q")}
Kinds == {i.kind : i \in Interactions} \cup ChallengeKinds
SmallRules ==
  [points |-> [k \in Kinds |-> IF k = "REFLECTION_RECEIVED" THEN 3 ELSE 2],
   weights |-> [r \in RisksWeighed |-> IF r = "SELF_INTERACTION" THEN 0 ELSE 20],
   challenges |-> {[id |-> "c", kind |-> "ECHO_CREATED", count |-> 2, period |-> "daily"],
                   [id |-> "w", kind |-> "REACTION_RECEIVED", count |-> 2, period |-> "weekly"]},
   watch |-> 20, suspicious |-> 40, highRisk |-> 60, holdForReviewAt |-> 3,
   clusterMinEvents |-> 2, clusterDominance |-> 60, fullValueInteractions |-> 1,
   rapidPerMinute |-> 3, burstPerMinute |-> 4, repeatedActor |-> 2, repeatedTarget |-> 3,
   automationSampleSize |-> 3, automationJitter |-> 0, newIdentityWindow |-> 2,
   pairWindow |-> 3, perActorPairPoints |-> 2, perSourceEntityPoints |-> 4,
   dailyPointsPerParticipant |-> 5,
   dailyEvents |-> [k \in Kinds |-> IF k = "ECHO_CREATED" THEN 2 ELSE 9],
   cooldown |-> [k \in Kinds |-> IF k = "ECHO_CREATED" THEN 1 ELSE 0],
   startAt |-> 0, endAt |-> 5]
Ages == [x \in {1, 2} |-> 0]

\* One place and one prize, for the first of two instants; and what may be changed.
Announced == [status |-> "none", startAt |-> 1, endAt |-> 2, places |-> 1, prize |-> 1, version |-> 1]
Changes == {<<"startAt", 0>>, <<"endAt", 3>>, <<"rules", 2>>, <<"prize", 2>>, <<"places", 2>>, <<"places", 1>>}
Happened == {[at |-> 0], [at |-> 1], [at |-> 2]}

\* Senders are interchangeable, and so are runs and requests.
Interchangeable == Permutations({x1, x2}) \cup Permutations({r1, r2})

Init ==
  /\ part \in Parts
  /\ PaymentsInit /\ PrekeysInit
  /\ BoardInit /\ CacheInit /\ AwardsInit /\ ScoringInit /\ DeskInit

\* No event about a subscription.
OnlyEntries == \A i \in Call : call'[i] # Idle => call'[i].event.about \in Checkout

\* At the desk nobody joins and the places stay; at the doors nothing is scored, reconciled
\* or finalized, and neither rules nor prize are edited.
NobodyJoins ==
  /\ errands' <= 3 /\ \A e \in Errand : errand'[e].doing \notin {"join", "enter"}
  /\ edits' # edits => <<contest', versions'>> # <<contest, versions>> /\ contest'.places = contest.places
NothingScores ==
  /\ scored' = scored
  /\ \A e \in Errand : errand'[e].doing \in {"nothing", "join", "enter", "update"}
  /\ edits' # edits => contest' # contest /\ versions' = versions /\ contest'.prize = contest.prize

Next ==
  \/ /\ \/ part = "billing" /\ PaymentsNext /\ offered' = {}
        \/ part = "entry" /\ PaymentsNext /\ OnlyEntries
     /\ UNCHANGED <<part, preVars, tableVars, contestVars>>
  \/ /\ part = "prekeys" /\ PrekeysNext
     /\ \/ cuts' = 0 \/ day' = 0
        \/ Cardinality(mail' \cup inbox' \cup stored') <= 1  \* failures later on: one message
     /\ UNCHANGED <<part, payVars, tableVars, contestVars>>
  \/ /\ \/ part = "board" /\ BoardNext /\ UNCHANGED cacheVars
           /\ \A i \in Instance : writer'[i] = Resting \/ rebuilding'[i] = Resting
        \/ part = "cache" /\ CacheNext /\ UNCHANGED boardVars
     /\ UNCHANGED <<part, payVars, preVars, contestVars>>
  \/ /\ \/ part = "awards" /\ AwardsNext /\ UNCHANGED <<scoringVars, deskVars>>
        \/ part = "scoring" /\ ScoringNext /\ UNCHANGED <<awardVars, deskVars>>
        \/ part = "desk" /\ DeskNext /\ NobodyJoins /\ UNCHANGED <<awardVars, scoringVars>>
        \/ part = "doors" /\ DeskNext /\ NothingScores /\ UNCHANGED <<awardVars, scoringVars>>
     /\ UNCHANGED <<part, payVars, preVars, tableVars>>

Spec == Init /\ [][Next]_<<part, payVars, preVars, tableVars, contestVars>>
===============================================================================
