-------------------------------- MODULE Scoring --------------------------------
(***************************************************************************)
(* What an interaction is worth (apps/relay/src/contest: scoring.ts,       *)
(* risk.ts, rules.ts, and the queries they run): limits, decay, risk       *)
(* signals and challenges, over interactions scored in any order.  One     *)
(* scoring is one step here: how transactions interleave is ContestEngine. *)
(***************************************************************************)
EXTENDS Naturals, FiniteSets, Sequences, FiniteSetsExt, SequencesExt, Folds

CONSTANTS
  Interaction,  \* [kind, actor, earner, source, at]: what people did, and when
  Rules,        \* ContestRules
  FirstSeen,    \* when an identity first left a trace
  MINUTE, DAY,
  AwardedAt,    \* bound: when challenges are awarded
  MaxHelp       \* bound: undone interactions, reviews and releases by admins

RisksWeighed == {"SELF_INTERACTION", "RAPID_INTERACTION", "BURST_ACTIVITY", "REPEATED_ACTOR",
  "REPEATED_TARGET", "AUTOMATION_PATTERN", "NEW_ACCOUNT_FARMING", "ENGAGEMENT_CLUSTER"}

ChallengeKinds == {"DAILY_CHALLENGE_COMPLETED", "WEEKLY_CHALLENGE_COMPLETED"}
isSelfAuthored(kind) ==
  kind \in ChallengeKinds \cup {"ECHO_CREATED", "REFLECTION_CREATED", "RIPPLE_CREATED", "COMMUNITY_ACTIVITY"}

ASSUME RulesAssumption ==
  /\ Rules.points \in [DOMAIN Rules.points -> Nat] /\ ChallengeKinds \subseteq DOMAIN Rules.points
  /\ Rules.dailyEvents \in [DOMAIN Rules.points -> Nat] /\ Rules.cooldown \in [DOMAIN Rules.points -> Nat]
  /\ Rules.weights \in [RisksWeighed -> Nat]
  /\ \A c \in Rules.challenges : c.kind \in DOMAIN Rules.points /\ c.count \in Nat \ {0}
                                /\ c.period \in {"daily", "weekly"}
  /\ \A i \in Interaction : /\ i.kind \in DOMAIN Rules.points /\ i.at \in Nat
                            /\ isSelfAuthored(i.kind) => i.actor = i.earner
  /\ Rules.watch \in Nat /\ Rules.suspicious \in Nat /\ Rules.highRisk \in Nat
  /\ Rules.perActorPairPoints \in Nat /\ Rules.perSourceEntityPoints \in Nat
  /\ Rules.dailyPointsPerParticipant \in Nat
  /\ Rules.pairWindow \in Nat /\ Rules.fullValueInteractions \in Nat
  /\ MINUTE \in Nat \ {0} /\ DAY \in Nat \ {0} /\ AwardedAt \subseteq Nat

VARIABLES
  rows,     \* contest_engagement_events: [status, points] of each recorded interaction
  flags,    \* contest_risk_events: [earner, risk, key, score, open]
  due,      \* challenges met whose awards are still to be recorded
  helped

scoringVars == <<rows, flags, due, helped>>

ScoringInit == rows = [i \in {} |-> {}] /\ flags = {} /\ due = {} /\ helped = 0

SumOf(S, value(_)) == FoldSet(LAMBDA i, n : value(i) + n, 0, S)

-------------------------------------------------------------------------------
(* Rules. *)

utcDayStart(t) == (t \div DAY) * DAY
\* Weeks start on Mondays, and the epoch was a Thursday.
utcWeekStart(t) ==
  LET day == t \div DAY  sinceMonday == (day + 3) % 7
  IN IF day < sinceMonday THEN 0 ELSE (day - sinceMonday) * DAY
PeriodStart(period, t) == IF period = "daily" THEN utcDayStart(t) ELSE utcWeekStart(t)

riskBand(score) ==
  CASE score >= Rules.highRisk -> 3 [] score >= Rules.suspicious -> 2
    [] score >= Rules.watch -> 1 [] OTHER -> 0

\* Multipliers are in quarters.
riskMultiplier(band) == <<4, 4, 2, 0>>[band + 1]

\* A half for each interaction beyond those at full value.
diminishingMultiplier(points, prior) ==
  IF prior < Rules.fullValueInteractions THEN points
  ELSE points \div (2 ^ (prior - Rules.fullValueInteractions + 1))

-------------------------------------------------------------------------------
(* What the transaction reads. *)

Valid == {i \in DOMAIN rows : rows[i].status = "VALID"}
\* No query has an upper end: interactions after the one being scored count.
Since(S, t) == {i \in S : i.at >= t}
Back(t, span) == IF t > span THEN t - span ELSE 0
Points(S) == SumOf(S, LAMBDA i : rows[i].points)

Pair(i) == {j \in Valid : j.earner = i.earner /\ j.actor = i.actor}
OfKind(S, kind) == {j \in S : j.kind = kind}
Acted(i) == {j \in DOMAIN rows : j.actor = i.actor}
Received(i) == {j \in DOMAIN rows : j.earner = i.earner}

recentActorTimestamps(i) ==
  LET newestFirst == SetToSortSeq(Acted(i), LAMBDA a, b : a.at > b.at)
      kept == IF Len(newestFirst) < Rules.automationSampleSize THEN Len(newestFirst)
              ELSE Rules.automationSampleSize
  IN [n \in 1..kept |-> newestFirst[n].at]

\* The deviation of the gaps is at most the jitter.
detectAutomation(times) ==
  LET n == Len(times) - 1
      gap == [k \in 1..n |-> times[k] - times[k + 1]]
      sum == FoldFunction(LAMBDA x, y : x + y, 0, gap)
      squares == FoldFunction(LAMBDA x, y : x + y, 0, [k \in 1..n |-> gap[k] * gap[k]])
  IN Len(times) >= 3 /\ n * squares - sum * sum <= n * n * Rules.automationJitter * Rules.automationJitter

-------------------------------------------------------------------------------
(* Risk. *)

Signal(risk, key, cut) == [risk |-> risk, key |-> key, cut |-> cut]

\* Each signal with the quarters of its points that an interaction keeps.
assessEventRisk(i) ==
  LET lastMinute(S) == Cardinality(Since(S, Back(i.at, MINUTE)))
      times == recentActorTimestamps(i)
      age == IF i.at > FirstSeen[i.actor] THEN i.at - FirstSeen[i.actor] ELSE 0
      others == ~isSelfAuthored(i.kind)
      signals ==
        {s \in {Signal("RAPID_INTERACTION", <<i.at \div MINUTE, i.actor>>, 2)} :
           lastMinute(Acted(i)) > Rules.rapidPerMinute}
        \cup {s \in {Signal("BURST_ACTIVITY", <<i.at \div MINUTE, i.earner>>, 2)} :
           lastMinute(Received(i)) > Rules.burstPerMinute}
        \cup {s \in {Signal("REPEATED_ACTOR", <<i.at \div DAY, i.actor>>, 4)} :
           others /\ Cardinality(Since(Pair(i), Back(i.at, DAY))) >= Rules.repeatedActor}
        \cup {s \in {Signal("REPEATED_TARGET", <<i.source>>, 4)} :
           Cardinality({j \in DOMAIN rows : j.source = i.source}) >= Rules.repeatedTarget}
        \cup {s \in {Signal("AUTOMATION_PATTERN", <<i.at \div DAY, i.actor>>, 1)} :
           Len(times) >= Rules.automationSampleSize /\ detectAutomation(times)}
        \cup {s \in {Signal("NEW_ACCOUNT_FARMING", <<i.at \div DAY, i.actor>>, 1)} :
           others /\ age < Rules.newIdentityWindow}
  IN IF others /\ i.actor = i.earner
     THEN {Signal("SELF_INTERACTION", <<i.at \div DAY, i.kind>>, 0)}
     ELSE signals

\* Most of what a participant received comes from one actor: found in aggregate only.
assessClusterRisk(earner) ==
  LET received == {j \in Valid : j.earner = earner /\ j.actor # earner}
      given(a) == Points({j \in received : j.actor = a})
      top == {a \in {j.actor : j \in received} : \A j \in received : given(j.actor) <= given(a)}
  IN {Signal("ENGAGEMENT_CLUSTER", <<0, a>>, 4) :
        a \in {a \in top : /\ Cardinality(received) >= Rules.clusterMinEvents
                          /\ 100 * given(a) >= Rules.clusterDominance * Points(received)}}

SameFlag(f, g) == f.earner = g.earner /\ f.risk = g.risk /\ f.key = g.key

\* recordRiskEvent inserts, or does nothing where the signal was seen before.
recordRiskEvents(earner, signals) ==
  LET raised == {[earner |-> earner, risk |-> s.risk, key |-> s.key,
                  score |-> Rules.weights[s.risk], open |-> TRUE] : s \in signals}
  IN flags \cup {f \in raised : \A g \in flags : ~SameFlag(f, g)}
Flagged(i) ==
  recordRiskEvents(i.earner, {s \in assessEventRisk(i) :
                               s.risk # "SELF_INTERACTION" \/ Rules.weights[s.risk] > 0})

openRisk(earner, seen) ==
  LET sum == SumOf({f \in seen : f.earner = earner /\ f.open}, LAMBDA f : f.score)
  IN IF sum > 100 THEN 100 ELSE sum

-------------------------------------------------------------------------------
(* Limits. *)

\* Mutant: the last award is not cut to what is left.
Within_NotCut(points, limit, spent) == IF limit = 0 \/ spent < limit THEN points ELSE 0

\* A limit of zero is none.
Within(points, limit, spent) ==
  IF limit = 0 \/ spent + points <= limit THEN points
  ELSE IF limit > spent THEN limit - spent ELSE 0

tooSoon(i) ==
  LET same == {j \in Valid \ {i} : j.actor = i.actor /\ j.kind = i.kind}
  IN Rules.cooldown[i.kind] > 0 /\ same # {} /\ i.at < Max({j.at : j \in same}) + Rules.cooldown[i.kind]

applyCaps(i) ==
  LET today == Since({j \in Valid : j.earner = i.earner}, utcDayStart(i.at))
      pair == Since(Pair(i), Back(i.at, Rules.pairWindow))
      ofPair == IF isSelfAuthored(i.kind) THEN Rules.points[i.kind]
                ELSE Within(diminishingMultiplier(Rules.points[i.kind], Cardinality(pair)),
                            Rules.perActorPairPoints, Points(pair))
      ofSource == Within(ofPair, Rules.perSourceEntityPoints,
                         Points({j \in Valid : j.source = i.source}))
  IN IF tooSoon(i) \/ Cardinality(OfKind(today, i.kind)) >= Rules.dailyEvents[i.kind] THEN 0
     ELSE Within(ofSource, Rules.dailyPointsPerParticipant, Points(today))

-------------------------------------------------------------------------------
(* Scoring. *)

Scorable(i) ==
  i.at >= Rules.startAt /\ i.at < Rules.endAt /\ Rules.points[i.kind] > 0

\* Rounded to the nearest point, of sixteenths.
reduced(points, sixteenths) == (2 * points * sixteenths + 16) \div 32

Verdict(i) ==
  LET signals == assessEventRisk(i)
      band == riskBand(openRisk(i.earner, Flagged(i)))
      kept == Min({4} \cup {s.cut : s \in signals})
      points == reduced(applyCaps(i), kept * riskMultiplier(band))
      is(status, n) == [status |-> status, points |-> n]
  IN IF ~Scorable(i) \/ kept = 0 THEN is("REJECTED", 0)
     ELSE IF band >= Rules.holdForReviewAt THEN is("PENDING_REVIEW", 0)
     ELSE is(IF points = 0 THEN "REJECTED" ELSE "VALID", points)

\* Challenges the participant has met, counting what is VALID once i is.
evaluateChallenges(i) ==
  {[id |-> c.id, earner |-> i.earner, period |-> c.period, start |-> PeriodStart(c.period, i.at)] :
     c \in {c \in Rules.challenges :
        /\ c.kind = i.kind
        /\ LET mine == OfKind({j \in Valid \cup {i} : j.earner = i.earner}, i.kind)
           IN Cardinality(Since(mine, PeriodStart(c.period, i.at))) >= c.count}}

scoreEvent(i) ==
  /\ rows[i].status = "PENDING"
  /\ rows' = [rows EXCEPT ![i] = Verdict(i)]
  /\ flags' = IF Scorable(i) THEN Flagged(i) ELSE flags
  /\ due' = IF Verdict(i).status = "VALID" /\ i.kind \notin ChallengeKinds
            THEN due \cup evaluateChallenges(i) ELSE due
  /\ UNCHANGED helped

\* One row per idempotency key: what happened, not when.
insertPendingEvent(i) ==
  IF \E j \in DOMAIN rows : [j EXCEPT !.at = i.at] = i THEN UNCHANGED rows
  ELSE rows' = [j \in DOMAIN rows \cup {i} |->
                  IF j = i THEN [status |-> "PENDING", points |-> 0] ELSE rows[j]]

\* As it happens, when a lost job is swept up, or when the window is replayed.
recordEvent(i) ==
  /\ insertPendingEvent(i)
  /\ UNCHANGED <<flags, due, helped>>

\* A challenge is an interaction of its own, at the time it is awarded.
awardChallenge(d, time) ==
  /\ due' = due \ {d}
  /\ insertPendingEvent([kind |-> IF d.period = "daily" THEN "DAILY_CHALLENGE_COMPLETED"
                                  ELSE "WEEKLY_CHALLENGE_COMPLETED",
                         actor |-> d.earner, earner |-> d.earner,
                         source |-> <<d.id, d.start>>, at |-> time])
  /\ UNCHANGED <<flags, helped>>

-------------------------------------------------------------------------------
(* Second thoughts. *)

Helps == helped < MaxHelp /\ helped' = helped + 1

\* The content was deleted or the interaction undone.
reverseEvent(i) ==
  /\ Helps /\ rows[i].status \in {"VALID", "PENDING_REVIEW"}
  /\ rows' = [rows EXCEPT ![i].status = "REVERSED"]
  /\ UNCHANGED <<flags, due>>

resolveRiskEvents(earner) ==
  /\ Helps
  /\ flags' = {IF f.earner = earner THEN [f EXCEPT !.open = FALSE] ELSE f : f \in flags}
  /\ UNCHANGED <<rows, due>>

sweepClusterRisk(earner) ==
  /\ Helps
  /\ \/ assessClusterRisk(earner) = {} /\ UNCHANGED flags
     \/ \E s \in assessClusterRisk(earner) : flags' = recordRiskEvents(earner, {s})
  /\ UNCHANGED <<rows, due>>

MANUAL_FLAG_RISK_SCORE == 40
flagParticipant(earner) ==
  /\ Helps
  /\ flags' = flags \cup {[earner |-> earner, risk |-> "DUPLICATE_BEHAVIOR", key |-> <<helped, earner>>,
                          score |-> MANUAL_FLAG_RISK_SCORE, open |-> TRUE]}
  /\ UNCHANGED <<rows, due>>

releaseHeldEvents(earner) ==
  /\ Helps
  /\ rows' = [i \in DOMAIN rows |->
                IF rows[i].status = "PENDING_REVIEW" /\ i.earner = earner
                THEN [rows[i] EXCEPT !.status = "PENDING"] ELSE rows[i]]
  /\ UNCHANGED <<flags, due>>

ScoringNext ==
  \/ \E i \in Interaction : recordEvent(i)
  \/ \E i \in DOMAIN rows : scoreEvent(i) \/ reverseEvent(i)
  \/ \E d \in due, time \in AwardedAt : awardChallenge(d, time)
  \/ \E i \in Interaction :
       \/ resolveRiskEvents(i.earner) \/ releaseHeldEvents(i.earner)
       \/ sweepClusterRisk(i.earner) \/ flagParticipant(i.earner)

ScoringSpec == ScoringInit /\ [][ScoringNext]_scoringVars

-------------------------------------------------------------------------------
(* Properties. *)

PairCapHolds ==
  Rules.perActorPairPoints > 0 => \A i \in Valid :
    isSelfAuthored(i.kind)
    \/ Points({j \in Pair(i) : i.at <= j.at /\ j.at <= i.at + Rules.pairWindow}) <= Rules.perActorPairPoints

DayCapsHold ==
  \A i \in Valid :
    LET day == {j \in Valid : j.earner = i.earner /\ utcDayStart(j.at) = utcDayStart(i.at)}
    IN /\ Rules.dailyPointsPerParticipant = 0 \/ Points(day) <= Rules.dailyPointsPerParticipant
       /\ Cardinality(OfKind(day, i.kind)) <= Rules.dailyEvents[i.kind]

CooldownHolds ==
  \A i, j \in Valid : i # j /\ i.actor = j.actor /\ i.kind = j.kind /\ i.at <= j.at
                      => j.at - i.at >= Rules.cooldown[i.kind]

NobodyPraisesThemselves == \A i \in Valid : isSelfAuthored(i.kind) \/ i.actor # i.earner

\* Whatever was scored late, held, released or undone, in whatever order, what is
\* credited in the end keeps every limit of the rules over its own time: points of a
\* pair in any window, points and interactions of a day, the gap between two of a
\* kind; and nobody earns by what they do to their own posts (scoring.ts, risk.ts).
LimitsHold == PairCapHolds /\ DayCapsHold /\ CooldownHolds /\ NobodyPraisesThemselves

===============================================================================
