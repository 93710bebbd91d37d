------------------------------ MODULE ContestDeskProofs -------------------------------
(*****************************************************************************)
(* Theorems about ContestDesk, for any visitors, requests, edits and deeds.  *)
(*****************************************************************************)
EXTENDS ContestDesk, FiniteSetTheorems, SequenceTheorems, TLAPS

-----------------------------------------------------------------------------
(* The desk.                                                               *)

Statuses == {"DRAFT", "REGISTRATION_OPEN", "ACTIVE", "FROZEN", "UNDER_REVIEW", "FINALIZED", "CANCELLED"}
Contests == Terms(Statuses)
Looks == [doing : {"update", "finalize", "join", "load", "replay", "conclude"}, seen : Contests,
          edits : Nat]
Entries == [doing : {"enter"}, who : Visitor, edits : Nat, beside : SUBSET Visitor]
Stops == [to : Statuses, by : {"admin", "system", "late"}, due : BOOLEAN]

\* The type invariant of ContestDesk.
DeskTypes ==
    /\ contest \in {Unmade} \cup Contests /\ versions \in Seq(Nat)
    /\ entrants \in SUBSET Visitor /\ trail \in Seq(Stops)
    /\ cached \in {Unmade} \cup Contests
    /\ dueMove \in {NoErrand} \cup [doing : {"ACTIVE", "FROZEN"}, edits : Nat]
    /\ errand \in [Errand -> {NoErrand} \cup Looks \cup Entries]
    /\ clock \in 0..MaxClock /\ edits \in Nat
    /\ closing \in {Unmade} \cup Contests /\ frozenAt \in Nat
    /\ covered \in {Unmade} \cup [startAt : Nat, endAt : Nat]

\* Nothing refers to a contest before it is created.
NothingBefore ==
    contest = Unmade =>
        /\ entrants = {} /\ DOMAIN scored = {} /\ trail = <<>> /\ versions = <<>>
        /\ cached = Unmade /\ dueMove = NoErrand /\ \A e \in Errand : errand[e] = NoErrand
        /\ closing = Unmade /\ frozenAt = Never /\ covered = Unmade

\* Who looked knows the contest as it is, until it is edited.
LooksCurrent ==
    /\ dueMove # NoErrand => dueMove.edits <= edits
    /\ \A e \in Errand : errand[e] # NoErrand => errand[e].edits <= edits
    /\ \A e \in Errand :
        errand[e].doing \in {"join", "finalize"} /\ errand[e].edits = edits =>
            errand[e].seen.places = contest.places /\ errand[e].seen.prize = contest.prize
    /\ \A e \in Errand : errand[e].doing = "update" => ~Closed(errand[e].seen.status)

\* Every version a record names is there, and what was scored by it can be read from it.
VersionsStay ==
    /\ contest # Unmade => contest.version \in 1..Len(versions)
    /\ cached # Unmade => cached.version \in 1..Len(versions)
    /\ \A e \in Errand : errand[e] # NoErrand /\ errand[e].doing # "enter" =>
                            errand[e].seen.version \in 1..Len(versions)
    /\ \A d \in DOMAIN scored : /\ scored[d].version \in 1..Len(versions)
                                /\ scored[d].worth = versions[scored[d].version]

\* A sweep that found the contest over is right until it is edited.
DueIsDue ==
    dueMove.doing = "FROZEN" /\ dueMove.edits = edits => clock >= contest.endAt

\* A step of the trail the lifecycle allows.
Leads(from, stop) ==
    /\ stop.to \in ALLOWED_TRANSITIONS[from]
    /\ stop.by = "system" /\ stop.to = "FROZEN" => stop.due
LastStop(t) == IF t = <<>> THEN "DRAFT" ELSE t[Len(t)].to
Way(t) == \A k \in 1..Len(t) : Leads(IF k = 1 THEN "DRAFT" ELSE t[k - 1].to, t[k])
TrailLeads == contest # Unmade => LastStop(trail) = contest.status /\ Way(trail)

\* Review follows a freeze and a replay, and a replay misses nothing.
Replayed ==
    \A d \in Deed :
        d.at < frozenAt /\ covered.startAt <= d.at /\ d.at < covered.endAt => d \in DOMAIN scored
ReviewIsCovered ==
    /\ contest.status \in {"UNDER_REVIEW", "FINALIZED"} => covered # Unmade
    /\ contest.status = "FROZEN" => frozenAt # Never
    /\ \A e \in Errand : errand[e].doing \in {"load", "replay"} => frozenAt # Never
    /\ \A e \in Errand : errand[e].doing = "conclude" => covered # Unmade
    /\ frozenAt # Never => frozenAt <= clock
    /\ covered # Unmade => frozenAt # Never /\ Replayed

ClosedStays ==
    closing # Unmade =>
        /\ Closed(closing.status) /\ contest.status = closing.status
        /\ "closed" \in slips \/ contest = closing

\* Who was told of a place finds one, if nobody came between.
PlacesKept ==
    /\ IsFiniteSet(entrants)
    /\ PlacesSuffice
    /\ \A e \in Errand : errand[e].doing = "enter" => errand[e].beside \subseteq entrants
    /\ \A e \in Errand :
        errand[e].doing = "enter" /\ errand[e].edits = edits /\ errand[e].beside = entrants =>
            errand[e].who \in entrants \/ Cardinality(entrants) < contest.places

DeskInv ==
    /\ DeskTypes /\ NothingBefore /\ LooksCurrent /\ VersionsStay /\ DueIsDue
    /\ TrailLeads /\ ReviewIsCovered /\ ClosedStays /\ PlacesKept /\ PrizeAsAnnounced

\* What a change of a field leaves.
IsEdit(new, row, f, v) == new = [row EXCEPT ![f] = v]
\* A change of one field keeps a contest a contest, and its other fields.
LEMMA EditOf ==
    ASSUME NEW row \in Contests, NEW f \in Editable \cup {"version"}, NEW v \in Nat, NEW new,
           IsEdit(new, row, f, v)
    PROVE  /\ new \in Contests /\ new.status = row.status
           /\ f # "version" => new.version = row.version
           /\ f = "version" => new.version = v
           /\ f # "places" => new.places = row.places
           /\ f = "places" => new.places = v
<1>1. f \in {"startAt", "endAt", "places", "prize", "version"}
    BY DEF Editable
<1>2. QED
    BY <1>1 DEF Contests, Terms, IsEdit

\* And a change of status.
LEMMA StatusOf ==
    ASSUME NEW row \in Contests, NEW to \in Statuses, NEW new, new = [row EXCEPT !.status = to]
    PROVE  /\ new \in Contests /\ new.status = to /\ new.version = row.version
           /\ new.places = row.places /\ new.prize = row.prize /\ new.endAt = row.endAt
           /\ Window(new) = Window(row)
BY DEF Contests, Terms, Window

\* The contest as it is created.
LEMMA AnOpening ==
    ASSUME NEW new, new = [Opening EXCEPT !.status = "DRAFT", !.version = 1]
    PROVE  /\ new \in Contests /\ new.status = "DRAFT" /\ new.version = 1
           /\ new.places \in Nat /\ new # Unmade
BY DeskAssumption DEF Contests, Terms, Statuses, Unmade

\* Rows and requests, of whatever kind.
LEMMA ContestRows ==
    ASSUME NEW row \in {Unmade} \cup Contests
    PROVE  /\ row.status # "none" => row \in Contests /\ row # Unmade
           /\ row # Unmade => row \in Contests /\ row.status \in Statuses
           /\ row = Unmade <=> row.status = "none"
BY DEF Contests, Terms, Statuses, Unmade

\* A request that has looked holds a contest, and one that enters a visitor.
LEMMA ErrandRows ==
    ASSUME NEW r \in {NoErrand} \cup Looks \cup Entries
    PROVE  /\ r.doing \notin {"nothing", "enter"} => r \in Looks /\ r.seen \in Contests
           /\ r.doing = "enter" => r \in Entries /\ r.who \in Visitor
           /\ r # NoErrand => r.doing # "nothing" /\ r.edits \in Nat
           /\ r = NoErrand => r.doing = "nothing"
BY DEF Looks, Entries, NoErrand

\* The lifecycle leads to a status, and never on from a closed one.
LEMMA Allowed ==
    ASSUME NEW from \in Statuses, NEW to \in ALLOWED_TRANSITIONS[from]
    PROVE  to \in Statuses /\ ~Closed(from)
<1>1. from \in {"DRAFT", "REGISTRATION_OPEN", "ACTIVE", "FROZEN", "UNDER_REVIEW", "FINALIZED", "CANCELLED"}
    BY DEF Statuses
<1>2. CASE from = "DRAFT"
    BY <1>2 DEF ALLOWED_TRANSITIONS, Statuses, Closed
<1>3. CASE from = "REGISTRATION_OPEN"
    BY <1>3 DEF ALLOWED_TRANSITIONS, Statuses, Closed
<1>4. CASE from = "ACTIVE"
    BY <1>4 DEF ALLOWED_TRANSITIONS, Statuses, Closed
<1>5. CASE from = "FROZEN"
    BY <1>5 DEF ALLOWED_TRANSITIONS, Statuses, Closed
<1>6. CASE from = "UNDER_REVIEW"
    BY <1>6 DEF ALLOWED_TRANSITIONS, Statuses, Closed
<1>7. CASE from = "FINALIZED" \/ from = "CANCELLED"
    BY <1>7 DEF ALLOWED_TRANSITIONS
<1>8. QED
    BY <1>1, <1>2, <1>3, <1>4, <1>5, <1>6, <1>7

\* A change of status keeps the types.
LEMMA SetStatusTypes ==
    ASSUME DeskTypes, contest # Unmade, NEW to \in Statuses, NEW by \in {"admin", "system", "late"},
           setStatus(to, by)
    PROVE  /\ contest' \in Contests /\ trail' \in Seq(Stops) /\ closing' \in {Unmade} \cup Contests
           /\ frozenAt' \in Nat
<1>1. contest' \in Contests
    <2>1. contest' = [contest EXCEPT !.status = to] /\ contest \in Contests
        BY DEF setStatus, DeskTypes
    <2>2. QED
        BY <2>1, StatusOf
<1>2. contest \in Contests /\ clock \in 0..MaxClock /\ MaxClock \in Nat
    BY DeskAssumption DEF DeskTypes
<1>3. (clock >= contest.endAt) \in BOOLEAN
    BY <1>2 DEF Contests, Terms
<1> DEFINE stop == [to |-> to, by |-> by, due |-> clock >= contest.endAt]
<1>4. stop \in Stops /\ trail' = Append(trail, stop)
    <2>1. stop \in Stops
        BY <1>3, Zenon DEF Stops
    <2>2. QED
        BY <2>1 DEF setStatus
<1> HIDE DEF stop
<1>5. trail' \in Seq(Stops)
    <2>1. trail \in Seq(Stops)
        BY DEF DeskTypes
    <2>2. QED
        BY <1>4, <2>1
<1>6. closing' = contest' \/ closing' = closing
    BY DEF setStatus
<1>7. frozenAt' = clock \/ frozenAt' = frozenAt
    BY DEF setStatus
<1>8. clock \in Nat /\ frozenAt \in Nat /\ closing \in {Unmade} \cup Contests
    BY DeskAssumption DEF DeskTypes
<1>9. QED
    BY <1>1, <1>5, <1>6, <1>7, <1>8

\* So does a transition, which is one when it is allowed.
LEMMA MoveTypes ==
    ASSUME DeskTypes, contest # Unmade, NEW to \in Statuses, NEW by \in {"admin", "system", "late"},
           transitionContest(to, by)
    PROVE  /\ contest' \in Contests /\ trail' \in Seq(Stops) /\ closing' \in {Unmade} \cup Contests
           /\ frozenAt' \in Nat
BY SetStatusTypes DEF transitionContest, DeskTypes

\* An edit keeps the types, and makes a new version when the rules change.
LEMMA EditTypes ==
    ASSUME DeskTypes, contest \in Contests, NEW e \in Errand, NEW change \in Edits,
           update(e, change[1], change[2])
    PROVE  /\ contest' \in Contests /\ versions' \in Seq(Nat) /\ contest'.status = contest.status
           /\ \/ /\ versions' = Append(versions, change[2]) /\ contest'.version = Len(versions) + 1
              \/ versions' = versions /\ contest'.version = contest.version
           /\ change[1] # "places" => contest'.places = contest.places
           /\ change[1] = "places" => contest'.places = change[2]
<1> DEFINE f == change[1]  v == change[2]
<1>1. f \in Editable \cup {"rules"} /\ v \in Nat
    BY DeskAssumption
<1>0. versions \in Seq(Nat)
    BY DEF DeskTypes
<1>2. CASE f = "rules"
    <2>1. /\ versions' = Append(versions, v)
          /\ contest' = [contest EXCEPT !["version"] = Len(versions) + 1]
        BY <1>2 DEF update, addRuleVersion
    <2>2. Len(versions) + 1 \in Nat /\ versions' \in Seq(Nat)
        BY <1>0, <1>1, <2>1
    <2> HIDE DEF f, v
    <2>3. /\ contest' \in Contests /\ contest'.status = contest.status
          /\ contest'.version = Len(versions) + 1 /\ contest'.places = contest.places
        <3> DEFINE n == Len(versions) + 1
        <3>1. n \in Nat
            BY <2>2
        <3>0. IsEdit(contest', contest, "version", n)
            BY <2>1 DEF IsEdit
        <3> HIDE DEF n
        <3>2. contest' \in Contests /\ contest'.status = contest.status
              /\ contest'.version = n /\ contest'.places = contest.places
            BY <3>0, <3>1, EditOf
        <3>3. QED
            BY <3>2 DEF n
    <2>4. QED
        BY <1>2, <2>1, <2>2, <2>3 DEF f, v
<1>3. CASE f # "rules"
    <2>1. versions' = versions /\ contest' = [contest EXCEPT ![f] = v]
        BY <1>3 DEF update
    <2>2. f \in Editable /\ f # "version"
        BY <1>1, <1>3 DEF Editable
    <2>0. IsEdit(contest', contest, f, v)
        BY <2>1 DEF IsEdit
    <2> HIDE DEF f, v
    <2>3. /\ contest' \in Contests /\ contest'.status = contest.status
          /\ contest'.version = contest.version
          /\ f # "places" => contest'.places = contest.places
          /\ f = "places" => contest'.places = v
        BY <1>1, <2>0, <2>2, EditOf
    <2>4. QED
        BY <1>0, <2>1, <2>3 DEF f, v
<1>4. QED
    BY <1>2, <1>3

\* Every step keeps the types.
LEMMA DeskTypesNext ==
    ASSUME DeskTypes, NothingBefore, DeskNext
    PROVE  DeskTypes'
<1>1. CASE PassTime
    BY <1>1, DeskAssumption DEF PassTime, tallies, ghosts, DeskTypes
<1>2. CASE createContest
    <2>1. contest' \in Contests
        BY <1>2, AnOpening DEF createContest
    <2>2. versions' \in Seq(Nat)
        BY <1>2, DeskAssumption DEF createContest, Terms
    <2>3. QED
        BY <1>2, <2>1, <2>2 DEF createContest, tallies, ghosts, invalidateContests, DeskTypes
<1>3. CASE dueLifecycleTransitions
    BY <1>3 DEF dueLifecycleTransitions, tallies, ghosts, DeskTypes
<1>4. CASE advanceLifecycle
    <2>1. dueMove.doing \in {"ACTIVE", "FROZEN"} /\ dueMove.doing \in Statuses
        BY <1>4 DEF advanceLifecycle, DeskTypes, NoErrand, Statuses
    <2>2. contest # Unmade
        BY <1>4 DEF advanceLifecycle, NothingBefore
    <2>3. /\ contest' \in Contests /\ trail' \in Seq(Stops) /\ closing' \in {Unmade} \cup Contests
          /\ frozenAt' \in Nat
        BY <1>4, <2>1, <2>2, MoveTypes DEF advanceLifecycle
    <2>4. QED
        BY <1>4, <2>3 DEF advanceLifecycle, tallies, invalidateContests, DeskTypes
<1>5. ASSUME NEW to \in {"REGISTRATION_OPEN", "ACTIVE", "FROZEN", "CANCELLED"}, transitionRoute(to)
      PROVE  DeskTypes'
    <2>1. to \in Statuses
        BY DEF Statuses
    <2>2. /\ contest' \in Contests /\ trail' \in Seq(Stops) /\ closing' \in {Unmade} \cup Contests
          /\ frozenAt' \in Nat
        BY <1>5, <2>1, MoveTypes DEF transitionRoute
    <2>3. QED
        BY <1>5, <2>2 DEF transitionRoute, tallies, invalidateContests, DeskTypes
<1>6. ASSUME NEW e \in Errand, lookToUpdate(e)
      PROVE  DeskTypes'
    BY <1>6 DEF lookToUpdate, Look, tallies, ghosts, DeskTypes, Looks
<1>7. ASSUME NEW e \in Errand, lookToFinalize(e)
      PROVE  DeskTypes'
    BY <1>7 DEF lookToFinalize, Look, tallies, ghosts, DeskTypes, Looks
<1>8. ASSUME NEW e \in Errand, lookToJoin(e)
      PROVE  DeskTypes'
    BY <1>8 DEF lookToJoin, Look, tallies, ghosts, DeskTypes, Looks
<1>9. ASSUME NEW e \in Errand, lookToReconcile(e)
      PROVE  DeskTypes'
    BY <1>9 DEF lookToReconcile, Look, tallies, ghosts, DeskTypes, Looks
<1>10. ASSUME NEW e \in Errand, NEW change \in Edits, update(e, change[1], change[2])
      PROVE  DeskTypes'
    <2>1. errand' = [errand EXCEPT ![e] = NoErrand] /\ edits' \in Nat /\ cached' \in {Unmade, cached}
          /\ UNCHANGED <<entrants, trail, dueMove, clock, closing, frozenAt, covered>>
        BY <1>10 DEF update, Finish, tallies, invalidateContests, DeskTypes
    <2>2. contest \in Contests
        <3>1. errand[e] # NoErrand
            BY <1>10 DEF update, Doing, NoErrand
        <3>2. QED
            BY <3>1 DEF NothingBefore, DeskTypes
    <2>3. contest' \in Contests /\ versions' \in Seq(Nat)
        BY <1>10, <2>2, EditTypes
    <2>4. QED
        BY <2>1, <2>3 DEF DeskTypes
<1>11. ASSUME NEW e \in Errand, NEW v \in Visitor, countParticipants(e, v)
      PROVE  DeskTypes'
    <2>0. errand[e] \in Looks
        BY <1>11, ErrandRows DEF countParticipants, Doing, DeskTypes
    <2>1. CASE Finish(e)
        BY <1>11, <2>1 DEF countParticipants, Finish, tallies, ghosts, DeskTypes
    <2>2. CASE errand' = [errand EXCEPT ![e] = [doing |-> "enter", who |-> v, edits |-> errand[e].edits,
                                                beside |-> entrants]]
        <3>1. [doing |-> "enter", who |-> v, edits |-> errand[e].edits, beside |-> entrants] \in Entries
            BY <2>0 DEF Entries, Looks, DeskTypes
        <3>2. errand' \in [Errand -> {NoErrand} \cup Looks \cup Entries]
            BY <2>2, <3>1 DEF DeskTypes
        <3>3. QED
            BY <1>11, <3>2 DEF countParticipants, tallies, ghosts, DeskTypes
    <2>3. QED
        BY <1>11, <2>1, <2>2 DEF countParticipants, DeskTypes
<1>12. ASSUME NEW e \in Errand, upsertParticipant(e)
      PROVE  DeskTypes'
    <2>1. errand[e].who \in Visitor
        BY <1>12, ErrandRows DEF upsertParticipant, Doing, DeskTypes
    <2>2. QED
        BY <1>12, <2>1 DEF upsertParticipant, Finish, DeskTypes
<1>13. ASSUME NEW e \in Errand, loadContest(e)
      PROVE  DeskTypes'
    <2>0. errand[e] \in Looks /\ contest \in Contests
        <3>1. errand[e] \in Looks
            BY <1>13, ErrandRows DEF loadContest, Doing, DeskTypes
        <3>2. errand[e] # NoErrand
            BY <1>13 DEF loadContest, Doing, NoErrand
        <3>3. QED
            BY <3>1, <3>2 DEF NothingBefore, DeskTypes
    <2> DEFINE next == [errand[e] EXCEPT !.doing = "replay", !.seen = contest]
    <2>1. next \in Looks
        BY <2>0 DEF Looks
    <2>2. errand' = [errand EXCEPT ![e] = next]
        BY <1>13 DEF loadContest, DeskTypes
    <2> HIDE DEF next
    <2>3. QED
        BY <1>13, <2>1, <2>2 DEF loadContest, tallies, ghosts, DeskTypes
<1>14. ASSUME NEW e \in Errand, reconcile(e)
      PROVE  DeskTypes'
    <2>0. errand[e] \in Looks /\ errand[e].seen \in Contests
        BY <1>14, ErrandRows DEF reconcile, Doing, DeskTypes
    <2> DEFINE next == [errand[e] EXCEPT !.doing = "conclude"]
    <2>1. next \in Looks
        BY <2>0 DEF Looks
    <2>2. covered' \in [startAt : Nat, endAt : Nat]
        BY <1>14, <2>0 DEF reconcile, Window, Contests, Terms
    <2>3. errand' = [errand EXCEPT ![e] = next]
        BY <1>14 DEF reconcile, NextIs, DeskTypes
    <2> HIDE DEF next
    <2>4. QED
        BY <1>14, <2>1, <2>2, <2>3 DEF reconcile, DeskTypes
<1>15. ASSUME NEW e \in Errand, concludeReview(e)
      PROVE  DeskTypes'
    <2>0. contest # Unmade
        <3>1. errand[e] # NoErrand
            BY <1>15 DEF concludeReview, Doing, NoErrand
        <3>2. QED
            BY <3>1 DEF NothingBefore
    <2>1. "UNDER_REVIEW" \in Statuses
        BY DEF Statuses
    <2>2. /\ contest' \in Contests /\ trail' \in Seq(Stops) /\ closing' \in {Unmade} \cup Contests
          /\ frozenAt' \in Nat
        BY <1>15, <2>0, <2>1, MoveTypes DEF concludeReview
    <2>3. QED
        BY <1>15, <2>2 DEF concludeReview, Finish, tallies, invalidateContests, DeskTypes
<1>16. ASSUME NEW e \in Errand, finalizeContest(e)
      PROVE  DeskTypes'
    <2>1. CASE contest.status = "UNDER_REVIEW"
        <3>1. contest # Unmade /\ "FINALIZED" \in Statuses
            BY <2>1 DEF Unmade, Statuses
        <3>2. setStatus("FINALIZED", "admin") /\ prize' = errand[e].seen.prize
            BY <1>16, <2>1 DEF finalizeContest
        <3>3. /\ contest' \in Contests /\ trail' \in Seq(Stops) /\ closing' \in {Unmade} \cup Contests
              /\ frozenAt' \in Nat
            BY <3>1, <3>2, SetStatusTypes
        <3>4. QED
            BY <1>16, <3>3 DEF finalizeContest, Finish, invalidateContests, DeskTypes
    <2>2. CASE contest.status # "UNDER_REVIEW"
        BY <1>16, <2>2 DEF finalizeContest, Finish, invalidateContests, DeskTypes
    <2>3. QED
        BY <2>1, <2>2
<1>17. CASE scoringContests
    BY <1>17 DEF scoringContests, tallies, ghosts, DeskTypes
<1>18. ASSUME NEW d \in Deed, ingest(d)
      PROVE  DeskTypes'
    BY <1>18 DEF ingest, ghosts, DeskTypes
<1>19. QED
    BY <1>1, <1>2, <1>3, <1>4, <1>5, <1>6, <1>7, <1>8, <1>9, <1>10, <1>11, <1>12, <1>13, <1>14,
       <1>15, <1>16, <1>17, <1>18 DEF DeskNext

\* What an edit does, whichever field it changes.
LEMMA UpdateDoes ==
    ASSUME DeskTypes, NothingBefore, NEW e \in Errand, NEW change \in Edits,
           update(e, change[1], change[2])
    PROVE  /\ contest \in Contests /\ contest' \in Contests /\ contest # Unmade /\ contest' # Unmade
           /\ contest'.status = contest.status /\ edits' = edits + 1 /\ edits \in Nat
           /\ \/ /\ versions' = Append(versions, change[2]) /\ contest'.version = Len(versions) + 1
              \/ versions' = versions /\ contest'.version = contest.version
           /\ change[1] # "places" => contest'.places = contest.places
           /\ change[1] = "places" => contest'.places = change[2]
           /\ change[2] \in Nat /\ versions \in Seq(Nat)
           /\ errand[e].doing = "update"
           /\ \A f \in Errand : errand'[f] = IF f = e THEN NoErrand ELSE errand[f]
           /\ cached' \in {Unmade, cached}
           /\ UNCHANGED <<entrants, scored, prize, trail, dueMove, clock, closing, frozenAt, covered>>
           /\ slips \subseteq slips'
           /\ Closed(contest.status) /\ ~Closed(errand[e].seen.status) => "closed" \in slips'
           /\ change[1] = "places" /\ Cardinality(entrants) > change[2] => "crowded" \in slips'
<1>1. errand[e].doing = "update" /\ errand[e] # NoErrand
    BY DEF update, Doing, NoErrand
<1>2. contest # Unmade /\ contest \in Contests
    BY <1>1 DEF NothingBefore, DeskTypes
<1>3. /\ contest' \in Contests /\ contest'.status = contest.status
      /\ \/ /\ versions' = Append(versions, change[2]) /\ contest'.version = Len(versions) + 1
         \/ versions' = versions /\ contest'.version = contest.version
      /\ change[1] # "places" => contest'.places = contest.places
      /\ change[1] = "places" => contest'.places = change[2]
    BY <1>2, EditTypes
<1>4. contest' # Unmade
    BY <1>3 DEF Contests, Terms, Unmade, Statuses
<1>5. change[2] \in Nat /\ versions \in Seq(Nat) /\ edits \in Nat
    BY DeskAssumption DEF DeskTypes
<1>6. \A f \in Errand : errand'[f] = IF f = e THEN NoErrand ELSE errand[f]
    BY DEF update, Finish, DeskTypes
<1>7. /\ edits' = edits + 1 /\ cached' \in {Unmade, cached}
      /\ UNCHANGED <<entrants, scored, prize, trail, dueMove, clock, closing, frozenAt, covered>>
    BY DEF update, invalidateContests, tallies
<1>8. /\ slips \subseteq slips'
      /\ Closed(contest.status) /\ ~Closed(errand[e].seen.status) => "closed" \in slips'
      /\ change[1] = "places" /\ Cardinality(entrants) > change[2] => "crowded" \in slips'
    BY DEF update
<1>9. QED
    BY <1>1, <1>2, <1>3, <1>4, <1>5, <1>6, <1>7, <1>8

\* What a change of status does.
Moves(to) ==
    /\ to \in ALLOWED_TRANSITIONS[contest.status] /\ to \in Statuses /\ contest.status \in Statuses
    /\ ~Closed(contest.status) /\ contest # Unmade
    /\ contest' \in Contests /\ contest' # Unmade /\ contest'.status = to /\ contest'.version = contest.version
    /\ contest'.places = contest.places /\ contest'.prize = contest.prize
    /\ contest'.endAt = contest.endAt
    /\ closing' = (IF Closed(to) THEN contest' ELSE closing)
    /\ frozenAt' = (IF to = "FROZEN" /\ frozenAt = Never THEN clock ELSE frozenAt)

\* What a change of status does to the contest.
LEMMA SetStatusDoes ==
    ASSUME DeskTypes, contest # Unmade, NEW to \in ALLOWED_TRANSITIONS[contest.status], NEW by,
           setStatus(to, by)
    PROVE  Moves(to)
<1>1. contest \in Contests /\ contest.status \in Statuses
    BY DEF DeskTypes, Contests, Terms
<1>2. to \in Statuses /\ ~Closed(contest.status)
    BY <1>1, Allowed
<1>3. /\ contest' \in Contests /\ contest'.status = to /\ contest'.version = contest.version
      /\ contest'.places = contest.places /\ contest'.prize = contest.prize
      /\ contest'.endAt = contest.endAt
    <2>1. contest' = [contest EXCEPT !.status = to]
        BY DEF setStatus
    <2>2. QED
        BY <1>1, <1>2, <2>1, StatusOf
<1>4. contest' # Unmade
    BY <1>3 DEF Contests, Terms, Unmade, Statuses
<1>5. /\ closing' = (IF Closed(to) THEN contest' ELSE closing)
      /\ frozenAt' = (IF to = "FROZEN" /\ frozenAt = Never THEN clock ELSE frozenAt)
    BY DEF setStatus
<1>6. QED
    BY <1>1, <1>2, <1>3, <1>4, <1>5 DEF Moves

\* A transition moves the contest as the lifecycle allows, or leaves it as it is.
LEMMA TransitionDoes ==
    ASSUME DeskTypes, contest # Unmade, NEW to, NEW by, transitionContest(to, by)
    PROVE  \/ Moves(to) /\ setStatus(to, by)
           \/ UNCHANGED <<contest, trail, closing, frozenAt>>
BY SetStatusDoes DEF transitionContest

\* Whose errand ends, and whose goes on.
LEMMA CountDoes ==
    ASSUME DeskTypes, NEW e \in Errand, NEW v \in Visitor, countParticipants(e, v)
    PROVE  /\ \A f \in Errand : f # e => errand'[f] = errand[f]
           /\ errand[e].doing = "join" /\ errand[e] # NoErrand /\ errand[e] \in Looks
           /\ \/ errand'[e] = NoErrand
              \/ /\ errand'[e].doing = "enter" /\ errand'[e].who = v
                 /\ errand'[e].edits = errand[e].edits /\ errand'[e].beside = entrants
                 /\ v \in entrants \/ ~(Cardinality(entrants) >= errand[e].seen.places)
<1>1. errand[e].doing = "join" /\ errand[e] # NoErrand
    BY DEF countParticipants, Doing, NoErrand
<1>2. errand[e] \in Looks
    BY <1>1, ErrandRows DEF DeskTypes
<1>3. CASE v \notin entrants /\ Cardinality(entrants) >= errand[e].seen.places
    BY <1>1, <1>2, <1>3 DEF countParticipants, Finish, DeskTypes
<1>4. CASE ~(v \notin entrants /\ Cardinality(entrants) >= errand[e].seen.places)
    BY <1>1, <1>2, <1>4 DEF countParticipants, DeskTypes
<1>5. QED
    BY <1>3, <1>4

\* A replay goes on to its conclusion with the contest it has read.
LEMMA ReconcileDoes ==
    ASSUME DeskTypes, NEW e \in Errand, reconcile(e)
    PROVE  /\ \A f \in Errand : f # e => errand'[f] = errand[f]
           /\ errand[e].doing = "replay" /\ errand[e] \in Looks /\ errand[e] # NoErrand
           /\ errand[e].seen \in Contests
           /\ errand'[e].doing = "conclude" /\ errand'[e].seen = errand[e].seen
           /\ errand'[e].edits = errand[e].edits /\ errand'[e] # NoErrand
<1>1. errand[e].doing = "replay" /\ errand[e] # NoErrand
    BY DEF reconcile, Doing, NoErrand
<1>2. errand[e] \in Looks /\ errand[e].seen \in Contests
    BY <1>1, ErrandRows DEF DeskTypes
<1>3. errand' = [errand EXCEPT ![e] = [errand[e] EXCEPT !.doing = "conclude"]]
    BY DEF reconcile, NextIs, DeskTypes
<1>4. [errand[e] EXCEPT !.doing = "conclude"] \in Looks
    BY <1>2 DEF Looks
<1>5. QED
    BY <1>1, <1>2, <1>3, <1>4 DEF DeskTypes, Looks, NoErrand

\* Every step: nothing refers to a contest that is not there.
LEMMA NothingBeforeNext ==
    ASSUME DeskTypes, NothingBefore, DeskNext
    PROVE  NothingBefore'
<1>1. CASE PassTime
    BY <1>1 DEF PassTime, tallies, ghosts, NothingBefore
<1>2. CASE createContest
    BY <1>2 DEF createContest, NothingBefore, Unmade
<1>3. CASE dueLifecycleTransitions
    BY <1>3 DEF dueLifecycleTransitions, NothingBefore, Unmade
<1>4. CASE advanceLifecycle
    BY <1>4 DEF advanceLifecycle, transitionContest, setStatus, NothingBefore, Unmade, DeskTypes
<1>5. ASSUME NEW to \in {"REGISTRATION_OPEN", "ACTIVE", "FROZEN", "CANCELLED"}, transitionRoute(to)
      PROVE  NothingBefore'
    BY <1>5 DEF transitionRoute, transitionContest, setStatus, NothingBefore, Unmade
<1>6. ASSUME NEW e \in Errand, lookToUpdate(e)
      PROVE  NothingBefore'
    BY <1>6 DEF lookToUpdate, Look, NothingBefore
<1>7. ASSUME NEW e \in Errand, lookToFinalize(e)
      PROVE  NothingBefore'
    BY <1>7 DEF lookToFinalize, Look, NothingBefore
<1>8. ASSUME NEW e \in Errand, lookToJoin(e)
      PROVE  NothingBefore'
    BY <1>8 DEF lookToJoin, Look, NothingBefore
<1>9. ASSUME NEW e \in Errand, lookToReconcile(e)
      PROVE  NothingBefore'
    BY <1>9 DEF lookToReconcile, Look, NothingBefore
<1>10. ASSUME NEW e \in Errand, NEW change \in Edits, update(e, change[1], change[2])
      PROVE  NothingBefore'
    BY <1>10, UpdateDoes DEF NothingBefore
<1>11. ASSUME NEW e \in Errand, NEW v \in Visitor, countParticipants(e, v)
      PROVE  NothingBefore'
    BY <1>11 DEF countParticipants, Doing, NothingBefore, NoErrand
<1>12. ASSUME NEW e \in Errand, upsertParticipant(e)
      PROVE  NothingBefore'
    BY <1>12 DEF upsertParticipant, Doing, NothingBefore, NoErrand
<1>13. ASSUME NEW e \in Errand, loadContest(e)
      PROVE  NothingBefore'
    BY <1>13 DEF loadContest, Doing, NothingBefore, NoErrand
<1>14. ASSUME NEW e \in Errand, reconcile(e)
      PROVE  NothingBefore'
    BY <1>14 DEF reconcile, Doing, NothingBefore, NoErrand
<1>15. ASSUME NEW e \in Errand, concludeReview(e)
      PROVE  NothingBefore'
    BY <1>15 DEF concludeReview, Finish, transitionContest, setStatus, tallies,
       invalidateContests, NothingBefore, Unmade
<1>16. ASSUME NEW e \in Errand, finalizeContest(e)
      PROVE  NothingBefore'
    BY <1>16 DEF finalizeContest, Finish, setStatus, invalidateContests, NothingBefore, Unmade
<1>17. CASE scoringContests
    BY <1>17 DEF scoringContests, NothingBefore
<1>18. ASSUME NEW d \in Deed, ingest(d)
      PROVE  NothingBefore'
    BY <1>18 DEF ingest, NothingBefore
<1>19. QED
    BY <1>1, <1>2, <1>3, <1>4, <1>5, <1>6, <1>7, <1>8, <1>9, <1>10, <1>11, <1>12, <1>13, <1>14,
       <1>15, <1>16, <1>17, <1>18 DEF DeskNext

\* Every step: who has looked and was not overtaken knows the contest as it is.
LEMMA LooksCurrentNext ==
    ASSUME DeskTypes, NothingBefore, LooksCurrent, DeskNext
    PROVE  LooksCurrent'
<1>1. CASE PassTime
    BY <1>1 DEF PassTime, ghosts, LooksCurrent
<1>2. CASE createContest
    BY <1>2 DEF createContest, LooksCurrent, NothingBefore, NoErrand
<1>3. CASE dueLifecycleTransitions
    BY <1>3 DEF dueLifecycleTransitions, ghosts, LooksCurrent, DeskTypes
<1>4. CASE advanceLifecycle
    BY <1>4 DEF advanceLifecycle, transitionContest, setStatus, LooksCurrent, NothingBefore,
       DeskTypes, Contests, Terms
<1>5. ASSUME NEW to \in {"REGISTRATION_OPEN", "ACTIVE", "FROZEN", "CANCELLED"}, transitionRoute(to)
      PROVE  LooksCurrent'
    BY <1>5 DEF transitionRoute, transitionContest, setStatus, LooksCurrent, DeskTypes, Contests,
       Terms
<1>6. ASSUME NEW e \in Errand, lookToUpdate(e)
      PROVE  LooksCurrent'
    BY <1>6 DEF lookToUpdate, Look, ghosts, LooksCurrent, DeskTypes
<1>7. ASSUME NEW e \in Errand, lookToFinalize(e)
      PROVE  LooksCurrent'
    BY <1>7 DEF lookToFinalize, Look, ghosts, LooksCurrent, DeskTypes
<1>8. ASSUME NEW e \in Errand, lookToJoin(e)
      PROVE  LooksCurrent'
    BY <1>8 DEF lookToJoin, Look, ghosts, LooksCurrent, DeskTypes
<1>9. ASSUME NEW e \in Errand, lookToReconcile(e)
      PROVE  LooksCurrent'
    BY <1>9 DEF lookToReconcile, Look, ghosts, LooksCurrent, DeskTypes
<1>10. ASSUME NEW e \in Errand, NEW change \in Edits, update(e, change[1], change[2])
      PROVE  LooksCurrent'
    <2>1. \A f \in Errand : errand'[f] = NoErrand \/ errand'[f] = errand[f]
        BY <1>10, UpdateDoes
    <2>2. edits' = edits + 1 /\ edits \in Nat /\ dueMove' = dueMove
        BY <1>10, UpdateDoes
    <2>3. \A f \in Errand : errand[f] # NoErrand => errand[f].edits \in Nat /\ errand[f].edits <= edits
        BY ErrandRows DEF LooksCurrent, DeskTypes
    <2>4. dueMove # NoErrand => dueMove.edits \in Nat /\ dueMove.edits <= edits
        BY DEF LooksCurrent, DeskTypes
    <2>5. QED
        BY <2>1, <2>2, <2>3, <2>4 DEF LooksCurrent, NoErrand
<1>11. ASSUME NEW e \in Errand, NEW v \in Visitor, countParticipants(e, v)
      PROVE  LooksCurrent'
    <2>1. edits' = edits /\ dueMove' = dueMove /\ contest' = contest
        BY <1>11 DEF countParticipants, ghosts
    <2>2. QED
        BY <1>11, <2>1, CountDoes DEF LooksCurrent, NoErrand
<1>12. ASSUME NEW e \in Errand, upsertParticipant(e)
      PROVE  LooksCurrent'
    BY <1>12 DEF upsertParticipant, Finish, LooksCurrent, NoErrand
<1>13. ASSUME NEW e \in Errand, loadContest(e)
      PROVE  LooksCurrent'
    BY <1>13 DEF loadContest, Doing, ghosts, LooksCurrent, NoErrand
<1>14. ASSUME NEW e \in Errand, reconcile(e)
      PROVE  LooksCurrent'
    <2>1. edits' = edits /\ dueMove' = dueMove /\ contest' = contest
        BY <1>14 DEF reconcile
    <2>2. QED
        BY <1>14, <2>1, ReconcileDoes DEF LooksCurrent, NoErrand
<1>15. ASSUME NEW e \in Errand, concludeReview(e)
      PROVE  LooksCurrent'
    BY <1>15 DEF concludeReview, Finish, transitionContest, setStatus, LooksCurrent,
       NothingBefore, DeskTypes, Contests, Terms, NoErrand
<1>16. ASSUME NEW e \in Errand, finalizeContest(e)
      PROVE  LooksCurrent'
    BY <1>16 DEF finalizeContest, Finish, setStatus, LooksCurrent, NothingBefore, DeskTypes,
       Contests, Terms, NoErrand
<1>17. CASE scoringContests
    BY <1>17 DEF scoringContests, ghosts, LooksCurrent
<1>18. ASSUME NEW d \in Deed, ingest(d)
      PROVE  LooksCurrent'
    BY <1>18 DEF ingest, ghosts, LooksCurrent
<1>19. QED
    BY <1>1, <1>2, <1>3, <1>4, <1>5, <1>6, <1>7, <1>8, <1>9, <1>10, <1>11, <1>12, <1>13, <1>14,
       <1>15, <1>16, <1>17, <1>18 DEF DeskNext

\* Finalizing awards the prize that was read, or comes too late and does nothing.
LEMMA FinalizeDoes ==
    ASSUME DeskTypes, contest # Unmade, NEW e \in Errand, finalizeContest(e)
    PROVE  \/ /\ Moves("FINALIZED") /\ setStatus("FINALIZED", "admin") /\ contest.status = "UNDER_REVIEW"
              /\ prize' = errand[e].seen.prize
              /\ slips' = IF errand[e].edits # edits THEN slips \cup {"prize"} ELSE slips
           \/ UNCHANGED <<contest, trail, closing, frozenAt, prize, slips>>
<1>1. CASE contest.status = "UNDER_REVIEW"
    <2>1. "FINALIZED" \in ALLOWED_TRANSITIONS[contest.status]
        BY <1>1 DEF ALLOWED_TRANSITIONS
    <2>2. setStatus("FINALIZED", "admin")
        BY <1>1 DEF finalizeContest
    <2>3. Moves("FINALIZED")
        BY <2>1, <2>2, SetStatusDoes
    <2>4. QED
        BY <1>1, <2>2, <2>3 DEF finalizeContest
<1>2. CASE contest.status # "UNDER_REVIEW"
    BY <1>2 DEF finalizeContest
<1>3. QED
    BY <1>1, <1>2

\* Every step: the versions of the rules that are named are there.
LEMMA VersionsStayNext ==
    ASSUME DeskTypes, NothingBefore, VersionsStay, DeskNext
    PROVE  VersionsStay'
<1>1. CASE PassTime
    BY <1>1 DEF PassTime, tallies, VersionsStay
<1>2. CASE createContest
    BY <1>2 DEF createContest, tallies, invalidateContests, VersionsStay, NothingBefore
<1>3. CASE dueLifecycleTransitions
    BY <1>3 DEF dueLifecycleTransitions, tallies, VersionsStay
<1>4. CASE advanceLifecycle
    BY <1>4 DEF advanceLifecycle, transitionContest, setStatus, tallies, invalidateContests,
       VersionsStay, NothingBefore, DeskTypes, Contests, Terms
<1>5. ASSUME NEW to \in {"REGISTRATION_OPEN", "ACTIVE", "FROZEN", "CANCELLED"}, transitionRoute(to)
      PROVE  VersionsStay'
    BY <1>5 DEF transitionRoute, transitionContest, setStatus, tallies, invalidateContests,
       VersionsStay, DeskTypes, Contests, Terms
<1>6. ASSUME NEW e \in Errand, lookToUpdate(e)
      PROVE  VersionsStay'
    BY <1>6 DEF lookToUpdate, Look, tallies, VersionsStay
<1>7. ASSUME NEW e \in Errand, lookToFinalize(e)
      PROVE  VersionsStay'
    BY <1>7 DEF lookToFinalize, Look, tallies, VersionsStay
<1>8. ASSUME NEW e \in Errand, lookToJoin(e)
      PROVE  VersionsStay'
    BY <1>8 DEF lookToJoin, Look, tallies, VersionsStay
<1>9. ASSUME NEW e \in Errand, lookToReconcile(e)
      PROVE  VersionsStay'
    BY <1>9 DEF lookToReconcile, Look, tallies, VersionsStay
<1>10. ASSUME NEW e \in Errand, NEW change \in Edits, update(e, change[1], change[2])
      PROVE  VersionsStay'
    <2>1. \A f \in Errand : errand'[f] = NoErrand \/ errand'[f] = errand[f]
        BY <1>10, UpdateDoes
    <2>2. /\ contest # Unmade /\ versions \in Seq(Nat) /\ change[2] \in Nat
          /\ cached' = Unmade \/ cached' = cached
        BY <1>10, UpdateDoes
    <2>3. scored' = scored
        BY <1>10, UpdateDoes
    <2>4. CASE versions' = versions /\ contest'.version = contest.version
        BY <2>1, <2>2, <2>3, <2>4 DEF VersionsStay
    <2>5. CASE versions' = Append(versions, change[2]) /\ contest'.version = Len(versions) + 1
        <3>1. /\ Len(versions) \in Nat /\ Len(versions') = Len(versions) + 1
              /\ \A n \in 1..Len(versions) : versions'[n] = versions[n] /\ n \in 1..Len(versions')
              /\ contest'.version \in 1..Len(versions')
            BY <2>2, <2>5
        <3>2. QED
            BY <2>1, <2>2, <2>3, <3>1 DEF VersionsStay
    <2>6. QED
        BY <1>10, <2>4, <2>5, UpdateDoes
<1>11. ASSUME NEW e \in Errand, NEW v \in Visitor, countParticipants(e, v)
      PROVE  VersionsStay'
    <2>1. UNCHANGED <<contest, versions, scored, cached>>
        BY <1>11 DEF countParticipants, tallies
    <2>2. QED
        BY <1>11, <2>1, CountDoes DEF VersionsStay
<1>12. ASSUME NEW e \in Errand, upsertParticipant(e)
      PROVE  VersionsStay'
    BY <1>12 DEF upsertParticipant, Finish, VersionsStay
<1>13. ASSUME NEW e \in Errand, loadContest(e)
      PROVE  VersionsStay'
    BY <1>13 DEF loadContest, Doing, tallies, VersionsStay, NothingBefore, NoErrand
<1>14. ASSUME NEW e \in Errand, reconcile(e)
      PROVE  VersionsStay'
    BY <1>14 DEF reconcile, Doing, NextIs, VersionsStay, Award, Statuses, Unmade, NoErrand
<1>15. ASSUME NEW e \in Errand, concludeReview(e)
      PROVE  VersionsStay'
    <2>1. contest # Unmade
        BY <1>15 DEF concludeReview, Doing, NoErrand, NothingBefore
    <2>2. contest'.version = contest.version /\ contest' # Unmade
        BY <1>15, <2>1, TransitionDoes DEF concludeReview, Moves
    <2>3. QED
        BY <1>15, <2>1, <2>2 DEF concludeReview, Finish, tallies, invalidateContests,
           VersionsStay, DeskTypes
<1>16. ASSUME NEW e \in Errand, finalizeContest(e)
      PROVE  VersionsStay'
    <2>1. contest # Unmade
        BY <1>16 DEF finalizeContest, Doing, NoErrand, NothingBefore
    <2>2. contest'.version = contest.version /\ contest' # Unmade
        BY <1>16, <2>1, FinalizeDoes DEF Moves
    <2>3. QED
        BY <1>16, <2>1, <2>2 DEF finalizeContest, Finish, invalidateContests, VersionsStay,
           DeskTypes
<1>17. CASE scoringContests
    BY <1>17 DEF scoringContests, tallies, VersionsStay
<1>18. ASSUME NEW d \in Deed, ingest(d)
      PROVE  VersionsStay'
    BY <1>18 DEF ingest, VersionsStay, Award
<1>19. QED
    BY <1>1, <1>2, <1>3, <1>4, <1>5, <1>6, <1>7, <1>8, <1>9, <1>10, <1>11, <1>12, <1>13, <1>14,
       <1>15, <1>16, <1>17, <1>18 DEF DeskNext

\* Every step: what the sweep takes to be over is over.
LEMMA DueIsDueNext ==
    ASSUME DeskTypes, NothingBefore, LooksCurrent, DueIsDue, DeskNext
    PROVE  DueIsDue'
<1>1. CASE PassTime
    BY <1>1 DEF PassTime, ghosts, DueIsDue, NothingBefore, DeskTypes, Contests, Terms, NoErrand
<1>2. CASE createContest
    BY <1>2 DEF createContest, DueIsDue, NothingBefore, NoErrand
<1>3. CASE dueLifecycleTransitions
    BY <1>3 DEF dueLifecycleTransitions, DueIsDue
<1>4. CASE advanceLifecycle
    BY <1>4 DEF advanceLifecycle, DueIsDue, NoErrand
<1>5. ASSUME NEW to \in {"REGISTRATION_OPEN", "ACTIVE", "FROZEN", "CANCELLED"}, transitionRoute(to)
      PROVE  DueIsDue'
    BY <1>5 DEF transitionRoute, transitionContest, setStatus, DueIsDue, DeskTypes, Contests, Terms
<1>6. ASSUME NEW e \in Errand, lookToUpdate(e)
      PROVE  DueIsDue'
    BY <1>6 DEF lookToUpdate, Look, ghosts, DueIsDue
<1>7. ASSUME NEW e \in Errand, lookToFinalize(e)
      PROVE  DueIsDue'
    BY <1>7 DEF lookToFinalize, Look, ghosts, DueIsDue
<1>8. ASSUME NEW e \in Errand, lookToJoin(e)
      PROVE  DueIsDue'
    BY <1>8 DEF lookToJoin, Look, ghosts, DueIsDue
<1>9. ASSUME NEW e \in Errand, lookToReconcile(e)
      PROVE  DueIsDue'
    BY <1>9 DEF lookToReconcile, Look, ghosts, DueIsDue
<1>10. ASSUME NEW e \in Errand, NEW change \in Edits, update(e, change[1], change[2])
      PROVE  DueIsDue'
    BY <1>10 DEF update, DueIsDue, LooksCurrent, DeskTypes, NoErrand
<1>11. ASSUME NEW e \in Errand, NEW v \in Visitor, countParticipants(e, v)
      PROVE  DueIsDue'
    BY <1>11 DEF countParticipants, ghosts, DueIsDue
<1>12. ASSUME NEW e \in Errand, upsertParticipant(e)
      PROVE  DueIsDue'
    BY <1>12 DEF upsertParticipant, DueIsDue
<1>13. ASSUME NEW e \in Errand, loadContest(e)
      PROVE  DueIsDue'
    BY <1>13 DEF loadContest, ghosts, DueIsDue
<1>14. ASSUME NEW e \in Errand, reconcile(e)
      PROVE  DueIsDue'
    BY <1>14 DEF reconcile, DueIsDue
<1>15. ASSUME NEW e \in Errand, concludeReview(e)
      PROVE  DueIsDue'
    BY <1>15 DEF concludeReview, Doing, transitionContest, setStatus, DueIsDue, NothingBefore,
       DeskTypes, Contests, Terms
<1>16. ASSUME NEW e \in Errand, finalizeContest(e)
      PROVE  DueIsDue'
    BY <1>16 DEF finalizeContest, Doing, setStatus, DueIsDue, NothingBefore, DeskTypes, Contests,
       Terms
<1>17. CASE scoringContests
    BY <1>17 DEF scoringContests, ghosts, DueIsDue
<1>18. ASSUME NEW d \in Deed, ingest(d)
      PROVE  DueIsDue'
    BY <1>18 DEF ingest, ghosts, DueIsDue
<1>19. QED
    BY <1>1, <1>2, <1>3, <1>4, <1>5, <1>6, <1>7, <1>8, <1>9, <1>10, <1>11, <1>12, <1>13, <1>14,
       <1>15, <1>16, <1>17, <1>18 DEF DeskNext

\* The way grows by one stop the lifecycle allows.
LEMMA WayGrows ==
    ASSUME NEW t \in Seq(Stops), NEW stop \in Stops, Way(t), Leads(LastStop(t), stop),
           NEW u, u = Append(t, stop)
    PROVE  Way(u) /\ LastStop(u) = stop.to
<1> DEFINE n == Len(t)
<1>1. n \in Nat /\ Len(u) = n + 1 /\ u[n + 1] = stop /\ \A k \in 1..n : u[k] = t[k]
    OBVIOUS
<1>2. t = <<>> <=> n = 0
    OBVIOUS
<1>3. u # <<>>
    BY <1>1
<1> HIDE DEF n
<1>4. LastStop(u) = stop.to
    BY <1>1, <1>3 DEF LastStop
<1>5. LastStop(t) = IF n + 1 = 1 THEN "DRAFT" ELSE t[n].to
    BY <1>1, <1>2 DEF LastStop, n
<1>6. ASSUME NEW k \in 1..(n + 1)
      PROVE  Leads(IF k = 1 THEN "DRAFT" ELSE u[k - 1].to, u[k])
    <2>1. CASE k = n + 1
        <3>1. CASE k = 1
            BY <1>1, <1>5, <2>1, <3>1
        <3>2. CASE k # 1
            <4>1. u[k - 1] = t[n] /\ u[k] = stop
                BY <1>1, <2>1, <3>2
            <4>2. LastStop(t) = t[n].to
                BY <1>1, <1>5, <2>1, <3>2
            <4>3. QED
                BY <3>2, <4>1, <4>2
        <3>3. QED
            BY <3>1, <3>2
    <2>2. CASE k # n + 1
        <3>1. k \in 1..n /\ Leads(IF k = 1 THEN "DRAFT" ELSE t[k - 1].to, t[k])
            BY <1>1, <2>2 DEF Way, n
        <3>2. CASE k = 1
            BY <1>1, <3>1, <3>2
        <3>3. CASE k # 1
            <4>1. u[k - 1] = t[k - 1] /\ u[k] = t[k]
                BY <1>1, <3>1, <3>3
            <4>2. QED
                BY <3>1, <3>3, <4>1
        <3>4. QED
            BY <3>2, <3>3
    <2>3. QED
        BY <2>1, <2>2
<1>7. QED
    BY <1>1, <1>4, <1>6 DEF Way

\* A transition that is audited leads on from the last one.
LEMMA TrailGrows ==
    ASSUME DeskTypes, contest # Unmade, TrailLeads, NEW to, NEW by \in {"admin", "system", "late"},
           Moves(to), setStatus(to, by),
           by = "system" /\ to = "FROZEN" => clock >= contest.endAt
    PROVE  TrailLeads'
<1> DEFINE stop == [to |-> to, by |-> by, due |-> clock >= contest.endAt]
<1>1. trail \in Seq(Stops) /\ trail' = Append(trail, stop)
    BY DEF DeskTypes, setStatus
<1>2. contest \in Contests /\ clock \in 0..MaxClock /\ MaxClock \in Nat
    BY DeskAssumption DEF DeskTypes
<1>3. (clock >= contest.endAt) \in BOOLEAN
    BY <1>2 DEF Contests, Terms
<1>4. stop \in Stops
    BY <1>3, Zenon DEF Stops, Moves
<1>5. stop.to = to /\ stop.by = by /\ (stop.due <=> clock >= contest.endAt)
    BY Zenon
<1> HIDE DEF stop
<1>6. Leads(contest.status, stop)
    BY <1>5 DEF Leads, Moves
<1>7. LastStop(trail) = contest.status /\ Way(trail)
    BY DEF TrailLeads
<1>8. Way(trail') /\ LastStop(trail') = to
    BY <1>1, <1>4, <1>5, <1>6, <1>7, WayGrows
<1>9. QED
    BY <1>8 DEF TrailLeads, Moves

\* Every step: the audit trail tells how the contest came to its status.
LEMMA TrailLeadsNext ==
    ASSUME DeskTypes, NothingBefore, LooksCurrent, DueIsDue, TrailLeads, DeskNext
    PROVE  TrailLeads'
<1>1. CASE PassTime
    BY <1>1 DEF PassTime, TrailLeads
<1>2. CASE createContest
    <2>1. contest = Unmade /\ contest'.status = "DRAFT" /\ trail' = trail
        BY <1>2, AnOpening DEF createContest
    <2>2. trail' = <<>>
        BY <2>1 DEF NothingBefore
    <2>3. QED
        BY <2>1, <2>2 DEF TrailLeads, LastStop, Way
<1>3. CASE dueLifecycleTransitions
    BY <1>3 DEF dueLifecycleTransitions, TrailLeads
<1>4. CASE advanceLifecycle
    <2> DEFINE by == IF dueMove.edits = edits THEN "system" ELSE "late"
    <2>1. contest # Unmade /\ transitionContest(dueMove.doing, by) /\ by \in {"admin", "system", "late"}
        BY <1>4 DEF advanceLifecycle, NothingBefore
    <2>2. by = "system" /\ dueMove.doing = "FROZEN" => clock >= contest.endAt
        BY DEF DueIsDue
    <2> HIDE DEF by
    <2>3. QED
        BY <2>1, <2>2, TransitionDoes, TrailGrows DEF TrailLeads
<1>5. ASSUME NEW to \in {"REGISTRATION_OPEN", "ACTIVE", "FROZEN", "CANCELLED"}, transitionRoute(to)
      PROVE  TrailLeads'
    <2>1. contest # Unmade /\ transitionContest(to, "admin")
        BY <1>5 DEF transitionRoute
    <2>2. QED
        BY <2>1, TransitionDoes, TrailGrows DEF TrailLeads
<1>6. ASSUME NEW e \in Errand, lookToUpdate(e)
      PROVE  TrailLeads'
    BY <1>6 DEF lookToUpdate, Look, TrailLeads
<1>7. ASSUME NEW e \in Errand, lookToFinalize(e)
      PROVE  TrailLeads'
    BY <1>7 DEF lookToFinalize, Look, TrailLeads
<1>8. ASSUME NEW e \in Errand, lookToJoin(e)
      PROVE  TrailLeads'
    BY <1>8 DEF lookToJoin, Look, TrailLeads
<1>9. ASSUME NEW e \in Errand, lookToReconcile(e)
      PROVE  TrailLeads'
    BY <1>9 DEF lookToReconcile, Look, TrailLeads
<1>10. ASSUME NEW e \in Errand, NEW change \in Edits, update(e, change[1], change[2])
      PROVE  TrailLeads'
    BY <1>10, UpdateDoes DEF TrailLeads
<1>11. ASSUME NEW e \in Errand, NEW v \in Visitor, countParticipants(e, v)
      PROVE  TrailLeads'
    BY <1>11 DEF countParticipants, TrailLeads
<1>12. ASSUME NEW e \in Errand, upsertParticipant(e)
      PROVE  TrailLeads'
    BY <1>12 DEF upsertParticipant, TrailLeads
<1>13. ASSUME NEW e \in Errand, loadContest(e)
      PROVE  TrailLeads'
    BY <1>13 DEF loadContest, TrailLeads
<1>14. ASSUME NEW e \in Errand, reconcile(e)
      PROVE  TrailLeads'
    BY <1>14 DEF reconcile, TrailLeads
<1>15. ASSUME NEW e \in Errand, concludeReview(e)
      PROVE  TrailLeads'
    <2>1. contest # Unmade /\ transitionContest("UNDER_REVIEW", "admin")
        BY <1>15 DEF concludeReview, Doing, NoErrand, NothingBefore
    <2>2. QED
        BY <2>1, TransitionDoes, TrailGrows DEF TrailLeads
<1>16. ASSUME NEW e \in Errand, finalizeContest(e)
      PROVE  TrailLeads'
    <2>1. contest # Unmade
        BY <1>16 DEF finalizeContest, Doing, NoErrand, NothingBefore
    <2>2. QED
        BY <1>16, <2>1, FinalizeDoes, TrailGrows DEF TrailLeads
<1>17. CASE scoringContests
    BY <1>17 DEF scoringContests, TrailLeads
<1>18. ASSUME NEW d \in Deed, ingest(d)
      PROVE  TrailLeads'
    BY <1>18 DEF ingest, TrailLeads
<1>19. QED
    BY <1>1, <1>2, <1>3, <1>4, <1>5, <1>6, <1>7, <1>8, <1>9, <1>10, <1>11, <1>12, <1>13, <1>14,
       <1>15, <1>16, <1>17, <1>18 DEF DeskNext

\* A change of status keeps what review relies on.
LEMMA ReviewMoves ==
    ASSUME DeskTypes, contest # Unmade, ReviewIsCovered, NEW to, Moves(to),
           to \in {"UNDER_REVIEW", "FINALIZED"} => covered # Unmade,
           UNCHANGED <<scored, covered, clock>>,
           \A f \in Errand : errand'[f] = NoErrand \/ errand'[f] = errand[f]
    PROVE  ReviewIsCovered'
<1>1. MaxClock \in Nat /\ clock \in 0..MaxClock
    BY DeskAssumption DEF DeskTypes
<1>2. clock \in Nat /\ clock # Never
    BY <1>1 DEF Never
<1>3. contest'.status = to /\ (frozenAt' = frozenAt \/ (frozenAt = Never /\ frozenAt' = clock))
    <2>1. contest'.status = to
        BY DEF Moves
    <2>2. frozenAt' = IF to = "FROZEN" /\ frozenAt = Never THEN clock ELSE frozenAt
        BY DEF Moves
    <2>3. CASE to = "FROZEN" /\ frozenAt = Never
        <3>1. frozenAt' = clock
            BY <2>2, <2>3, Zenon
        <3>2. QED
            BY <2>1, <2>3, <3>1
    <2>4. CASE ~(to = "FROZEN" /\ frozenAt = Never)
        <3>1. frozenAt' = frozenAt
            BY <2>2, <2>4, Zenon
        <3>2. QED
            BY <2>1, <3>1
    <2>5. QED
        BY <2>3, <2>4
<1>4. to = "FROZEN" => frozenAt' # Never
    BY <1>2 DEF Moves
<1>5. frozenAt # Never => frozenAt' = frozenAt
    BY <1>3
<1>6. \A f \in Errand : errand'[f].doing \in {"load", "replay", "conclude"} => errand[f].doing = errand'[f].doing
    BY DEF NoErrand
<1>7. frozenAt' # Never => frozenAt' <= clock'
    BY <1>2, <1>3 DEF ReviewIsCovered
<1>8. covered' # Unmade => frozenAt' = frozenAt /\ frozenAt # Never /\ Replayed
    BY <1>5 DEF ReviewIsCovered
<1>9. covered' # Unmade => Replayed'
    BY <1>8 DEF Replayed
<1>10. QED
    BY <1>3, <1>4, <1>5, <1>6, <1>7, <1>8, <1>9 DEF ReviewIsCovered

\* Every step: a review follows a freeze and a complete replay.
LEMMA ReviewIsCoveredNext ==
    ASSUME DeskTypes, NothingBefore, ReviewIsCovered, DeskNext
    PROVE  ReviewIsCovered'
<1>1. CASE PassTime
    BY <1>1 DEF PassTime, tallies, ghosts, ReviewIsCovered, Replayed, DeskTypes
<1>2. CASE createContest
    BY <1>2 DEF createContest, tallies, ghosts, ReviewIsCovered, Replayed
<1>3. CASE dueLifecycleTransitions
    BY <1>3 DEF dueLifecycleTransitions, ReviewIsCovered, Replayed, tallies, ghosts
<1>4. CASE advanceLifecycle
    <2>1. dueMove.doing \in {"ACTIVE", "FROZEN"}
        BY <1>4 DEF advanceLifecycle, DeskTypes, NoErrand
    <2>2. /\ contest # Unmade /\ UNCHANGED <<scored, covered, clock, errand>>
          /\ Moves(dueMove.doing) \/ UNCHANGED <<contest, frozenAt>>
        BY <1>4, TransitionDoes DEF advanceLifecycle, NothingBefore, tallies
    <2>3. QED
        BY <2>1, <2>2, ReviewMoves DEF ReviewIsCovered, Replayed
<1>5. ASSUME NEW to \in {"REGISTRATION_OPEN", "ACTIVE", "FROZEN", "CANCELLED"}, transitionRoute(to)
      PROVE  ReviewIsCovered'
    <2>1. /\ contest # Unmade /\ UNCHANGED <<scored, covered, clock, errand>>
          /\ Moves(to) \/ UNCHANGED <<contest, frozenAt>>
        BY <1>5, TransitionDoes DEF transitionRoute, tallies
    <2>2. QED
        BY <2>1, ReviewMoves DEF ReviewIsCovered, Replayed
<1>6. ASSUME NEW e \in Errand, lookToUpdate(e)
      PROVE  ReviewIsCovered'
    BY <1>6 DEF lookToUpdate, Look, tallies, ghosts, ReviewIsCovered, Replayed
<1>7. ASSUME NEW e \in Errand, lookToFinalize(e)
      PROVE  ReviewIsCovered'
    BY <1>7 DEF lookToFinalize, Look, tallies, ghosts, ReviewIsCovered, Replayed
<1>8. ASSUME NEW e \in Errand, lookToJoin(e)
      PROVE  ReviewIsCovered'
    BY <1>8 DEF lookToJoin, Look, tallies, ghosts, ReviewIsCovered, Replayed
<1>9. ASSUME NEW e \in Errand, lookToReconcile(e)
      PROVE  ReviewIsCovered'
    BY <1>9 DEF lookToReconcile, Look, tallies, ghosts, ReviewIsCovered, Replayed
<1>10. ASSUME NEW e \in Errand, NEW change \in Edits, update(e, change[1], change[2])
      PROVE  ReviewIsCovered'
    <2>1. \A f \in Errand : errand'[f] = NoErrand \/ errand'[f] = errand[f]
        BY <1>10, UpdateDoes
    <2>2. contest'.status = contest.status /\ UNCHANGED <<scored, clock, frozenAt, covered>>
        BY <1>10, UpdateDoes
    <2>3. QED
        BY <2>1, <2>2 DEF ReviewIsCovered, Replayed, NoErrand
<1>11. ASSUME NEW e \in Errand, NEW v \in Visitor, countParticipants(e, v)
      PROVE  ReviewIsCovered'
    <2>1. UNCHANGED <<contest, scored, clock, frozenAt, covered>>
        BY <1>11 DEF countParticipants, tallies, ghosts
    <2>2. QED
        BY <1>11, <2>1, CountDoes DEF ReviewIsCovered, Replayed, NoErrand
<1>12. ASSUME NEW e \in Errand, upsertParticipant(e)
      PROVE  ReviewIsCovered'
    BY <1>12 DEF upsertParticipant, Finish, ReviewIsCovered, Replayed, NoErrand
<1>13. ASSUME NEW e \in Errand, loadContest(e)
      PROVE  ReviewIsCovered'
    BY <1>13 DEF loadContest, Doing, tallies, ghosts, ReviewIsCovered, Replayed
<1>14. ASSUME NEW e \in Errand, reconcile(e)
      PROVE  ReviewIsCovered'
    <2> DEFINE seen == errand[e].seen
    <2>1. /\ covered' = Window(seen) /\ UNCHANGED <<contest, clock, frozenAt>>
          /\ scored' = Award({d \in Deed : d.at <= clock /\ Counts(d, seen)}, seen)
        BY <1>14 DEF reconcile
    <2>2. frozenAt # Never /\ frozenAt <= clock
        BY <1>14, ReconcileDoes DEF ReviewIsCovered
    <2>3. DOMAIN scored' = {d \in Deed : d.at <= clock /\ Counts(d, seen)} \cup DOMAIN scored
        BY <2>1 DEF Award
    <2>4. frozenAt \in Nat /\ clock \in Nat /\ \A d \in Deed : d.at \in Nat
        BY DeskAssumption DEF DeskTypes
    <2>5. Replayed'
        BY <2>1, <2>2, <2>3, <2>4 DEF Replayed, Window, Counts
    <2>6. covered' # Unmade
        BY <2>1 DEF Window, Unmade
    <2>7. QED
        BY <1>14, <2>1, <2>2, <2>5, <2>6, ReconcileDoes DEF ReviewIsCovered
<1>15. ASSUME NEW e \in Errand, concludeReview(e)
      PROVE  ReviewIsCovered'
    <2>1. contest # Unmade /\ covered # Unmade
        BY <1>15 DEF concludeReview, Doing, NoErrand, NothingBefore, ReviewIsCovered
    <2>2. /\ \A f \in Errand : errand'[f] = NoErrand \/ errand'[f] = errand[f]
          /\ UNCHANGED <<scored, covered, clock>>
        BY <1>15 DEF concludeReview, Finish, tallies, DeskTypes
    <2>3. Moves("UNDER_REVIEW") \/ UNCHANGED <<contest, frozenAt>>
        BY <1>15, <2>1, TransitionDoes DEF concludeReview
    <2>4. QED
        BY <2>1, <2>2, <2>3, ReviewMoves DEF ReviewIsCovered, Replayed, NoErrand
<1>16. ASSUME NEW e \in Errand, finalizeContest(e)
      PROVE  ReviewIsCovered'
    <2>1. contest # Unmade
        BY <1>16 DEF finalizeContest, Doing, NoErrand, NothingBefore
    <2>2. /\ \A f \in Errand : errand'[f] = NoErrand \/ errand'[f] = errand[f]
          /\ UNCHANGED <<scored, covered, clock>>
        BY <1>16 DEF finalizeContest, Finish, DeskTypes
    <2>3. \/ Moves("FINALIZED") /\ covered # Unmade
          \/ UNCHANGED <<contest, frozenAt>>
        BY <1>16, <2>1, FinalizeDoes DEF ReviewIsCovered
    <2>4. QED
        BY <2>1, <2>2, <2>3, ReviewMoves DEF ReviewIsCovered, Replayed, NoErrand
<1>17. CASE scoringContests
    BY <1>17 DEF scoringContests, tallies, ghosts, ReviewIsCovered, Replayed
<1>18. ASSUME NEW d \in Deed, ingest(d)
      PROVE  ReviewIsCovered'
    BY <1>18 DEF ingest, ghosts, ReviewIsCovered, Replayed, Award
<1>19. QED
    BY <1>1, <1>2, <1>3, <1>4, <1>5, <1>6, <1>7, <1>8, <1>9, <1>10, <1>11, <1>12, <1>13, <1>14,
       <1>15, <1>16, <1>17, <1>18 DEF DeskNext

\* A contest that moves was not closed.
LEMMA ClosedMoves ==
    ASSUME ClosedStays, NEW to, Moves(to)
    PROVE  ClosedStays'
<1>1. closing = Unmade
    BY DEF ClosedStays, Moves
<1>2. contest'.status = to /\ closing' = IF Closed(to) THEN contest' ELSE closing
    BY DEF Moves
<1>3. QED
    BY <1>1, <1>2 DEF ClosedStays

\* Every step: a closed contest stays as it was closed, but for an overtaken edit.
LEMMA ClosedStaysNext ==
    ASSUME DeskTypes, NothingBefore, LooksCurrent, ClosedStays, DeskNext
    PROVE  ClosedStays'
<1>1. CASE PassTime
    BY <1>1 DEF PassTime, ghosts, ClosedStays
<1>2. CASE createContest
    BY <1>2 DEF createContest, ghosts, ClosedStays, NothingBefore
<1>3. CASE dueLifecycleTransitions
    BY <1>3 DEF dueLifecycleTransitions, ClosedStays, ghosts
<1>4. CASE advanceLifecycle
    <2>1. contest # Unmade
        BY <1>4 DEF advanceLifecycle, NothingBefore
    <2>2. (\E to : Moves(to)) \/ UNCHANGED <<contest, closing, slips>>
        BY <1>4, <2>1, TransitionDoes DEF advanceLifecycle
    <2>3. QED
        BY <2>2, ClosedMoves DEF ClosedStays
<1>5. ASSUME NEW to \in {"REGISTRATION_OPEN", "ACTIVE", "FROZEN", "CANCELLED"}, transitionRoute(to)
      PROVE  ClosedStays'
    <2>1. contest # Unmade
        BY <1>5 DEF transitionRoute, NothingBefore
    <2>2. (\E t : Moves(t)) \/ UNCHANGED <<contest, closing, slips>>
        BY <1>5, <2>1, TransitionDoes DEF transitionRoute
    <2>3. QED
        BY <2>2, ClosedMoves DEF ClosedStays
<1>6. ASSUME NEW e \in Errand, lookToUpdate(e)
      PROVE  ClosedStays'
    BY <1>6 DEF lookToUpdate, Look, ghosts, ClosedStays
<1>7. ASSUME NEW e \in Errand, lookToFinalize(e)
      PROVE  ClosedStays'
    BY <1>7 DEF lookToFinalize, Look, ghosts, ClosedStays
<1>8. ASSUME NEW e \in Errand, lookToJoin(e)
      PROVE  ClosedStays'
    BY <1>8 DEF lookToJoin, Look, ghosts, ClosedStays
<1>9. ASSUME NEW e \in Errand, lookToReconcile(e)
      PROVE  ClosedStays'
    BY <1>9 DEF lookToReconcile, Look, ghosts, ClosedStays
<1>10. ASSUME NEW e \in Errand, NEW change \in Edits, update(e, change[1], change[2])
      PROVE  ClosedStays'
    <2>1. closing' = closing /\ contest'.status = contest.status /\ slips \subseteq slips'
        BY <1>10, UpdateDoes
    <2>2. Closed(contest.status) => "closed" \in slips'
        BY <1>10, UpdateDoes DEF LooksCurrent
    <2>3. QED
        BY <2>1, <2>2 DEF ClosedStays
<1>11. ASSUME NEW e \in Errand, NEW v \in Visitor, countParticipants(e, v)
      PROVE  ClosedStays'
    BY <1>11 DEF countParticipants, ghosts, ClosedStays
<1>12. ASSUME NEW e \in Errand, upsertParticipant(e)
      PROVE  ClosedStays'
    BY <1>12 DEF upsertParticipant, ClosedStays
<1>13. ASSUME NEW e \in Errand, loadContest(e)
      PROVE  ClosedStays'
    BY <1>13 DEF loadContest, ghosts, ClosedStays
<1>14. ASSUME NEW e \in Errand, reconcile(e)
      PROVE  ClosedStays'
    BY <1>14 DEF reconcile, ClosedStays
<1>15. ASSUME NEW e \in Errand, concludeReview(e)
      PROVE  ClosedStays'
    <2>1. contest # Unmade
        BY <1>15 DEF concludeReview, Doing, NoErrand, NothingBefore
    <2>2. (\E to : Moves(to)) \/ UNCHANGED <<contest, closing, slips>>
        BY <1>15, <2>1, TransitionDoes DEF concludeReview
    <2>3. QED
        BY <2>2, ClosedMoves DEF ClosedStays
<1>16. ASSUME NEW e \in Errand, finalizeContest(e)
      PROVE  ClosedStays'
    <2>1. contest # Unmade
        BY <1>16 DEF finalizeContest, Doing, NoErrand, NothingBefore
    <2>2. (\E to : Moves(to)) \/ UNCHANGED <<contest, closing, slips>>
        BY <1>16, <2>1, FinalizeDoes DEF finalizeContest
    <2>3. QED
        BY <2>2, ClosedMoves DEF ClosedStays
<1>17. CASE scoringContests
    BY <1>17 DEF scoringContests, ghosts, ClosedStays
<1>18. ASSUME NEW d \in Deed, ingest(d)
      PROVE  ClosedStays'
    BY <1>18 DEF ingest, ghosts, ClosedStays
<1>19. QED
    BY <1>1, <1>2, <1>3, <1>4, <1>5, <1>6, <1>7, <1>8, <1>9, <1>10, <1>11, <1>12, <1>13, <1>14,
       <1>15, <1>16, <1>17, <1>18 DEF DeskNext

\* The places are kept by whatever admits nobody and changes none.
LEMMA PlacesMove ==
    ASSUME PlacesKept, contest # Unmade, contest'.places = contest.places,
           UNCHANGED <<entrants, edits>>, slips \subseteq slips',
           \A f \in Errand : errand'[f] = errand[f] \/ errand'[f].doing # "enter"
    PROVE  PlacesKept'
BY DEF PlacesKept, PlacesSuffice

\* Nobody is within any number of places.
LEMMA NoEntrants ==
    ASSUME NEW n \in Nat
    PROVE  IsFiniteSet({}) /\ Cardinality({}) <= n
BY FS_EmptySet

\* Every step: nobody enters beyond the places, unless requests overlapped.
LEMMA PlacesKeptNext ==
    ASSUME DeskTypes, NothingBefore, LooksCurrent, PlacesKept, DeskNext
    PROVE  PlacesKept'
<1>1. CASE PassTime
    BY <1>1 DEF PassTime, PlacesKept, PlacesSuffice, tallies, ghosts
<1>2. CASE createContest
    <2>1. contest'.places \in Nat
        BY <1>2, AnOpening DEF createContest
    <2>2. entrants' = {} /\ \A f \in Errand : errand'[f].doing # "enter"
        BY <1>2 DEF createContest, NothingBefore, tallies, NoErrand
    <2>3. QED
        BY <2>1, <2>2, NoEntrants DEF PlacesKept, PlacesSuffice
<1>3. CASE dueLifecycleTransitions
    BY <1>3 DEF dueLifecycleTransitions, tallies, ghosts, PlacesKept, PlacesSuffice
<1>4. CASE advanceLifecycle
    <2>1. contest # Unmade /\ slips \subseteq slips'
        BY <1>4 DEF advanceLifecycle, Doing, NoErrand, NothingBefore
    <2>2. contest'.places = contest.places
        BY <1>4, <2>1, TransitionDoes DEF advanceLifecycle, Moves
    <2>3. \A f \in Errand : errand'[f] = errand[f] \/ errand'[f].doing # "enter"
        BY <1>4 DEF advanceLifecycle, Finish, NoErrand, DeskTypes
    <2>4. UNCHANGED <<entrants, edits>>
        BY <1>4 DEF advanceLifecycle, tallies
    <2>5. QED
        BY <2>1, <2>2, <2>3, <2>4, PlacesMove
<1>5. ASSUME NEW to \in {"REGISTRATION_OPEN", "ACTIVE", "FROZEN", "CANCELLED"}, transitionRoute(to)
      PROVE  PlacesKept'
    <2>1. contest # Unmade /\ slips \subseteq slips'
        BY <1>5 DEF transitionRoute, Doing, NoErrand, NothingBefore
    <2>2. contest'.places = contest.places
        BY <1>5, <2>1, TransitionDoes DEF transitionRoute, Moves
    <2>3. \A f \in Errand : errand'[f] = errand[f] \/ errand'[f].doing # "enter"
        BY <1>5 DEF transitionRoute, Finish, NoErrand, DeskTypes
    <2>4. UNCHANGED <<entrants, edits>>
        BY <1>5 DEF transitionRoute, tallies
    <2>5. QED
        BY <2>1, <2>2, <2>3, <2>4, PlacesMove
<1>6. ASSUME NEW e \in Errand, lookToUpdate(e)
      PROVE  PlacesKept'
    BY <1>6 DEF lookToUpdate, Look, tallies, ghosts, PlacesKept, PlacesSuffice
<1>7. ASSUME NEW e \in Errand, lookToFinalize(e)
      PROVE  PlacesKept'
    BY <1>7 DEF lookToFinalize, Look, tallies, ghosts, PlacesKept, PlacesSuffice
<1>8. ASSUME NEW e \in Errand, lookToJoin(e)
      PROVE  PlacesKept'
    BY <1>8 DEF lookToJoin, Look, tallies, ghosts, PlacesKept, PlacesSuffice
<1>9. ASSUME NEW e \in Errand, lookToReconcile(e)
      PROVE  PlacesKept'
    BY <1>9 DEF lookToReconcile, Look, tallies, ghosts, PlacesKept, PlacesSuffice
<1>10. ASSUME NEW e \in Errand, NEW change \in Edits, update(e, change[1], change[2])
      PROVE  PlacesKept'
    <2>1. \A f \in Errand : errand'[f] = NoErrand \/ errand'[f] = errand[f]
        BY <1>10, UpdateDoes
    <2>2. entrants' = entrants /\ slips \subseteq slips' /\ contest # Unmade
        BY <1>10, UpdateDoes
    <2>3. \A f \in Errand : errand'[f].doing = "enter" => errand'[f].edits # edits'
        <3>1. edits' = edits + 1 /\ edits \in Nat
            BY <1>10, UpdateDoes
        <3>2. \A f \in Errand : errand[f] # NoErrand => errand[f].edits \in Nat /\ errand[f].edits <= edits
            BY ErrandRows DEF LooksCurrent, DeskTypes
        <3>3. QED
            BY <2>1, <3>1, <3>2 DEF NoErrand
    <2>4. PlacesSuffice'
        <3>1. CASE change[1] # "places"
            BY <1>10, <2>2, <3>1, UpdateDoes DEF PlacesKept, PlacesSuffice
        <3>2. CASE change[1] = "places"
            <4>1. contest'.places = change[2] /\ change[2] \in Nat
                BY <1>10, <3>2, UpdateDoes
            <4>2. Cardinality(entrants) \in Nat
                BY FS_CardinalityType DEF PlacesKept
            <4>3. Cardinality(entrants) > change[2] => "crowded" \in slips'
                BY <1>10, <3>2, UpdateDoes
            <4>4. QED
                BY <2>2, <4>1, <4>2, <4>3 DEF PlacesSuffice
        <3>3. QED
            BY <3>1, <3>2
    <2>5. \A f \in Errand : errand'[f].doing = "enter" => errand'[f].beside \subseteq entrants'
        BY <2>1, <2>2 DEF PlacesKept, NoErrand
    <2>6. QED
        BY <2>2, <2>3, <2>4, <2>5 DEF PlacesKept
<1>11. ASSUME NEW e \in Errand, NEW v \in Visitor, countParticipants(e, v)
      PROVE  PlacesKept'
    <2>1. UNCHANGED <<contest, entrants, edits, slips>>
        BY <1>11 DEF countParticipants, tallies, ghosts
    <2>2. /\ \A f \in Errand : f # e => errand'[f] = errand[f]
          /\ errand[e].doing = "join" /\ errand[e] \in Looks
        BY <1>11, CountDoes
    <2>3. ASSUME errand'[e].doing = "enter", errand'[e].edits = edits
          PROVE  errand'[e].who \in entrants \/ Cardinality(entrants) < contest.places
        <3>1. errand'[e].who = v /\ errand'[e].edits = errand[e].edits
            BY <1>11, <2>3, CountDoes DEF NoErrand
        <3>2. errand[e].seen.places = contest.places
            BY <2>2, <2>3, <3>1 DEF LooksCurrent
        <3>3. v \in entrants \/ ~(Cardinality(entrants) >= errand[e].seen.places)
            BY <1>11, <2>3, CountDoes DEF NoErrand
        <3>4. Cardinality(entrants) \in Nat
            BY FS_CardinalityType DEF PlacesKept
        <3>5. contest.places \in Nat
            BY <2>2, <3>2 DEF Looks, Contests, Terms
        <3>6. QED
            BY <3>1, <3>2, <3>3, <3>4, <3>5
    <2>4. errand'[e].doing = "enter" => errand'[e].beside \subseteq entrants
        BY <1>11, CountDoes DEF NoErrand
    <2>5. QED
        BY <2>1, <2>2, <2>3, <2>4 DEF PlacesKept, PlacesSuffice
<1>12. ASSUME NEW e \in Errand, upsertParticipant(e)
      PROVE  PlacesKept'
    <2> DEFINE v == errand[e].who
    <2>0. errand[e].doing = "enter" /\ errand[e] # NoErrand /\ errand[e] \in Entries
        BY <1>12, ErrandRows DEF upsertParticipant, Doing, NoErrand, DeskTypes
    <2>1. /\ entrants' = entrants \cup {v} /\ UNCHANGED <<contest, edits>>
          /\ slips' = IF errand[e].beside # entrants \/ errand[e].edits # edits
                      THEN slips \cup {"crowded"} ELSE slips
        BY <1>12 DEF upsertParticipant
    <2>2. \A f \in Errand : errand'[f] = IF f = e THEN NoErrand ELSE errand[f]
        BY <1>12 DEF upsertParticipant, Finish, DeskTypes
    <2>3. contest \in Contests /\ contest.places \in Nat
        BY <2>0 DEF NothingBefore, DeskTypes, Contests, Terms
    <2>4. IsFiniteSet(entrants) /\ Cardinality(entrants) \in Nat
        BY FS_CardinalityType DEF PlacesKept
    <2> HIDE DEF v
    <2>5. /\ IsFiniteSet(entrants')
          /\ Cardinality(entrants') = IF v \in entrants THEN Cardinality(entrants) ELSE Cardinality(entrants) + 1
        BY <2>1, <2>4, FS_AddElement
    <2>6. PlacesSuffice'
        <3>1. CASE "crowded" \in slips'
            BY <3>1 DEF PlacesSuffice
        <3>2. CASE "crowded" \notin slips'
            <4>1. errand[e].beside = entrants /\ errand[e].edits = edits /\ slips' = slips
                BY <2>1, <3>2
            <4>2. v \in entrants \/ Cardinality(entrants) < contest.places
                BY <2>0, <4>1 DEF PlacesKept, v
            <4>3. Cardinality(entrants) <= contest.places
                BY <2>3, <3>2, <4>1 DEF PlacesKept, PlacesSuffice, Contests, Terms, Unmade, Statuses
            <4>4. QED
                BY <2>1, <2>3, <2>4, <2>5, <4>2, <4>3 DEF PlacesSuffice
        <3>3. QED
            BY <3>1, <3>2
    <2>7. ASSUME NEW f \in Errand, errand'[f].doing = "enter", errand'[f].edits = edits',
                 errand'[f].beside = entrants'
          PROVE  errand'[f].who \in entrants' \/ Cardinality(entrants') < contest'.places
        <3>1. errand'[f] = errand[f]
            BY <2>2, <2>7 DEF NoErrand
        <3>2. CASE v \in entrants
            <4>1. entrants' = entrants
                BY <2>1, <3>2
            <4>2. QED
                BY <2>1, <2>7, <3>1, <4>1 DEF PlacesKept
        <3>3. CASE v \notin entrants
            <4>1. errand[f].beside = entrants \cup {v} /\ errand[f].edits = edits
                BY <2>1, <2>7, <3>1
            <4>2. errand[f].beside \subseteq entrants
                BY <2>7, <3>1 DEF PlacesKept
            <4>3. QED
                BY <3>3, <4>1, <4>2
        <3>4. QED
            BY <3>2, <3>3
    <2>8. \A f \in Errand : errand'[f].doing = "enter" => errand'[f].beside \subseteq entrants'
        BY <2>1, <2>2 DEF PlacesKept, NoErrand
    <2>9. QED
        BY <2>5, <2>6, <2>7, <2>8 DEF PlacesKept
<1>13. ASSUME NEW e \in Errand, loadContest(e)
      PROVE  PlacesKept'
    <2>1. /\ contest # Unmade /\ UNCHANGED <<contest, entrants, edits, slips>>
        BY <1>13 DEF loadContest, Doing, NoErrand, NothingBefore, tallies, ghosts
    <2>2. \A f \in Errand : errand'[f] = errand[f] \/ errand'[f].doing # "enter"
        <3>1. errand[e] \in Looks
            BY <1>13, ErrandRows DEF loadContest, Doing, DeskTypes
        <3> DEFINE next == [errand[e] EXCEPT !.doing = "replay", !.seen = contest]
        <3>2. next.doing = "replay"
            BY <3>1 DEF Looks
        <3>3. errand' = [errand EXCEPT ![e] = next]
            BY <1>13 DEF loadContest, DeskTypes
        <3> HIDE DEF next
        <3>4. QED
            BY <3>2, <3>3 DEF DeskTypes
    <2>3. QED
        BY <2>1, <2>2, PlacesMove
<1>14. ASSUME NEW e \in Errand, reconcile(e)
      PROVE  PlacesKept'
    <2>1. /\ UNCHANGED <<contest, entrants, edits, slips>>
          /\ contest # Unmade
        BY <1>14 DEF reconcile, Doing, NoErrand, NothingBefore
    <2>2. \A f \in Errand : errand'[f] = errand[f] \/ errand'[f].doing # "enter"
        BY <1>14, ReconcileDoes
    <2>3. QED
        BY <2>1, <2>2, PlacesMove
<1>15. ASSUME NEW e \in Errand, concludeReview(e)
      PROVE  PlacesKept'
    <2>1. contest # Unmade /\ slips \subseteq slips'
        BY <1>15 DEF concludeReview, Doing, NoErrand, NothingBefore
    <2>2. contest'.places = contest.places
        BY <1>15, <2>1, TransitionDoes DEF concludeReview, Moves
    <2>3. \A f \in Errand : errand'[f] = errand[f] \/ errand'[f].doing # "enter"
        BY <1>15 DEF concludeReview, Finish, NoErrand, DeskTypes
    <2>4. UNCHANGED <<entrants, edits>>
        BY <1>15 DEF concludeReview, tallies
    <2>5. QED
        BY <2>1, <2>2, <2>3, <2>4, PlacesMove
<1>16. ASSUME NEW e \in Errand, finalizeContest(e)
      PROVE  PlacesKept'
    <2>1. contest # Unmade /\ slips \subseteq slips'
        BY <1>16 DEF finalizeContest, Doing, NoErrand, NothingBefore
    <2>2. contest'.places = contest.places
        BY <1>16, <2>1, FinalizeDoes DEF finalizeContest, Moves
    <2>3. \A f \in Errand : errand'[f] = errand[f] \/ errand'[f].doing # "enter"
        BY <1>16 DEF finalizeContest, Finish, NoErrand, DeskTypes
    <2>4. UNCHANGED <<entrants, edits>>
        BY <1>16 DEF finalizeContest, tallies
    <2>5. QED
        BY <2>1, <2>2, <2>3, <2>4, PlacesMove
<1>17. CASE scoringContests
    BY <1>17 DEF scoringContests, tallies, ghosts, PlacesKept, PlacesSuffice
<1>18. ASSUME NEW d \in Deed, ingest(d)
      PROVE  PlacesKept'
    BY <1>18 DEF ingest, ghosts, PlacesKept, PlacesSuffice
<1>19. QED
    BY <1>1, <1>2, <1>3, <1>4, <1>5, <1>6, <1>7, <1>8, <1>9, <1>10, <1>11, <1>12, <1>13, <1>14,
       <1>15, <1>16, <1>17, <1>18 DEF DeskNext

\* Every step: the prize awarded is the one announced, unless an edit overtook it.
LEMMA PrizeNext ==
    ASSUME DeskTypes, NothingBefore, LooksCurrent, ClosedStays, PrizeAsAnnounced, DeskNext
    PROVE  PrizeAsAnnounced'
<1>1. CASE PassTime
    BY <1>1 DEF PassTime, tallies, ghosts, PrizeAsAnnounced
<1>2. CASE createContest
    BY <1>2 DEF createContest, tallies, ghosts, PrizeAsAnnounced
<1>3. CASE dueLifecycleTransitions
    BY <1>3 DEF dueLifecycleTransitions, tallies, ghosts, PrizeAsAnnounced
<1>4. CASE advanceLifecycle
    BY <1>4 DEF advanceLifecycle, transitionContest, setStatus, tallies, PrizeAsAnnounced, Closed,
       DeskTypes
<1>5. ASSUME NEW to \in {"REGISTRATION_OPEN", "ACTIVE", "FROZEN", "CANCELLED"}, transitionRoute(to)
      PROVE  PrizeAsAnnounced'
    <2>1. contest # Unmade /\ UNCHANGED <<prize, slips>>
        BY <1>5 DEF transitionRoute, tallies
    <2>2. closing' = closing \/ closing'.status = to
        BY <1>5, <2>1, TransitionDoes DEF transitionRoute, Moves
    <2>3. QED
        BY <2>1, <2>2 DEF PrizeAsAnnounced
<1>6. ASSUME NEW e \in Errand, lookToUpdate(e)
      PROVE  PrizeAsAnnounced'
    BY <1>6 DEF lookToUpdate, Look, tallies, ghosts, PrizeAsAnnounced
<1>7. ASSUME NEW e \in Errand, lookToFinalize(e)
      PROVE  PrizeAsAnnounced'
    BY <1>7 DEF lookToFinalize, Look, tallies, ghosts, PrizeAsAnnounced
<1>8. ASSUME NEW e \in Errand, lookToJoin(e)
      PROVE  PrizeAsAnnounced'
    BY <1>8 DEF lookToJoin, Look, tallies, ghosts, PrizeAsAnnounced
<1>9. ASSUME NEW e \in Errand, lookToReconcile(e)
      PROVE  PrizeAsAnnounced'
    BY <1>9 DEF lookToReconcile, Look, tallies, ghosts, PrizeAsAnnounced
<1>10. ASSUME NEW e \in Errand, NEW change \in Edits, update(e, change[1], change[2])
      PROVE  PrizeAsAnnounced'
    BY <1>10 DEF update, tallies, PrizeAsAnnounced
<1>11. ASSUME NEW e \in Errand, NEW v \in Visitor, countParticipants(e, v)
      PROVE  PrizeAsAnnounced'
    BY <1>11 DEF countParticipants, tallies, ghosts, PrizeAsAnnounced
<1>12. ASSUME NEW e \in Errand, upsertParticipant(e)
      PROVE  PrizeAsAnnounced'
    BY <1>12 DEF upsertParticipant, PrizeAsAnnounced
<1>13. ASSUME NEW e \in Errand, loadContest(e)
      PROVE  PrizeAsAnnounced'
    BY <1>13 DEF loadContest, tallies, ghosts, PrizeAsAnnounced
<1>14. ASSUME NEW e \in Errand, reconcile(e)
      PROVE  PrizeAsAnnounced'
    BY <1>14 DEF reconcile, PrizeAsAnnounced
<1>15. ASSUME NEW e \in Errand, concludeReview(e)
      PROVE  PrizeAsAnnounced'
    BY <1>15 DEF concludeReview, transitionContest, setStatus, tallies, PrizeAsAnnounced, Closed
<1>16. ASSUME NEW e \in Errand, finalizeContest(e)
      PROVE  PrizeAsAnnounced'
    <2>1. contest # Unmade /\ errand[e].doing = "finalize"
        BY <1>16 DEF finalizeContest, Doing, NoErrand, NothingBefore
    <2>2. CASE UNCHANGED <<closing, prize, slips>>
        BY <2>2 DEF PrizeAsAnnounced
    <2>3. CASE /\ Moves("FINALIZED") /\ prize' = errand[e].seen.prize
               /\ slips' = IF errand[e].edits # edits THEN slips \cup {"prize"} ELSE slips
        <3>1. closing' = contest' /\ contest'.prize = contest.prize
            BY <2>3 DEF Moves, Closed
        <3>2. errand[e].edits = edits => errand[e].seen.prize = contest.prize
            BY <2>1 DEF LooksCurrent
        <3>3. QED
            BY <2>3, <3>1, <3>2 DEF PrizeAsAnnounced
    <2>4. QED
        BY <1>16, <2>1, <2>2, <2>3, FinalizeDoes
<1>17. CASE scoringContests
    BY <1>17 DEF scoringContests, tallies, ghosts, PrizeAsAnnounced
<1>18. ASSUME NEW d \in Deed, ingest(d)
      PROVE  PrizeAsAnnounced'
    BY <1>18 DEF ingest, ghosts, PrizeAsAnnounced
<1>19. QED
    BY <1>1, <1>2, <1>3, <1>4, <1>5, <1>6, <1>7, <1>8, <1>9, <1>10, <1>11, <1>12, <1>13, <1>14,
       <1>15, <1>16, <1>17, <1>18 DEF DeskNext

\* It holds before the contest is created.
LEMMA DeskInvInit == DeskInit => DeskInv
<1> SUFFICES ASSUME DeskInit PROVE DeskInv
    OBVIOUS
<1>1. Never \in Nat /\ 0 \in 0..MaxClock
    BY DeskAssumption DEF Never
<1>2. DeskTypes
    BY <1>1 DEF DeskInit, DeskTypes
<1>3. NothingBefore /\ LooksCurrent /\ VersionsStay /\ DueIsDue /\ TrailLeads
    BY DEF DeskInit, NothingBefore, LooksCurrent, VersionsStay, DueIsDue, TrailLeads, Unmade,
       NoErrand
<1>4. ReviewIsCovered /\ ClosedStays /\ PrizeAsAnnounced
    BY DEF DeskInit, ReviewIsCovered, ClosedStays, PrizeAsAnnounced, Unmade, NoErrand
<1>5. PlacesKept
    BY FS_EmptySet DEF DeskInit, PlacesKept, PlacesSuffice, NoErrand
<1>6. QED
    BY <1>2, <1>3, <1>4, <1>5 DEF DeskInv

\* And every step keeps it.
LEMMA DeskInvNext == DeskInv /\ [DeskNext]_deskVars => DeskInv'
<1> SUFFICES ASSUME DeskInv, [DeskNext]_deskVars PROVE DeskInv'
    OBVIOUS
<1>1. CASE DeskNext
    BY <1>1, DeskTypesNext, NothingBeforeNext, LooksCurrentNext, VersionsStayNext, DueIsDueNext,
       TrailLeadsNext, ReviewIsCoveredNext, ClosedStaysNext, PlacesKeptNext, PrizeNext DEF DeskInv
<1>2. CASE UNCHANGED deskVars
    BY <1>2 DEF deskVars, tallies, DeskInv, DeskTypes, NothingBefore, LooksCurrent, VersionsStay,
       DueIsDue,
        TrailLeads, ReviewIsCovered, Replayed, ClosedStays, PlacesKept, PlacesSuffice,
        PrizeAsAnnounced
<1>3. QED
    BY <1>1, <1>2

\* A way the lifecycle allows is forward, back to a freeze, or to a cancellation.
LEMMA WayIsForward ==
    ASSUME NEW from \in Statuses, NEW stop \in Stops, Leads(from, stop)
    PROVE  \/ <<from, stop.to>> \in {<<"DRAFT", "REGISTRATION_OPEN">>, <<"REGISTRATION_OPEN", "ACTIVE">>,
                <<"ACTIVE", "FROZEN">>, <<"FROZEN", "UNDER_REVIEW">>, <<"UNDER_REVIEW", "FINALIZED">>}
           \/ from = "UNDER_REVIEW" /\ stop.to = "FROZEN"
           \/ stop.to = "CANCELLED" /\ ~Closed(from)
<1>0. stop.to \in ALLOWED_TRANSITIONS[from] /\ ~Closed(from)
    BY Allowed DEF Leads
<1>1. from \in {"DRAFT", "REGISTRATION_OPEN", "ACTIVE", "FROZEN", "UNDER_REVIEW", "FINALIZED", "CANCELLED"}
    BY DEF Statuses
<1>2. CASE from = "DRAFT"
    BY <1>0, <1>2 DEF ALLOWED_TRANSITIONS
<1>3. CASE from = "REGISTRATION_OPEN"
    BY <1>0, <1>3 DEF ALLOWED_TRANSITIONS
<1>4. CASE from = "ACTIVE"
    BY <1>0, <1>4 DEF ALLOWED_TRANSITIONS
<1>5. CASE from = "FROZEN"
    BY <1>0, <1>5 DEF ALLOWED_TRANSITIONS
<1>6. CASE from = "UNDER_REVIEW"
    BY <1>0, <1>6 DEF ALLOWED_TRANSITIONS
<1>7. CASE from = "FINALIZED" \/ from = "CANCELLED"
    BY <1>0, <1>7 DEF Closed
<1>8. QED
    BY <1>1, <1>2, <1>3, <1>4, <1>5, <1>6, <1>7

\* A trail that leads on by the lifecycle is a way forward.
LEMMA TrailTold ==
    ASSUME DeskTypes, TrailLeads
    PROVE  TrailTellsTheWay
<1> DEFINE way == <<"DRAFT", "REGISTRATION_OPEN", "ACTIVE", "FROZEN", "UNDER_REVIEW", "FINALIZED">>
           stop(k) == IF k = 0 THEN "DRAFT" ELSE trail[k].to
           forward(from, to) == \E i \in 1..5 : way[i] = from /\ way[i + 1] = to
           n == Len(trail)
<1> SUFFICES ASSUME contest # Unmade
             PROVE  /\ stop(Len(trail)) = contest.status
                    /\ \A k \in DOMAIN trail :
                        /\ \/ forward(stop(k - 1), trail[k].to)
                           \/ stop(k - 1) = "UNDER_REVIEW" /\ trail[k].to = "FROZEN"
                           \/ trail[k].to = "CANCELLED" /\ ~Closed(stop(k - 1))
                        /\ trail[k].by = "system" /\ trail[k].to = "FROZEN" => trail[k].due
    BY DEF TrailTellsTheWay
<1>1. /\ n \in Nat /\ DOMAIN trail = 1..n /\ \A k \in 1..n : trail[k] \in Stops
      /\ trail = <<>> <=> n = 0
    BY DEF DeskTypes
<1>2. stop(n) = contest.status
    BY <1>1 DEF TrailLeads, LastStop
<1>3. \A from, to : <<from, to>> \in {<<"DRAFT", "REGISTRATION_OPEN">>, <<"REGISTRATION_OPEN", "ACTIVE">>,
                <<"ACTIVE", "FROZEN">>, <<"FROZEN", "UNDER_REVIEW">>, <<"UNDER_REVIEW", "FINALIZED">>}
                    => forward(from, to)
    <2>1. forward("DRAFT", "REGISTRATION_OPEN")
        <3>1. 1 \in 1..5 /\ way[1] = "DRAFT" /\ way[1 + 1] = "REGISTRATION_OPEN"
            OBVIOUS
        <3>2. QED
            BY <3>1
    <2>2. forward("REGISTRATION_OPEN", "ACTIVE")
        <3>1. 2 \in 1..5 /\ way[2] = "REGISTRATION_OPEN" /\ way[2 + 1] = "ACTIVE"
            OBVIOUS
        <3>2. QED
            BY <3>1
    <2>3. forward("ACTIVE", "FROZEN")
        <3>1. 3 \in 1..5 /\ way[3] = "ACTIVE" /\ way[3 + 1] = "FROZEN"
            OBVIOUS
        <3>2. QED
            BY <3>1
    <2>4. forward("FROZEN", "UNDER_REVIEW")
        <3>1. 4 \in 1..5 /\ way[4] = "FROZEN" /\ way[4 + 1] = "UNDER_REVIEW"
            OBVIOUS
        <3>2. QED
            BY <3>1
    <2>5. forward("UNDER_REVIEW", "FINALIZED")
        <3>1. 5 \in 1..5 /\ way[5] = "UNDER_REVIEW" /\ way[5 + 1] = "FINALIZED"
            OBVIOUS
        <3>2. QED
            BY <3>1
    <2> HIDE DEF forward
    <2>6. QED
        BY <2>1, <2>2, <2>3, <2>4, <2>5
<1>4. ASSUME NEW k \in 1..n
      PROVE  /\ stop(k - 1) \in Statuses /\ Leads(stop(k - 1), trail[k])
    <2>1. Leads(IF k = 1 THEN "DRAFT" ELSE trail[k - 1].to, trail[k])
        BY DEF TrailLeads, Way
    <2>2. CASE k = 1
        BY <2>1, <2>2 DEF Statuses
    <2>3. CASE k # 1
        <3>1. k - 1 \in 1..n /\ k - 1 # 0
            BY <1>1, <2>3
        <3>2. QED
            BY <1>1, <2>1, <2>3, <3>1 DEF Stops
    <2>4. QED
        BY <2>2, <2>3
<1> HIDE DEF forward
<1>5. ASSUME NEW k \in 1..n
      PROVE  /\ \/ forward(stop(k - 1), trail[k].to)
                \/ stop(k - 1) = "UNDER_REVIEW" /\ trail[k].to = "FROZEN"
                \/ trail[k].to = "CANCELLED" /\ ~Closed(stop(k - 1))
             /\ trail[k].by = "system" /\ trail[k].to = "FROZEN" => trail[k].due
    <2> DEFINE from == stop(k - 1)
               t == trail[k]
    <2>1. from \in Statuses /\ t \in Stops /\ Leads(from, t)
        BY <1>1, <1>4
    <2> HIDE DEF from, t
    <2>2. \/ forward(from, t.to)
          \/ from = "UNDER_REVIEW" /\ t.to = "FROZEN"
          \/ t.to = "CANCELLED" /\ ~Closed(from)
        BY <1>3, <2>1, WayIsForward
    <2>3. t.by = "system" /\ t.to = "FROZEN" => t.due
        BY <2>1 DEF Leads
    <2>4. QED
        BY <2>2, <2>3 DEF from, t
<1>6. QED
    BY <1>1, <1>2, <1>5

\* The contest keeps what it announced to those who entered it, whoever edits, sweeps,
\* replays and finalizes at once: its audit trail, what is closed, the window it was
\* reconciled over, its places, its rules and its prize (contest/lifecycle.ts,
\* contest/admin-routes.ts).
THEOREM ContestKeepsItsWordHolds == DeskSpec => []ContestKeepsItsWord
<1>1. DeskInv => ContestKeepsItsWord
    <2> SUFFICES ASSUME DeskInv PROVE ContestKeepsItsWord
        OBVIOUS
    <2>1. TrailTellsTheWay
        BY TrailTold DEF DeskInv
    <2>2. ClosedIsClosed /\ PlacesSuffice /\ ScoredAsWritten /\ PrizeAsAnnounced
        BY DEF DeskInv, ClosedStays, ClosedIsClosed, PlacesKept, VersionsStay, ScoredAsWritten
    <2>3. FinalIsComplete
        <3> SUFFICES ASSUME closing.status = "FINALIZED"
                     PROVE  /\ covered # Unmade /\ frozenAt # Never
                            /\ Window(closing) = covered =>
                                \A d \in Deed : d.at < frozenAt /\ Counts(d, closing) => d \in DOMAIN scored
            BY DEF FinalIsComplete
        <3>1. closing # Unmade /\ contest.status = "FINALIZED"
            BY DEF DeskInv, ClosedStays, Unmade
        <3>2. covered # Unmade /\ frozenAt # Never /\ Replayed
            BY <3>1 DEF DeskInv, ReviewIsCovered
        <3>3. Window(closing) = covered => covered.startAt = closing.startAt /\ covered.endAt = closing.endAt
            BY DEF Window
        <3>4. QED
            BY <3>2, <3>3 DEF Replayed, Counts
    <2>4. QED
        BY <2>1, <2>2, <2>3 DEF ContestKeepsItsWord
<1>2. QED
    BY <1>1, DeskInvInit, DeskInvNext, PTL DEF DeskSpec
===============================================================================
