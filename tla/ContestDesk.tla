------------------------------ MODULE ContestDesk ------------------------------
(***************************************************************************)
(* A contest from its creation to its end: edits and rule versions, the    *)
(* lifecycle with its audit trail, entry, and the records scoring and      *)
(* reconciliation take from it (apps/relay/src/contest: admin-routes.ts,   *)
(* lifecycle.ts, routes.ts, service.ts and their queries).  A statement or *)
(* transaction is a step; what an interaction earns is Scoring.            *)
(***************************************************************************)
EXTENDS Naturals, FiniteSets, Sequences

CONSTANTS
  Errand,      \* requests of administrators and of people who join
  Visitor,
  Deed,        \* [at]: interactions of participants, and when they happen
  Opening,     \* the contest as it is created
  Edits,       \* the changes an administrator asks for
  MaxClock, MaxEdits, MaxErrands  \* bounds

\* What a request may change, and what a contest row can hold, as their schemas ask.
Editable == {"startAt", "endAt", "places", "prize"}
Terms(statuses) == [status : statuses, startAt : Nat, endAt : Nat, places : Nat, prize : Nat,
                    version : Nat]

ASSUME DeskAssumption ==
  /\ {MaxClock, MaxEdits, MaxErrands} \subseteq Nat
  /\ Opening \in Terms({"none"})
  /\ Edits \subseteq (Editable \cup {"rules"}) \X Nat
  /\ Deed \subseteq [at : Nat]

VARIABLES
  contest,   \* the row of contests, or Unmade
  versions,  \* contest_rule_versions: what each version says
  entrants,  \* contest_participants
  scored,    \* [version, worth] of each interaction recorded and scored
  prize,     \* of the first winner, once staged
  trail,     \* contest_audit_log: who moved the contest to which status
  cached,    \* ContestService.activeContests: the contest, or Unmade
  dueMove,   \* what a sweep found due
  errand,    \* requests in progress: what they do next and have read
  clock,
  errands,
  \* history:
  edits,     \* how often the contest was edited
  closing,   \* the contest as it was finalized or cancelled
  frozenAt,  \* when it was first frozen
  covered,   \* the window that was reconciled last, or Unmade
  slips      \* what happened between a look and the write that relied on it

deskVars == <<contest, versions, entrants, scored, prize, trail, cached, dueMove, errand,
              clock, errands, edits, closing, frozenAt, covered, slips>>
tallies == <<entrants, scored, prize>>
ghosts == <<edits, closing, frozenAt, covered, slips>>

Unmade == [status |-> "none"]
NoErrand == [doing |-> "nothing"]
Never == MaxClock + 1

DeskInit ==
  /\ contest = Unmade /\ versions = <<>> /\ entrants = {} /\ prize = 0
  /\ scored = [d \in {} |-> Unmade]
  /\ trail = <<>> /\ cached = Unmade /\ dueMove = NoErrand
  /\ errand = [e \in Errand |-> NoErrand]
  /\ clock = 0 /\ errands = 0 /\ edits = 0
  /\ closing = Unmade /\ frozenAt = Never /\ covered = Unmade /\ slips = {}

\* Passing of time, within the bound.
PassTime == clock < MaxClock /\ clock' = clock + 1
            /\ UNCHANGED <<contest, versions, tallies, trail, cached, dueMove, errand, errands, ghosts>>

Closed(status) == status \in {"FINALIZED", "CANCELLED"}

-------------------------------------------------------------------------------
(* Lifecycle. *)

ALLOWED_TRANSITIONS ==
  [DRAFT |-> {"REGISTRATION_OPEN", "CANCELLED"}, REGISTRATION_OPEN |-> {"ACTIVE", "CANCELLED"},
   ACTIVE |-> {"FROZEN", "CANCELLED"}, FROZEN |-> {"UNDER_REVIEW", "CANCELLED"},
   UNDER_REVIEW |-> {"FINALIZED", "FROZEN", "CANCELLED"}, FINALIZED |-> {}, CANCELLED |-> {}]

\* The status and its line in the audit trail, under the contest's row lock.
setStatus(to, by) ==
  /\ contest' = [contest EXCEPT !.status = to]
  /\ trail' = Append(trail, [to |-> to, by |-> by, due |-> clock >= contest.endAt])
  /\ closing' = IF Closed(to) THEN contest' ELSE closing
  /\ frozenAt' = IF to = "FROZEN" /\ frozenAt = Never THEN clock ELSE frozenAt

\* A move that is not allowed, or was made already, changes nothing.
transitionContest(to, by) ==
  IF to \in ALLOWED_TRANSITIONS[contest.status] THEN setStatus(to, by)
  ELSE UNCHANGED <<contest, trail, closing, frozenAt>>

\* The instance that served the request forgets; the others go on with what they have.
invalidateContests == cached' \in {Unmade, cached}

createContest ==
  /\ contest = Unmade
  /\ contest' = [Opening EXCEPT !.status = "DRAFT", !.version = 1]
  /\ versions' = <<Opening.version>>
  /\ invalidateContests
  /\ UNCHANGED <<tallies, trail, dueMove, errand, clock, errands, ghosts>>

transitionRoute(to) ==
  /\ contest # Unmade
  /\ transitionContest(to, "admin")
  /\ invalidateContests
  /\ UNCHANGED <<versions, tallies, dueMove, errand, clock, errands, edits, covered, slips>>

\* The sweep lists what is due ...
dueLifecycleTransitions ==
  /\ dueMove = NoErrand
  /\ \E to \in {"ACTIVE", "FROZEN"} :
       /\ IF to = "ACTIVE" THEN contest.status = "REGISTRATION_OPEN" /\ contest.startAt <= clock
          ELSE contest.status = "ACTIVE" /\ contest.endAt <= clock
       /\ dueMove' = [doing |-> to, edits |-> edits]
  /\ UNCHANGED <<contest, versions, tallies, trail, cached, errand, clock, errands, ghosts>>

\* ... and then moves it, whatever became of the reason.
advanceLifecycle ==
  /\ dueMove # NoErrand
  /\ transitionContest(dueMove.doing, IF dueMove.edits = edits THEN "system" ELSE "late")
  /\ invalidateContests
  /\ dueMove' = NoErrand
  /\ UNCHANGED <<versions, tallies, errand, clock, errands, edits, covered, slips>>

-------------------------------------------------------------------------------
(* Requests that look first and write later. *)

\* A request reads the contest and passes its checks.
Look(e, doing) ==
  /\ contest # Unmade /\ errands < MaxErrands /\ errand[e] = NoErrand
  /\ errand' = [errand EXCEPT ![e] = [doing |-> doing, seen |-> contest, edits |-> edits]]
  /\ errands' = errands + 1
  /\ UNCHANGED <<contest, versions, tallies, trail, cached, dueMove, clock, ghosts>>

Doing(e, what) == errand[e].doing = what
NextIs(e, what) == errand' = [errand EXCEPT ![e].doing = what]
Finish(e) == errand' = [errand EXCEPT ![e] = NoErrand]

lookToUpdate(e) == edits < MaxEdits /\ ~Closed(contest.status) /\ Look(e, "update")

\* Mutant: the rules in force are edited.
addRuleVersion_InPlace(worth) ==
  /\ versions' = [versions EXCEPT ![contest.version] = worth]
  /\ contest' = contest

addRuleVersion(worth) ==
  /\ versions' = Append(versions, worth)
  /\ contest' = [contest EXCEPT !.version = Len(versions) + 1]

\* One transaction, which does not look at the status again.
update(e, field, value) ==
  /\ Doing(e, "update")
  /\ IF field = "rules" THEN addRuleVersion(value)
     ELSE contest' = [contest EXCEPT ![field] = value] /\ UNCHANGED versions
  /\ edits' = edits + 1
  /\ slips' = slips \cup {s \in {"closed"} : Closed(contest.status) /\ ~Closed(errand[e].seen.status)}
                    \cup {s \in {"crowded"} : field = "places" /\ Cardinality(entrants) > value}
  /\ invalidateContests
  /\ Finish(e)
  /\ UNCHANGED <<tallies, trail, dueMove, clock, errands, closing, frozenAt, covered>>

lookToFinalize(e) == Look(e, "finalize")

\* Under the contest's lock, with the prize of the record read before.
finalizeContest(e) ==
  /\ Doing(e, "finalize") /\ Finish(e)
  /\ IF contest.status = "UNDER_REVIEW"
     THEN /\ setStatus("FINALIZED", "admin") /\ prize' = errand[e].seen.prize
          /\ slips' = IF errand[e].edits # edits THEN slips \cup {"prize"} ELSE slips
     ELSE UNCHANGED <<contest, trail, closing, frozenAt, prize, slips>>
  /\ invalidateContests
  /\ UNCHANGED <<versions, entrants, scored, dueMove, clock, errands, edits, covered>>

-------------------------------------------------------------------------------
(* Entry. *)

RegistrationOpen ==
  contest.status \in {"REGISTRATION_OPEN", "ACTIVE"} /\ clock < contest.endAt

lookToJoin(e) == RegistrationOpen /\ Look(e, "join")

\* Three statements: who it is, how many there are, and the row.
countParticipants(e, v) ==
  /\ Doing(e, "join")
  /\ IF v \notin entrants /\ Cardinality(entrants) >= errand[e].seen.places THEN Finish(e)
     ELSE errand' = [errand EXCEPT ![e] = [doing |-> "enter", who |-> v, edits |-> @.edits,
                                           beside |-> entrants]]
  /\ UNCHANGED <<contest, versions, tallies, trail, cached, dueMove, clock, errands, ghosts>>

upsertParticipant(e) ==
  /\ Doing(e, "enter") /\ Finish(e)
  /\ entrants' = entrants \cup {errand[e].who}
  /\ slips' = IF errand[e].beside # entrants \/ errand[e].edits # edits
              THEN slips \cup {"crowded"} ELSE slips
  /\ UNCHANGED <<contest, versions, scored, prize, trail, cached, dueMove, clock, errands,
                 edits, closing, frozenAt, covered>>

-------------------------------------------------------------------------------
(* Scoring. *)

Window(record) == [startAt |-> record.startAt, endAt |-> record.endAt]
Counts(d, record) == record.startAt <= d.at /\ d.at < record.endAt

\* With the version the record names, which is written beside the points.
Award(done, record) ==
  [d \in done \cup DOMAIN scored |->
    IF d \in DOMAIN scored THEN scored[d]
    ELSE [version |-> record.version, worth |-> versions[record.version]]]

\* The active contest, kept for a while.
scoringContests ==
  /\ cached' = IF contest.status = "ACTIVE" /\ Counts([at |-> clock], contest) THEN contest ELSE Unmade
  /\ cached' # cached
  /\ UNCHANGED <<contest, versions, tallies, trail, dueMove, errand, clock, errands, ghosts>>

ingest(d) ==
  /\ d.at <= clock /\ d \notin DOMAIN scored
  /\ cached # Unmade /\ Counts(d, cached)
  /\ scored' = Award({d}, cached)
  /\ UNCHANGED <<contest, versions, entrants, prize, trail, cached, dueMove, errand, clock, errands, ghosts>>

-------------------------------------------------------------------------------
(* Reconciliation. *)

lookToReconcile(e) == contest.status = "FROZEN" /\ Look(e, "load")

\* reconcile reads the contest once more ...
loadContest(e) ==
  /\ Doing(e, "load")
  /\ errand' = [errand EXCEPT ![e] = [@ EXCEPT !.doing = "replay", !.seen = contest]]
  /\ UNCHANGED <<contest, versions, tallies, trail, cached, dueMove, clock, errands, ghosts>>

\* ... and records and scores whatever of its window is missing.
reconcile(e) ==
  /\ Doing(e, "replay")
  /\ scored' = Award({d \in Deed : d.at <= clock /\ Counts(d, errand[e].seen)}, errand[e].seen)
  /\ covered' = Window(errand[e].seen)
  /\ NextIs(e, "conclude")
  /\ UNCHANGED <<contest, versions, entrants, prize, trail, cached, dueMove, clock, errands,
                 edits, closing, frozenAt, slips>>

concludeReview(e) ==
  /\ Doing(e, "conclude") /\ Finish(e)
  /\ transitionContest("UNDER_REVIEW", "admin")
  /\ invalidateContests
  /\ UNCHANGED <<versions, tallies, dueMove, clock, errands, edits, covered, slips>>

DeskNext ==
  \/ PassTime \/ createContest \/ dueLifecycleTransitions \/ advanceLifecycle
  \/ \E to \in {"REGISTRATION_OPEN", "ACTIVE", "FROZEN", "CANCELLED"} : transitionRoute(to)
  \/ \E e \in Errand :
       \/ lookToUpdate(e) \/ lookToFinalize(e) \/ lookToJoin(e) \/ lookToReconcile(e)
       \/ \E change \in Edits : update(e, change[1], change[2])
       \/ \E v \in Visitor : countParticipants(e, v)
       \/ upsertParticipant(e) \/ loadContest(e) \/ reconcile(e) \/ concludeReview(e)
       \/ finalizeContest(e)
  \/ scoringContests \/ \E d \in Deed : ingest(d)

DeskSpec == DeskInit /\ [][DeskNext]_deskVars

-------------------------------------------------------------------------------
(* Properties. *)

\* The audit trail is the contest's way from its draft to where it is, in order, and the
\* system moved it only when it was time, unless it was edited after the sweep looked.
TrailTellsTheWay ==
  contest # Unmade =>
    LET way == <<"DRAFT", "REGISTRATION_OPEN", "ACTIVE", "FROZEN", "UNDER_REVIEW", "FINALIZED">>
        stop(k) == IF k = 0 THEN "DRAFT" ELSE trail[k].to
        forward(from, to) == \E i \in 1..5 : way[i] = from /\ way[i + 1] = to
    IN /\ stop(Len(trail)) = contest.status
       /\ \A k \in DOMAIN trail :
            /\ \/ forward(stop(k - 1), trail[k].to)
               \/ stop(k - 1) = "UNDER_REVIEW" /\ trail[k].to = "FROZEN"
               \/ trail[k].to = "CANCELLED" /\ ~Closed(stop(k - 1))
            /\ trail[k].by = "system" /\ trail[k].to = "FROZEN" => trail[k].due

\* What is final is not edited, unless by a request that looked before.
ClosedIsClosed ==
  closing # Unmade => contest.status = closing.status /\ ("closed" \in slips \/ contest = closing)

\* A final contest was reconciled: nothing of its window from before it was frozen is
\* missing, unless the window was moved after it was replayed.
FinalIsComplete ==
  closing.status = "FINALIZED" =>
    /\ covered # Unmade /\ frozenAt # Never
    /\ Window(closing) = covered =>
         \A d \in Deed : d.at < frozenAt /\ Counts(d, closing) => d \in DOMAIN scored

\* No more take part than there are places, unless two entered at once or an edit fell in.
PlacesSuffice ==
  contest # Unmade => Cardinality(entrants) <= contest.places \/ "crowded" \in slips

\* Whoever asks why an interaction earned what it did finds the rules it was scored by.
ScoredAsWritten == \A d \in DOMAIN scored : scored[d].worth = versions[scored[d].version]

\* The staged prize is the contest's, unless it was edited while finalization began.
PrizeAsAnnounced == closing.status = "FINALIZED" => prize = closing.prize \/ "prize" \in slips

\* The contest keeps what it announced to those who entered it (contest/lifecycle.ts,
\* contest/admin-routes.ts).
ContestKeepsItsWord ==
  /\ TrailTellsTheWay /\ ClosedIsClosed /\ FinalIsComplete
  /\ PlacesSuffice /\ ScoredAsWritten /\ PrizeAsAnnounced
===============================================================================
