----------------------------- MODULE ContestStore -----------------------------
(***************************************************************************)
(* The contest tables (apps/relay/src/contest/repository.ts) for one       *)
(* contest: event rows, the double-entry score ledger, and the             *)
(* participants with their cached current_score.                           *)
(*                                                                         *)
(* An element of Event is a real-world interaction.  Its idempotency key   *)
(* is a function of the interaction alone, so it names its row as well.    *)
(* All interactions fall in one UTC day and inside the contest's window.   *)
(***************************************************************************)
EXTENDS Integers, FiniteSets, FiniteSetsExt

CONSTANTS
    Participant,
    Event,
    Source,     \* pieces of content (echoes, reflections)
    Earner,     \* Earner[e]: the participant e earns points for
    SourceOf,   \* SourceOf[e]: the content e is tied to
    Worth,      \* Worth[e]: points e is worth before source and daily caps
    EntityCap,  \* rules.caps.perSourceEntityPoints
    DailyCap    \* rules.caps.dailyPointsPerParticipant

ASSUME StoreAssumption ==
    /\ Earner \in [Event -> Participant]
    /\ SourceOf \in [Event -> Source]
    /\ Worth \in [Event -> Nat \ {0}]
    /\ EntityCap \in Nat \ {0} /\ DailyCap \in Nat \ {0}

VARIABLES
    row,        \* row[e]: qualification_status, "absent" without a row
    points,     \* points[e]: points_awarded
    ledger,     \* contest_score_ledger
    score,      \* score[p]: current_score
    standing    \* standing[p]: eligibility_status

storeVars == <<row, points, ledger, score, standing>>

Status == {"absent", "PENDING", "VALID", "PENDING_REVIEW", "REJECTED", "REVERSED"}
Entry == [event : Event, direction : {"CREDIT", "DEBIT"}, points : Nat]

StoreTypeOK ==
    /\ row \in [Event -> Status]
    /\ points \in [Event -> Nat]
    /\ ledger \subseteq Entry
    /\ score \in [Participant -> Nat]
    /\ standing \in [Participant -> {"eligible", "disqualified"}]

StoreInit ==
    /\ row = [e \in Event |-> "absent"]
    /\ points = [e \in Event |-> 0]
    /\ ledger = {}
    /\ score = [p \in Participant |-> 0]
    /\ standing = [p \in Participant |-> "eligible"]

RowsAt(q) == {e \in Event : row[e] = q}
EarnedBy(p) == {e \in Event : Earner[e] = p}
Total(E) == MapThenSumSet(LAMBDA e : points[e], E)

sourceEntityPoints(e) == Total({f \in RowsAt("VALID") : SourceOf[f] = SourceOf[e]})
pointsSince(p) == Total(RowsAt("VALID") \cap EarnedBy(p))

\* What the source and daily ceilings leave of an award; at most 0: rejected.
applyCaps(e) ==
    Min({Worth[e], EntityCap - sourceEntityPoints(e), DailyCap - pointsSince(Earner[e])})

\* sum(case when direction = 'CREDIT' then points else -points end), at least 0
LedgerTotal(p) ==
    LET Side(d) == MapThenSumSet(LAMBDA l : l.points,
                       {l \in ledger : Earner[l.event] = p /\ l.direction = d})
    IN  Max({0, Side("CREDIT") - Side("DEBIT")})

insertPendingEvent(e) ==
    row' = IF row[e] = "absent" THEN [row EXCEPT ![e] = "PENDING"] ELSE row

settleEvent(e, q, n) ==
    /\ row' = [row EXCEPT ![e] = q]
    /\ points' = [points EXCEPT ![e] = n]

\* Mutant: the score moves even when the unique index refused the entry.
appendLedger_ScoreAnyway(e, d, n) ==
    /\ ledger' = IF \E l \in ledger : l.event = e /\ l.direction = d THEN ledger
                 ELSE ledger \cup {[event |-> e, direction |-> d, points |-> n]}
    /\ score' = [score EXCEPT ![Earner[e]] = Max({0, @ + (IF d = "CREDIT" THEN n ELSE -n)})]

\* The unique index makes a second entry of the same direction a no-op.
appendLedger(e, d, n) ==
    IF \E l \in ledger : l.event = e /\ l.direction = d
    THEN UNCHANGED <<ledger, score>>
    ELSE /\ ledger' = ledger \cup {[event |-> e, direction |-> d, points |-> n]}
         /\ score' = [score EXCEPT ![Earner[e]] =
                         Max({0, @ + (IF d = "CREDIT" THEN n ELSE -n)})]

finalizeStandings == score' = [p \in Participant |-> LedgerTotal(p)]
=============================================================================
