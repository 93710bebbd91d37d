-------------------------------- MODULE Awards --------------------------------
(***************************************************************************)
(* The end of a contest (apps/relay/src/contest): the risk score that      *)
(* scoring, the cluster sweep and a reviewer each recompute, and the       *)
(* finalisation that ranks the participants and stages the winners while   *)
(* they still do.                                                          *)
(*                                                                         *)
(* A job is one transaction under READ COMMITTED: a statement sees what    *)
(* was committed when it began.  Two locks matter: a participant's row,    *)
(* and the contest's row, which finalisation takes FOR UPDATE and which    *)
(* every insert that references the contest shares.                        *)
(***************************************************************************)
EXTENDS Integers, FiniteSets, FiniteSetsExt

CONSTANTS
    Entrant,        \* participants, numbered in the order they joined
    Job,            \* transactions that can be open at once
    MaxFlags,       \* bound on recorded risk events
    RiskCeiling,    \* what cumulativeRisk is clamped to; an event counts one
    MaxTotal,       \* bound on anybody's points
    WinnerCount,    \* DEFAULT_WINNER_COUNT
    MaxJobs         \* bound on transactions

ASSUME AwardsAssumption ==
    /\ Entrant \subseteq Nat /\ RiskCeiling \in Nat /\ WinnerCount \in Nat
    /\ MaxFlags \in Nat /\ MaxTotal \in Nat /\ MaxJobs \in Nat
    /\ IsFiniteSet(Entrant)

VARIABLES
    raised,     \* raised[p]: committed contest_risk_events
    resolved,   \* resolved[p]: those of them with a resolved_at
    riskScore,  \* contest_participants.risk_score
    total,      \* total[p]: sum of the score ledger
    barred,     \* participants whose eligibility_status is disqualified
    concluded,  \* the contest is FINALIZED rather than UNDER_REVIEW
    final,      \* final[p]: final_score and final_rank
    winners,    \* rows of contest_winners
    job,        \* job[j]: an open transaction
    ranking,    \* the finalisation's transaction
    jobs,       \* transactions begun
    mistaken,   \* history: participants whose risk score was last written by an overtaken job
    ledgerWas,  \* history: totals when the finalisation committed
    barredThen, \* history: those disqualified when it committed
    outran      \* history: those whose disqualification committed while it waited

awardVars == <<raised, resolved, riskScore, total, barred, concluded, final, winners, job,
               ranking, jobs, mistaken, ledgerWas, barredThen, outran>>
riskVars == <<raised, resolved, riskScore, mistaken>>
finalVars == <<concluded, final, winners, ledgerWas, barredThen>>
restVars == <<total, barred, finalVars, ranking, outran>>

\* step: how far it is; adds, clears: risk events it inserted or resolved;
\* sum: the risk score it will write; late: somebody committed after it read.
NoJob == [step |-> "none"]
Begun(kind, p, step) ==
    [kind |-> kind, who |-> p, step |-> step, adds |-> {}, clears |-> {}, sum |-> 0,
     late |-> FALSE]

Unranked == [score |-> 0, rank |-> 0]

AwardsInit ==
    /\ raised = [p \in Entrant |-> {}] /\ resolved = [p \in Entrant |-> {}]
    /\ riskScore = [p \in Entrant |-> 0]
    /\ total = [p \in Entrant |-> 1]
    /\ barred = {} /\ concluded = FALSE /\ winners = {}
    /\ final = [p \in Entrant |-> Unranked]
    /\ job = [j \in Job |-> NoJob] /\ ranking = NoJob /\ jobs = 0
    /\ mistaken = {} /\ ledgerWas = total /\ barredThen = {} /\ outran = {}

Open(steps) == {j \in Job : job[j].step \in steps}

\* The earner's row is not locked.
RowFree_NoLock(p) == TRUE

\* Whoever has written or locked a participant's row holds it to the commit.
RowFree(p) == \A j \in Open({"locked", "assessed", "reviewed"}) : job[j].who # p

\* The shared lock on the contest is compatible with finalisation's.
ContestShared_Weak == TRUE

\* An insert that references the contest waits for who has its row locked.
ContestShared == ranking = NoJob

\* The inserted risk events reference the contest until the commit.
Sharing == {j \in Job : job[j] # NoJob /\ job[j].adds # {}}

cumulativeRisk(p, adds) == Min({RiskCeiling, Cardinality((raised[p] \cup adds) \ resolved[p])})

Begin(j, txn) ==
    /\ job[j] = NoJob /\ jobs < MaxJobs
    /\ jobs' = jobs + 1
    /\ job' = [job EXCEPT ![j] = txn]
    /\ UNCHANGED <<riskVars, restVars>>

\* recordRiskEvent and cumulativeRisk, with the next risk event or with none.
Assessed(j, txn, step, inserting) ==
    LET p    == txn.who
        used == raised[p] \cup UNION {job[k].adds : k \in {i \in Sharing : job[i].who = p}}
        next == {f \in 1..MaxFlags : f \notin used /\ 1..(f - 1) \subseteq used}
    IN  \E adds \in IF inserting THEN {{f} : f \in next} ELSE {{}} :
            /\ inserting => ContestShared
            /\ job' = [job EXCEPT ![j] = [txn EXCEPT !.step = step, !.adds = adds,
                                                     !.sum = cumulativeRisk(p, adds)]]

\* The commit of what j wrote about its participant's risk.  Jobs that have
\* read and not yet written are overtaken.
CommitRisk(j) ==
    LET p == job[j].who
    IN  /\ raised' = [raised EXCEPT ![p] = @ \cup job[j].adds]
        /\ resolved' = [resolved EXCEPT ![p] = @ \cup job[j].clears]
        /\ riskScore' = [riskScore EXCEPT ![p] = job[j].sum]
        /\ mistaken' = IF job[j].late THEN mistaken \cup {p} ELSE mistaken \ {p}
        /\ job' = [k \in Job |->
                    CASE k = j -> NoJob
                      [] k # j /\ k \in Open({"read"}) /\ job[k].who = p ->
                            [job[k] EXCEPT !.late = TRUE]
                      [] OTHER -> job[k]]

-----------------------------------------------------------------------------
(* scoreEvent and reverseEvent: the earner's row is locked first.          *)

LockEarner(j, kind, p) ==
    /\ RowFree(p)
    /\ Begin(j, Begun(kind, p, "locked"))

Assess(j) ==
    /\ j \in Open({"locked"}) /\ job[j].kind = "score"
    /\ \E inserting \in BOOLEAN : Assessed(j, job[j], "assessed", inserting)
    /\ UNCHANGED <<riskVars, restVars, jobs>>

\* The credit is an insert that references the contest as well.
CommitScore(j) ==
    /\ j \in Open({"assessed"})
    /\ LET p == job[j].who
       IN  \/ UNCHANGED total
           \/ /\ ContestShared /\ p \notin barred /\ total[p] < MaxTotal
              /\ total' = [total EXCEPT ![p] = @ + 1]
    /\ CommitRisk(j)
    /\ UNCHANGED <<barred, finalVars, ranking, outran, jobs>>

CommitReverse(j) ==
    /\ j \in Open({"locked"}) /\ job[j].kind = "reverse"
    /\ ContestShared /\ total[job[j].who] > 0
    /\ total' = [total EXCEPT ![job[j].who] = @ - 1]
    /\ job' = [job EXCEPT ![j] = NoJob]
    /\ UNCHANGED <<riskVars, barred, finalVars, ranking, outran, jobs>>

\* An event that is rejected before its risk is looked at, or a rollback.
Abandon(j) ==
    /\ job[j] # NoJob
    /\ job' = [job EXCEPT ![j] = NoJob]
    /\ UNCHANGED <<riskVars, restVars, jobs>>

-----------------------------------------------------------------------------
(* sweepClusterRisk and the review route.                                  *)

\* The risk event is inserted and the sum read; the row is locked later, by
\* the update.
Flag(j, p) ==
    /\ job[j] = NoJob /\ jobs < MaxJobs /\ jobs' = jobs + 1
    /\ Assessed(j, Begun("flag", p, "none"), "read", TRUE)
    /\ UNCHANGED <<riskVars, restVars>>

\* resolveRiskEvents waits for a resolution of the same events.
Clear(j, p) ==
    /\ ~\E k \in Open({"read"}) : job[k].who = p /\ job[k].clears # {}
    /\ Begin(j, [Begun("clear", p, "read") EXCEPT !.clears = raised[p] \ resolved[p]])

\* setParticipantRisk and the commit.
CommitFlag(j) ==
    /\ j \in Open({"read"}) /\ RowFree(job[j].who)
    /\ CommitRisk(j)
    /\ UNCHANGED <<restVars, jobs>>

\* disqualifyParticipant or reinstateParticipant; the audit row comes next.
Review(j, p) ==
    /\ RowFree(p)
    /\ Begin(j, Begun("review", p, "reviewed"))

CommitReview(j) ==
    /\ j \in Open({"reviewed"})
    /\ LET p == job[j].who
       IN  /\ barred' = IF p \in barred THEN barred \ {p} ELSE barred \cup {p}
           /\ outran' = IF ranking # NoJob /\ ranking.step = "ranked" THEN outran \cup {p}
                                                                      ELSE outran
    /\ job' = [job EXCEPT ![j] = NoJob]
    /\ UNCHANGED <<riskVars, total, finalVars, ranking, jobs>>

-----------------------------------------------------------------------------
(* finalizeContest, and what may be done with its winners.                 *)

LockContest ==
    /\ ranking = NoJob /\ ~concluded
    /\ Sharing = {}
    /\ ranking' = [step |-> "locked"]
    /\ UNCHANGED <<riskVars, total, barred, finalVars, job, jobs, outran>>

\* The disqualified are ranked with the others.
Contenders_All == Entrant

Contenders == Entrant \ barred

\* rank() over (order by total desc, joined_at asc), null for the disqualified
Ranked(p) ==
    [score |-> total[p],
     rank  |-> IF p \notin Contenders THEN 0
               ELSE 1 + Cardinality({q \in Contenders :
                            total[q] > total[p] \/ (total[q] = total[p] /\ q < p)})]

\* The statement reads all it needs, then waits for rows that are locked; a
\* row that has changed meanwhile is updated with what was read before.
finalizeStandings ==
    /\ ranking.step = "locked"
    /\ ranking' = [step |-> "ranked", rows |-> [p \in Entrant |-> Ranked(p)]]
    /\ UNCHANGED <<riskVars, total, barred, finalVars, job, jobs, outran>>

upsertWinners(rows) ==
    winners' = {[who |-> p, review |-> "PENDING", payout |-> "PENDING"] :
                    p \in {q \in Entrant : rows[q].rank \in 1..WinnerCount}}

CommitFinal ==
    /\ ranking.step = "ranked"
    /\ \A p \in Entrant : RowFree(p)
    /\ final' = ranking.rows
    /\ upsertWinners(ranking.rows)
    /\ concluded' = TRUE /\ ranking' = NoJob
    /\ ledgerWas' = total /\ barredThen' = barred
    /\ UNCHANGED <<riskVars, total, barred, job, jobs, outran>>

\* Finalisation wants the row a scoring or reversal has locked, and that one
\* wants to insert: PostgreSQL aborts one of the two.
BreakDeadlock ==
    /\ ranking # NoJob /\ ranking.step = "ranked"
    /\ \E j \in Open({"locked", "assessed"}) :
        \/ job' = [job EXCEPT ![j] = NoJob] /\ UNCHANGED ranking
        \/ ranking' = NoJob /\ UNCHANGED job
    /\ UNCHANGED <<riskVars, total, barred, finalVars, jobs, outran>>

Rewritten(w, changed) ==
    /\ w # changed
    /\ winners' = (winners \ {w}) \cup {changed}
    /\ UNCHANGED <<riskVars, total, barred, concluded, final, ledgerWas, barredThen,
                   job, ranking, jobs, outran>>

setWinnerReview(w, decision) == concluded /\ Rewritten(w, [w EXCEPT !.review = decision])

\* A payout is recorded for any winner.
setWinnerPayout_Unreviewed(w, outcome) == Rewritten(w, [w EXCEPT !.payout = outcome])

setWinnerPayout(w, outcome) ==
    w.review = "APPROVED" /\ Rewritten(w, [w EXCEPT !.payout = outcome])

-----------------------------------------------------------------------------
AwardsNext ==
    \/ \E j \in Job :
        \/ Assess(j) \/ CommitScore(j) \/ CommitReverse(j) \/ Abandon(j)
        \/ CommitFlag(j) \/ CommitReview(j)
        \/ \E p \in Entrant :
            \/ LockEarner(j, "score", p) \/ LockEarner(j, "reverse", p)
            \/ Flag(j, p) \/ Clear(j, p) \/ Review(j, p)
    \/ LockContest \/ finalizeStandings \/ CommitFinal \/ BreakDeadlock
    \/ \E w \in winners :
        \/ \E d \in {"APPROVED", "REJECTED"} : setWinnerReview(w, d)
        \/ \E o \in {"PAID", "FAILED"} : setWinnerPayout(w, o)

AwardsSpec == AwardsInit /\ [][AwardsNext]_awardVars

-----------------------------------------------------------------------------
(* Properties.                                                             *)

\* The risk score that decides whether points are withheld is the sum of the
\* unresolved risk events, although three callers recompute it: scoring under
\* the row's lock, the sweep and the reviewer without.  It may be wrong only
\* where one of the latter was overtaken between its sum and its update
\* (service.ts:448), and then until anybody recomputes it.
RiskIsCurrent == \A p \in Entrant \ mistaken : riskScore[p] = cumulativeRisk(p, {})

\* Finalised standings can be defended: every final score is the ledger's total
\* at the commit, whatever scoring and reversals were under way; higher totals
\* have lower ranks; nobody is ranked who was disqualified at the time, unless
\* that committed while finalisation waited; and money is recorded only for
\* the reviewed among the ranked.
FinalIsDefensible ==
    concluded =>
        /\ \A p \in Entrant : final[p].score = ledgerWas[p]
        /\ \A p, q \in Entrant :
            final[p].rank # 0 /\ final[q].rank # 0 /\ ledgerWas[p] > ledgerWas[q] =>
                final[p].rank < final[q].rank
        /\ \A p \in Entrant : final[p].rank # 0 => p \notin barredThen \ outran
        /\ \A w \in winners :
            /\ final[w.who].rank \in 1..WinnerCount
            /\ w.payout # "PENDING" => w.review # "PENDING"
===============================================================================
