----------------------------- MODULE ContestEngine -----------------------------
(***************************************************************************)
(* The contest engine at work on one contest: product routes that emit     *)
(* engagement and reversal jobs, the relay instances' drain loops, the     *)
(* sweeper, the admin routes, and the scoring and reversal transactions    *)
(* they run on the tables of ContestStore.                                 *)
(*                                                                         *)
(* A worker is one drain loop (Relay) or one admin request (Admin).  Each  *)
(* step of a worker is what it does between two awaits, or one SQL         *)
(* statement or transaction.  scoreEvent is three steps, because it waits  *)
(* for a row lock and decides on what it read before it writes:            *)
(*   Claim     the event's row is locked, if it is PENDING and not locked  *)
(*   Decide    the earner's row is locked, eligibility and totals are read *)
(*   Settle    the verdict is written and the transaction commits          *)
(* reverseEvent locks in the opposite order: the earner (Debit), then the  *)
(* event's row (Reverse).                                                  *)
(***************************************************************************)
EXTENDS ContestStore

CONSTANTS
    Relay,          \* drain loops, one per relay instance
    Admin,          \* admin requests that can be under way at once
    Toggle,         \* interactions that can be undone on their own (likes)
    RiskOutcomes,   \* what the risk rules and the remaining caps may decide
    MaxUndos,       \* bound on undone interactions and deleted content
    MaxRequests,    \* bound on disqualifications, releases and reconciliations
    MaxFaults       \* bound on crashes and lost jobs

Worker == Relay \cup Admin

ASSUME EngineAssumption ==
    /\ Relay \cap Admin = {}
    /\ Toggle \subseteq Event
    /\ RiskOutcomes \subseteq {"clear", "hold", "reject"}
    /\ MaxUndos \in Nat /\ MaxRequests \in Nat /\ MaxFaults \in Nat

VARIABLES
    status,     \* contests.status
    present,    \* interactions that exist in the product's own tables
    deleted,    \* content that has been deleted
    jobs,       \* engagement and reversal jobs in some instance's queue
    work,       \* work[w]: what the worker is doing
    tx,         \* tx[w]: the transaction it has open
    ousted,     \* participants a membership cache may be wrong about
    undos, requests, faults,
    owed        \* history: interactions in the tables ever since the contest froze

engineVars == <<status, present, deleted, jobs, work, tx, ousted, undos, requests, faults, owed>>
vars == <<storeVars, engineVars>>

ContestStatus == {"ACTIVE", "FROZEN", "UNDER_REVIEW", "FINALIZED", "CANCELLED"}
SCOREABLE_STATUSES == {"ACTIVE", "FROZEN", "UNDER_REVIEW"}

Tasks == {"idle", "engage", "sweep", "reconcile", "drain", "replay",
          "held", "release", "expel", "reverse"}

\* todo: events still to deal with; due: the event scoreEvent is called for
\* next; seen: status in the contest record the task loaded; snap: points in
\* the event records it loaded.
Idle == [task |-> "idle", todo |-> {}, due |-> {}, seen |-> "none",
         snap |-> [e \in Event |-> 0]]
Work == [task : Tasks, todo : SUBSET Event, due : SUBSET Event,
         seen : ContestStatus \cup {"none"}, snap : [Event -> Nat]]

NoTx == [stage |-> "none"]
Tx == {NoTx} \cup [stage : {"claimed", "debiting"}, event : Event]
             \cup [stage : {"decided"}, event : Event, verdict : Status, award : Nat]

TypeOK ==
    /\ StoreTypeOK
    /\ status \in ContestStatus
    /\ present \subseteq Event /\ deleted \subseteq Source
    /\ jobs \subseteq [kind : {"engagement", "reversal"}, events : SUBSET Event]
    /\ work \in [Worker -> Work] /\ tx \in [Worker -> Tx]
    /\ ousted \subseteq Participant
    /\ undos \in 0..MaxUndos /\ requests \in 0..MaxRequests /\ faults \in 0..MaxFaults
    /\ owed \subseteq Event

Init ==
    /\ StoreInit
    /\ status = "ACTIVE"
    /\ present = {} /\ deleted = {} /\ jobs = {} /\ ousted = {} /\ owed = {}
    /\ work = [w \in Worker |-> Idle]
    /\ tx = [w \in Worker |-> NoTx]
    /\ undos = 0 /\ requests = 0 /\ faults = 0

InTx(w, stages) == tx[w].stage \in stages

\* Row locks of the open transactions, other than those of w.
RowFree(e, w) ==
    \A v \in Worker \ {w} : InTx(v, {"claimed", "decided"}) => tx[v].event # e

\* Mutant: the earner's row is not locked.
EarnerFree_NoLock(p) == TRUE

EarnerFree(p) ==
    \A v \in Worker : InTx(v, {"decided", "debiting"}) => Earner[tx[v].event] # p

Now(w, changes) == work' = [work EXCEPT ![w] = changes]

-----------------------------------------------------------------------------
(* Product routes.                                                         *)

emit(kind, E) == jobs' = jobs \cup {[kind |-> kind, events |-> E]}

Interact(e) ==
    /\ e \notin present /\ SourceOf[e] \notin deleted
    /\ present' = present \cup {e}
    /\ emit("engagement", {e})
    /\ UNCHANGED <<storeVars, status, deleted, work, tx, ousted, undos, requests, faults, owed>>

Undo(e) ==
    /\ e \in Toggle \cap present
    /\ undos < MaxUndos /\ undos' = undos + 1
    /\ present' = present \ {e}
    /\ owed' = owed \ {e}
    /\ emit("reversal", {e})
    /\ UNCHANGED <<storeVars, status, deleted, work, tx, ousted, requests, faults>>

DeleteContent(s) ==
    LET E == {e \in Event : SourceOf[e] = s}
    IN  /\ s \notin deleted /\ E \cap present # {}
        /\ undos < MaxUndos /\ undos' = undos + 1
        /\ present' = present \ E
        /\ deleted' = deleted \cup {s}
        /\ owed' = owed \ E
        /\ emit("reversal", E)
        /\ UNCHANGED <<storeVars, status, work, tx, ousted, requests, faults>>

-----------------------------------------------------------------------------
(* The drain loop.                                                         *)

\* listScoringContests through a ten second cache: a contest that is no
\* longer ACTIVE may still be listed.
ListedActive == {TRUE} \cup (IF status = "ACTIVE" THEN {} ELSE {FALSE})

\* isParticipant through a thirty second cache.
Member(p) == IF p \in ousted THEN BOOLEAN ELSE {TRUE}

processEngagement(w, j) ==
    /\ j.kind = "engagement"
    /\ \E e \in j.events :
        \/ /\ FALSE \in ListedActive \cup Member(Earner[e])
           /\ UNCHANGED <<row, work>>
        \/ /\ TRUE \in ListedActive /\ TRUE \in Member(Earner[e])
           /\ insertPendingEvent(e)
           /\ IF row[e] = "absent"
              THEN Now(w, [Idle EXCEPT !.task = "engage", !.due = {e}, !.seen = "ACTIVE"])
              ELSE UNCHANGED work

\* The event records a reversal works on, as they are now.
Loaded(job, E) ==
    [job EXCEPT !.task = "reverse", !.todo = E,
                !.snap = [e \in Event |-> IF e \in E THEN points[e] ELSE 0]]

\* listEventsForSource
processReversal(w, j) ==
    /\ j.kind = "reversal"
    /\ Now(w, Loaded(Idle, {e \in j.events : row[e] \in {"VALID", "PENDING_REVIEW"}}))
    /\ UNCHANGED row

TakeJob(w, j) ==
    /\ w \in Relay /\ work[w].task = "idle"
    /\ jobs' = jobs \ {j}
    /\ processEngagement(w, j) \/ processReversal(w, j)
    /\ UNCHANGED <<points, ledger, score, standing, status, present, deleted, tx,
                   ousted, undos, requests, faults, owed>>

\* Moving the contest along; SQL commits the change and its audit row at once.
ALLOWED_TRANSITIONS ==
    {<<"ACTIVE", "FROZEN">>, <<"FROZEN", "UNDER_REVIEW">>, <<"UNDER_REVIEW", "FROZEN">>}
        \cup ({"ACTIVE", "FROZEN", "UNDER_REVIEW"} \X {"CANCELLED"})

transitionContest(to) ==
    IF <<status, to>> \in ALLOWED_TRANSITIONS
    THEN /\ status' = to
         /\ owed' = IF to = "FROZEN" THEN present ELSE owed
    ELSE UNCHANGED <<status, owed>>

\* Mutant: the sweeper looks for rows waiting for review.
Orphans_Held == RowsAt("PENDING_REVIEW")

\* listPendingEventIds.  How long a row has been PENDING is left out.
Orphans == RowsAt("PENDING")

\* One pass of the sweeper: either the deadline has passed and the contest is
\* frozen, after which no row of it is listed, or its orphaned rows are.
processSweep(w) ==
    /\ w \in Relay /\ work[w].task = "idle" /\ status = "ACTIVE"
    /\ \/ /\ transitionContest("FROZEN")
          /\ UNCHANGED work
       \/ /\ Orphans # {}
          /\ Now(w, [Idle EXCEPT !.task = "sweep", !.todo = Orphans])
          /\ UNCHANGED <<status, owed>>
    /\ UNCHANGED <<storeVars, present, deleted, jobs, tx, ousted, undos, requests, faults>>

\* The sweeper and reconcile load the contest record once per batch.
LoadContest(w) ==
    /\ work[w].task \in {"sweep", "reconcile"} /\ work[w].seen = "none"
    /\ Now(w, [work[w] EXCEPT !.seen = status])
    /\ UNCHANGED <<storeVars, status, present, deleted, jobs, tx, ousted, undos, requests, faults, owed>>

-----------------------------------------------------------------------------
(* scoreEvent.                                                             *)

\* The event the worker scores next: the one it has just recorded or
\* released, or any of those it has listed.
Candidates(w) ==
    CASE work[w].due # {} -> work[w].due
      [] work[w].due = {} /\ work[w].task = "sweep" /\ work[w].seen # "none" -> work[w].todo
      [] work[w].due = {} /\ work[w].task = "drain" -> work[w].todo
      [] OTHER -> {}

Took(w, e) == [work[w] EXCEPT !.todo = @ \ {e}, !.due = {}]

claimEventForScoring(e, w) == row[e] = "PENDING" /\ RowFree(e, w)

Claim(w, e) ==
    /\ tx[w] = NoTx /\ e \in Candidates(w)
    /\ Now(w, Took(w, e))
    /\ tx' = IF claimEventForScoring(e, w)
             THEN [tx EXCEPT ![w] = [stage |-> "claimed", event |-> e]]
             ELSE tx
    /\ UNCHANGED <<storeVars, status, present, deleted, jobs, ousted, undos, requests, faults, owed>>

\* Mutant: the earner's standing is not read in the transaction.
Scoreable_AnyStanding(w, e) == work[w].seen \in SCOREABLE_STATUSES

Scoreable(w, e) == work[w].seen \in SCOREABLE_STATUSES /\ standing[Earner[e]] = "eligible"

Verdict(w, e, risk) ==
    CASE ~Scoreable(w, e) \/ risk = "reject" -> "REJECTED"
      [] Scoreable(w, e) /\ risk = "hold" -> "PENDING_REVIEW"
      [] Scoreable(w, e) /\ risk = "clear" ->
            IF applyCaps(e) \in 1..Worth[e] THEN "VALID" ELSE "REJECTED"

Decide(w) ==
    /\ InTx(w, {"claimed"})
    /\ LET e == tx[w].event
       IN  /\ EarnerFree(Earner[e])
           /\ \E risk \in RiskOutcomes :
                LET verdict == Verdict(w, e, risk)
                IN  tx' = [tx EXCEPT ![w] =
                        [stage |-> "decided", event |-> e, verdict |-> verdict,
                         award |-> IF verdict = "VALID" THEN applyCaps(e) ELSE 0]]
    /\ UNCHANGED <<storeVars, status, present, deleted, jobs, work, ousted, undos, requests, faults, owed>>

Settle(w) ==
    /\ InTx(w, {"decided"})
    /\ settleEvent(tx[w].event, tx[w].verdict, tx[w].award)
    /\ IF tx[w].verdict = "VALID"
       THEN appendLedger(tx[w].event, "CREDIT", tx[w].award)
       ELSE UNCHANGED <<ledger, score>>
    /\ tx' = [tx EXCEPT ![w] = NoTx]
    /\ UNCHANGED <<standing, status, present, deleted, jobs, work, ousted, undos, requests, faults, owed>>

-----------------------------------------------------------------------------
(* reverseEvent, for each event record the task has loaded.                *)

Debit(w, e) ==
    /\ work[w].task = "reverse" /\ e \in work[w].todo /\ tx[w] = NoTx
    /\ EarnerFree(Earner[e])
    /\ tx' = [tx EXCEPT ![w] = [stage |-> "debiting", event |-> e]]
    /\ UNCHANGED <<storeVars, status, present, deleted, jobs, work, ousted, undos, requests, faults, owed>>

Reverse(w) ==
    /\ InTx(w, {"debiting"})
    /\ LET e == tx[w].event
       IN  /\ RowFree(e, w)
           /\ appendLedger(e, "DEBIT", work[w].snap[e])
           /\ settleEvent(e, "REVERSED", work[w].snap[e])
           /\ Now(w, Took(w, e))
    /\ tx' = [tx EXCEPT ![w] = NoTx]
    /\ UNCHANGED <<standing, status, present, deleted, jobs, ousted, undos, requests, faults, owed>>

-----------------------------------------------------------------------------
(* Admin routes.                                                           *)

\* A request gets a worker of its own for as long as it takes.
Accept(a) ==
    /\ work[a].task = "idle"
    /\ requests < MaxRequests /\ requests' = requests + 1

Freeze ==
    /\ transitionContest("FROZEN")
    /\ UNCHANGED <<storeVars, present, deleted, jobs, work, tx, ousted, undos, requests, faults>>

Cancel ==
    /\ transitionContest("CANCELLED")
    /\ UNCHANGED <<storeVars, present, deleted, jobs, work, tx, ousted, undos, requests, faults>>

\* One transaction.  It updates every participant, so it waits for the
\* scoring and reversal transactions that have locked one.
finalizeContest ==
    /\ status = "UNDER_REVIEW" /\ status' = "FINALIZED"
    /\ \A p \in Participant : EarnerFree(p)
    /\ finalizeStandings
    /\ UNCHANGED <<row, points, ledger, standing, present, deleted, jobs, work, tx,
                   ousted, undos, requests, faults, owed>>

StartReconcile(a) ==
    /\ Accept(a) /\ status = "FROZEN"
    /\ Now(a, [Idle EXCEPT !.task = "reconcile"])
    /\ UNCHANGED <<storeVars, status, present, deleted, jobs, tx, ousted, undos, faults, owed>>

\* The transaction of the review route; the reversals follow one by one.
Disqualify(a, p) ==
    /\ Accept(a) /\ EarnerFree(p)
    /\ standing' = [standing EXCEPT ![p] = "disqualified"]
    /\ ousted' = ousted \cup {p}
    /\ Now(a, [Idle EXCEPT !.task = "expel", !.todo = EarnedBy(p)])
    /\ UNCHANGED <<row, points, ledger, score, status, present, deleted, jobs, tx,
                   undos, faults, owed>>

Reinstate(p) ==
    /\ standing[p] = "disqualified" /\ EarnerFree(p)
    /\ standing' = [standing EXCEPT ![p] = "eligible"]
    /\ UNCHANGED <<row, points, ledger, score, engineVars>>

StartRelease(a, p) ==
    /\ Accept(a)
    /\ Now(a, [Idle EXCEPT !.task = "held", !.todo = EarnedBy(p), !.seen = status])
    /\ UNCHANGED <<storeVars, status, present, deleted, jobs, tx, ousted, undos, faults, owed>>

\* The page of events a task works through.
Listed(w) ==
    CASE work[w].task = "reconcile" -> [work[w] EXCEPT !.task = "drain", !.todo = RowsAt("PENDING")]
      [] work[w].task = "held" ->
            [work[w] EXCEPT !.task = "release", !.todo = @ \cap RowsAt("PENDING_REVIEW")]
      [] work[w].task = "expel" ->
            Loaded(work[w], work[w].todo \cap RowsAt("VALID"))

List(w) ==
    /\ \/ work[w].task \in {"held", "expel"}
       \/ work[w].task = "reconcile" /\ work[w].seen # "none"
    /\ Now(w, Listed(w))
    /\ UNCHANGED <<storeVars, status, present, deleted, jobs, tx, ousted, undos, requests, faults, owed>>

\* Mutant: the update lost its guard on the row's status.
SetPending_Unguarded(e) == row' = [row EXCEPT ![e] = "PENDING"]

SetPending(e) ==
    row' = IF row[e] = "PENDING_REVIEW" THEN [row EXCEPT ![e] = "PENDING"] ELSE row

\* releaseHeldEvents, for one event; the scoring pass follows.
Release(w, e) ==
    /\ work[w].task = "release" /\ work[w].due = {} /\ tx[w] = NoTx /\ e \in work[w].todo
    /\ SetPending(e)
    /\ Now(w, [Took(w, e) EXCEPT !.due = {e}])
    /\ UNCHANGED <<points, ledger, score, standing, status, present, deleted, jobs, tx,
                   ousted, undos, requests, faults, owed>>

\* reconcile: an interaction the live path never recorded is recorded now.
Replay(w, e) ==
    /\ work[w].task = "replay" /\ work[w].due = {} /\ tx[w] = NoTx /\ e \in work[w].todo
    /\ insertPendingEvent(e)
    /\ Now(w, [Took(w, e) EXCEPT !.due = IF row[e] = "absent" THEN {e} ELSE {}])
    /\ UNCHANGED <<points, ledger, score, standing, status, present, deleted, jobs, tx,
                   ousted, undos, requests, faults, owed>>

\* Mutant: interactions without a row are passed over.
Signals_Recorded == {e \in present : row[e] # "absent"}

\* reconciliationBatch
Signals == {e \in present : standing[Earner[e]] # "disqualified"}

\* Nothing left of the page: the task goes on or ends.
Finish(w) ==
    /\ work[w].task \notin {"idle", "reconcile", "held", "expel"}
    /\ work[w].todo = {} /\ work[w].due = {} /\ tx[w] = NoTx
    /\ Now(w, IF work[w].task = "drain"
              THEN [work[w] EXCEPT !.task = "replay", !.todo = Signals]
              ELSE Idle)
    /\ IF work[w].task = "replay" THEN transitionContest("UNDER_REVIEW")
                                  ELSE UNCHANGED <<status, owed>>
    /\ UNCHANGED <<storeVars, present, deleted, jobs, tx, ousted, undos, requests, faults>>

-----------------------------------------------------------------------------
(* Failures.                                                               *)

\* A worker stops: its instance crashes or the database fails it.  An open
\* transaction is rolled back.
Stop(w) ==
    /\ work' = [work EXCEPT ![w] = Idle]
    /\ tx' = [tx EXCEPT ![w] = NoTx]
    /\ UNCHANGED <<storeVars, status, present, deleted, ousted, undos, requests, owed>>

Crash(w) ==
    /\ faults < MaxFaults /\ faults' = faults + 1
    /\ work[w].task # "idle"
    /\ Stop(w) /\ UNCHANGED jobs

\* A queued job is shed by a full queue or goes down with its instance.
LoseJob(j) ==
    /\ faults < MaxFaults /\ faults' = faults + 1
    /\ jobs' = jobs \ {j}
    /\ UNCHANGED <<storeVars, status, present, deleted, work, tx, ousted, undos, requests, owed>>

\* Scoring holds the event's row and wants the earner's; reversing holds the
\* earner's and wants the event's.  PostgreSQL aborts either.
Deadlock(w) ==
    /\ \E v \in Worker :
        /\ {tx[v].stage, tx[w].stage} = {"claimed", "debiting"}
        /\ tx[v].event = tx[w].event
    /\ Stop(w) /\ UNCHANGED <<jobs, faults>>

-----------------------------------------------------------------------------
Product ==
    \/ \E e \in Event : Interact(e) \/ Undo(e)
    \/ \E s \in Source : DeleteContent(s)

Continue(w) ==
    \/ LoadContest(w) \/ List(w) \/ Decide(w) \/ Settle(w) \/ Reverse(w)
    \/ Finish(w) \/ Deadlock(w)
    \/ \E e \in Event : Claim(w, e) \/ Debit(w, e) \/ Release(w, e) \/ Replay(w, e)

Operator ==
    \/ Freeze \/ Cancel \/ finalizeContest
    \/ \E p \in Participant : Reinstate(p)
    \/ \E a \in Admin :
        \/ StartReconcile(a)
        \/ \E p \in Participant : Disqualify(a, p) \/ StartRelease(a, p)

Failure == (\E w \in Worker : Crash(w)) \/ (\E j \in jobs : LoseJob(j))

Next ==
    \/ Product \/ Operator \/ Failure
    \/ \E w \in Worker :
        Continue(w) \/ processSweep(w) \/ (\E j \in jobs : TakeJob(w, j))

Spec == Init /\ [][Next]_vars

\* The database answers and event loops turn; every relay's drain loop takes
\* what is queued and its timer queues sweeps, before the deadline as well.
\* Nothing else is promised.
Fairness ==
    \A w \in Worker :
        /\ WF_vars(Continue(w))
        /\ WF_vars(processSweep(w) /\ UNCHANGED status)
        /\ WF_vars(\E j \in jobs : TakeJob(w, j))

FairSpec == Spec /\ Fairness

-----------------------------------------------------------------------------
(* Properties.                                                             *)

\* A VALID row is backed by exactly one ledger credit of the points it shows
\* and by no debit, and a credit belongs to a VALID or REVERSED row only:
\* claims, releases, replays and reversals racing for a row never credit it
\* twice, and never leave it VALID with its points taken back.
ValidIsCredited ==
    \A e \in Event :
        LET entries == {l \in ledger : l.event = e}
        IN  /\ row[e] = "VALID" =>
                entries = {[event |-> e, direction |-> "CREDIT", points |-> points[e]]}
            /\ entries # {} => row[e] \in {"VALID", "REVERSED"}

\* The cached current_score, moved by every credit and debit and clamped at
\* zero, is at all times what recomputing it from the ledger gives.
ScoreMatchesLedger == \A p \in Participant : score[p] = LedgerTotal(p)

\* No interleaving of scoring transactions lets a participant bank more than
\* the daily cap, or more than the source cap from one piece of content.
ParticipantCapsHold ==
    \A p \in Participant :
        /\ pointsSince(p) <= DailyCap
        /\ \A s \in Source :
            Total({e \in RowsAt("VALID") \cap EarnedBy(p) : SourceOf[e] = s}) <= EntityCap

\* Whatever was being scored when a participant is disqualified, nothing of
\* theirs stays VALID, unless the disqualification was interrupted or is still
\* at work on it.
DisqualifiedHoldNothing ==
    \A e \in RowsAt("VALID") :
        \/ standing[Earner[e]] = "eligible"
        \/ faults > 0
        \/ \E a \in Admin : work[a].task \in {"expel", "reverse"} /\ e \in work[a].todo

\* Reconciliation recovers what crashes and full queues lost: once it has moved
\* the contest to review, every interaction that was in the tables when it was
\* frozen has its row, unless it was undone or its earner was disqualified.
ReconciliationRecovers ==
    status \in {"UNDER_REVIEW", "FINALIZED"} =>
        \A e \in owed \cap RowsAt("absent") : Earner[e] \in ousted

\* A row a crashed worker left PENDING is settled by the sweeper as long as the
\* contest stays active.
PendingIsSettled ==
    \A e \in Event :
        row[e] = "PENDING" ~> (row[e] # "PENDING" \/ status # "ACTIVE")

\* scoring.ts: "A finalized or cancelled contest scores nothing: its numbers
\* are fixed."
FinalizedScoresNothing ==
    [][\A e \in Event :
        row[e] # "VALID" /\ row'[e] = "VALID" => status \notin {"FINALIZED", "CANCELLED"}]_vars
=============================================================================
