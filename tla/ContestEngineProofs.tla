-------------------------- MODULE ContestEngineProofs --------------------------
(***************************************************************************)
(* Theorems about ContestEngine, for any participants, interactions,       *)
(* content and caps, any number of relay instances and admin requests.     *)
(*                                                                         *)
(* IInv says which events have a ledger entry and who may still write one. *)
(* How many points an award comes to is a sum over rows (FiniteSums), and  *)
(* plays no part before the two last theorems: BooksInv balances scores    *)
(* and ledger, CapsInv says what still fits under the caps.                *)
(***************************************************************************)
EXTENDS ContestEngine, FiniteSums, TLAPS

Scoring == {"claimed", "decided"}
Expelling == {"expel", "reverse"}

IsJob(j) == j \in Work /\ (j.task \in Expelling \cup {"idle"} => j.due = {})
IsTx(t) == t \in Tx

\* A scoring transaction owns a PENDING row that no other one scores, and has
\* decided on one of three verdicts, in favour of the eligible only.
ScoringOK(w, j, t) ==
    /\ t.stage \in Scoring =>
        /\ j.task \notin Expelling \cup {"idle"}
        /\ row[t.event] = "PENDING"
        /\ \A v \in Worker \ {w} : tx[v].stage \in Scoring => tx[v].event # t.event
    /\ t.stage = "decided" =>
        /\ t.verdict \in {"REJECTED", "PENDING_REVIEW", "VALID"}
        /\ t.verdict = "VALID" => standing[Earner[t.event]] = "eligible"

\* What an admin request reverses was VALID when it was listed.
ReversalOK(w, j, t) ==
    /\ t.stage = "debiting" => j.task = "reverse" /\ t.event \in j.todo
    /\ w \in Admin /\ j.task = "reverse" => \A e \in j.todo : row[e] \in {"VALID", "REVERSED"}

WorkerOK(w, j, t) == IsJob(j) /\ IsTx(t) /\ ScoringOK(w, j, t) /\ ReversalOK(w, j, t)

Shape ==
    /\ row \in [Event -> Status]
    /\ points \in [Event -> Nat]
    /\ standing \in [Participant -> {"eligible", "disqualified"}]
    /\ work = [w \in Worker |-> work[w]]
    /\ tx = [w \in Worker |-> tx[w]]
    /\ faults \in Nat

\* The types of what the product routes and the lifecycle write.
RouteTypes ==
    /\ status \in ContestStatus
    /\ present \subseteq Event
    /\ jobs \subseteq [kind : {"engagement", "reversal"}, events : SUBSET Event]

IInv ==
    /\ Shape
    /\ \A w \in Worker : WorkerOK(w, work[w], tx[w])
    /\ ValidIsCredited
    /\ DisqualifiedHoldNothing

-----------------------------------------------------------------------------
(* Two ways a step preserves the invariant.                                *)

\* A request keeps hold of what it must still reverse.
KeepsHold(w, j) ==
    w \in Admin /\ work[w].task \in Expelling =>
        \A e \in work[w].todo : row[e] = "VALID" => j.task \in Expelling /\ e \in j.todo

\* The step is one worker's, and writes no table.
LEMMA LocalStep ==
    ASSUME IInv, NEW w \in Worker,
           UNCHANGED <<row, points, ledger, standing>>,
           faults' \in Nat, faults > 0 => faults' > 0,
           work' = [v \in Worker |-> work'[v]], tx' = [v \in Worker |-> tx'[v]],
           \A v \in Worker \ {w} : work'[v] = work[v] /\ tx'[v] = tx[v],
           WorkerOK(w, work'[w], tx'[w]),
           faults' > 0 \/ KeepsHold(w, work'[w])
    PROVE  IInv'
<1>1. Shape'
    BY DEF IInv, Shape
<1>2. \A v \in Worker : WorkerOK(v, work[v], tx[v])'
    <2>1. SUFFICES ASSUME NEW v \in Worker PROVE WorkerOK(v, work[v], tx[v])'
        OBVIOUS
    <2>2. CASE v = w
        BY <2>2 DEF WorkerOK, IsJob, IsTx, ScoringOK, ReversalOK, NoTx, Work, Tasks, Tx
    <2>3. CASE v # w
        <3>1. WorkerOK(v, work[v], tx[v]) /\ work'[v] = work[v] /\ tx'[v] = tx[v]
            BY <2>3 DEF IInv
        <3>2. \A u \in Worker \ {v} : tx'[u].stage \in Scoring /\ tx[v].stage \in Scoring
                    => tx'[u].event # tx[v].event
            BY <2>3, <3>1 DEF WorkerOK, ScoringOK
        <3>3. QED
            BY <3>1, <3>2 DEF WorkerOK, IsJob, IsTx, ScoringOK, ReversalOK, NoTx, Work, Tasks, Tx
    <2>4. QED
        BY <2>2, <2>3
<1>3. ValidIsCredited'
    BY DEF IInv, ValidIsCredited
<1>4. DisqualifiedHoldNothing'
    <2>1. SUFFICES ASSUME NEW e \in Event, row[e] = "VALID", standing[Earner[e]] # "eligible",
                          ~(faults' > 0)
                   PROVE  \E a \in Admin : work'[a].task \in Expelling /\ e \in work'[a].todo
        BY DEF DisqualifiedHoldNothing, RowsAt, Expelling
    <2>2. PICK a \in Admin : work[a].task \in Expelling /\ e \in work[a].todo
        BY <2>1 DEF IInv, DisqualifiedHoldNothing, RowsAt, Expelling
    <2>3. CASE a = w
        BY <2>1, <2>2, <2>3 DEF KeepsHold
    <2>4. CASE a # w
        BY <2>2, <2>4 DEF Worker
    <2>5. QED
        BY <2>3, <2>4
<1>5. QED
    BY <1>1, <1>2, <1>3, <1>4 DEF IInv

\* The step is one worker's, and writes the row of one event that no other
\* worker is scoring.
LEMMA RowStep ==
    ASSUME IInv, NEW w \in Worker, NEW e \in Event,
           UNCHANGED <<standing, faults>>,
           row' \in [Event -> Status], points' \in [Event -> Nat],
           \A f \in Event \ {e} : row'[f] = row[f] /\ points'[f] = points[f],
           \A f \in Event \ {e} : {l \in ledger' : l.event = f} = {l \in ledger : l.event = f},
           work' = [v \in Worker |-> work'[v]], tx' = [v \in Worker |-> tx'[v]],
           \A v \in Worker \ {w} : work'[v] = work[v] /\ tx'[v] = tx[v],
           \A v \in Worker \ {w} : tx[v].stage \in Scoring => tx[v].event # e,
           row[e] \in {"VALID", "REVERSED"} => row'[e] \in {"VALID", "REVERSED"},
           WorkerOK(w, work[w], tx[w])',
           \A f \in Event \ {e} : w \in Admin /\ work[w].task \in Expelling /\ f \in work[w].todo
                => work'[w].task \in Expelling /\ f \in work'[w].todo,
           row'[e] = "VALID" =>
                /\ standing[Earner[e]] = "eligible"
                /\ {l \in ledger' : l.event = e} =
                        {[event |-> e, direction |-> "CREDIT", points |-> points'[e]]},
           {l \in ledger' : l.event = e} # {} => row'[e] \in {"VALID", "REVERSED"}
    PROVE  IInv'
<1>1. Shape'
    BY DEF IInv, Shape
<1>2. \A v \in Worker : WorkerOK(v, work[v], tx[v])'
    <2>1. SUFFICES ASSUME NEW v \in Worker, v # w PROVE WorkerOK(v, work[v], tx[v])'
        OBVIOUS
    <2>2. WorkerOK(v, work[v], tx[v]) /\ work'[v] = work[v] /\ tx'[v] = tx[v]
        BY <2>1 DEF IInv
    <2>3. IsJob(work[v])' /\ IsTx(tx[v])'
        BY <2>2 DEF WorkerOK, IsJob, IsTx, NoTx, Work, Tasks, Tx
    <2>4. \A u \in Worker \ {v} : tx'[u].stage \in Scoring /\ tx[v].stage \in Scoring
                => tx'[u].event # tx[v].event
        BY <2>1, <2>2 DEF WorkerOK, ScoringOK
    <2>5. ScoringOK(v, work[v], tx[v])'
        BY <2>1, <2>2, <2>4 DEF WorkerOK, ScoringOK, IsTx, Scoring, Tx, NoTx
    <2>6. ReversalOK(v, work[v], tx[v])'
        BY <2>2 DEF WorkerOK, ReversalOK, IsJob, Work, Tasks
    <2>7. QED
        BY <2>3, <2>5, <2>6 DEF WorkerOK
<1>3. ValidIsCredited'
    BY DEF IInv, ValidIsCredited
<1>4. DisqualifiedHoldNothing'
    <2>1. SUFFICES ASSUME NEW f \in Event, row'[f] = "VALID", standing[Earner[f]] # "eligible",
                          ~(faults > 0)
                   PROVE  \E a \in Admin : work'[a].task \in Expelling /\ f \in work'[a].todo
        BY DEF DisqualifiedHoldNothing, RowsAt, Expelling
    <2>2. f # e /\ row[f] = "VALID"
        BY <2>1
    <2>3. PICK a \in Admin : work[a].task \in Expelling /\ f \in work[a].todo
        BY <2>1, <2>2 DEF IInv, DisqualifiedHoldNothing, RowsAt, Expelling
    <2>4. CASE a = w
        BY <2>2, <2>3, <2>4
    <2>5. CASE a # w
        BY <2>3, <2>5 DEF Worker
    <2>6. QED
        BY <2>4, <2>5
<1>5. QED
    BY <1>1, <1>2, <1>3, <1>4 DEF IInv

\* The step writes neither rows nor work in progress.
LEMMA QuietStep ==
    ASSUME IInv, UNCHANGED <<row, points, ledger, standing, work, tx>>,
           faults' \in Nat, faults > 0 => faults' > 0
    PROVE  IInv'
<1>1. Shape'
    BY DEF IInv, Shape
<1>2. \A v \in Worker : WorkerOK(v, work[v], tx[v])'
    BY DEF IInv, WorkerOK, IsJob, IsTx, NoTx, ScoringOK, ReversalOK, Work, Tasks, Tx
<1>3. ValidIsCredited'
    BY DEF IInv, ValidIsCredited
<1>4. DisqualifiedHoldNothing'
    BY DEF IInv, DisqualifiedHoldNothing, RowsAt
<1>5. QED
    BY <1>1, <1>2, <1>3, <1>4 DEF IInv

\* Replacing one worker's job or transaction leaves the others' alone.
LEMMA NowFrame ==
    ASSUME Shape, NEW w \in Worker, NEW j, Now(w, j)
    PROVE  /\ work' = [v \in Worker |-> work'[v]] /\ work'[w] = j
           /\ \A v \in Worker \ {w} : work'[v] = work[v]
BY DEF Shape, Now

LEMMA TxFrame ==
    ASSUME Shape, NEW w \in Worker, NEW t, tx' = [tx EXCEPT ![w] = t]
    PROVE  /\ tx' = [v \in Worker |-> tx'[v]] /\ tx'[w] = t
           /\ \A v \in Worker \ {w} : tx'[v] = tx[v]
BY DEF Shape

LEMMA IdleOK ==
    ASSUME NEW w \in Worker
    PROVE  IsJob(Idle) /\ IsTx(NoTx) /\ WorkerOK(w, Idle, NoTx)
BY DEF Idle, NoTx, IsJob, IsTx, Expelling, WorkerOK, ScoringOK, ReversalOK, Scoring, Work, Tasks, Tx

LEMMA TookOK ==
    ASSUME NEW w \in Worker, NEW e \in Event, IsJob(work[w])
    PROVE  /\ IsJob(Took(w, e)) /\ Took(w, e).task = work[w].task
           /\ Took(w, e).todo = work[w].todo \ {e} /\ Took(w, e).due = {}
BY DEF IsJob, Took, Work, Tasks

-----------------------------------------------------------------------------
(* Scoring.                                                                *)

LEMMA ClaimIInv ==
    ASSUME IInv, NEW w \in Worker, NEW e \in Event, Claim(w, e)
    PROVE  IInv'
<1>1. Shape /\ WorkerOK(w, work[w], tx[w]) /\ tx[w] = NoTx /\ e \in Candidates(w)
    BY DEF IInv, Claim
<1>2. work[w].task \notin Expelling \cup {"idle"} \/ work[w].due # {}
    BY <1>1 DEF Candidates, Expelling
<1>3. PICK t : /\ tx' = [tx EXCEPT ![w] = t]
               /\ \/ t = NoTx
                  \/ t = [stage |-> "claimed", event |-> e] /\ claimEventForScoring(e, w)
    <2>1. CASE claimEventForScoring(e, w)
        BY <2>1 DEF Claim
    <2>2. CASE ~claimEventForScoring(e, w)
        BY <1>1, <2>2 DEF Claim, Shape
    <2>3. QED
        BY <2>1, <2>2
<1>4. /\ work' = [v \in Worker |-> work'[v]] /\ work'[w] = Took(w, e)
      /\ \A v \in Worker \ {w} : work'[v] = work[v]
    BY <1>1, NowFrame DEF Claim
<1>5. /\ tx' = [v \in Worker |-> tx'[v]] /\ tx'[w] = t
      /\ \A v \in Worker \ {w} : tx'[v] = tx[v]
    BY <1>1, <1>3, TxFrame
<1>6. IsJob(work[w]) /\ IsJob(Took(w, e)) /\ Took(w, e).task = work[w].task
      /\ Took(w, e).todo = work[w].todo \ {e} /\ Took(w, e).due = {}
    BY <1>1, TookOK DEF WorkerOK
<1>7. work[w].task \notin Expelling \cup {"idle"}
    BY <1>1, <1>2, <1>6 DEF IsJob, Work, Tasks
<1>8. WorkerOK(w, Took(w, e), t)
    <2>1. IsTx(t)
        BY <1>3 DEF IsTx, NoTx, Tx
    <2>2. ScoringOK(w, Took(w, e), t)
        BY <1>3, <1>6, <1>7 DEF ScoringOK, NoTx, Scoring, claimEventForScoring, RowFree, InTx
    <2>3. ReversalOK(w, Took(w, e), t)
        BY <1>1, <1>3, <1>6 DEF WorkerOK, ReversalOK, NoTx
    <2>4. QED
        BY <1>6, <2>1, <2>2, <2>3 DEF WorkerOK
<1>9. KeepsHold(w, work'[w])
    BY <1>7 DEF KeepsHold
<1>10. UNCHANGED <<row, points, ledger, standing, faults>> /\ faults \in Nat
    BY <1>1 DEF Claim, storeVars, Shape
<1>11. QED
    BY <1>4, <1>5, <1>8, <1>9, <1>10, LocalStep

LEMMA DecideIInv ==
    ASSUME IInv, NEW w \in Worker, Decide(w)
    PROVE  IInv'
<1>1. Shape /\ WorkerOK(w, work[w], tx[w]) /\ tx[w].stage = "claimed"
    BY DEF IInv, Decide, InTx
<1> DEFINE e == tx[w].event
<1>2. PICK risk \in RiskOutcomes :
        tx' = [tx EXCEPT ![w] =
                [stage |-> "decided", event |-> e, verdict |-> Verdict(w, e, risk),
                 award |-> IF Verdict(w, e, risk) = "VALID" THEN applyCaps(e) ELSE 0]]
    BY DEF Decide
<1> DEFINE t == [stage |-> "decided", event |-> e, verdict |-> Verdict(w, e, risk),
                 award |-> IF Verdict(w, e, risk) = "VALID" THEN applyCaps(e) ELSE 0]
<1>3. /\ Verdict(w, e, risk) \in {"REJECTED", "PENDING_REVIEW", "VALID"}
      /\ Verdict(w, e, risk) = "VALID" =>
            standing[Earner[e]] = "eligible" /\ applyCaps(e) \in 1..Worth[e]
    BY EngineAssumption DEF Verdict, Scoreable
<1>4. /\ tx' = [v \in Worker |-> tx'[v]] /\ tx'[w] = t
      /\ \A v \in Worker \ {w} : tx'[v] = tx[v]
    BY <1>1, <1>2, TxFrame
<1>5. WorkerOK(w, work[w], t)
    <2>1. t.stage = "decided" /\ t.event = e /\ t.verdict = Verdict(w, e, risk)
        OBVIOUS
    <2>2. e \in Event
        BY <1>1 DEF WorkerOK, IsTx, Tx, NoTx
    <2>3. t.award \in Nat
        BY <1>3, <2>2, StoreAssumption
    <2>4. IsTx(t)
        BY <1>3, <2>2, <2>3 DEF IsTx, Tx, Status
    <2>5. IsJob(work[w]) /\ ReversalOK(w, work[w], t)
        BY <1>1, <2>1 DEF WorkerOK, ReversalOK
    <2>6. ScoringOK(w, work[w], t)
        BY <1>1, <1>3, <2>1 DEF WorkerOK, ScoringOK, Scoring
    <2>7. QED
        BY <2>4, <2>5, <2>6 DEF WorkerOK
<1>6. UNCHANGED <<row, points, ledger, standing, faults, work>> /\ faults \in Nat
    BY <1>1 DEF Decide, storeVars, Shape
<1>7. KeepsHold(w, work'[w])
    BY <1>6 DEF KeepsHold
<1>8. work' = [v \in Worker |-> work'[v]]
    BY <1>1, <1>6 DEF Shape
<1>9. QED
    BY <1>4, <1>5, <1>6, <1>7, <1>8, LocalStep

LEMMA SettleIInv ==
    ASSUME IInv, NEW w \in Worker, Settle(w)
    PROVE  IInv'
<1> DEFINE e == tx[w].event
<1>1. Shape /\ WorkerOK(w, work[w], tx[w]) /\ tx[w].stage = "decided" /\ e \in Event
    BY DEF IInv, Settle, InTx, WorkerOK, IsTx, Tx, NoTx
<1>2. row[e] = "PENDING" /\ work[w].task \notin Expelling \cup {"idle"}
    BY <1>1 DEF WorkerOK, ScoringOK, Scoring
<1>3. {l \in ledger : l.event = e} = {}
    BY <1>1, <1>2 DEF IInv, ValidIsCredited
<1>4. /\ row' = [row EXCEPT ![e] = tx[w].verdict]
      /\ points' = [points EXCEPT ![e] = tx[w].award]
    BY DEF Settle, settleEvent
<1>5. /\ row' \in [Event -> Status] /\ points' \in [Event -> Nat]
      /\ row'[e] = tx[w].verdict /\ points'[e] = tx[w].award
      /\ \A f \in Event \ {e} : row'[f] = row[f] /\ points'[f] = points[f]
    <2>1. tx[w].verdict \in Status /\ tx[w].award \in Nat
        BY <1>1 DEF WorkerOK, IsTx, Tx, NoTx
    <2>2. QED
        BY <1>1, <1>4, <2>1 DEF Shape
<1>6. ledger' = IF tx[w].verdict = "VALID"
                THEN ledger \cup {[event |-> e, direction |-> "CREDIT", points |-> tx[w].award]}
                ELSE ledger
    BY <1>3 DEF Settle, appendLedger
<1>7. /\ \A f \in Event \ {e} : {l \in ledger' : l.event = f} = {l \in ledger : l.event = f}
      /\ tx[w].verdict = "VALID" => {l \in ledger' : l.event = e} =
                        {[event |-> e, direction |-> "CREDIT", points |-> points'[e]]}
      /\ {l \in ledger' : l.event = e} # {} => tx[w].verdict = "VALID"
    BY <1>3, <1>5, <1>6
<1>8. /\ tx' = [v \in Worker |-> tx'[v]] /\ tx'[w] = NoTx
      /\ \A v \in Worker \ {w} : tx'[v] = tx[v]
    BY <1>1, TxFrame DEF Settle
<1>9. UNCHANGED <<standing, faults, work>>
    BY DEF Settle
<1>10. work' = [v \in Worker |-> work'[v]]
    BY <1>1, <1>9 DEF Shape
<1>11. \A v \in Worker \ {w} : tx[v].stage \in Scoring => tx[v].event # e
    BY <1>1 DEF WorkerOK, ScoringOK, Scoring
<1>12. WorkerOK(w, work[w], tx[w])'
    BY <1>1, <1>2, <1>8, <1>9
       DEF WorkerOK, IsJob, IsTx, ScoringOK, ReversalOK, NoTx, Scoring, Expelling, Work, Tasks, Tx
<1>13. row'[e] = "VALID" => standing[Earner[e]] = "eligible"
    BY <1>1, <1>5 DEF WorkerOK, ScoringOK
<1>14. QED
    BY <1>1, <1>2, <1>5, <1>7, <1>8, <1>9, <1>10, <1>11, <1>12, <1>13, RowStep

-----------------------------------------------------------------------------
(* Reversing.                                                              *)

LEMMA DebitIInv ==
    ASSUME IInv, NEW w \in Worker, NEW e \in Event, Debit(w, e)
    PROVE  IInv'
<1> DEFINE t == [stage |-> "debiting", event |-> e]
<1>1. /\ Shape /\ WorkerOK(w, work[w], tx[w])
      /\ work[w].task = "reverse" /\ e \in work[w].todo
    BY DEF IInv, Debit
<1>2. /\ tx' = [v \in Worker |-> tx'[v]] /\ tx'[w] = t
      /\ \A v \in Worker \ {w} : tx'[v] = tx[v]
    BY <1>1, TxFrame DEF Debit
<1>3. WorkerOK(w, work[w], t)
    BY <1>1 DEF WorkerOK, IsTx, ScoringOK, ReversalOK, NoTx, Scoring, Tx
<1>4. UNCHANGED <<row, points, ledger, standing, faults, work>> /\ faults \in Nat
    BY <1>1 DEF Debit, storeVars, Shape
<1>5. KeepsHold(w, work'[w]) /\ work' = [v \in Worker |-> work'[v]]
    BY <1>1, <1>4 DEF KeepsHold, Shape
<1>6. QED
    BY <1>2, <1>3, <1>4, <1>5, LocalStep

LEMMA ReverseIInv ==
    ASSUME IInv, NEW w \in Worker, Reverse(w)
    PROVE  IInv'
<1> DEFINE e == tx[w].event
<1>1. /\ Shape /\ WorkerOK(w, work[w], tx[w]) /\ IsJob(work[w])
      /\ tx[w].stage = "debiting" /\ e \in Event /\ work[w].task = "reverse"
    BY DEF IInv, Reverse, InTx, WorkerOK, IsTx, ReversalOK, Tx, NoTx
<1>2. /\ row' = [row EXCEPT ![e] = "REVERSED"]
      /\ points' = [points EXCEPT ![e] = work[w].snap[e]]
      /\ RowFree(e, w) /\ Now(w, Took(w, e)) /\ tx' = [tx EXCEPT ![w] = NoTx]
      /\ UNCHANGED <<standing, faults>>
    BY DEF Reverse, settleEvent
<1>3. /\ row' \in [Event -> Status] /\ points' \in [Event -> Nat]
      /\ row'[e] = "REVERSED"
      /\ \A f \in Event \ {e} : row'[f] = row[f] /\ points'[f] = points[f]
    BY <1>1, <1>2 DEF Shape, Status, IsJob, Work
<1>4. \A f \in Event \ {e} : {l \in ledger' : l.event = f} = {l \in ledger : l.event = f}
    <2>1. \/ ledger' = ledger
          \/ ledger' = ledger \cup {[event |-> e, direction |-> "DEBIT", points |-> work[w].snap[e]]}
        BY DEF Reverse, appendLedger
    <2>2. QED
        BY <2>1
<1>5. /\ work' = [v \in Worker |-> work'[v]] /\ work'[w] = Took(w, e)
      /\ \A v \in Worker \ {w} : work'[v] = work[v]
    BY <1>1, <1>2, NowFrame
<1>6. /\ tx' = [v \in Worker |-> tx'[v]] /\ tx'[w] = NoTx
      /\ \A v \in Worker \ {w} : tx'[v] = tx[v]
    BY <1>1, <1>2, TxFrame
<1>7. /\ IsJob(Took(w, e)) /\ Took(w, e).task = "reverse" /\ Took(w, e).due = {}
      /\ Took(w, e).todo = work[w].todo \ {e}
    BY <1>1, TookOK
<1>8. \A v \in Worker \ {w} : tx[v].stage \in Scoring => tx[v].event # e
    BY <1>2 DEF RowFree, InTx, Scoring
<1>9. WorkerOK(w, work[w], tx[w])'
    <2>1. IsJob(work'[w]) /\ IsTx(tx'[w])
        BY <1>5, <1>6, <1>7 DEF IsTx, NoTx, Tx
    <2>2. ReversalOK(w, work[w], tx[w])'
        BY <1>1, <1>3, <1>5, <1>6, <1>7 DEF WorkerOK, IsJob, ReversalOK, NoTx, Work, Tasks
    <2>3. ScoringOK(w, work[w], tx[w])'
        BY <1>6 DEF ScoringOK, NoTx, Scoring
    <2>4. IsJob(work[w])' /\ IsTx(tx[w])'
        BY <2>1 DEF IsJob, IsTx, NoTx, Work, Tasks, Tx
    <2>5. QED
        BY <2>2, <2>3, <2>4 DEF WorkerOK
<1>10. \A f \in Event \ {e} : f \in work[w].todo
            => work'[w].task \in Expelling /\ f \in work'[w].todo
    BY <1>5, <1>7 DEF Expelling
<1>11. /\ e \in Event /\ UNCHANGED <<standing, faults>>
       /\ row'[e] \in {"VALID", "REVERSED"} /\ row'[e] # "VALID"
    BY <1>1, <1>2, <1>3
<1> HIDE DEF e
<1>12. QED
    BY <1>3, <1>4, <1>5, <1>6, <1>8, <1>9, <1>10, <1>11, RowStep, Zenon

-----------------------------------------------------------------------------
(* Steps that hand an idle worker a job, or move its job along.            *)

\* A new job for a worker whose transaction, if any, the job suits.
LEMMA JobStep ==
    ASSUME IInv, NEW w \in Worker, NEW j, Now(w, j), IsJob(j),
           UNCHANGED <<row, points, ledger, standing, tx, faults>>,
           tx[w].stage \in Scoring => j.task \notin Expelling \cup {"idle"},
           tx[w].stage = "debiting" => j.task = "reverse" /\ tx[w].event \in j.todo,
           w \in Admin /\ j.task = "reverse" =>
                \A e \in j.todo : row[e] \in {"VALID", "REVERSED"},
           KeepsHold(w, j)
    PROVE  IInv'
<1>1. Shape /\ WorkerOK(w, work[w], tx[w])
    BY DEF IInv
<1>2. /\ work' = [v \in Worker |-> work'[v]] /\ work'[w] = j
      /\ \A v \in Worker \ {w} : work'[v] = work[v]
    BY <1>1, NowFrame
<1>3. WorkerOK(w, j, tx[w])
    BY <1>1 DEF WorkerOK, ScoringOK, ReversalOK
<1>4. faults \in Nat /\ tx' = [v \in Worker |-> tx'[v]]
    BY <1>1 DEF Shape
<1>5. QED
    BY <1>2, <1>3, <1>4, LocalStep

\* An idle worker has no transaction open and nothing to keep hold of.
LEMMA IdleHasNoTx ==
    ASSUME IInv, NEW w \in Worker, work[w].task = "idle"
    PROVE  /\ tx[w].stage \notin Scoring /\ tx[w].stage # "debiting"
           /\ \A j : KeepsHold(w, j)
BY DEF IInv, WorkerOK, ScoringOK, ReversalOK, KeepsHold, Expelling

LEMMA SweepIInv ==
    ASSUME IInv, NEW w \in Worker, processSweep(w)
    PROVE  IInv'
<1>1. CASE UNCHANGED work
    BY <1>1, QuietStep DEF processSweep, storeVars, IInv, Shape
<1>2. CASE Now(w, [Idle EXCEPT !.task = "sweep", !.todo = Orphans])
    <2> DEFINE j == [Idle EXCEPT !.task = "sweep", !.todo = Orphans]
    <2>1. IsJob(j) /\ j.task = "sweep"
        BY DEF IsJob, Idle, Orphans, RowsAt, Expelling, Work, Tasks
    <2>2. QED
        BY <1>2, <2>1, JobStep, IdleHasNoTx DEF processSweep, storeVars
<1>3. QED
    BY <1>1, <1>2 DEF processSweep

LEMMA LoadContestIInv ==
    ASSUME IInv, RouteTypes, NEW w \in Worker, LoadContest(w)
    PROVE  IInv'
<1> DEFINE j == [work[w] EXCEPT !.seen = status]
<1>1. WorkerOK(w, work[w], tx[w])
    BY DEF IInv
<1>2. IsJob(j) /\ j.task = work[w].task /\ j.todo = work[w].todo
    BY <1>1 DEF WorkerOK, IsJob, Work, Tasks, RouteTypes
<1>3. QED
    BY <1>1, <1>2, JobStep DEF LoadContest, storeVars, WorkerOK, ScoringOK, ReversalOK, KeepsHold, Expelling

LEMMA StartReconcileIInv ==
    ASSUME IInv, NEW a \in Admin, StartReconcile(a)
    PROVE  IInv'
<1> DEFINE j == [Idle EXCEPT !.task = "reconcile"]
<1>1. a \in Worker /\ work[a].task = "idle" /\ Now(a, j)
    BY DEF Worker, StartReconcile, Accept
<1>2. IsJob(j) /\ j.task = "reconcile"
    BY DEF IsJob, Idle, Expelling, Work, Tasks
<1>3. UNCHANGED <<row, points, ledger, standing, tx, faults>>
    BY DEF StartReconcile, storeVars
<1> HIDE DEF j
<1>4. QED
    BY <1>1, <1>2, <1>3, JobStep, IdleHasNoTx

LEMMA StartReleaseIInv ==
    ASSUME IInv, RouteTypes, NEW a \in Admin, NEW p \in Participant, StartRelease(a, p)
    PROVE  IInv'
<1> DEFINE j == [Idle EXCEPT !.task = "held", !.todo = EarnedBy(p), !.seen = status]
<1>1. a \in Worker /\ work[a].task = "idle" /\ Now(a, j)
    BY DEF Worker, StartRelease, Accept
<1>2. IsJob(j) /\ j.task = "held"
    BY DEF IsJob, Idle, Expelling, EarnedBy, Work, Tasks, RouteTypes
<1>3. UNCHANGED <<row, points, ledger, standing, tx, faults>>
    BY DEF StartRelease, storeVars
<1> HIDE DEF j
<1>4. QED
    BY <1>1, <1>2, <1>3, JobStep, IdleHasNoTx

LEMMA ListIInv ==
    ASSUME IInv, RouteTypes, NEW w \in Worker, List(w)
    PROVE  IInv'
<1> DEFINE j == Listed(w)
<1>1. WorkerOK(w, work[w], tx[w]) /\ IsJob(work[w])
    BY DEF IInv, WorkerOK
<1>2. UNCHANGED <<row, points, ledger, standing, tx, faults>> /\ Now(w, j)
    BY DEF List, storeVars
<1>3. tx[w].stage # "debiting"
    BY <1>1 DEF List, WorkerOK, ReversalOK
<1>4. CASE work[w].task \in {"reconcile", "held"}
    <2>1. IsJob(j) /\ j.task \in {"drain", "release"}
        BY <1>1, <1>4 DEF Listed, IsJob, RowsAt, Expelling, Work, Tasks
    <2>2. QED
        BY <1>2, <1>3, <1>4, <2>1, JobStep DEF KeepsHold, Expelling
<1>5. CASE work[w].task = "expel"
    <2>1. /\ IsJob(j) /\ j.task = "reverse"
          /\ j.todo = work[w].todo \cap RowsAt("VALID")
        BY <1>1, <1>5 DEF Listed, Loaded, IsJob, RowsAt, Expelling, Work, Tasks, IInv, Shape
    <2>2. tx[w].stage \notin Scoring
        BY <1>1, <1>5 DEF WorkerOK, ScoringOK, Expelling
    <2>3. KeepsHold(w, j)
        BY <1>1, <2>1 DEF KeepsHold, RowsAt, Expelling, IsJob, Work, Tasks
    <2>4. \A e \in j.todo : row[e] \in {"VALID", "REVERSED"}
        BY <2>1 DEF RowsAt
    <2>5. QED
        BY <1>2, <1>3, <2>1, <2>2, <2>3, <2>4, JobStep
<1>6. QED
    BY <1>4, <1>5 DEF List

LEMMA FinishIInv ==
    ASSUME IInv, RouteTypes, NEW w \in Worker, Finish(w)
    PROVE  IInv'
<1>1. /\ WorkerOK(w, work[w], tx[w]) /\ IsJob(work[w])
      /\ tx[w] = NoTx /\ work[w].todo = {} /\ work[w].due = {}
    BY DEF IInv, WorkerOK, Finish
<1>2. PICK j : Now(w, j) /\ IsJob(j) /\ j.task \in {"replay", "idle"}
    <2>1. CASE work[w].task = "drain"
        <3> DEFINE j == [work[w] EXCEPT !.task = "replay", !.todo = Signals]
        <3>1. IsJob(j) /\ j.task = "replay"
            BY <1>1 DEF IsJob, Signals, Expelling, Work, Tasks, RouteTypes
        <3>2. QED
            BY <2>1, <3>1 DEF Finish
    <2>2. CASE work[w].task # "drain"
        <3>1. IsJob(Idle) /\ Idle.task = "idle"
            BY IdleOK DEF Idle
        <3>2. QED
            BY <2>2, <3>1 DEF Finish
    <2>3. QED
        BY <2>1, <2>2
<1>3. UNCHANGED <<row, points, ledger, standing, tx, faults>>
    BY DEF Finish, storeVars
<1>4. QED
    BY <1>1, <1>2, <1>3, JobStep DEF NoTx, Scoring, KeepsHold

-----------------------------------------------------------------------------
(* Recording and releasing rows.                                           *)

\* One event's row becomes PENDING, and the worker's to score.
LEMMA PendingStep ==
    ASSUME IInv, NEW w \in Worker, NEW e \in Event, NEW j,
           row' = [row EXCEPT ![e] = "PENDING"], row[e] \in {"absent", "PENDING_REVIEW"},
           UNCHANGED <<points, ledger, standing, tx, faults>>,
           Now(w, j), IsJob(j), j.task \notin Expelling, work[w].task \notin Expelling,
           tx[w].stage \notin Scoring
    PROVE  IInv'
<1>1. Shape /\ WorkerOK(w, work[w], tx[w])
    BY DEF IInv
<1>2. /\ work' = [v \in Worker |-> work'[v]] /\ work'[w] = j
      /\ \A v \in Worker \ {w} : work'[v] = work[v]
    BY <1>1, NowFrame
<1>3. /\ row' \in [Event -> Status] /\ row'[e] = "PENDING"
      /\ \A f \in Event \ {e} : row'[f] = row[f]
    BY <1>1 DEF Shape, Status
<1>4. \A v \in Worker \ {w} : tx[v].stage \in Scoring => tx[v].event # e
    BY DEF IInv, WorkerOK, ScoringOK
<1>5. tx[w].stage # "debiting"
    BY <1>1 DEF WorkerOK, ReversalOK, Expelling
<1>6. WorkerOK(w, work[w], tx[w])'
    BY <1>1, <1>2, <1>5 DEF WorkerOK, IsJob, IsTx, ScoringOK, ReversalOK, NoTx, Scoring, Expelling, Work, Tasks, Tx
<1>7. {l \in ledger : l.event = e} = {}
    BY DEF IInv, ValidIsCredited
<1>8. tx' = [v \in Worker |-> tx'[v]] /\ points' \in [Event -> Nat]
    BY <1>1 DEF Shape
<1>9. QED
    BY <1>2, <1>3, <1>4, <1>6, <1>7, <1>8, RowStep

LEMMA ReleaseIInv ==
    ASSUME IInv, NEW w \in Worker, NEW e \in Event, Release(w, e)
    PROVE  IInv'
<1> DEFINE j == [Took(w, e) EXCEPT !.due = {e}]
<1>1. /\ Shape /\ WorkerOK(w, work[w], tx[w]) /\ IsJob(work[w])
      /\ work[w].task = "release" /\ tx[w] = NoTx /\ Now(w, j)
    BY DEF IInv, WorkerOK, Release
<1>2. IsJob(j) /\ j.task = "release"
    BY <1>1, TookOK DEF IsJob, Expelling, Work, Tasks
<1>3. UNCHANGED <<points, ledger, standing, tx, faults>>
    BY DEF Release
<1> HIDE DEF j
<1>4. CASE row[e] = "PENDING_REVIEW"
    <2>1. row' = [row EXCEPT ![e] = "PENDING"]
        BY <1>4 DEF Release, SetPending
    <2>2. /\ j.task \notin Expelling /\ work[w].task \notin Expelling
          /\ tx[w].stage \notin Scoring
        BY <1>1, <1>2 DEF NoTx, Scoring, Expelling
    <2>3. QED
        BY <1>1, <1>2, <1>3, <1>4, <2>1, <2>2, PendingStep
<1>5. CASE row[e] # "PENDING_REVIEW"
    <2>1. UNCHANGED row
        BY <1>5 DEF Release, SetPending
    <2>2. QED
        BY <1>1, <1>2, <1>3, <2>1, JobStep DEF NoTx, Scoring, Expelling, KeepsHold
<1>6. QED
    BY <1>4, <1>5

LEMMA ReplayIInv ==
    ASSUME IInv, NEW w \in Worker, NEW e \in Event, Replay(w, e)
    PROVE  IInv'
<1> DEFINE j == [Took(w, e) EXCEPT !.due = IF row[e] = "absent" THEN {e} ELSE {}]
<1>1. /\ Shape /\ WorkerOK(w, work[w], tx[w]) /\ IsJob(work[w])
      /\ work[w].task = "replay" /\ tx[w] = NoTx /\ Now(w, j)
    BY DEF IInv, WorkerOK, Replay
<1>2. IsJob(j) /\ j.task = "replay"
    BY <1>1, TookOK DEF IsJob, Expelling, Work, Tasks
<1>3. UNCHANGED <<points, ledger, standing, tx, faults>>
    BY DEF Replay
<1> HIDE DEF j
<1>4. CASE row[e] = "absent"
    <2>1. row' = [row EXCEPT ![e] = "PENDING"]
        BY <1>4 DEF Replay, insertPendingEvent
    <2>2. /\ j.task \notin Expelling /\ work[w].task \notin Expelling
          /\ tx[w].stage \notin Scoring
        BY <1>1, <1>2 DEF NoTx, Scoring, Expelling
    <2>3. QED
        BY <1>1, <1>2, <1>3, <1>4, <2>1, <2>2, PendingStep
<1>5. CASE row[e] # "absent"
    <2>1. UNCHANGED row
        BY <1>5 DEF Replay, insertPendingEvent
    <2>2. QED
        BY <1>1, <1>2, <1>3, <2>1, JobStep DEF NoTx, Scoring, Expelling, KeepsHold
<1>6. QED
    BY <1>4, <1>5

LEMMA TakeJobIInv ==
    ASSUME IInv, RouteTypes, NEW w \in Worker, NEW j \in jobs, TakeJob(w, j)
    PROVE  IInv'
<1>1. /\ Shape /\ WorkerOK(w, work[w], tx[w]) /\ work[w].task = "idle" /\ w \notin Admin
      /\ j.events \subseteq Event
      /\ UNCHANGED <<points, ledger, standing, tx, faults>>
    BY EngineAssumption DEF IInv, TakeJob, RouteTypes
<1>2. tx[w].stage \notin Scoring /\ tx[w].stage # "debiting"
    BY <1>1, IdleHasNoTx
<1>3. CASE processEngagement(w, j)
    <2>1. CASE UNCHANGED <<row, work>>
        BY <1>1, <2>1, QuietStep DEF Shape
    <2>2. ASSUME NEW e \in j.events, insertPendingEvent(e),
                 IF row[e] = "absent"
                 THEN Now(w, [Idle EXCEPT !.task = "engage", !.due = {e}, !.seen = "ACTIVE"])
                 ELSE UNCHANGED work
          PROVE  IInv'
        <3>1. e \in Event
            BY <1>1
        <3>2. CASE row[e] # "absent"
            BY <1>1, <2>2, <3>2, QuietStep DEF insertPendingEvent, Shape
        <3>3. CASE row[e] = "absent"
            <4> DEFINE k == [Idle EXCEPT !.task = "engage", !.due = {e}, !.seen = "ACTIVE"]
            <4>1. IsJob(k) /\ k.task = "engage"
                BY <3>1 DEF IsJob, Idle, Expelling, Work, Tasks, ContestStatus
            <4>2. Now(w, k) /\ row' = [row EXCEPT ![e] = "PENDING"]
                BY <2>2, <3>3 DEF insertPendingEvent
            <4>3. QED
                BY <1>1, <1>2, <3>1, <3>3, <4>1, <4>2, PendingStep DEF Expelling
        <3>4. QED
            BY <3>2, <3>3
    <2>3. QED
        BY <1>3, <2>1, <2>2 DEF processEngagement
<1>4. CASE processReversal(w, j)
    <2> DEFINE E == {e \in j.events : row[e] \in {"VALID", "PENDING_REVIEW"}}
    <2>1. IsJob(Loaded(Idle, E)) /\ Loaded(Idle, E).task = "reverse"
        BY <1>1 DEF Loaded, Idle, IsJob, Expelling, Work, Tasks, Shape
    <2>2. QED
        BY <1>1, <1>2, <1>4, <2>1, JobStep, IdleHasNoTx DEF processReversal
<1>5. QED
    BY <1>3, <1>4 DEF TakeJob

-----------------------------------------------------------------------------
(* Standing.                                                               *)

LEMMA DisqualifyIInv ==
    ASSUME IInv, NEW a \in Admin, NEW p \in Participant, Disqualify(a, p)
    PROVE  IInv'
<1> DEFINE j == [Idle EXCEPT !.task = "expel", !.todo = EarnedBy(p)]
<1>1. /\ a \in Worker /\ Shape /\ work[a].task = "idle" /\ EarnerFree(p) /\ Now(a, j)
      /\ standing' = [standing EXCEPT ![p] = "disqualified"]
      /\ UNCHANGED <<row, points, ledger, tx, faults>>
    BY DEF IInv, Disqualify, Accept, Worker
<1>2. /\ IsJob(j) /\ j.task = "expel" /\ j.todo = {e \in Event : Earner[e] = p}
    BY DEF IsJob, Idle, EarnedBy, Expelling, Work, Tasks
<1>3. /\ work' = [v \in Worker |-> work'[v]] /\ work'[a] = j
      /\ \A v \in Worker \ {a} : work'[v] = work[v]
    BY <1>1, NowFrame
<1>4. /\ standing' \in [Participant -> {"eligible", "disqualified"}]
      /\ \A q \in Participant \ {p} : standing'[q] = standing[q]
    BY <1>1 DEF Shape
<1>5. Shape'
    BY <1>1, <1>3, <1>4 DEF Shape
<1>6. \A v \in Worker : WorkerOK(v, work[v], tx[v])'
    <2>1. SUFFICES ASSUME NEW v \in Worker PROVE WorkerOK(v, work[v], tx[v])'
        OBVIOUS
    <2>2. WorkerOK(v, work[v], tx[v]) /\ tx'[v] = tx[v]
        BY <1>1 DEF IInv
    <2>3. tx[v].stage = "decided" => standing'[Earner[tx[v].event]] = standing[Earner[tx[v].event]]
        <3>1. tx[v].stage = "decided" =>
                Earner[tx[v].event] \in Participant /\ Earner[tx[v].event] # p
            BY <1>1, <2>2, StoreAssumption DEF WorkerOK, IsTx, EarnerFree, InTx, Tx, NoTx
        <3>2. QED
            BY <1>4, <3>1
    <2>4. CASE v = a
        <3>1. tx[v].stage \notin Scoring /\ tx[v].stage # "debiting" /\ work'[v] = j
            BY <1>1, <1>3, <2>4, IdleHasNoTx
        <3>2. WorkerOK(v, j, tx[v])
            BY <1>2, <2>2, <3>1 DEF WorkerOK, ScoringOK, ReversalOK, Scoring
        <3>3. QED
            BY <1>1, <2>3, <3>1, <3>2
               DEF WorkerOK, IsJob, IsTx, ScoringOK, ReversalOK, NoTx, Scoring, Expelling, Work, Tasks, Tx
    <2>5. CASE v # a
        <3>1. work'[v] = work[v]
            BY <1>3, <2>5
        <3>2. QED
            BY <1>1, <2>2, <2>3, <3>1 DEF WorkerOK, IsJob, IsTx, ScoringOK, ReversalOK, NoTx, Work, Tasks, Tx
    <2>6. QED
        BY <2>4, <2>5
<1>7. ValidIsCredited'
    BY <1>1 DEF IInv, ValidIsCredited
<1>8. DisqualifiedHoldNothing'
    <2>1. SUFFICES ASSUME NEW e \in Event, row[e] = "VALID", standing'[Earner[e]] # "eligible",
                          ~(faults > 0)
                   PROVE  \E b \in Admin : work'[b].task \in Expelling /\ e \in work'[b].todo
        BY <1>1 DEF DisqualifiedHoldNothing, RowsAt, Expelling
    <2>2. CASE Earner[e] = p
        BY <1>2, <1>3, <2>2 DEF Expelling
    <2>3. CASE Earner[e] # p
        <3>1. standing[Earner[e]] # "eligible"
            BY <1>4, <2>1, <2>3, StoreAssumption
        <3>2. PICK b \in Admin : work[b].task \in Expelling /\ e \in work[b].todo
            BY <2>1, <3>1 DEF IInv, DisqualifiedHoldNothing, RowsAt, Expelling
        <3>3. b # a /\ b \in Worker
            BY <1>1, <3>2 DEF Expelling, Worker
        <3>4. QED
            BY <1>3, <3>2, <3>3
    <2>4. QED
        BY <2>2, <2>3
<1>9. QED
    BY <1>5, <1>6, <1>7, <1>8 DEF IInv

LEMMA ReinstateIInv ==
    ASSUME IInv, NEW p \in Participant, Reinstate(p)
    PROVE  IInv'
<1>1. /\ Shape /\ standing' = [standing EXCEPT ![p] = "eligible"]
      /\ UNCHANGED <<row, points, ledger, tx, work, faults>>
    BY DEF IInv, Reinstate, engineVars
<1>2. /\ standing' \in [Participant -> {"eligible", "disqualified"}]
      /\ \A q \in Participant : standing[q] = "eligible" => standing'[q] = "eligible"
    BY <1>1 DEF Shape
<1>3. Shape'
    BY <1>1, <1>2 DEF Shape
<1>4. \A v \in Worker : WorkerOK(v, work[v], tx[v])'
    BY <1>1, <1>2, StoreAssumption DEF IInv, WorkerOK, IsJob, IsTx, NoTx, ScoringOK, ReversalOK, Work, Tasks, Tx
<1>5. ValidIsCredited'
    BY <1>1 DEF IInv, ValidIsCredited
<1>6. DisqualifiedHoldNothing'
    BY <1>1, <1>2, StoreAssumption DEF IInv, DisqualifiedHoldNothing, RowsAt
<1>7. QED
    BY <1>3, <1>4, <1>5, <1>6 DEF IInv

-----------------------------------------------------------------------------
(* Failures.                                                               *)

LEMMA StopIInv ==
    ASSUME IInv, NEW w \in Worker, Stop(w), faults' \in Nat, faults > 0 => faults' > 0,
           faults' > 0 \/ work[w].task \notin Expelling \/ w \notin Admin
    PROVE  IInv'
<1>1. Shape /\ UNCHANGED <<row, points, ledger, standing>>
    BY DEF IInv, Stop, storeVars
<1>2. /\ work' = [v \in Worker |-> work'[v]] /\ work'[w] = Idle
      /\ \A v \in Worker \ {w} : work'[v] = work[v]
    BY <1>1, NowFrame DEF Stop, Now
<1>3. /\ tx' = [v \in Worker |-> tx'[v]] /\ tx'[w] = NoTx
      /\ \A v \in Worker \ {w} : tx'[v] = tx[v]
    BY <1>1, TxFrame DEF Stop
<1>4. WorkerOK(w, work'[w], tx'[w])
    BY <1>2, <1>3, IdleOK
<1>5. faults' > 0 \/ KeepsHold(w, work'[w])
    BY DEF KeepsHold
<1>6. QED
    BY <1>1, <1>2, <1>3, <1>4, <1>5, LocalStep

LEMMA CrashIInv ==
    ASSUME IInv, NEW w \in Worker, Crash(w)
    PROVE  IInv'
BY StopIInv DEF Crash, IInv, Shape

\* An admin request is never the reversal a deadlock aborts: what it reverses
\* was VALID, and what is being scored is PENDING.
LEMMA DeadlockIInv ==
    ASSUME IInv, NEW w \in Worker, Deadlock(w)
    PROVE  IInv'
<1>1. PICK v \in Worker : /\ {tx[v].stage, tx[w].stage} = {"claimed", "debiting"}
                          /\ tx[v].event = tx[w].event
    BY DEF Deadlock
<1>2. WorkerOK(v, work[v], tx[v]) /\ WorkerOK(w, work[w], tx[w])
    BY DEF IInv
<1>3. work[w].task \notin Expelling \/ w \notin Admin
    <2>1. CASE tx[w].stage = "claimed"
        BY <1>2, <2>1 DEF WorkerOK, ScoringOK, Scoring
    <2>2. CASE tx[w].stage = "debiting" /\ tx[v].stage = "claimed"
        <3>1. row[tx[w].event] = "PENDING"
            BY <1>1, <1>2, <2>2 DEF WorkerOK, ScoringOK, Scoring
        <3>2. work[w].task = "reverse" /\ tx[w].event \in work[w].todo
            BY <1>2, <2>2 DEF WorkerOK, ReversalOK
        <3>3. QED
            BY <1>2, <3>1, <3>2 DEF WorkerOK, ReversalOK
    <2>3. QED
        BY <1>1, <2>1, <2>2
<1>4. Stop(w) /\ faults' = faults /\ faults \in Nat
    BY DEF Deadlock, IInv, Shape
<1>5. QED
    BY <1>3, <1>4, StopIInv

-----------------------------------------------------------------------------
(* The specification.                                                      *)

LEMMA InitIInv == Init => IInv /\ RouteTypes
<1>1. SUFFICES ASSUME Init PROVE IInv /\ RouteTypes
    OBVIOUS
<1>2. /\ Shape /\ RouteTypes
    BY <1>1, EngineAssumption DEF Init, StoreInit, Shape, RouteTypes, Status, ContestStatus
<1>3. \A w \in Worker : WorkerOK(w, work[w], tx[w])
    BY <1>1, IdleOK DEF Init
<1>4. ValidIsCredited /\ DisqualifiedHoldNothing
    BY <1>1 DEF Init, StoreInit, ValidIsCredited, DisqualifiedHoldNothing, RowsAt
<1>5. QED
    BY <1>2, <1>3, <1>4 DEF IInv

\* A transition leads to a status, whatever it was asked for.
LEMMA TransitionType ==
    ASSUME RouteTypes, NEW to \in ContestStatus, transitionContest(to)
    PROVE  status' \in ContestStatus
BY DEF transitionContest, RouteTypes

LEMMA NextRouteTypes ==
    ASSUME RouteTypes, [Next]_vars
    PROVE  RouteTypes'
<1>1. CASE UNCHANGED <<status, present, jobs>>
    BY <1>1 DEF RouteTypes
<1>2. CASE UNCHANGED <<present, jobs>> /\ \E to \in ContestStatus : transitionContest(to)
    BY <1>2, TransitionType DEF RouteTypes
<1>3. CASE UNCHANGED <<status, present>> /\ jobs' \subseteq jobs
    BY <1>3 DEF RouteTypes
<1>4. CASE Product
    <2>1. ASSUME NEW e \in Event, Interact(e) PROVE RouteTypes'
        BY <2>1 DEF Interact, emit, RouteTypes
    <2>2. ASSUME NEW e \in Event, Undo(e) PROVE RouteTypes'
        BY <2>2 DEF Undo, emit, RouteTypes
    <2>3. ASSUME NEW s \in Source, DeleteContent(s) PROVE RouteTypes'
        BY <2>3 DEF DeleteContent, emit, RouteTypes
    <2>4. QED
        BY <1>4, <2>1, <2>2, <2>3 DEF Product
<1>5. CASE Operator
    <2>1. CASE Freeze \/ Cancel
        BY <1>2, <2>1 DEF Freeze, Cancel, ContestStatus
    <2>2. CASE finalizeContest
        BY <2>2 DEF finalizeContest, RouteTypes, ContestStatus
    <2>3. ASSUME NEW p \in Participant, Reinstate(p) PROVE RouteTypes'
        BY <1>1, <2>3 DEF Reinstate, engineVars
    <2>4. ASSUME NEW a \in Admin,
                 \/ StartReconcile(a)
                 \/ \E p \in Participant : Disqualify(a, p) \/ StartRelease(a, p)
          PROVE  RouteTypes'
        BY <1>1, <2>4 DEF StartReconcile, Disqualify, StartRelease
    <2>5. QED
        BY <1>5, <2>1, <2>2, <2>3, <2>4 DEF Operator
<1>6. CASE Failure
    <2>1. ASSUME NEW w \in Worker, Crash(w) PROVE RouteTypes'
        BY <1>1, <2>1 DEF Crash, Stop
    <2>2. ASSUME NEW j \in jobs, LoseJob(j) PROVE RouteTypes'
        BY <1>3, <2>2 DEF LoseJob
    <2>3. QED
        BY <1>6, <2>1, <2>2 DEF Failure
<1>7. ASSUME NEW w \in Worker, Continue(w) PROVE RouteTypes'
    <2>1. CASE LoadContest(w) \/ List(w) \/ Decide(w) \/ Settle(w) \/ Reverse(w)
        BY <1>1, <2>1 DEF LoadContest, List, Decide, Settle, Reverse
    <2>2. CASE Finish(w)
        BY <1>1, <1>2, <2>2 DEF Finish, ContestStatus
    <2>3. CASE Deadlock(w)
        BY <1>1, <2>3 DEF Deadlock, Stop
    <2>4. ASSUME NEW e \in Event, Claim(w, e) \/ Debit(w, e) \/ Release(w, e) \/ Replay(w, e)
          PROVE  RouteTypes'
        BY <1>1, <2>4 DEF Claim, Debit, Release, Replay
    <2>5. QED
        BY <1>7, <2>1, <2>2, <2>3, <2>4 DEF Continue
<1>8. ASSUME NEW w \in Worker, processSweep(w) PROVE RouteTypes'
    BY <1>1, <1>2, <1>8 DEF processSweep, ContestStatus
<1>9. ASSUME NEW w \in Worker, NEW j \in jobs, TakeJob(w, j) PROVE RouteTypes'
    BY <1>3, <1>9 DEF TakeJob
<1>10. CASE UNCHANGED vars
    BY <1>1, <1>10 DEF vars, engineVars
<1>11. QED
    BY <1>4, <1>5, <1>6, <1>7, <1>8, <1>9, <1>10 DEF Next

LEMMA NextIInv ==
    ASSUME IInv, RouteTypes, [Next]_vars
    PROVE  IInv'
<1>1. faults \in Nat
    BY DEF IInv, Shape
<1>2. CASE Product
    <2>1. UNCHANGED <<row, points, ledger, standing, work, tx, faults>>
        BY <1>2 DEF Product, Interact, Undo, DeleteContent, storeVars
    <2>2. QED
        BY <1>1, <2>1, QuietStep
<1>3. CASE Operator
    <2>1. CASE Freeze \/ Cancel \/ finalizeContest
        <3>1. UNCHANGED <<row, points, ledger, standing, work, tx, faults>>
            BY <2>1 DEF Freeze, Cancel, finalizeContest, storeVars
        <3>2. QED
            BY <1>1, <3>1, QuietStep
    <2>2. ASSUME NEW a \in Admin, StartReconcile(a) PROVE IInv'
        BY <2>2, StartReconcileIInv
    <2>3. ASSUME NEW a \in Admin, NEW p \in Participant, StartRelease(a, p) PROVE IInv'
        BY <2>3, StartReleaseIInv
    <2>4. QED
        BY <1>3, <2>1, <2>2, <2>3, DisqualifyIInv, ReinstateIInv DEF Operator
<1>4. CASE Failure
    <2>1. ASSUME NEW j \in jobs, LoseJob(j) PROVE IInv'
        <3>1. /\ UNCHANGED <<row, points, ledger, standing, work, tx>>
              /\ faults' = faults + 1
            BY <2>1 DEF LoseJob, storeVars
        <3>2. QED
            BY <1>1, <3>1, QuietStep
    <2>2. QED
        BY <1>4, <2>1, CrashIInv DEF Failure
<1>5. ASSUME NEW w \in Worker, Continue(w) PROVE IInv'
    BY <1>5, LoadContestIInv, ListIInv, DecideIInv, SettleIInv, ReverseIInv, FinishIInv,
       DeadlockIInv, ClaimIInv, DebitIInv, ReleaseIInv, ReplayIInv DEF Continue
<1>6. ASSUME NEW w \in Worker, processSweep(w) PROVE IInv'
    BY <1>6, SweepIInv
<1>7. ASSUME NEW w \in Worker, NEW j \in jobs, TakeJob(w, j) PROVE IInv'
    BY <1>7, TakeJobIInv
<1>8. CASE UNCHANGED vars
    <2>1. UNCHANGED <<row, points, ledger, standing, work, tx, faults>>
        BY <1>8 DEF vars, storeVars, engineVars
    <2>2. QED
        BY <1>1, <2>1, QuietStep
<1>9. QED
    BY <1>2, <1>3, <1>4, <1>5, <1>6, <1>7, <1>8 DEF Next

\* Both parts of the invariant hold in every reachable state.
LEMMA Invariance == Spec => [](IInv /\ RouteTypes)
<1>1. IInv /\ RouteTypes /\ [Next]_vars => (IInv /\ RouteTypes)'
    BY NextIInv, NextRouteTypes
<1>2. QED
    BY <1>1, InitIInv, PTL DEF Spec

\* A VALID row is backed by exactly one ledger credit of the points it shows and
\* by no debit, and a credit belongs to a VALID or REVERSED row only, however
\* scoreEvent, reverseEvent, the sweeper, reconcile and releaseHeldEvents of any
\* number of instances race for the rows, crash and deadlock.
THEOREM ValidIsCreditedHolds == Spec => []ValidIsCredited
<1>1. IInv => ValidIsCredited
    BY DEF IInv
<1>2. QED
    BY <1>1, Invariance, PTL

\* Nothing of a disqualified participant stays VALID, unless a crash interrupted
\* the disqualification or its reversals are still under way: scoring that began
\* before it cannot slip a VALID row past the list the review route reverses.
THEOREM DisqualifiedHoldNothingHolds == Spec => []DisqualifiedHoldNothing
<1>1. IInv => DisqualifiedHoldNothing
    BY DEF IInv
<1>2. QED
    BY <1>1, Invariance, PTL
-----------------------------------------------------------------------------
(* Reconciliation.                                                         *)

Reconciling == {"reconcile", "drain", "replay"}
Reviewed == {"UNDER_REVIEW", "FINALIZED"}

\* A replay still has to come to every interaction it may not leave out, and
\* scores only what it has recorded.
Recovering(j) ==
    j.task = "replay" =>
        /\ \A e \in owed : row[e] = "absent" => Earner[e] \in ousted \/ e \in j.todo
        /\ \A e \in j.due : row[e] # "absent"

\* Reconciliation runs on a contest that has been frozen.
Begun(j) == j.task \in Reconciling => status # "ACTIVE"

\* The inductive invariant behind ReconciliationRecovers.
RecoveryInv ==
    /\ owed \subseteq present
    /\ \A p \in Participant : standing[p] # "eligible" => p \in ousted
    /\ \A w \in Worker : Recovering(work[w]) /\ Begun(work[w])
    /\ ReconciliationRecovers

\* No contest under review is frozen again while some request is replaying.
RefreezeWaits ==
    status = "UNDER_REVIEW" /\ status' = "FROZEN" =>
        \A w \in Worker : work[w].task # "replay"

\* A step that starts no reconciliation, freezes nothing and owes nothing new:
\* a replay goes on with what it has not come to.
LEMMA RecoveryStep ==
    ASSUME RecoveryInv, present \subseteq Event,
           owed' \subseteq owed, owed' \subseteq present', ousted \subseteq ousted',
           \A e \in Event : row'[e] = "absent" => row[e] = "absent",
           \A p \in Participant :
               standing'[p] # "eligible" => standing[p] # "eligible" \/ p \in ousted',
           status' = "ACTIVE" => status = "ACTIVE",
           status' \in Reviewed => status \in Reviewed,
           \A w \in Worker : work'[w].task \in Reconciling =>
                /\ work[w].task \in Reconciling
                /\ work'[w].task = "replay" =>
                    /\ work[w].task = "replay"
                    /\ \A e \in work[w].todo : row'[e] = "absent" => e \in work'[w].todo
                    /\ \A e \in work'[w].due : row'[e] # "absent"
    PROVE  RecoveryInv'
<1>1. owed \subseteq Event
    BY DEF RecoveryInv
<1>2. \A e \in owed' : row'[e] = "absent" => e \in owed /\ row[e] = "absent"
    BY <1>1
<1>3. ASSUME NEW w \in Worker
      PROVE  Recovering(work[w])' /\ Begun(work[w])'
    <2>1. Recovering(work[w]) /\ Begun(work[w])
        BY DEF RecoveryInv
    <2>2. Begun(work[w])'
        BY <2>1 DEF Begun
    <2>3. Recovering(work[w])'
        BY <1>2, <2>1 DEF Recovering, Reconciling
    <2>4. QED
        BY <2>2, <2>3
<1>4. ReconciliationRecovers'
    <2>1. SUFFICES ASSUME status' \in Reviewed, NEW e \in owed', row'[e] = "absent"
                   PROVE  Earner[e] \in ousted'
        BY DEF ReconciliationRecovers, Reviewed, RowsAt
    <2>2. status \in Reviewed /\ e \in owed \cap RowsAt("absent")
        BY <1>1, <1>2, <2>1 DEF RowsAt
    <2>3. QED
        BY <2>2 DEF RecoveryInv, ReconciliationRecovers, Reviewed
<1>5. QED
    BY <1>3, <1>4 DEF RecoveryInv

\* The same, for a step that changes neither the lifecycle nor what is owed,
\* and of the workers' jobs only w's.
LEMMA RecoveryOfOne ==
    ASSUME RecoveryInv, Shape, present \subseteq Event,
           UNCHANGED <<present, owed, standing, status>>, ousted \subseteq ousted',
           \A e \in Event : row'[e] = "absent" => row[e] = "absent",
           \A v \in Worker : work[v] \in Work,
           NEW w \in Worker,
           \A v \in Worker \ {w} : work'[v] = work[v],
           \/ work'[w].task \notin Reconciling
           \/ work'[w] = work[w]
           \/ /\ work[w].task \in Reconciling
              /\ work'[w].task = "replay" =>
                    /\ work[w].task = "replay"
                    /\ \A e \in work[w].todo : row'[e] = "absent" => e \in work'[w].todo
                    /\ \A e \in work'[w].due : row'[e] # "absent"
    PROVE  RecoveryInv'
<1>1. owed' \subseteq present'
    BY DEF RecoveryInv
<1>2. ASSUME NEW v \in Worker, work'[v] = work[v], work[v].task = "replay"
      PROVE  /\ \A e \in work[v].todo : row'[e] = "absent" => e \in work'[v].todo
             /\ \A e \in work'[v].due : row'[e] # "absent"
    BY <1>2 DEF RecoveryInv, Recovering, Work
<1>3. ASSUME NEW v \in Worker, work'[v].task \in Reconciling
      PROVE  /\ work[v].task \in Reconciling
             /\ work'[v].task = "replay" =>
                    /\ work[v].task = "replay"
                    /\ \A e \in work[v].todo : row'[e] = "absent" => e \in work'[v].todo
                    /\ \A e \in work'[v].due : row'[e] # "absent"
    <2>1. CASE work'[v] = work[v]
        BY <1>2, <1>3, <2>1
    <2>2. CASE work'[v] # work[v]
        BY <1>3, <2>2
    <2>3. QED
        BY <2>1, <2>2
<1>4. QED
    BY <1>1, <1>3, RecoveryStep

\* Rows are never deleted.
LEMMA RowsStay ==
    ASSUME Shape, NEW e \in Event, NEW q \in Status \ {"absent"},
           row' = [row EXCEPT ![e] = q]
    PROVE  \A f \in Event : row'[f] = "absent" => row[f] = "absent"
BY DEF Shape

LEMMA RecordStays ==
    ASSUME Shape, NEW e \in Event, insertPendingEvent(e)
    PROVE  /\ \A f \in Event : row'[f] = "absent" => row[f] = "absent"
           /\ row'[e] # "absent"
BY DEF Shape, insertPendingEvent

LEMMA FreezeRecovers ==
    ASSUME RecoveryInv, RouteTypes, RefreezeWaits, transitionContest("FROZEN"),
           UNCHANGED <<row, present, standing, work, ousted>>
    PROVE  RecoveryInv'
<1>1. CASE <<status, "FROZEN">> \notin ALLOWED_TRANSITIONS
    <2>1. UNCHANGED <<status, owed>>
        BY <1>1 DEF transitionContest
    <2>2. QED
        BY <2>1 DEF RecoveryInv, Recovering, Begun, ReconciliationRecovers, RowsAt
<1>2. CASE <<status, "FROZEN">> \in ALLOWED_TRANSITIONS
    <2>1. status' = "FROZEN" /\ owed' = present /\ status \in {"ACTIVE", "UNDER_REVIEW"}
        BY <1>2 DEF transitionContest, ALLOWED_TRANSITIONS
    <2>2. \A w \in Worker : work[w].task # "replay"
        BY <2>1 DEF RefreezeWaits, RecoveryInv, Begun, Reconciling
    <2>3. QED
        BY <2>1, <2>2 DEF RecoveryInv, Recovering, Begun, ReconciliationRecovers
<1>3. QED
    BY <1>1, <1>2

\* Listing the signals: everything owed is either listed or an ousted earner's.
\* Ending the replay: whatever is still without a row is an ousted earner's.
LEMMA FinishRecovers ==
    ASSUME RecoveryInv, IInv, RouteTypes, NEW w \in Worker, Finish(w)
    PROVE  RecoveryInv'
<1>1. /\ UNCHANGED <<row, standing, present, ousted>>
      /\ present \subseteq Event /\ Shape
      /\ \A v \in Worker : work[v] \in Work
      /\ work[w].todo = {} /\ work[w].due = {}
    BY DEF Finish, storeVars, RouteTypes, IInv, WorkerOK, IsJob
<1>2. CASE work[w].task = "drain"
    <2> DEFINE j == [work[w] EXCEPT !.task = "replay", !.todo = Signals]
    <2>1. Now(w, j) /\ UNCHANGED <<status, owed>>
        BY <1>2 DEF Finish
    <2>2. work'[w] = j /\ \A v \in Worker \ {w} : work'[v] = work[v]
        BY <1>1, <2>1, NowFrame
    <2>3. j.task = "replay" /\ j.todo = Signals /\ j.due = {}
        BY <1>1 DEF Work
    <2>4. \A e \in owed : Earner[e] \in ousted \/ e \in Signals
        BY <1>1, StoreAssumption DEF RecoveryInv, Signals, Shape
    <2>5. Recovering(work[w])' /\ Begun(work[w])'
        BY <1>2, <2>1, <2>2, <2>3, <2>4, <1>1 DEF Recovering, Begun, RecoveryInv, Reconciling
    <2>6. \A v \in Worker \ {w} : Recovering(work[v])' /\ Begun(work[v])'
        BY <1>1, <2>1, <2>2 DEF RecoveryInv, Recovering, Begun
    <2>7. QED
        BY <1>1, <2>1, <2>5, <2>6 DEF RecoveryInv, ReconciliationRecovers, RowsAt
<1>3. CASE work[w].task = "replay"
    <2>1. Now(w, Idle) /\ transitionContest("UNDER_REVIEW")
        BY <1>3 DEF Finish
    <2>2. work'[w] = Idle /\ \A v \in Worker \ {w} : work'[v] = work[v]
        BY <1>1, <2>1, NowFrame
    <2>3. owed' = owed /\ status' \in {status, "UNDER_REVIEW"}
        BY <2>1 DEF transitionContest
    <2>4. \A e \in owed : row[e] = "absent" => Earner[e] \in ousted
        BY <1>1, <1>3 DEF RecoveryInv, Recovering
    <2>5. ReconciliationRecovers'
        BY <1>1, <2>3, <2>4 DEF ReconciliationRecovers, RowsAt
    <2>6. Recovering(work[w])' /\ Begun(work[w])'
        BY <2>2 DEF Recovering, Begun, Idle, Reconciling
    <2>7. \A v \in Worker \ {w} : Recovering(work[v])' /\ Begun(work[v])'
        BY <1>1, <2>2, <2>3 DEF RecoveryInv, Recovering, Begun
    <2>8. QED
        BY <1>1, <2>3, <2>5, <2>6, <2>7 DEF RecoveryInv
<1>4. CASE work[w].task \notin {"drain", "replay"}
    <2>1. Now(w, Idle) /\ UNCHANGED <<status, owed>>
        BY <1>4 DEF Finish
    <2>2. work'[w] = Idle /\ \A v \in Worker \ {w} : work'[v] = work[v]
        BY <1>1, <2>1, NowFrame
    <2>3. QED
        BY <1>1, <2>1, <2>2, RecoveryOfOne DEF Idle, Reconciling
<1>5. QED
    BY <1>2, <1>3, <1>4

\* What scoring, reversal and the other requests do to a replay: nothing, but
\* for the event it goes on to.
LEMMA ContinueRecovers ==
    ASSUME RecoveryInv, IInv, RouteTypes, NEW w \in Worker, Continue(w), ~Finish(w)
    PROVE  RecoveryInv'
<1>1. /\ present \subseteq Event /\ Shape
      /\ \A v \in Worker : work[v] \in Work
      /\ IsJob(work[w]) /\ WorkerOK(w, work[w], tx[w])
    BY DEF RouteTypes, IInv, WorkerOK, IsJob
<1>2. UNCHANGED <<present, owed, standing, status, ousted>>
    BY DEF Continue, LoadContest, List, Decide, Settle, Reverse, Deadlock, Stop, Claim,
           Debit, Release, Replay, storeVars
<1>3. ASSUME NEW j, Now(w, j),
             \A e \in Event : row'[e] = "absent" => row[e] = "absent",
             \/ j.task \notin Reconciling
             \/ /\ work[w].task \in Reconciling
                /\ j.task = "replay" =>
                    /\ work[w].task = "replay"
                    /\ \A e \in work[w].todo : row'[e] = "absent" => e \in j.todo
                    /\ \A e \in j.due : row'[e] # "absent"
      PROVE  RecoveryInv'
    <2>1. work'[w] = j /\ \A v \in Worker \ {w} : work'[v] = work[v]
        BY <1>1, <1>3, NowFrame
    <2>2. QED
        BY <1>1, <1>2, <1>3, <2>1, RecoveryOfOne
<1>4. ASSUME UNCHANGED work, \A e \in Event : row'[e] = "absent" => row[e] = "absent"
      PROVE  RecoveryInv'
    BY <1>1, <1>2, <1>4, RecoveryOfOne
<1>5. CASE LoadContest(w)
    <2> DEFINE j == [work[w] EXCEPT !.seen = status]
    <2>1. Now(w, j) /\ row' = row /\ work[w].task \in {"sweep", "reconcile"}
        BY <1>5 DEF LoadContest, storeVars
    <2>2. j.task = work[w].task
        BY <1>1 DEF Work
    <2>3. QED
        BY <1>3, <2>1, <2>2 DEF Reconciling
<1>6. CASE List(w)
    <2>1. Now(w, Listed(w)) /\ row' = row /\ work[w].task \in {"held", "expel", "reconcile"}
        BY <1>6 DEF List, storeVars
    <2>2. /\ work[w].task = "reconcile" => Listed(w).task = "drain"
          /\ work[w].task = "held" => Listed(w).task = "release"
          /\ work[w].task = "expel" => Listed(w).task = "reverse"
        BY <1>1 DEF Work, Listed, Loaded
    <2>3. QED
        BY <1>3, <2>1, <2>2 DEF Reconciling
<1>7. CASE Decide(w)
    BY <1>4, <1>7 DEF Decide, storeVars
<1>8. CASE Settle(w)
    <2> DEFINE e == tx[w].event
    <2>1. /\ tx[w].stage = "decided" /\ row' = [row EXCEPT ![e] = tx[w].verdict]
          /\ UNCHANGED work
        BY <1>8 DEF Settle, InTx, settleEvent
    <2>2. e \in Event /\ tx[w].verdict \in Status \ {"absent"}
        BY <1>1, <2>1 DEF WorkerOK, IsTx, Tx, NoTx, ScoringOK, Status
    <2>3. QED
        BY <1>1, <1>4, <2>1, <2>2, RowsStay
<1>9. CASE Reverse(w)
    <2> DEFINE e == tx[w].event
    <2>1. /\ tx[w].stage = "debiting" /\ row' = [row EXCEPT ![e] = "REVERSED"]
          /\ Now(w, Took(w, e))
        BY <1>9 DEF Reverse, InTx, settleEvent
    <2>2. e \in Event /\ work[w].task = "reverse"
        BY <1>1, <2>1 DEF WorkerOK, IsTx, Tx, NoTx, ReversalOK
    <2>3. Took(w, e).task = "reverse"
        BY <1>1, <2>2, TookOK
    <2>4. "REVERSED" \in Status \ {"absent"}
        BY DEF Status
    <2>5. \A f \in Event : row'[f] = "absent" => row[f] = "absent"
        BY <1>1, <2>1, <2>2, <2>4, RowsStay
    <2>6. QED
        BY <1>3, <2>1, <2>3, <2>5 DEF Reconciling
<1>10. CASE Deadlock(w)
    <2>1. work' = [work EXCEPT ![w] = Idle] /\ row' = row
        BY <1>10 DEF Deadlock, Stop, storeVars
    <2>2. QED
        BY <1>3, <2>1 DEF Now, Idle, Reconciling
<1>11. ASSUME NEW e \in Event, Claim(w, e)
       PROVE  RecoveryInv'
    <2>1. Now(w, Took(w, e)) /\ row' = row /\ e \in Candidates(w)
        BY <1>11 DEF Claim, storeVars
    <2>2. /\ Took(w, e).task = work[w].task /\ Took(w, e).due = {}
          /\ Took(w, e).todo = work[w].todo \ {e}
        BY <1>1, TookOK
    <2>3. work[w].task = "replay" => e \in work[w].due
        BY <2>1 DEF Candidates
    <2>4. work[w].task = "replay" => row[e] # "absent"
        BY <2>3 DEF RecoveryInv, Recovering
    <2>5. QED
        BY <1>3, <2>1, <2>2, <2>4
<1>12. ASSUME NEW e \in Event, Debit(w, e)
       PROVE  RecoveryInv'
    BY <1>4, <1>12 DEF Debit, storeVars
<1>13. ASSUME NEW e \in Event, Release(w, e)
       PROVE  RecoveryInv'
    <2> DEFINE j == [Took(w, e) EXCEPT !.due = {e}]
    <2>1. Now(w, j) /\ SetPending(e) /\ work[w].task = "release"
        BY <1>13 DEF Release
    <2>2. j.task = "release"
        BY <1>1, <2>1 DEF Took, Work
    <2>3. \A f \in Event : row'[f] = "absent" => row[f] = "absent"
        BY <1>1, <2>1 DEF SetPending, Shape
    <2>4. QED
        BY <1>3, <2>1, <2>2, <2>3 DEF Reconciling
<1>14. ASSUME NEW e \in Event, Replay(w, e)
       PROVE  RecoveryInv'
    <2> DEFINE j == [Took(w, e) EXCEPT !.due = IF row[e] = "absent" THEN {e} ELSE {}]
    <2>1. Now(w, j) /\ insertPendingEvent(e) /\ work[w].task = "replay"
        BY <1>14 DEF Replay
    <2>2. /\ j.task = "replay" /\ j.todo = work[w].todo \ {e} /\ j.due \subseteq {e}
        BY <1>1, <2>1 DEF Took, Work
    <2>3. /\ \A f \in Event : row'[f] = "absent" => row[f] = "absent"
          /\ row'[e] # "absent"
        BY <1>1, <2>1, RecordStays
    <2>4. QED
        BY <1>3, <2>1, <2>2, <2>3 DEF Reconciling
<1>15. QED
    BY <1>5, <1>6, <1>7, <1>8, <1>9, <1>10, <1>11, <1>12, <1>13, <1>14 DEF Continue

LEMMA RecoveryInvInit == Init => RecoveryInv
BY DEF Init, StoreInit, RecoveryInv, Recovering, Begun, ReconciliationRecovers, Idle, Reconciling

LEMMA RecoveryInvNext ==
    ASSUME RecoveryInv, IInv, RouteTypes, [Next]_vars, RefreezeWaits
    PROVE  RecoveryInv'
<1>1. /\ present \subseteq Event /\ Shape
      /\ \A v \in Worker : work[v] \in Work
      /\ \A w \in Worker : Recovering(work[w])
    BY DEF RouteTypes, IInv, WorkerOK, IsJob, RecoveryInv
<1>2. ASSUME UNCHANGED <<row, standing, work, status, ousted>>,
             owed' \subseteq owed, owed' \subseteq present'
      PROVE  RecoveryInv'
    BY <1>1, <1>2, RecoveryStep DEF Recovering, Work
<1>3. CASE Product
    <2>1. UNCHANGED <<row, standing, work, status, ousted>>
        BY <1>3 DEF Product, Interact, Undo, DeleteContent, storeVars
    <2>2. owed' \subseteq owed /\ owed' \subseteq present'
        BY <1>3 DEF Product, Interact, Undo, DeleteContent, RecoveryInv
    <2>3. QED
        BY <1>2, <2>1, <2>2
<1>4. CASE Operator
    <2>1. CASE Freeze
        BY <2>1, FreezeRecovers DEF Freeze, storeVars
    <2>2. CASE Cancel
        <3>1. /\ UNCHANGED <<row, standing, work, present, ousted, owed>>
              /\ status' \in {status, "CANCELLED"}
            BY <2>2 DEF Cancel, storeVars, transitionContest
        <3>2. QED
            BY <1>1, <3>1, RecoveryStep DEF Recovering, Work, Reviewed, RecoveryInv
    <2>3. CASE finalizeContest
        <3>1. /\ UNCHANGED <<row, standing, work, present, ousted, owed>>
              /\ status = "UNDER_REVIEW" /\ status' = "FINALIZED"
            BY <2>3 DEF finalizeContest
        <3>2. QED
            BY <1>1, <3>1, RecoveryStep DEF Recovering, Work, Reviewed, RecoveryInv
    <2>4. ASSUME NEW p \in Participant, Reinstate(p)
          PROVE  RecoveryInv'
        <3>1. /\ UNCHANGED <<row, work, status, present, ousted, owed>>
              /\ \A q \in Participant : standing'[q] # "eligible" => standing[q] # "eligible"
            BY <1>1, <2>4 DEF Reinstate, engineVars, Shape
        <3>2. QED
            BY <1>1, <3>1, RecoveryStep DEF Recovering, Work, RecoveryInv
    <2>5. ASSUME NEW a \in Admin, StartReconcile(a)
          PROVE  RecoveryInv'
        <3> DEFINE j == [Idle EXCEPT !.task = "reconcile"]
        <3>1. /\ Now(a, j) /\ status = "FROZEN" /\ a \in Worker
              /\ UNCHANGED <<row, standing, status, present, ousted, owed>>
            BY <2>5 DEF StartReconcile, storeVars, Worker
        <3>2. work'[a] = j /\ \A v \in Worker \ {a} : work'[v] = work[v]
            BY <1>1, <3>1, NowFrame
        <3>3. j.task = "reconcile"
            BY DEF Idle
        <3>4. Recovering(work[a])' /\ Begun(work[a])'
            BY <3>1, <3>2, <3>3 DEF Recovering, Begun
        <3>5. \A v \in Worker \ {a} : Recovering(work[v])' /\ Begun(work[v])'
            BY <3>1, <3>2 DEF RecoveryInv, Recovering, Begun
        <3>6. QED
            BY <3>1, <3>4, <3>5 DEF RecoveryInv, ReconciliationRecovers, RowsAt
    <2>6. ASSUME NEW a \in Admin, NEW p \in Participant, Disqualify(a, p)
          PROVE  RecoveryInv'
        <3> DEFINE j == [Idle EXCEPT !.task = "expel", !.todo = EarnedBy(p)]
        <3>1. /\ Now(a, j) /\ a \in Worker /\ ousted' = ousted \cup {p}
              /\ UNCHANGED <<row, status, present, owed>>
              /\ \A q \in Participant \ {p} : standing'[q] = standing[q]
            BY <1>1, <2>6 DEF Disqualify, Worker, Shape
        <3>2. work'[a] = j /\ \A v \in Worker \ {a} : work'[v] = work[v]
            BY <1>1, <3>1, NowFrame
        <3>3. j.task \notin Reconciling
            BY DEF Idle, Reconciling
        <3>4. \A q \in Participant :
                  standing'[q] # "eligible" => standing[q] # "eligible" \/ q \in ousted'
            BY <3>1
        <3>5. ASSUME NEW v \in Worker, work'[v].task \in Reconciling
              PROVE  work'[v] = work[v]
            BY <3>2, <3>3, <3>5
        <3>6. QED
            BY <1>1, <3>1, <3>4, <3>5, RecoveryStep DEF Recovering, Work, RecoveryInv
    <2>7. ASSUME NEW a \in Admin, NEW p \in Participant, StartRelease(a, p)
          PROVE  RecoveryInv'
        <3> DEFINE j == [Idle EXCEPT !.task = "held", !.todo = EarnedBy(p), !.seen = status]
        <3>1. /\ Now(a, j) /\ a \in Worker
              /\ UNCHANGED <<row, standing, status, present, ousted, owed>>
            BY <2>7 DEF StartRelease, storeVars, Worker
        <3>2. work'[a] = j /\ \A v \in Worker \ {a} : work'[v] = work[v]
            BY <1>1, <3>1, NowFrame
        <3>3. j.task \notin Reconciling
            BY DEF Idle, Reconciling
        <3>4. QED
            BY <1>1, <3>1, <3>2, <3>3, RecoveryOfOne
    <2>8. QED
        BY <1>4, <2>1, <2>2, <2>3, <2>4, <2>5, <2>6, <2>7 DEF Operator
<1>5. CASE Failure
    <2>1. ASSUME NEW w \in Worker, Crash(w)
          PROVE  RecoveryInv'
        <3>1. /\ Now(w, Idle)
              /\ UNCHANGED <<row, standing, status, present, ousted, owed>>
            BY <2>1 DEF Crash, Stop, Now, storeVars
        <3>2. work'[w] = Idle /\ \A v \in Worker \ {w} : work'[v] = work[v]
            BY <1>1, <3>1, NowFrame
        <3>3. QED
            BY <1>1, <3>1, <3>2, RecoveryOfOne DEF Idle, Reconciling
    <2>2. ASSUME NEW j \in jobs, LoseJob(j)
          PROVE  RecoveryInv'
        BY <1>2, <2>2 DEF LoseJob, storeVars, RecoveryInv
    <2>3. QED
        BY <1>5, <2>1, <2>2 DEF Failure
<1>6. ASSUME NEW w \in Worker, Continue(w)
      PROVE  RecoveryInv'
    BY <1>6, FinishRecovers, ContinueRecovers
<1>7. ASSUME NEW w \in Worker, processSweep(w)
      PROVE  RecoveryInv'
    <2>1. UNCHANGED <<row, standing, present, ousted>>
        BY <1>7 DEF processSweep, storeVars
    <2>2. CASE transitionContest("FROZEN") /\ UNCHANGED work
        BY <2>1, <2>2, FreezeRecovers
    <2>3. CASE Now(w, [Idle EXCEPT !.task = "sweep", !.todo = Orphans]) /\ UNCHANGED <<status, owed>>
        <3> DEFINE j == [Idle EXCEPT !.task = "sweep", !.todo = Orphans]
        <3>1. work'[w] = j /\ \A v \in Worker \ {w} : work'[v] = work[v]
            BY <1>1, <2>3, NowFrame
        <3>2. j.task \notin Reconciling
            BY DEF Idle, Reconciling
        <3>3. QED
            BY <1>1, <2>1, <2>3, <3>1, <3>2, RecoveryOfOne
    <2>4. QED
        BY <1>7, <2>2, <2>3 DEF processSweep
<1>8. ASSUME NEW w \in Worker, NEW j \in jobs, TakeJob(w, j)
      PROVE  RecoveryInv'
    <2>1. /\ UNCHANGED <<standing, status, present, ousted, owed>>
          /\ j.events \subseteq Event
        BY <1>8 DEF TakeJob, RouteTypes
    <2>2. CASE processEngagement(w, j)
        <3>1. CASE UNCHANGED <<row, work>>
            BY <1>1, <2>1, <3>1, RecoveryOfOne
        <3>2. ASSUME NEW e \in j.events, insertPendingEvent(e),
                     IF row[e] = "absent"
                     THEN Now(w, [Idle EXCEPT !.task = "engage", !.due = {e}, !.seen = "ACTIVE"])
                     ELSE UNCHANGED work
              PROVE  RecoveryInv'
            <4> DEFINE k == [Idle EXCEPT !.task = "engage", !.due = {e}, !.seen = "ACTIVE"]
            <4>1. \A f \in Event : row'[f] = "absent" => row[f] = "absent"
                BY <1>1, <2>1, <3>2, RecordStays
            <4>2. k.task \notin Reconciling
                BY DEF Idle, Reconciling
            <4>3. CASE row[e] = "absent"
                <5>1. work'[w] = k /\ \A v \in Worker \ {w} : work'[v] = work[v]
                    BY <1>1, <3>2, <4>3, NowFrame
                <5>2. QED
                    BY <1>1, <2>1, <4>1, <4>2, <5>1, RecoveryOfOne
            <4>4. CASE row[e] # "absent"
                BY <1>1, <2>1, <3>2, <4>1, <4>4, RecoveryOfOne
            <4>5. QED
                BY <4>3, <4>4
        <3>3. QED
            BY <2>2, <3>1, <3>2 DEF processEngagement
    <2>3. CASE processReversal(w, j)
        <3> DEFINE k == Loaded(Idle, {e \in j.events : row[e] \in {"VALID", "PENDING_REVIEW"}})
        <3>1. Now(w, k) /\ row' = row
            BY <2>3 DEF processReversal
        <3>2. work'[w] = k /\ \A v \in Worker \ {w} : work'[v] = work[v]
            BY <1>1, <3>1, NowFrame
        <3>3. k.task \notin Reconciling
            BY DEF Loaded, Idle, Reconciling
        <3>4. QED
            BY <1>1, <2>1, <3>1, <3>2, <3>3, RecoveryOfOne
    <2>4. QED
        BY <1>8, <2>2, <2>3 DEF TakeJob
<1>9. CASE UNCHANGED vars
    BY <1>2, <1>9 DEF vars, storeVars, engineVars, RecoveryInv
<1>10. QED
    BY <1>3, <1>4, <1>5, <1>6, <1>7, <1>8, <1>9 DEF Next

\* However many instances and requests race, crash and lose jobs: as long as no
\* contest under review is frozen again while a reconcile request is replaying,
\* every interaction that was in the tables when the contest froze has its row
\* once reconciliation has moved it to review, unless it was undone or its
\* earner was disqualified.  The freeze route asks nobody whether a request is
\* replaying, and a replay that began before the second freeze moves the contest
\* to review without having listed what the second freeze found.
THEOREM RecoversUnlessRefrozen == Spec /\ [][RefreezeWaits]_vars => []ReconciliationRecovers
<1>1. /\ RecoveryInv /\ IInv /\ RouteTypes /\ [Next]_vars /\ [RefreezeWaits]_vars
      => RecoveryInv'
    <2>1. UNCHANGED vars => RefreezeWaits
        BY DEF vars, engineVars, RefreezeWaits
    <2>2. QED
        BY <2>1, RecoveryInvNext
<1>2. RecoveryInv => ReconciliationRecovers
    BY DEF RecoveryInv
<1>3. QED
    BY <1>1, <1>2, RecoveryInvInit, Invariance, PTL DEF Spec
\* With one admin request at a time a reconciliation under way is the admin's,
\* and the contest it works on has not moved on to review.
OneAtATime ==
    \A w \in Worker : work[w].task \in Reconciling =>
        w \in Admin /\ status \in {"FROZEN", "CANCELLED"}

LEMMA OneAtATimeNext ==
    ASSUME \A a, b \in Admin : a = b, OneAtATime, IInv, RouteTypes, [Next]_vars
    PROVE  OneAtATime'
<1>1. Shape /\ \A v \in Worker : work[v] \in Work
    BY DEF IInv, WorkerOK, IsJob
<1>2. ASSUME NEW to \in {"FROZEN", "CANCELLED"}, transitionContest(to)
      PROVE  status' \in {status, "FROZEN", "CANCELLED"}
    BY <1>2 DEF transitionContest
<1>3. ASSUME UNCHANGED work, status' \in {status, "FROZEN", "CANCELLED"}
      PROVE  OneAtATime'
    BY <1>3 DEF OneAtATime
<1>4. ASSUME NEW w \in Worker, NEW j, Now(w, j), UNCHANGED status,
             j.task \in Reconciling => work[w].task \in Reconciling
      PROVE  OneAtATime'
    <2>1. work'[w] = j /\ \A v \in Worker \ {w} : work'[v] = work[v]
        BY <1>1, <1>4, NowFrame
    <2>2. QED
        BY <1>4, <2>1 DEF OneAtATime
<1>5. CASE Product
    BY <1>3, <1>5 DEF Product, Interact, Undo, DeleteContent
<1>6. CASE Operator
    <2>1. CASE Freeze \/ Cancel
        BY <1>2, <1>3, <2>1 DEF Freeze, Cancel
    <2>2. CASE finalizeContest
        BY <2>2 DEF finalizeContest, OneAtATime
    <2>3. ASSUME NEW p \in Participant, Reinstate(p)
          PROVE  OneAtATime'
        BY <1>3, <2>3 DEF Reinstate, engineVars
    <2>4. ASSUME NEW a \in Admin, StartReconcile(a)
          PROVE  OneAtATime'
        <3> DEFINE j == [Idle EXCEPT !.task = "reconcile"]
        <3>1. Now(a, j) /\ status = "FROZEN" /\ status' = status /\ a \in Worker
            BY <2>4 DEF StartReconcile, Worker
        <3>2. work'[a] = j /\ \A v \in Worker \ {a} : work'[v] = work[v]
            BY <1>1, <3>1, NowFrame
        <3>3. QED
            BY <3>1, <3>2 DEF OneAtATime
    <2>5. ASSUME NEW a \in Admin, NEW p \in Participant, Disqualify(a, p) \/ StartRelease(a, p)
          PROVE  OneAtATime'
        <3>1. a \in Worker
            BY DEF Worker
        <3>2. CASE Disqualify(a, p)
            BY <1>4, <3>1, <3>2 DEF Disqualify, Idle, Reconciling
        <3>3. CASE StartRelease(a, p)
            BY <1>4, <3>1, <3>3 DEF StartRelease, Idle, Reconciling
        <3>4. QED
            BY <2>5, <3>2, <3>3
    <2>6. QED
        BY <1>6, <2>1, <2>2, <2>3, <2>4, <2>5 DEF Operator
<1>7. ASSUME NEW w \in Worker, Stop(w)
      PROVE  OneAtATime'
    BY <1>4, <1>7 DEF Stop, Now, Idle, Reconciling
<1>8. CASE Failure
    <2>1. ASSUME NEW j \in jobs, LoseJob(j)
          PROVE  OneAtATime'
        BY <1>3, <2>1 DEF LoseJob
    <2>2. QED
        BY <1>7, <1>8, <2>1 DEF Failure, Crash
<1>9. ASSUME NEW w \in Worker, Continue(w)
      PROVE  OneAtATime'
    <2>1. CASE LoadContest(w)
        <3>1. [work[w] EXCEPT !.seen = status].task = work[w].task
            BY <1>1 DEF Work
        <3>2. QED
            BY <1>4, <2>1, <3>1 DEF LoadContest
    <2>2. CASE List(w)
        <3>1. /\ Now(w, Listed(w)) /\ status' = status
              /\ work[w].task \in {"held", "expel", "reconcile"}
            BY <2>2 DEF List
        <3>2. /\ work[w].task = "held" => Listed(w).task = "release"
              /\ work[w].task = "expel" => Listed(w).task = "reverse"
            BY <1>1 DEF Work, Listed, Loaded
        <3>3. QED
            BY <1>4, <3>1, <3>2 DEF Reconciling
    <2>3. CASE Decide(w) \/ Settle(w)
        BY <1>3, <2>3 DEF Decide, Settle
    <2>4. CASE Reverse(w)
        <3>1. tx[w].event \in Event
            BY <2>4 DEF Reverse, InTx, IInv, WorkerOK, IsTx, Tx, NoTx
        <3>2. Took(w, tx[w].event).task = work[w].task
            BY <1>1, <3>1 DEF Took, Work
        <3>3. QED
            BY <1>4, <2>4, <3>2 DEF Reverse
    <2>5. CASE Finish(w)
        <3>1. CASE work[w].task = "replay"
            <4>1. Now(w, Idle)
                BY <2>5, <3>1 DEF Finish
            <4>2. work'[w] = Idle /\ \A v \in Worker \ {w} : work'[v] = work[v]
                BY <1>1, <4>1, NowFrame
            <4>3. \A v \in Worker : work'[v].task \notin Reconciling
                BY <3>1, <4>2 DEF OneAtATime, Idle, Reconciling
            <4>4. QED
                BY <4>3 DEF OneAtATime
        <3>2. CASE work[w].task = "drain"
            <4>1. PICK j : Now(w, j) /\ status' = status
                BY <2>5, <3>2 DEF Finish
            <4>2. QED
                BY <1>4, <3>2, <4>1 DEF Reconciling
        <3>3. CASE work[w].task \notin {"drain", "replay"}
            BY <1>4, <2>5, <3>3 DEF Finish, Idle, Reconciling
        <3>4. QED
            BY <3>1, <3>2, <3>3
    <2>6. CASE Deadlock(w)
        BY <1>7, <2>6 DEF Deadlock
    <2>7. ASSUME NEW e \in Event, Claim(w, e)
          PROVE  OneAtATime'
        <3>1. Took(w, e).task = work[w].task
            BY <1>1 DEF Took, Work
        <3>2. QED
            BY <1>4, <2>7, <3>1 DEF Claim
    <2>8. ASSUME NEW e \in Event, Debit(w, e)
          PROVE  OneAtATime'
        BY <1>3, <2>8 DEF Debit
    <2>9. ASSUME NEW e \in Event, Release(w, e) \/ Replay(w, e)
          PROVE  OneAtATime'
        <3>1. PICK E \in SUBSET Event :
                  Now(w, [Took(w, e) EXCEPT !.due = E]) /\ status' = status
            BY <2>9, SMTT(20) DEF Release, Replay
        <3>2. [Took(w, e) EXCEPT !.due = E].task = work[w].task
            BY <1>1 DEF Took, Work
        <3>3. QED
            BY <1>4, <3>1, <3>2
    <2>10. QED
        BY <1>9, <2>1, <2>2, <2>3, <2>4, <2>5, <2>6, <2>7, <2>8, <2>9 DEF Continue
<1>10. ASSUME NEW w \in Worker, processSweep(w)
       PROVE  OneAtATime'
    <2>1. CASE transitionContest("FROZEN") /\ UNCHANGED work
        BY <1>2, <1>3, <2>1
    <2>2. CASE Now(w, [Idle EXCEPT !.task = "sweep", !.todo = Orphans]) /\ UNCHANGED status
        BY <1>4, <2>2 DEF Idle, Reconciling
    <2>3. QED
        BY <1>10, <2>1, <2>2 DEF processSweep
<1>11. ASSUME NEW w \in Worker, NEW j \in jobs, TakeJob(w, j)
       PROVE  OneAtATime'
    <2>1. status' = status /\ w \in Worker
        BY <1>11 DEF TakeJob
    <2>2. CASE UNCHANGED work
        BY <1>3, <2>1, <2>2
    <2>3. CASE \E e \in j.events :
                  Now(w, [Idle EXCEPT !.task = "engage", !.due = {e}, !.seen = "ACTIVE"])
        BY <1>4, <2>1, <2>3 DEF Idle, Reconciling
    <2>4. CASE processReversal(w, j)
        BY <1>4, <2>1, <2>4 DEF processReversal, Loaded, Idle, Reconciling
    <2>5. QED
        BY <1>11, <2>2, <2>3, <2>4 DEF TakeJob, processEngagement
<1>12. CASE UNCHANGED vars
    BY <1>3, <1>12 DEF vars, engineVars
<1>13. QED
    BY <1>5, <1>6, <1>8, <1>9, <1>10, <1>11, <1>12 DEF Next

\* With one admin request at a time nothing needs to be assumed about freezing:
\* ReconciliationRecovers holds whatever the relays, the product routes, crashes
\* and the operator's other routes do meanwhile.
THEOREM ReconciliationRecoversHolds ==
    (\A a, b \in Admin : a = b) => (Spec => []ReconciliationRecovers)
<1> SUFFICES ASSUME \A a, b \in Admin : a = b
             PROVE  Spec => []ReconciliationRecovers
    OBVIOUS
<1>1. Init => OneAtATime
    BY DEF Init, OneAtATime, Idle, Reconciling
<1>2. OneAtATime /\ IInv /\ RouteTypes /\ [Next]_vars => OneAtATime'
    BY OneAtATimeNext
<1>3. OneAtATime => (status = "UNDER_REVIEW" => \A w \in Worker : work[w].task # "replay")
    BY DEF OneAtATime, Reconciling
<1>4. OneAtATime /\ [Next]_vars => [RefreezeWaits]_vars
    BY <1>3 DEF RefreezeWaits
<1>5. QED
    BY <1>1, <1>2, <1>4, Invariance, RecoversUnlessRefrozen, PTL DEF Spec

-----------------------------------------------------------------------------
(* Sums over the tables.                                                   *)

EntryPoints == [l \in Entry |-> l.points]

\* What the entries of L on one side of p's account come to, and the points of
\* the VALID rows of K.
Side(L, p, d) == SumOver(EntryPoints, {l \in L : Earner[l.event] = p /\ l.direction = d})
Banked(r, n, K) == SumOver(n, {e \in K : r[e] = "VALID"})

ValidRows(r) == {e \in Event : r[e] = "VALID"}
BySource(p, s) == {e \in EarnedBy(p) : SourceOf[e] = s}

\* What listings and recomputations of the tables' SQL sum.
LEMMA SumsOfTables ==
    ASSUME ledger \subseteq Entry, IsFiniteSet(ledger)
    PROVE  /\ \A p \in Participant : LedgerTotal(p) =
                    Max({0, Side(ledger, p, "CREDIT") - Side(ledger, p, "DEBIT")})
           /\ \A p \in Participant : pointsSince(p) = Banked(row, points, EarnedBy(p))
           /\ \A p \in Participant, s \in Source :
                    Total({e \in RowsAt("VALID") \cap EarnedBy(p) : SourceOf[e] = s})
                        = Banked(row, points, BySource(p, s))
           /\ \A e \in Event : sourceEntityPoints(e) =
                    Banked(row, points, {f \in Event : SourceOf[f] = SourceOf[e]})
<1>1. ASSUME NEW p, NEW d
      PROVE  MapThenSumSet(LAMBDA l : l.points,
                           {l \in ledger : Earner[l.event] = p /\ l.direction = d})
                = Side(ledger, p, d)
    <2> DEFINE S == {l \in ledger : Earner[l.event] = p /\ l.direction = d}
    <2>1. IsFiniteSet(S) /\ S \subseteq Entry
        BY FS_Subset
    <2> HIDE DEF S
    <2>2. \A x \in S : [l \in S |-> l.points][x] = EntryPoints[x]
        BY <2>1 DEF EntryPoints
    <2>3. SumOver([l \in S |-> l.points], S) = SumOver(EntryPoints, S)
        BY <2>1, <2>2, SumCongruent
    <2>4. MapThenSumSet(LAMBDA l : l.points, S) = SumOver([l \in S |-> l.points], S)
        BY SumOfPoints
    <2>5. MapThenSumSet(LAMBDA l : l.points, S) = SumOver(EntryPoints, S)
        BY <2>3, <2>4
    <2> USE DEF S
    <2>6. QED
        BY <2>5 DEF Side
<1>2. ASSUME NEW p \in Participant
      PROVE  LedgerTotal(p) = Max({0, Side(ledger, p, "CREDIT") - Side(ledger, p, "DEBIT")})
    BY <1>1 DEF LedgerTotal
<1>3. ASSUME NEW E
      PROVE  Total(E) = SumOver(points, E)
    BY SumMapped DEF Total
<1>4. ASSUME NEW p \in Participant
      PROVE  pointsSince(p) = Banked(row, points, EarnedBy(p))
    <2>1. RowsAt("VALID") \cap EarnedBy(p) = {e \in EarnedBy(p) : row[e] = "VALID"}
        BY DEF RowsAt, EarnedBy
    <2>2. QED
        BY <1>3, <2>1 DEF pointsSince, Banked
<1>5. ASSUME NEW p \in Participant, NEW s \in Source
      PROVE  Total({e \in RowsAt("VALID") \cap EarnedBy(p) : SourceOf[e] = s})
                = Banked(row, points, BySource(p, s))
    <2>1. {e \in RowsAt("VALID") \cap EarnedBy(p) : SourceOf[e] = s}
            = {e \in BySource(p, s) : row[e] = "VALID"}
        BY DEF RowsAt, EarnedBy, BySource
    <2>2. QED
        BY <1>3, <2>1 DEF Banked
<1>6. ASSUME NEW e \in Event
      PROVE  sourceEntityPoints(e) =
                Banked(row, points, {f \in Event : SourceOf[f] = SourceOf[e]})
    <2>1. {f \in RowsAt("VALID") : SourceOf[f] = SourceOf[e]}
            = {f \in {g \in Event : SourceOf[g] = SourceOf[e]} : row[f] = "VALID"}
        BY DEF RowsAt
    <2>2. QED
        BY <1>3, <2>1 DEF sourceEntityPoints, Banked
<1>7. QED
    BY <1>2, <1>4, <1>5, <1>6

\* A new entry adds its points to one side of one account.
LEMMA EntryAdded ==
    ASSUME NEW L \in SUBSET Entry, IsFiniteSet(L), NEW e \in Event,
           NEW d \in {"CREDIT", "DEBIT"}, NEW n \in Nat,
           \A l \in L : ~(l.event = e /\ l.direction = d)
    PROVE  LET M == L \cup {[event |-> e, direction |-> d, points |-> n]}
           IN  /\ M \in SUBSET Entry /\ IsFiniteSet(M)
               /\ Side(M, Earner[e], d) = Side(L, Earner[e], d) + n
               /\ \A p, c : p # Earner[e] \/ c # d => Side(M, p, c) = Side(L, p, c)
<1> DEFINE a == [event |-> e, direction |-> d, points |-> n]
           M == L \cup {a}
           Of(N, p, c) == {l \in N : Earner[l.event] = p /\ l.direction = c}
<1>1. M \in SUBSET Entry /\ IsFiniteSet(M) /\ a \in Entry /\ a \notin L
    BY FS_AddElement DEF Entry
<1>2. Side(M, Earner[e], d) = Side(L, Earner[e], d) + n
    <2> DEFINE S == Of(L, Earner[e], d)
    <2>1. Of(M, Earner[e], d) = S \cup {a} /\ a \notin S /\ IsFiniteSet(S) /\ S \subseteq Entry
        BY <1>1, FS_Subset
    <2>2. EntryPoints[a] = n
        BY <1>1 DEF EntryPoints
    <2>3. \A x \in Entry : EntryPoints[x] \in Nat
        BY DEF EntryPoints, Entry
    <2> HIDE DEF S, a
    <2>4. SumOver(EntryPoints, S \cup {a}) = SumOver(EntryPoints, S) + EntryPoints[a]
        BY <1>1, <2>1, <2>3, SumAdd
    <2>5. Side(M, Earner[e], d) = SumOver(EntryPoints, S \cup {a})
        BY <2>1 DEF Side
    <2>6. Side(L, Earner[e], d) = SumOver(EntryPoints, S)
        BY DEF Side, S
    <2>7. QED
        BY <2>2, <2>4, <2>5, <2>6
<1>3. ASSUME NEW p, NEW c, p # Earner[e] \/ c # d
      PROVE  Side(M, p, c) = Side(L, p, c)
    <2>1. Of(M, p, c) = Of(L, p, c)
        BY <1>3
    <2>2. QED
        BY <2>1 DEF Side
<1>4. QED
    BY <1>1, <1>2, <1>3

LEMMA SideType ==
    ASSUME NEW L \in SUBSET Entry, IsFiniteSet(L), NEW p, NEW d
    PROVE  Side(L, p, d) \in Nat
<1> DEFINE S == {l \in L : Earner[l.event] = p /\ l.direction = d}
<1>1. IsFiniteSet(S) /\ \A x \in S : EntryPoints[x] \in Nat
    BY FS_Subset DEF EntryPoints, Entry
<1> HIDE DEF S
<1>2. SumOver(EntryPoints, S) \in Nat
    BY <1>1, SumType
<1> USE DEF S
<1>3. QED
    BY <1>2 DEF Side

LEMMA BankedType ==
    ASSUME NEW r, NEW n \in [Event -> Nat], NEW K \in SUBSET Event,
           IsFiniteSet(ValidRows(r))
    PROVE  Banked(r, n, K) \in Nat /\ IsFiniteSet({e \in K : r[e] = "VALID"})
<1> DEFINE S == {e \in K : r[e] = "VALID"}
<1>1. IsFiniteSet(S) /\ \A x \in S : n[x] \in Nat
    BY FS_Subset DEF ValidRows
<1> HIDE DEF S
<1>2. SumOver(n, S) \in Nat
    BY <1>1, SumType
<1> USE DEF S
<1>3. QED
    BY <1>1, <1>2 DEF Banked

\* Points of rows outside a set of rows do not count in it.
LEMMA BankedSame ==
    ASSUME NEW r, NEW q, NEW n \in [Event -> Nat], NEW m \in [Event -> Nat],
           NEW K \in SUBSET Event, IsFiniteSet(ValidRows(r)),
           \A e \in K : (r[e] = "VALID") <=> (q[e] = "VALID"),
           \A e \in K : r[e] = "VALID" => n[e] = m[e]
    PROVE  Banked(r, n, K) = Banked(q, m, K)
<1> DEFINE S == {e \in K : r[e] = "VALID"}
<1>1. S = {e \in K : q[e] = "VALID"} /\ IsFiniteSet(S) /\ \A x \in S : n[x] = m[x]
    BY BankedType
<1> HIDE DEF S
<1>2. SumOver(n, S) = SumOver(m, S)
    BY <1>1, SumCongruent
<1>3. Banked(r, n, K) = SumOver(n, S)
    BY DEF Banked, S
<1>4. Banked(q, m, K) = SumOver(m, S)
    BY <1>1 DEF Banked
<1>5. QED
    BY <1>2, <1>3, <1>4

\* A row that becomes VALID adds its points.
LEMMA BankedMore ==
    ASSUME NEW r, NEW q, NEW n \in [Event -> Nat], NEW m \in [Event -> Nat],
           NEW K \in SUBSET Event, IsFiniteSet(ValidRows(r)),
           NEW e \in K, r[e] # "VALID", q[e] = "VALID",
           \A f \in K \ {e} : ((r[f] = "VALID") <=> (q[f] = "VALID")) /\ n[f] = m[f]
    PROVE  Banked(q, m, K) = Banked(r, n, K) + m[e]
<1> DEFINE S == {f \in K : r[f] = "VALID"}
<1>1. /\ {f \in K : q[f] = "VALID"} = S \cup {e} /\ e \notin S
      /\ IsFiniteSet(S) /\ \A x \in S : n[x] = m[x]
      /\ \A x \in S \cup {e} : m[x] \in Nat
    BY BankedType
<1>2. Banked(r, n, K) = SumOver(n, S)
    BY DEF Banked
<1> HIDE DEF S
<1>3. Banked(q, m, K) = SumOver(m, S \cup {e})
    BY <1>1 DEF Banked
<1>4. SumOver(m, S \cup {e}) = SumOver(m, S) + m[e]
    BY <1>1, SumAdd
<1>5. SumOver(n, S) = SumOver(m, S)
    BY <1>1, SumCongruent
<1>6. QED
    BY <1>2, <1>3, <1>4, <1>5

-----------------------------------------------------------------------------
(* The cached score.                                                       *)

Credited == {"VALID", "REVERSED"}

\* A reversal carries points of rows that were VALID when it loaded them, and
\* the points of one that still is.
Snapped(j, r, n) ==
    j.task = "reverse" =>
        \A e \in j.todo : j.snap[e] > 0 =>
            r[e] \in Credited /\ (r[e] = "VALID" => j.snap[e] = n[e])

Awarded(t) == t.stage = "decided" /\ t.verdict # "VALID" => t.award = 0

\* The score of an account is its credits less its debits, and what its debits
\* have left of its credits covers the rows that can still be debited.
Balanced(L, s, r, n) ==
    \A p \in Participant :
        /\ s[p] = Side(L, p, "CREDIT") - Side(L, p, "DEBIT")
        /\ Banked(r, n, EarnedBy(p)) + Side(L, p, "DEBIT") <= Side(L, p, "CREDIT")

BooksInv ==
    /\ ledger \in SUBSET Entry /\ IsFiniteSet(ledger) /\ IsFiniteSet(RowsAt("VALID"))
    /\ score \in [Participant -> Nat]
    /\ \A e \in Event : row[e] \notin Credited => points[e] = 0
    /\ \A e \in Event : row[e] = "REVERSED" =>
            \E l \in ledger : l.event = e /\ l.direction = "DEBIT"
    /\ \A w \in Worker : Snapped(work[w], row, points) /\ Awarded(tx[w])
    /\ Balanced(ledger, score, row, points)

\* Only the row of e changes; an entry for e; an account moved to x, not below 0.
SameBut(r, n, q, m, e) ==
    \A f \in Event \ {e} : ((r[f] = "VALID") <=> (q[f] = "VALID")) /\ n[f] = m[f]
Lacks(L, e, d) == \A l \in L : ~(l.event = e /\ l.direction = d)
With(L, e, d, a) == L \cup {[event |-> e, direction |-> d, points |-> a]}
Moved(s, p, x) == [s EXCEPT ![p] = Max({0, x})]

\* Only the row of e changes, between statuses other than VALID.
LEMMA BalancedKept ==
    ASSUME NEW L, NEW s, NEW r, NEW q, NEW n \in [Event -> Nat], NEW m \in [Event -> Nat],
           IsFiniteSet(ValidRows(r)), NEW e \in Event, r[e] # "VALID", q[e] # "VALID",
           SameBut(r, n, q, m, e), Balanced(L, s, r, n)
    PROVE  Balanced(L, s, q, m)
<1>1. SUFFICES ASSUME NEW p \in Participant
               PROVE  Banked(q, m, EarnedBy(p)) = Banked(r, n, EarnedBy(p))
    BY DEF Balanced
<1> DEFINE K == EarnedBy(p)
<1>2. K \in SUBSET Event
    BY DEF EarnedBy
<1> HIDE DEF K
<1>3. /\ \A f \in K : (r[f] = "VALID") <=> (q[f] = "VALID")
      /\ \A f \in K : r[f] = "VALID" => n[f] = m[f]
    BY <1>2 DEF SameBut
<1>4. Banked(r, n, K) = Banked(q, m, K)
    BY <1>2, <1>3, BankedSame
<1> USE DEF K
<1>5. QED
    BY <1>4

\* The rows of the other participants.
LEMMA BankedOthers ==
    ASSUME NEW r, NEW q, NEW n \in [Event -> Nat], NEW m \in [Event -> Nat],
           IsFiniteSet(ValidRows(r)), NEW K \in SUBSET Event, NEW e, e \notin K,
           SameBut(r, n, q, m, e)
    PROVE  Banked(q, m, K) = Banked(r, n, K)
<1>1. /\ \A f \in K : (r[f] = "VALID") <=> (q[f] = "VALID")
      /\ \A f \in K : r[f] = "VALID" => n[f] = m[f]
    BY DEF SameBut
<1>2. Banked(r, n, K) = Banked(q, m, K)
    BY <1>1, BankedSame
<1>3. QED
    BY <1>2

\* scoreEvent credits a row it makes VALID.
LEMMA BalancedCredit ==
    ASSUME NEW L \in SUBSET Entry, IsFiniteSet(L), NEW s \in [Participant -> Nat],
           NEW r, NEW q, NEW n \in [Event -> Nat], NEW m \in [Event -> Nat],
           IsFiniteSet(ValidRows(r)), NEW e \in Event, r[e] # "VALID", q[e] = "VALID",
           SameBut(r, n, q, m, e), Lacks(L, e, "CREDIT"), Balanced(L, s, r, n),
           NEW M, M = With(L, e, "CREDIT", m[e]),
           NEW x \in Int, x = s[Earner[e]] + m[e],
           NEW t, t = Moved(s, Earner[e], x)
    PROVE  /\ M \in SUBSET Entry /\ IsFiniteSet(M) /\ t \in [Participant -> Nat]
           /\ Balanced(M, t, q, m)
<1> DEFINE o == Earner[e]
<1>1. o \in Participant /\ m[e] \in Nat /\ s[o] \in Nat /\ "CREDIT" \in {"CREDIT", "DEBIT"}
    BY StoreAssumption
<1>2. /\ M \in SUBSET Entry /\ IsFiniteSet(M)
      /\ Side(M, o, "CREDIT") = Side(L, o, "CREDIT") + m[e]
      /\ \A p, c : p # o \/ c # "CREDIT" => Side(M, p, c) = Side(L, p, c)
    <2> DEFINE N == L \cup {[event |-> e, direction |-> "CREDIT", points |-> m[e]]}
    <2>1. /\ N \in SUBSET Entry /\ IsFiniteSet(N)
          /\ Side(N, o, "CREDIT") = Side(L, o, "CREDIT") + m[e]
          /\ \A p, c : p # o \/ c # "CREDIT" => Side(N, p, c) = Side(L, p, c)
        BY <1>1, EntryAdded DEF Lacks
    <2>2. M = N
        BY DEF With
    <2> HIDE DEF N
    <2>3. QED
        BY <2>1, <2>2
<1>3. Max({0, x}) = x
    <2>1. x >= 0
        BY <1>1
    <2>2. QED
        BY <2>1, MaxOfZero
<1>4. t \in [Participant -> Nat] /\ t[o] = s[o] + m[e] /\ \A p \in Participant \ {o} : t[p] = s[p]
    <2>1. t = [s EXCEPT ![o] = x]
        BY <1>3 DEF Moved
    <2>2. x \in Nat
        BY <1>1
    <2>3. QED
        BY <1>1, <2>1, <2>2
<1>5. ASSUME NEW p \in Participant
      PROVE  /\ t[p] = Side(M, p, "CREDIT") - Side(M, p, "DEBIT")
             /\ Banked(q, m, EarnedBy(p)) + Side(M, p, "DEBIT") <= Side(M, p, "CREDIT")
    <2> DEFINE K == EarnedBy(p)
    <2>1. K \in SUBSET Event
        BY DEF EarnedBy
    <2>2. /\ s[p] = Side(L, p, "CREDIT") - Side(L, p, "DEBIT")
          /\ Banked(r, n, K) + Side(L, p, "DEBIT") <= Side(L, p, "CREDIT")
        BY DEF Balanced
    <2>3. /\ Side(L, p, "CREDIT") \in Nat /\ Side(L, p, "DEBIT") \in Nat
          /\ Banked(r, n, K) \in Nat
        BY <2>1, SideType, BankedType
    <2>4. CASE p = o
        <3>1. e \in K /\ \A f \in K \ {e} : ((r[f] = "VALID") <=> (q[f] = "VALID")) /\ n[f] = m[f]
            BY <2>4 DEF EarnedBy, SameBut
        <3> HIDE DEF K
        <3>2. Banked(q, m, K) = Banked(r, n, K) + m[e]
            BY <2>1, <3>1, BankedMore
        <3>3. Side(M, p, "DEBIT") = Side(L, p, "DEBIT")
            BY <1>2, <2>4
        <3>4. Side(M, p, "CREDIT") = Side(L, p, "CREDIT") + m[e] /\ t[p] = s[p] + m[e]
            BY <1>2, <1>4, <2>4
        <3>5. /\ t[p] = Side(M, p, "CREDIT") - Side(M, p, "DEBIT")
              /\ Banked(q, m, K) + Side(M, p, "DEBIT") <= Side(M, p, "CREDIT")
            BY <1>1, <2>2, <2>3, <3>2, <3>3, <3>4
        <3> USE DEF K
        <3>6. QED
            BY <3>5
    <2>5. CASE p # o
        <3>1. e \notin K
            BY <2>5 DEF EarnedBy
        <3> HIDE DEF K
        <3>2. Banked(q, m, K) = Banked(r, n, K)
            BY <2>1, <3>1, BankedOthers
        <3> USE DEF K
        <3>3. QED
            BY <1>2, <1>4, <2>2, <2>5, <3>2
    <2>6. QED
        BY <2>4, <2>5
<1>6. QED
    BY <1>2, <1>4, <1>5 DEF Balanced

\* reverseEvent debits what a row that was VALID still shows, or nothing.
LEMMA BalancedDebit ==
    ASSUME NEW L \in SUBSET Entry, IsFiniteSet(L), NEW s \in [Participant -> Nat],
           NEW r, NEW q, NEW n \in [Event -> Nat], NEW m \in [Event -> Nat],
           IsFiniteSet(ValidRows(r)), IsFiniteSet(ValidRows(q)), NEW e \in Event, q[e] # "VALID",
           SameBut(r, n, q, m, e), Lacks(L, e, "DEBIT"), Balanced(L, s, r, n),
           NEW a \in Nat, a = 0 \/ (r[e] = "VALID" /\ a = n[e]),
           NEW M, M = With(L, e, "DEBIT", a),
           NEW x \in Int, x = s[Earner[e]] - a,
           NEW t, t = Moved(s, Earner[e], x)
    PROVE  /\ M \in SUBSET Entry /\ IsFiniteSet(M) /\ t \in [Participant -> Nat]
           /\ Balanced(M, t, q, m)
<1> DEFINE o == Earner[e]
<1>1. o \in Participant /\ s[o] \in Nat /\ n[e] \in Nat /\ "DEBIT" \in {"CREDIT", "DEBIT"}
    BY StoreAssumption
<1>2. /\ M \in SUBSET Entry /\ IsFiniteSet(M)
      /\ Side(M, o, "DEBIT") = Side(L, o, "DEBIT") + a
      /\ \A p, c : p # o \/ c # "DEBIT" => Side(M, p, c) = Side(L, p, c)
    <2> DEFINE N == L \cup {[event |-> e, direction |-> "DEBIT", points |-> a]}
    <2>1. /\ N \in SUBSET Entry /\ IsFiniteSet(N)
          /\ Side(N, o, "DEBIT") = Side(L, o, "DEBIT") + a
          /\ \A p, c : p # o \/ c # "DEBIT" => Side(N, p, c) = Side(L, p, c)
        BY <1>1, EntryAdded DEF Lacks
    <2>2. M = N
        BY DEF With
    <2> HIDE DEF N
    <2>3. QED
        BY <2>1, <2>2
<1>3. \A p \in Participant :
        /\ s[p] = Side(L, p, "CREDIT") - Side(L, p, "DEBIT")
        /\ Banked(r, n, EarnedBy(p)) + Side(L, p, "DEBIT") <= Side(L, p, "CREDIT")
    BY DEF Balanced
<1>4. \A p \in Participant :
        /\ Side(L, p, "CREDIT") \in Nat /\ Side(L, p, "DEBIT") \in Nat
        /\ Banked(r, n, EarnedBy(p)) \in Nat /\ Banked(q, m, EarnedBy(p)) \in Nat
    <2>1. \A p \in Participant : EarnedBy(p) \in SUBSET Event
        BY DEF EarnedBy
    <2>2. QED
        BY <2>1, SideType, BankedType
\* What goes from the debited account's rows is at least the debit.
<1>5. Banked(q, m, EarnedBy(o)) + a <= Banked(r, n, EarnedBy(o))
    <2> DEFINE K == EarnedBy(o)
    <2>1. K \in SUBSET Event /\ e \in K
        BY DEF EarnedBy
    <2>2. CASE r[e] = "VALID"
        <3>1. \A f \in K \ {e} : ((q[f] = "VALID") <=> (r[f] = "VALID")) /\ m[f] = n[f]
            BY <2>1 DEF SameBut
        <3> HIDE DEF K
        <3>2. Banked(r, n, K) = Banked(q, m, K) + n[e]
            BY <2>1, <2>2, <3>1, BankedMore
        <3>3. Banked(q, m, K) \in Nat
            BY <2>1, BankedType
        <3>4. Banked(q, m, K) + a <= Banked(r, n, K)
            BY <1>1, <3>2, <3>3
        <3> USE DEF K
        <3>5. QED
            BY <3>4
    <2>3. CASE r[e] # "VALID"
        <3>1. /\ \A f \in K : (r[f] = "VALID") <=> (q[f] = "VALID")
              /\ \A f \in K : r[f] = "VALID" => n[f] = m[f]
            BY <2>1, <2>3 DEF SameBut
        <3> HIDE DEF K
        <3>2. Banked(r, n, K) = Banked(q, m, K)
            BY <2>1, <3>1, BankedSame
        <3>3. Banked(q, m, K) \in Nat
            BY <2>1, BankedType
        <3>4. Banked(q, m, K) + a <= Banked(r, n, K)
            BY <2>3, <3>2, <3>3
        <3> USE DEF K
        <3>5. QED
            BY <3>4
    <2>4. QED
        BY <2>2, <2>3
<1>6. x \in Nat /\ Max({0, x}) = x
    <2>1. x >= 0
        BY <1>1, <1>3, <1>4, <1>5
    <2>2. QED
        BY <2>1, MaxOfZero
<1>7. t \in [Participant -> Nat] /\ t[o] = s[o] - a /\ \A p \in Participant \ {o} : t[p] = s[p]
    <2>1. t = [s EXCEPT ![o] = x]
        BY <1>6 DEF Moved
    <2>2. QED
        BY <1>1, <1>6, <2>1
<1>8. ASSUME NEW p \in Participant
      PROVE  /\ t[p] = Side(M, p, "CREDIT") - Side(M, p, "DEBIT")
             /\ Banked(q, m, EarnedBy(p)) + Side(M, p, "DEBIT") <= Side(M, p, "CREDIT")
    <2>1. CASE p = o
        <3>1. Side(M, p, "CREDIT") = Side(L, p, "CREDIT")
            BY <1>2, <2>1
        <3>2. Side(M, p, "DEBIT") = Side(L, p, "DEBIT") + a /\ t[p] = s[p] - a
            BY <1>2, <1>7, <2>1
        <3>3. QED
            BY <1>1, <1>3, <1>4, <1>5, <2>1, <3>1, <3>2
    <2>2. CASE p # o
        <3> DEFINE K == EarnedBy(p)
        <3>1. K \in SUBSET Event /\ e \notin K
            BY <2>2 DEF EarnedBy
        <3> HIDE DEF K
        <3>2. Banked(q, m, K) = Banked(r, n, K)
            BY <3>1, BankedOthers
        <3> USE DEF K
        <3>3. QED
            BY <1>2, <1>3, <1>7, <2>2, <3>2
    <2>3. QED
        BY <2>1, <2>2
<1>9. QED
    BY <1>2, <1>7, <1>8 DEF Balanced

LEMMA BooksStep ==
    ASSUME BooksInv, UNCHANGED <<row, points, ledger, score>>,
           \A w \in Worker : Snapped(work'[w], row, points) /\ Awarded(tx'[w])
    PROVE  BooksInv'
BY DEF BooksInv, RowsAt

LEMMA BooksOfOne ==
    ASSUME BooksInv, NEW w \in Worker, UNCHANGED <<row, points, ledger, score>>,
           \A v \in Worker \ {w} : work'[v] = work[v] /\ tx'[v] = tx[v],
           Snapped(work'[w], row, points), Awarded(tx'[w])
    PROVE  BooksInv'
<1>1. \A v \in Worker : Snapped(work'[v], row, points) /\ Awarded(tx'[v])
    <2>1. SUFFICES ASSUME NEW v \in Worker, v # w
                   PROVE  Snapped(work'[v], row, points) /\ Awarded(tx'[v])
        OBVIOUS
    <2>2. Snapped(work[v], row, points) /\ Awarded(tx[v])
        BY DEF BooksInv
    <2>3. work'[v] = work[v] /\ tx'[v] = tx[v]
        BY <2>1
    <2>4. QED
        BY <2>2, <2>3
<1>2. QED
    BY <1>1, BooksStep

\* A row that was neither credited nor reversed is PENDING afterwards.
LEMMA BooksOfPending ==
    ASSUME IInv, BooksInv, NEW w \in Worker, NEW e \in Event, UNCHANGED <<points, ledger, score, tx>>,
           row[e] \notin Credited, row' = [row EXCEPT ![e] = "PENDING"],
           \A v \in Worker \ {w} : work'[v] = work[v], work'[w].task # "reverse"
    PROVE  BooksInv'
<1>1. row \in [Event -> Status] /\ points \in [Event -> Nat]
    BY DEF IInv, Shape
<1>2. \A f \in Event : (row[f] = "VALID") <=> (row'[f] = "VALID")
    BY <1>1 DEF Credited
<1>3. \A f \in Event : (row[f] \in Credited <=> row'[f] \in Credited)
                      /\ (row[f] = "REVERSED" <=> row'[f] = "REVERSED")
    BY <1>1 DEF Credited
<1>4. RowsAt("VALID")' = RowsAt("VALID")
    BY <1>2 DEF RowsAt
<1>5. Balanced(ledger, score, row', points)
    <2>1. ASSUME NEW p \in Participant
          PROVE  Banked(row', points, EarnedBy(p)) = Banked(row, points, EarnedBy(p))
        <3>1. {f \in EarnedBy(p) : row'[f] = "VALID"} = {f \in EarnedBy(p) : row[f] = "VALID"}
            BY <1>2 DEF EarnedBy
        <3>2. QED
            BY <3>1 DEF Banked
    <2>2. QED
        BY <2>1 DEF BooksInv, Balanced
<1>6. \A v \in Worker : Snapped(work'[v], row', points) /\ Awarded(tx'[v])
    <2>1. SUFFICES ASSUME NEW v \in Worker
                   PROVE  Snapped(work'[v], row', points) /\ Awarded(tx'[v])
        OBVIOUS
    <2>2. Snapped(work[v], row, points) /\ Awarded(tx[v]) /\ work[v].todo \subseteq Event
        BY DEF BooksInv, IInv, WorkerOK, IsJob, Work
    <2>3. Awarded(tx'[v])
        BY <2>2
    <2>4. CASE v = w
        BY <2>3, <2>4 DEF Snapped
    <2>5. CASE v # w
        BY <1>2, <1>3, <2>2, <2>3, <2>5 DEF Snapped
    <2>6. QED
        BY <2>4, <2>5
<1>7. /\ \A f \in Event : row'[f] \notin Credited => points'[f] = 0
      /\ \A f \in Event : row'[f] = "REVERSED" =>
            \E l \in ledger' : l.event = f /\ l.direction = "DEBIT"
    BY <1>3 DEF BooksInv
<1>8. Balanced(ledger, score, row, points)'
    BY <1>5
<1>9. QED
    BY <1>4, <1>6, <1>7, <1>8 DEF BooksInv

LEMMA SettleBooks ==
    ASSUME IInv, BooksInv, NEW w \in Worker, Settle(w)
    PROVE  BooksInv'
<1> DEFINE e == tx[w].event
           v == tx[w].verdict
<1>1. Shape /\ WorkerOK(w, work[w], tx[w]) /\ tx[w].stage = "decided" /\ e \in Event
    BY DEF IInv, Settle, InTx, WorkerOK, IsTx, Tx, NoTx
<1>2. /\ row[e] = "PENDING" /\ v \in {"REJECTED", "PENDING_REVIEW", "VALID"}
      /\ work[w].task # "reverse" /\ tx[w].award \in Nat
    BY <1>1 DEF WorkerOK, ScoringOK, Scoring, Expelling, IsTx, Tx, NoTx
<1>3. \A l \in ledger : l.event # e
    BY <1>1, <1>2 DEF IInv, ValidIsCredited
<1>4. v # "VALID" => tx[w].award = 0
    BY <1>1 DEF BooksInv, Awarded
<1>5. row \in [Event -> Status] /\ points \in [Event -> Nat]
    BY <1>1 DEF Shape
<1>6. /\ row'[e] = v /\ points'[e] = tx[w].award /\ points' \in [Event -> Nat]
      /\ \A f \in Event \ {e} : row'[f] = row[f] /\ points'[f] = points[f]
    <2>1. row' = [row EXCEPT ![e] = v] /\ points' = [points EXCEPT ![e] = tx[w].award]
        BY DEF Settle, settleEvent
    <2>2. QED
        BY <1>1, <1>2, <1>5, <2>1
<1>7. work' = work /\ tx'[w] = NoTx /\ \A u \in Worker \ {w} : tx'[u] = tx[u]
    BY <1>1, TxFrame DEF Settle
<1>8. IsFiniteSet(RowsAt("VALID"))'
    <2>1. RowsAt("VALID")' \subseteq RowsAt("VALID") \cup {e}
        BY <1>6 DEF RowsAt
    <2>2. IsFiniteSet(RowsAt("VALID") \cup {e})
        BY FS_AddElement DEF BooksInv
    <2>3. QED
        BY <2>1, <2>2, FS_Subset
<1>9. /\ ledger' \in SUBSET Entry /\ IsFiniteSet(ledger') /\ score' \in [Participant -> Nat]
      /\ Balanced(ledger', score', row', points')
      /\ ledger \subseteq ledger'
    <2>1. /\ ledger \in SUBSET Entry /\ IsFiniteSet(ledger) /\ score \in [Participant -> Nat]
          /\ IsFiniteSet(ValidRows(row)) /\ Balanced(ledger, score, row, points)
        BY DEF BooksInv, ValidRows, RowsAt
    <2>2. SameBut(row, points, row', points', e)
        BY <1>6 DEF SameBut
    <2>3. CASE v = "VALID"
        <3>1. /\ ledger' = ledger \cup {[event |-> e, direction |-> "CREDIT", points |-> points'[e]]}
              /\ score' = [score EXCEPT ![Earner[e]] = Max({0, score[Earner[e]] + points'[e]})]
            BY <1>3, <1>6, <2>3 DEF Settle, appendLedger
        <3>2. row[e] # "VALID" /\ row'[e] = "VALID"
            BY <1>2, <1>6, <2>3
        <3>3. Lacks(ledger, e, "CREDIT")
            BY <1>3 DEF Lacks
        <3> DEFINE x == score[Earner[e]] + points'[e]
        <3>4. x \in Int
            BY <1>1, <1>6, <2>1, StoreAssumption
        <3>5. /\ x = score[Earner[e]] + points'[e] /\ score' = Moved(score, Earner[e], x)
              /\ ledger' = With(ledger, e, "CREDIT", points'[e])
            BY <3>1 DEF Moved, With
        <3> HIDE DEF e, x
        <3>6. /\ ledger' \in SUBSET Entry /\ IsFiniteSet(ledger') /\ score' \in [Participant -> Nat]
              /\ Balanced(ledger', score', row', points')
            BY <1>1, <1>5, <1>6, <2>1, <2>2, <3>2, <3>3, <3>4, <3>5, BalancedCredit
        <3>7. QED
            BY <3>1, <3>6
    <2>4. CASE v # "VALID"
        <3>1. UNCHANGED <<ledger, score>>
            BY <2>4 DEF Settle
        <3>2. row[e] # "VALID" /\ row'[e] # "VALID"
            BY <1>2, <1>6, <2>4
        <3> HIDE DEF e
        <3>3. Balanced(ledger, score, row', points')
            BY <1>1, <1>5, <1>6, <2>1, <2>2, <3>2, BalancedKept
        <3>4. QED
            BY <2>1, <3>1, <3>3
    <2>5. QED
        BY <2>3, <2>4
<1>10. \A u \in Worker : Snapped(work'[u], row', points') /\ Awarded(tx'[u])
    <2>1. SUFFICES ASSUME NEW u \in Worker
                   PROVE  Snapped(work[u], row', points') /\ Awarded(tx'[u])
        BY <1>7
    <2>2. Snapped(work[u], row, points) /\ Awarded(tx[u]) /\ work[u].todo \subseteq Event
        BY DEF BooksInv, IInv, WorkerOK, IsJob, Work
    <2>3. Awarded(tx'[u])
        BY <1>7, <2>2 DEF Awarded, NoTx
    <2>4. Snapped(work[u], row', points')
        BY <1>2, <1>6, <2>2 DEF Snapped, Credited
    <2>5. QED
        BY <2>3, <2>4
<1>11. /\ \A f \in Event : row'[f] \notin Credited => points'[f] = 0
       /\ \A f \in Event : row'[f] = "REVERSED" =>
            \E l \in ledger' : l.event = f /\ l.direction = "DEBIT"
    BY <1>2, <1>4, <1>6, <1>9 DEF BooksInv, Credited
<1>12. Balanced(ledger, score, row, points)'
    BY <1>9
<1>13. QED
    BY <1>8, <1>9, <1>10, <1>11, <1>12 DEF BooksInv

LEMMA ReverseBooks ==
    ASSUME IInv, BooksInv, NEW w \in Worker, Reverse(w)
    PROVE  BooksInv'
<1> DEFINE e == tx[w].event
           a == work[w].snap[e]
<1>1. Shape /\ WorkerOK(w, work[w], tx[w]) /\ tx[w].stage = "debiting" /\ e \in Event
    BY DEF IInv, Reverse, InTx, WorkerOK, IsTx, Tx, NoTx
<1>2. /\ work[w].task = "reverse" /\ e \in work[w].todo /\ a \in Nat
      /\ row \in [Event -> Status] /\ points \in [Event -> Nat]
    BY <1>1 DEF WorkerOK, ReversalOK, IsJob, Work, Shape
<1>3. a > 0 => row[e] \in Credited /\ (row[e] = "VALID" => a = points[e])
    BY <1>2 DEF BooksInv, Snapped
<1>4. appendLedger(e, "DEBIT", a)
    BY DEF Reverse
<1>5. /\ row'[e] = "REVERSED" /\ points'[e] = a /\ points' \in [Event -> Nat]
      /\ \A f \in Event \ {e} : row'[f] = row[f] /\ points'[f] = points[f]
    <2>1. row' = [row EXCEPT ![e] = "REVERSED"] /\ points' = [points EXCEPT ![e] = a]
        BY DEF Reverse, settleEvent
    <2> HIDE DEF a
    <2>2. QED
        BY <1>1, <1>2, <2>1
<1>6. /\ tx'[w] = NoTx /\ work'[w] = Took(w, e)
      /\ \A u \in Worker \ {w} : tx'[u] = tx[u] /\ work'[u] = work[u]
    <2>1. Now(w, Took(w, e)) /\ tx' = [tx EXCEPT ![w] = NoTx]
        BY DEF Reverse
    <2>2. work'[w] = Took(w, e) /\ \A u \in Worker \ {w} : work'[u] = work[u]
        BY <1>1, <2>1, NowFrame
    <2>3. tx'[w] = NoTx /\ \A u \in Worker \ {w} : tx'[u] = tx[u]
        BY <1>1, <2>1, TxFrame
    <2>4. QED
        BY <2>2, <2>3
<1>7. RowsAt("VALID")' \subseteq RowsAt("VALID") /\ IsFiniteSet(RowsAt("VALID"))'
    <2>1. RowsAt("VALID")' \subseteq RowsAt("VALID")
        BY <1>5 DEF RowsAt
    <2>2. QED
        BY <2>1, FS_Subset DEF BooksInv
<1>8. /\ ledger' \in SUBSET Entry /\ IsFiniteSet(ledger') /\ score' \in [Participant -> Nat]
      /\ Balanced(ledger', score', row', points')
      /\ ledger \subseteq ledger' /\ \E l \in ledger' : l.event = e /\ l.direction = "DEBIT"
    <2>1. /\ ledger \in SUBSET Entry /\ IsFiniteSet(ledger) /\ score \in [Participant -> Nat]
          /\ IsFiniteSet(ValidRows(row)) /\ Balanced(ledger, score, row, points)
        BY DEF BooksInv, ValidRows, RowsAt
    <2>2. SameBut(row, points, row', points', e)
        BY <1>5 DEF SameBut
    <2>3. row'[e] # "VALID" /\ IsFiniteSet(ValidRows(row'))
        BY <1>5, <1>7 DEF ValidRows, RowsAt
    <2>4. CASE \E l \in ledger : l.event = e /\ l.direction = "DEBIT"
        <3>1. UNCHANGED <<ledger, score>>
            BY <1>4, <2>4 DEF appendLedger
        <3>2. row[e] # "VALID"
            BY <1>1, <2>4 DEF IInv, ValidIsCredited
        <3> HIDE DEF e
        <3>3. Balanced(ledger, score, row', points')
            BY <1>1, <1>2, <1>5, <2>1, <2>2, <2>3, <3>2, BalancedKept
        <3>4. QED
            BY <2>1, <2>4, <3>1, <3>3
    <2>5. CASE ~\E l \in ledger : l.event = e /\ l.direction = "DEBIT"
        <3>1. /\ ledger' = ledger \cup {[event |-> e, direction |-> "DEBIT", points |-> a]}
              /\ score' = [score EXCEPT ![Earner[e]] = Max({0, score[Earner[e]] + (-a)})]
            BY <1>4, <2>5 DEF appendLedger
        <3>2. a = 0 \/ (row[e] = "VALID" /\ a = points[e])
            BY <1>1, <1>2, <1>3, <2>5 DEF BooksInv, Credited
        <3>3. Lacks(ledger, e, "DEBIT")
            BY <2>5 DEF Lacks
        <3> DEFINE x == score[Earner[e]] + (-a)
        <3> HIDE DEF a
        <3>4. x \in Int /\ x = score[Earner[e]] - a
            BY <1>1, <1>2, <2>1, StoreAssumption
        <3>5. score' = Moved(score, Earner[e], x) /\ ledger' = With(ledger, e, "DEBIT", a)
            BY <3>1 DEF Moved, With
        <3> HIDE DEF e, x
        <3>6. a \in Nat /\ e \in Event /\ row'[e] # "VALID"
            BY <1>1, <1>2, <2>3
        <3>7. points \in [Event -> Nat] /\ points' \in [Event -> Nat]
            BY <1>2, <1>5
        <3>8. /\ ledger' \in SUBSET Entry /\ IsFiniteSet(ledger') /\ score' \in [Participant -> Nat]
              /\ Balanced(ledger', score', row', points')
            BY <2>1, <2>2, <2>3, <3>2, <3>3, <3>4, <3>5, <3>6, <3>7, BalancedDebit
        <3>9. ledger \subseteq ledger' /\ \E l \in ledger' : l.event = e /\ l.direction = "DEBIT"
            <4>1. ledger' = ledger \cup {[event |-> e, direction |-> "DEBIT", points |-> a]}
                BY <3>1
            <4> DEFINE l == [event |-> e, direction |-> "DEBIT", points |-> a]
            <4>2. l.event = e /\ l.direction = "DEBIT"
                OBVIOUS
            <4> HIDE DEF l
            <4>3. ledger' = ledger \cup {l}
                BY <4>1 DEF l
            <4>4. QED
                BY <4>2, <4>3
        <3>10. QED
            BY <3>8, <3>9
    <2>6. QED
        BY <2>4, <2>5
<1>9. \A u \in Worker : Snapped(work'[u], row', points') /\ Awarded(tx'[u])
    <2>1. SUFFICES ASSUME NEW u \in Worker
                   PROVE  Snapped(work'[u], row', points') /\ Awarded(tx'[u])
        OBVIOUS
    <2>2. Snapped(work[u], row, points) /\ Awarded(tx[u]) /\ work[u].todo \subseteq Event
        BY DEF BooksInv, IInv, WorkerOK, IsJob, Work
    <2>3. Awarded(tx'[u])
        BY <1>6, <2>2 DEF Awarded, NoTx
    <2>4. /\ work'[u].task = "reverse" => work[u].task = "reverse"
          /\ work'[u].todo \subseteq work[u].todo /\ work'[u].snap = work[u].snap
        <3>1. CASE u = w
            BY <1>1, <1>6, <3>1 DEF Took, WorkerOK, IsJob, Work
        <3>2. CASE u # w
            BY <1>6, <3>2
        <3>3. QED
            BY <3>1, <3>2
    <2>5. Snapped(work'[u], row', points')
        BY <1>5, <2>2, <2>4 DEF Snapped, Credited
    <2>6. QED
        BY <2>3, <2>5
<1>10. /\ \A f \in Event : row'[f] \notin Credited => points'[f] = 0
       /\ \A f \in Event : row'[f] = "REVERSED" =>
            \E l \in ledger' : l.event = f /\ l.direction = "DEBIT"
    BY <1>5, <1>8 DEF BooksInv, Credited
<1>11. Balanced(ledger, score, row, points)'
    BY <1>8
<1>12. QED
    BY <1>7, <1>8, <1>9, <1>10, <1>11 DEF BooksInv

LEMMA IdleBooks == Snapped(Idle, row, points) /\ Awarded(NoTx)
BY DEF Snapped, Awarded, Idle, NoTx

\* A reversal loads the points of rows that are VALID, and nothing of the rest.
LEMMA LoadedBooks ==
    ASSUME BooksInv, IInv, NEW j \in Work, NEW E \in SUBSET Event
    PROVE  Snapped(Loaded(j, E), row, points)
<1>1. Loaded(j, E).todo = E /\ \A e \in E : Loaded(j, E).snap[e] = points[e]
    BY DEF Loaded, Work
<1>2. \A e \in E : points[e] \in Nat /\ (points[e] > 0 => row[e] \in Credited)
    BY DEF BooksInv, IInv, Shape
<1> DEFINE k == Loaded(j, E)
<1> HIDE DEF k
<1>3. Snapped(k, row, points)
    BY <1>1, <1>2 DEF Snapped, k
<1>4. QED
    BY <1>3 DEF k

\* The steps of a worker that write neither tables nor scores.
LEMMA LocalBooks ==
    ASSUME IInv, BooksInv, NEW w \in Worker,
           \/ LoadContest(w) \/ List(w) \/ Decide(w) \/ Finish(w)
           \/ \E e \in Event : Claim(w, e) \/ Debit(w, e)
    PROVE  BooksInv'
<1>1. /\ Shape /\ IsJob(work[w]) /\ IsTx(tx[w]) /\ Snapped(work[w], row, points) /\ Awarded(tx[w])
    BY DEF IInv, WorkerOK, BooksInv
<1>2. UNCHANGED <<row, points, ledger, score>>
    BY DEF LoadContest, List, Decide, Finish, Claim, Debit, storeVars
<1>3. CASE LoadContest(w)
    <2>1. PICK j : Now(w, j) /\ j.task # "reverse" /\ tx' = tx
        BY <1>1, <1>3 DEF LoadContest, IsJob, Work
    <2>2. work'[w] = j /\ \A v \in Worker \ {w} : work'[v] = work[v]
        BY <1>1, <2>1, NowFrame
    <2>3. Snapped(work'[w], row, points) /\ Awarded(tx'[w])
        BY <1>1, <2>1, <2>2 DEF Snapped
    <2>4. QED
        BY <1>2, <2>1, <2>2, <2>3, BooksOfOne
<1>4. CASE List(w)
    <2>1. Now(w, Listed(w)) /\ tx' = tx /\ work[w] \in Work /\ work[w].task \in {"held", "expel", "reconcile"}
        BY <1>1, <1>4 DEF List, IsJob
    <2>2. work'[w] = Listed(w) /\ \A v \in Worker \ {w} : work'[v] = work[v]
        BY <1>1, <2>1, NowFrame
    <2>3. Snapped(Listed(w), row, points)
        <3>1. CASE work[w].task = "expel"
            <4> DEFINE E == work[w].todo \cap RowsAt("VALID")
            <4>1. Listed(w) = Loaded(work[w], E) /\ E \in SUBSET Event
                BY <3>1 DEF Listed, RowsAt
            <4>2. Snapped(Loaded(work[w], E), row, points)
                BY <2>1, <4>1, LoadedBooks
            <4>3. QED
                BY <4>1, <4>2
        <3>2. CASE work[w].task # "expel"
            <4>1. Listed(w).task # "reverse"
                BY <2>1, <3>2 DEF Listed, Work
            <4>2. QED
                BY <4>1 DEF Snapped
        <3>3. QED
            BY <3>1, <3>2
    <2>4. QED
        BY <1>1, <1>2, <2>1, <2>2, <2>3, BooksOfOne
<1>5. CASE Decide(w)
    <2>1. PICK t : tx' = [tx EXCEPT ![w] = t] /\ Awarded(t)
        <3>1. PICK risk \in RiskOutcomes :
                tx' = [tx EXCEPT ![w] =
                    [stage |-> "decided", event |-> tx[w].event,
                     verdict |-> Verdict(w, tx[w].event, risk),
                     award |-> IF Verdict(w, tx[w].event, risk) = "VALID"
                               THEN applyCaps(tx[w].event) ELSE 0]]
            BY <1>5 DEF Decide
        <3> DEFINE t == [stage |-> "decided", event |-> tx[w].event,
                         verdict |-> Verdict(w, tx[w].event, risk),
                         award |-> IF Verdict(w, tx[w].event, risk) = "VALID"
                                   THEN applyCaps(tx[w].event) ELSE 0]
        <3>2. Awarded(t)
            BY DEF Awarded
        <3>3. QED
            BY <3>1, <3>2
    <2>2. work' = work /\ tx'[w] = t /\ \A v \in Worker \ {w} : tx'[v] = tx[v]
        BY <1>1, <1>5, <2>1, TxFrame DEF Decide
    <2>3. QED
        BY <1>1, <1>2, <2>1, <2>2, BooksOfOne
<1>6. CASE Finish(w)
    <2>1. PICK j : Now(w, j) /\ j.task # "reverse" /\ tx' = tx
        BY <1>1, <1>6 DEF Finish, IsJob, Work, Idle
    <2>2. work'[w] = j /\ \A v \in Worker \ {w} : work'[v] = work[v]
        BY <1>1, <2>1, NowFrame
    <2>3. Snapped(work'[w], row, points) /\ Awarded(tx'[w])
        BY <1>1, <2>1, <2>2 DEF Snapped
    <2>4. QED
        BY <1>2, <2>1, <2>2, <2>3, BooksOfOne
<1>7. ASSUME NEW e \in Event, Claim(w, e)
      PROVE  BooksInv'
    <2>1. Now(w, Took(w, e))
        BY <1>7 DEF Claim
    <2>2. work'[w] = Took(w, e) /\ \A v \in Worker \ {w} : work'[v] = work[v]
        BY <1>1, <2>1, NowFrame
    <2>3. Snapped(work'[w], row, points)
        BY <1>1, <2>2 DEF Took, Snapped, IsJob, Work
    <2>4. Awarded(tx'[w]) /\ \A v \in Worker \ {w} : tx'[v] = tx[v]
        <3>1. CASE claimEventForScoring(e, w)
            <4>1. tx' = [tx EXCEPT ![w] = [stage |-> "claimed", event |-> e]]
                BY <1>7, <3>1 DEF Claim
            <4>2. tx'[w] = [stage |-> "claimed", event |-> e] /\ \A v \in Worker \ {w} : tx'[v] = tx[v]
                BY <1>1, <4>1, TxFrame
            <4>3. QED
                BY <4>2 DEF Awarded
        <3>2. CASE ~claimEventForScoring(e, w)
            BY <1>1, <1>7, <3>2 DEF Claim
        <3>3. QED
            BY <3>1, <3>2
    <2>5. QED
        BY <1>2, <2>2, <2>3, <2>4, BooksOfOne
<1>8. ASSUME NEW e \in Event, Debit(w, e)
      PROVE  BooksInv'
    <2>1. tx' = [tx EXCEPT ![w] = [stage |-> "debiting", event |-> e]] /\ work' = work
        BY <1>8 DEF Debit
    <2>2. tx'[w] = [stage |-> "debiting", event |-> e] /\ \A v \in Worker \ {w} : tx'[v] = tx[v]
        BY <1>1, <2>1, TxFrame
    <2>3. Awarded(tx'[w])
        BY <2>2 DEF Awarded
    <2>4. QED
        BY <1>1, <1>2, <2>1, <2>2, <2>3, BooksOfOne
<1>9. QED
    BY <1>3, <1>4, <1>5, <1>6, <1>7, <1>8

LEMMA StopBooks ==
    ASSUME IInv, BooksInv, NEW w \in Worker, Stop(w)
    PROVE  BooksInv'
<1>1. Shape /\ UNCHANGED <<row, points, ledger, score>> /\ Now(w, Idle) /\ tx' = [tx EXCEPT ![w] = NoTx]
    BY DEF IInv, Stop, storeVars, Now
<1>2. work'[w] = Idle /\ \A v \in Worker \ {w} : work'[v] = work[v]
    BY <1>1, NowFrame
<1>3. tx'[w] = NoTx /\ \A v \in Worker \ {w} : tx'[v] = tx[v]
    BY <1>1, TxFrame
<1>4. QED
    BY <1>1, <1>2, <1>3, IdleBooks, BooksOfOne

\* Rows are released and recorded.
LEMMA RecordBooks ==
    ASSUME IInv, BooksInv, NEW w \in Worker, NEW e \in Event, Release(w, e) \/ Replay(w, e)
    PROVE  BooksInv'
<1>1. Shape /\ IsJob(work[w]) /\ UNCHANGED <<points, ledger, score, tx>> /\ row \in [Event -> Status]
    BY DEF IInv, WorkerOK, Release, Replay, Shape
<1>2. PICK j : Now(w, j) /\ j.task # "reverse"
    <2>1. CASE Release(w, e)
        <3> DEFINE j == [Took(w, e) EXCEPT !.due = {e}]
        <3>1. j.task = "release"
            BY <1>1, <2>1 DEF Release, Took, IsJob, Work
        <3>2. QED
            BY <2>1, <3>1 DEF Release
    <2>2. CASE Replay(w, e)
        <3> DEFINE j == [Took(w, e) EXCEPT !.due = IF row[e] = "absent" THEN {e} ELSE {}]
        <3>1. j.task = "replay"
            BY <1>1, <2>2 DEF Replay, Took, IsJob, Work
        <3>2. QED
            BY <2>2, <3>1 DEF Replay
    <2>3. QED
        BY <2>1, <2>2
<1>3. work'[w] = j /\ \A v \in Worker \ {w} : work'[v] = work[v]
    BY <1>1, <1>2, NowFrame
<1>4. \/ row' = row
      \/ row' = [row EXCEPT ![e] = "PENDING"] /\ row[e] \notin Credited
    BY DEF Release, Replay, SetPending, insertPendingEvent, Credited
<1>5. CASE row' = row
    <2>1. Snapped(work'[w], row, points) /\ Awarded(tx'[w])
        BY <1>1, <1>2, <1>3 DEF Snapped, BooksInv
    <2>2. QED
        BY <1>1, <1>3, <1>5, <2>1, BooksOfOne
<1>6. CASE row' = [row EXCEPT ![e] = "PENDING"] /\ row[e] \notin Credited
    BY <1>1, <1>2, <1>3, <1>6, BooksOfPending
<1>7. QED
    BY <1>4, <1>5, <1>6

LEMMA TakeJobBooks ==
    ASSUME IInv, RouteTypes, BooksInv, NEW w \in Worker, NEW j \in jobs, TakeJob(w, j)
    PROVE  BooksInv'
<1>1. /\ Shape /\ work[w].task = "idle" /\ j.events \subseteq Event /\ row \in [Event -> Status]
      /\ UNCHANGED <<points, ledger, score, tx>> /\ Awarded(tx[w])
    BY DEF IInv, TakeJob, RouteTypes, BooksInv, Shape
<1>2. CASE UNCHANGED <<row, work>>
    <2>1. \A v \in Worker : Snapped(work'[v], row, points) /\ Awarded(tx'[v])
        BY <1>1, <1>2 DEF BooksInv
    <2>2. QED
        BY <1>1, <1>2, <2>1, BooksStep
<1>3. CASE processEngagement(w, j)
    <2>1. ASSUME NEW e \in j.events, insertPendingEvent(e),
                 IF row[e] = "absent"
                 THEN Now(w, [Idle EXCEPT !.task = "engage", !.due = {e}, !.seen = "ACTIVE"])
                 ELSE UNCHANGED work
          PROVE  BooksInv'
        <3>1. CASE row[e] # "absent"
            BY <1>2, <2>1, <3>1 DEF insertPendingEvent
        <3>2. CASE row[e] = "absent"
            <4> DEFINE k == [Idle EXCEPT !.task = "engage", !.due = {e}, !.seen = "ACTIVE"]
            <4>1. /\ Now(w, k) /\ k.task = "engage" /\ row' = [row EXCEPT ![e] = "PENDING"]
                  /\ row[e] \notin Credited /\ e \in Event
                BY <1>1, <2>1, <3>2 DEF insertPendingEvent, Credited, Idle
            <4> HIDE DEF k
            <4>2. work'[w] = k /\ \A v \in Worker \ {w} : work'[v] = work[v]
                BY <1>1, <4>1, NowFrame
            <4>3. work'[w].task # "reverse"
                BY <4>1, <4>2
            <4>4. QED
                BY <1>1, <4>1, <4>2, <4>3, BooksOfPending
        <3>3. QED
            BY <3>1, <3>2
    <2>2. QED
        BY <1>2, <1>3, <2>1 DEF processEngagement
<1>4. CASE processReversal(w, j)
    <2> DEFINE E == {e \in j.events : row[e] \in {"VALID", "PENDING_REVIEW"}}
    <2>1. Now(w, Loaded(Idle, E)) /\ row' = row /\ E \in SUBSET Event /\ Idle \in Work
        BY <1>1, <1>4 DEF processReversal, Idle, Work, Tasks
    <2> HIDE DEF E
    <2>2. work'[w] = Loaded(Idle, E) /\ \A v \in Worker \ {w} : work'[v] = work[v]
        BY <1>1, <2>1, NowFrame
    <2>3. Snapped(work'[w], row, points) /\ Awarded(tx'[w])
        BY <1>1, <2>1, <2>2, LoadedBooks
    <2>4. QED
        BY <1>1, <2>1, <2>2, <2>3, BooksOfOne
<1>5. QED
    BY <1>3, <1>4 DEF TakeJob

\* Final scores, recomputed from the ledger, are the ones already on record.
LEMMA FinalizeBooks ==
    ASSUME BooksInv, finalizeContest
    PROVE  UNCHANGED <<row, points, ledger, score, work, tx>>
<1>1. UNCHANGED <<row, points, ledger, work, tx>>
    BY DEF finalizeContest
<1>2. ASSUME NEW p \in Participant
      PROVE  LedgerTotal(p) = score[p]
    <2> DEFINE a == Side(ledger, p, "CREDIT") - Side(ledger, p, "DEBIT")
    <2>1. LedgerTotal(p) = Max({0, a})
        BY SumsOfTables DEF BooksInv
    <2>2. score[p] = a /\ score[p] \in Nat
        BY DEF BooksInv, Balanced
    <2> HIDE DEF a
    <2>3. QED
        BY <2>1, <2>2, MaxOfZero
<1>3. score' = score
    BY <1>2 DEF finalizeContest, finalizeStandings, BooksInv
<1>4. QED
    BY <1>1, <1>3

LEMMA BooksInvInit == Init => BooksInv
<1> SUFFICES ASSUME Init PROVE BooksInv
    OBVIOUS
<1>1. /\ row = [e \in Event |-> "absent"] /\ points = [e \in Event |-> 0] /\ ledger = {}
      /\ score = [p \in Participant |-> 0]
    BY DEF Init, StoreInit
<1>2. RowsAt("VALID") = {} /\ IsFiniteSet(RowsAt("VALID")) /\ IsFiniteSet(ledger)
    BY <1>1, FS_EmptySet DEF RowsAt
<1>3. Balanced(ledger, score, row, points)
    <2>1. ASSUME NEW p, NEW d
          PROVE  Side(ledger, p, d) = 0
        <3>1. {l \in ledger : Earner[l.event] = p /\ l.direction = d} = {}
            BY <1>1
        <3>2. QED
            BY <3>1, SumEmpty DEF Side
    <2>2. ASSUME NEW p
          PROVE  Banked(row, points, EarnedBy(p)) = 0
        <3>1. {e \in EarnedBy(p) : row[e] = "VALID"} = {}
            BY <1>1 DEF EarnedBy
        <3>2. QED
            BY <3>1, SumEmpty DEF Banked
    <2>3. QED
        BY <1>1, <2>1, <2>2 DEF Balanced
<1>4. \A w \in Worker : Snapped(work[w], row, points) /\ Awarded(tx[w])
    BY IdleBooks DEF Init
<1>5. QED
    BY <1>1, <1>2, <1>3, <1>4 DEF BooksInv

LEMMA BooksInvNext ==
    ASSUME IInv, RouteTypes, BooksInv, [Next]_vars
    PROVE  BooksInv'
<1>1. CASE UNCHANGED <<row, points, ledger, score, work, tx>>
    <2>1. \A v \in Worker : Snapped(work'[v], row, points) /\ Awarded(tx'[v])
        BY <1>1 DEF BooksInv
    <2>2. QED
        BY <1>1, <2>1, BooksStep
<1>2. CASE Product
    <2>1. UNCHANGED <<row, points, ledger, score, work, tx>>
        BY <1>2 DEF Product, Interact, Undo, DeleteContent, storeVars
    <2>2. QED
        BY <1>1, <2>1
<1>3. CASE Operator
    <2>1. CASE Freeze \/ Cancel \/ \E p \in Participant : Reinstate(p)
        <3>1. UNCHANGED <<row, points, ledger, score, work, tx>>
            BY <2>1 DEF Freeze, Cancel, Reinstate, storeVars, engineVars
        <3>2. QED
            BY <1>1, <3>1
    <2>2. CASE finalizeContest
        BY <1>1, <2>2, FinalizeBooks
    <2>3. ASSUME NEW a \in Admin,
                 \/ StartReconcile(a)
                 \/ \E p \in Participant : Disqualify(a, p) \/ StartRelease(a, p)
          PROVE  BooksInv'
        <3>1. a \in Worker /\ Shape /\ UNCHANGED <<row, points, ledger, score, tx>>
            BY <2>3 DEF Worker, IInv, StartReconcile, Disqualify, StartRelease, storeVars
        <3>2. PICK j : Now(a, j) /\ j.task # "reverse"
            <4>1. CASE StartReconcile(a)
                <5> DEFINE j == [Idle EXCEPT !.task = "reconcile"]
                <5>1. j.task = "reconcile"
                    BY DEF Idle
                <5>2. QED
                    BY <4>1, <5>1 DEF StartReconcile
            <4>2. ASSUME NEW p \in Participant, Disqualify(a, p)
                  PROVE  \E j : Now(a, j) /\ j.task # "reverse"
                <5> DEFINE j == [Idle EXCEPT !.task = "expel", !.todo = EarnedBy(p)]
                <5>1. j.task = "expel"
                    BY DEF Idle
                <5>2. QED
                    BY <4>2, <5>1 DEF Disqualify
            <4>3. ASSUME NEW p \in Participant, StartRelease(a, p)
                  PROVE  \E j : Now(a, j) /\ j.task # "reverse"
                <5> DEFINE j == [Idle EXCEPT !.task = "held", !.todo = EarnedBy(p), !.seen = status]
                <5>1. j.task = "held"
                    BY DEF Idle
                <5>2. QED
                    BY <4>3, <5>1 DEF StartRelease
            <4>4. QED
                BY <2>3, <4>1, <4>2, <4>3
        <3>3. work'[a] = j /\ \A v \in Worker \ {a} : work'[v] = work[v]
            BY <3>1, <3>2, NowFrame
        <3>4. Snapped(work'[a], row, points) /\ Awarded(tx'[a])
            BY <3>1, <3>2, <3>3 DEF Snapped, BooksInv
        <3>5. QED
            BY <3>1, <3>3, <3>4, BooksOfOne
    <2>4. QED
        BY <1>3, <2>1, <2>2, <2>3 DEF Operator
<1>4. CASE Failure
    <2>1. ASSUME NEW j \in jobs, LoseJob(j) PROVE BooksInv'
        <3>1. UNCHANGED <<row, points, ledger, score, work, tx>>
            BY <2>1 DEF LoseJob, storeVars
        <3>2. QED
            BY <1>1, <3>1
    <2>2. ASSUME NEW w \in Worker, Crash(w) PROVE BooksInv'
        BY <2>2, StopBooks DEF Crash
    <2>3. QED
        BY <1>4, <2>1, <2>2 DEF Failure
<1>5. ASSUME NEW w \in Worker, Continue(w) PROVE BooksInv'
    <2>1. CASE Settle(w) \/ Reverse(w)
        BY <2>1, SettleBooks, ReverseBooks
    <2>2. CASE Deadlock(w)
        BY <2>2, StopBooks DEF Deadlock
    <2>3. CASE LoadContest(w) \/ List(w) \/ Decide(w) \/ Finish(w)
        BY <2>3, LocalBooks
    <2>4. ASSUME NEW e \in Event, Claim(w, e) \/ Debit(w, e) PROVE BooksInv'
        BY <2>4, LocalBooks
    <2>5. ASSUME NEW e \in Event, Release(w, e) \/ Replay(w, e) PROVE BooksInv'
        BY <2>5, RecordBooks
    <2>6. QED
        BY <1>5, <2>1, <2>2, <2>3, <2>4, <2>5 DEF Continue
<1>6. ASSUME NEW w \in Worker, processSweep(w) PROVE BooksInv'
    <2>1. /\ Shape /\ work[w].task = "idle" /\ UNCHANGED <<row, points, ledger, score, tx>>
        BY <1>6 DEF IInv, processSweep, storeVars
    <2>2. CASE UNCHANGED work
        BY <1>1, <2>1, <2>2
    <2>3. CASE Now(w, [Idle EXCEPT !.task = "sweep", !.todo = Orphans])
        <3>1. PICK j : Now(w, j) /\ j.task # "reverse"
            <4> DEFINE j == [Idle EXCEPT !.task = "sweep", !.todo = Orphans]
            <4>1. j.task = "sweep"
                BY DEF Idle
            <4>2. QED
                BY <2>3, <4>1
        <3>2. work'[w] = j /\ \A v \in Worker \ {w} : work'[v] = work[v]
            BY <2>1, <3>1, NowFrame
        <3>3. Snapped(work'[w], row, points) /\ Awarded(tx'[w])
            BY <2>1, <3>1, <3>2 DEF Snapped, BooksInv
        <3>4. QED
            BY <2>1, <3>2, <3>3, BooksOfOne
    <2>4. QED
        BY <1>6, <2>2, <2>3 DEF processSweep
<1>7. ASSUME NEW w \in Worker, NEW j \in jobs, TakeJob(w, j) PROVE BooksInv'
    BY <1>7, TakeJobBooks
<1>8. CASE UNCHANGED vars
    BY <1>1, <1>8 DEF vars, storeVars, engineVars
<1>9. QED
    BY <1>2, <1>3, <1>4, <1>5, <1>6, <1>7, <1>8 DEF Next

LEMMA Books == Spec => [](IInv /\ RouteTypes /\ BooksInv)
<1>1. Init => IInv /\ RouteTypes /\ BooksInv
    BY InitIInv, BooksInvInit
<1>2. IInv /\ RouteTypes /\ BooksInv /\ [Next]_vars => (IInv /\ RouteTypes /\ BooksInv)'
    BY NextIInv, NextRouteTypes, BooksInvNext
<1>3. QED
    BY <1>1, <1>2, PTL DEF Spec

\* The cached current_score is what recomputing it from contest_score_ledger
\* gives, at every moment and for any number of drain loops, admin requests,
\* crashes and deadlocks: clamping it at zero never loses a point.
THEOREM ScoreMatchesLedgerHolds == Spec => []ScoreMatchesLedger
<1>1. ASSUME BooksInv
      PROVE  ScoreMatchesLedger
    <2>1. SUFFICES ASSUME NEW p \in Participant
                   PROVE  score[p] = LedgerTotal(p)
        BY DEF ScoreMatchesLedger
    <2> DEFINE a == Side(ledger, p, "CREDIT") - Side(ledger, p, "DEBIT")
    <2>2. LedgerTotal(p) = Max({0, a})
        BY <1>1, SumsOfTables DEF BooksInv
    <2>3. score[p] = a /\ score[p] \in Nat
        BY <1>1 DEF BooksInv, Balanced
    <2> HIDE DEF a
    <2>4. QED
        BY <2>2, <2>3, MaxOfZero
<1>2. QED
    BY <1>1, Books, PTL

-----------------------------------------------------------------------------
(* The caps.                                                               *)

\* Stages of a transaction that hold the lock on its earner's row.
Locking == {"decided", "debiting"}

Within(r, n) ==
    \A p \in Participant :
        /\ Banked(r, n, EarnedBy(p)) <= DailyCap
        /\ \A s \in Source : Banked(r, n, BySource(p, s)) <= EntityCap

\* What a scoring transaction is about to award still fits.
Room(t, r, n) ==
    t.stage = "decided" /\ t.verdict = "VALID" =>
        /\ Banked(r, n, EarnedBy(Earner[t.event])) + t.award <= DailyCap
        /\ Banked(r, n, BySource(Earner[t.event], SourceOf[t.event])) + t.award <= EntityCap

\* An earner's row is locked by one transaction.
OneLock(v, w) ==
    v # w /\ tx[v].stage \in Locking /\ tx[w].stage \in Locking =>
        Earner[tx[v].event] # Earner[tx[w].event]

CapsInv ==
    /\ Within(row, points)
    /\ \A w \in Worker : Room(tx[w], row, points)
    /\ \A v, w \in Worker : OneLock(v, w)

LEMMA BankedPart ==
    ASSUME NEW r, NEW n \in [Event -> Nat], IsFiniteSet(ValidRows(r)),
           NEW H \in SUBSET Event, NEW K \in SUBSET H
    PROVE  Banked(r, n, K) <= Banked(r, n, H)
<1> DEFINE S == {e \in H : r[e] = "VALID"}
           T == {e \in K : r[e] = "VALID"}
<1>1. IsFiniteSet(S) /\ T \in SUBSET S /\ \A x \in S : n[x] \in Nat
    BY FS_Subset DEF ValidRows
<1> HIDE DEF S, T
<1>2. SumOver(n, T) <= SumOver(n, S)
    BY <1>1, SumPart
<1> USE DEF S, T
<1>3. QED
    BY <1>2 DEF Banked

\* A row that stays or stops being VALID with the points it has takes no room.
LEMMA BankedLess ==
    ASSUME NEW r, NEW q, NEW n \in [Event -> Nat], NEW m \in [Event -> Nat],
           IsFiniteSet(ValidRows(r)), IsFiniteSet(ValidRows(q)), NEW e \in Event,
           q[e] # "VALID", SameBut(r, n, q, m, e)
    PROVE  \A K \in SUBSET Event : Banked(q, m, K) <= Banked(r, n, K)
<1>1. SUFFICES ASSUME NEW K \in SUBSET Event
               PROVE  Banked(q, m, K) <= Banked(r, n, K)
    OBVIOUS
<1>2. Banked(q, m, K) \in Nat /\ Banked(r, n, K) \in Nat
    BY BankedType
<1>3. CASE e \in K /\ r[e] = "VALID"
    <2>1. \A f \in K \ {e} : ((q[f] = "VALID") <=> (r[f] = "VALID")) /\ m[f] = n[f]
        BY DEF SameBut
    <2>2. Banked(r, n, K) = Banked(q, m, K) + n[e]
        BY <1>3, <2>1, BankedMore
    <2>3. n[e] \in Nat
        OBVIOUS
    <2>4. QED
        BY <1>2, <2>2, <2>3
<1>4. CASE ~(e \in K /\ r[e] = "VALID")
    <2>1. /\ \A f \in K : (r[f] = "VALID") <=> (q[f] = "VALID")
          /\ \A f \in K : r[f] = "VALID" => n[f] = m[f]
        BY <1>4 DEF SameBut
    <2>2. Banked(r, n, K) = Banked(q, m, K)
        BY <2>1, BankedSame
    <2>3. QED
        BY <1>2, <2>2
<1>5. QED
    BY <1>3, <1>4

\* A step that gives nothing more to any set of rows and locks no other earner.
LEMMA CapsKept ==
    ASSUME IInv, BooksInv, CapsInv, BooksInv', IInv',
           \A K \in SUBSET Event : Banked(row', points', K) <= Banked(row, points, K),
           \A v \in Worker : tx'[v] = tx[v] \/ tx'[v].stage \notin Locking
    PROVE  CapsInv'
<1>1. /\ points \in [Event -> Nat] /\ points' \in [Event -> Nat]
      /\ IsFiniteSet(ValidRows(row)) /\ IsFiniteSet(ValidRows(row'))
      /\ DailyCap \in Nat /\ EntityCap \in Nat
    BY StoreAssumption DEF IInv, Shape, BooksInv, RowsAt, ValidRows
<1>2. ASSUME NEW K \in SUBSET Event
      PROVE  Banked(row, points, K) \in Nat /\ Banked(row', points', K) \in Nat
    BY <1>1, BankedType
<1>3. /\ \A p \in Participant : EarnedBy(p) \in SUBSET Event
      /\ \A p \in Participant, s \in Source : BySource(p, s) \in SUBSET Event
    BY DEF EarnedBy, BySource
<1>4. Within(row', points')
    <2>1. ASSUME NEW p \in Participant
          PROVE  Banked(row', points', EarnedBy(p)) <= DailyCap
        <3>1. Banked(row, points, EarnedBy(p)) <= DailyCap
            BY DEF CapsInv, Within
        <3>2. QED
            BY <1>1, <1>2, <1>3, <3>1
    <2>2. ASSUME NEW p \in Participant, NEW s \in Source
          PROVE  Banked(row', points', BySource(p, s)) <= EntityCap
        <3>1. Banked(row, points, BySource(p, s)) <= EntityCap
            BY DEF CapsInv, Within
        <3>2. QED
            BY <1>1, <1>2, <1>3, <3>1
    <2>3. QED
        BY <2>1, <2>2 DEF Within
<1>5. ASSUME NEW v \in Worker
      PROVE  Room(tx'[v], row', points')
    <2>1. CASE tx'[v].stage \notin Locking
        BY <2>1 DEF Room, Locking
    <2>2. CASE tx'[v] = tx[v] /\ tx[v].stage = "decided" /\ tx[v].verdict = "VALID"
        <3> DEFINE p == Earner[tx[v].event]
                   s == SourceOf[tx[v].event]
        <3>1. tx[v].event \in Event /\ tx[v].award \in Nat
            BY <2>2 DEF IInv, WorkerOK, IsTx, Tx, NoTx
        <3>2. p \in Participant /\ s \in Source
            BY <3>1, StoreAssumption
        <3>3. /\ Banked(row, points, EarnedBy(p)) + tx[v].award <= DailyCap
              /\ Banked(row, points, BySource(p, s)) + tx[v].award <= EntityCap
            BY <2>2 DEF CapsInv, Room
        <3> HIDE DEF p, s
        <3>4. /\ Banked(row', points', EarnedBy(p)) <= Banked(row, points, EarnedBy(p))
              /\ Banked(row', points', BySource(p, s)) <= Banked(row, points, BySource(p, s))
              /\ Banked(row', points', EarnedBy(p)) \in Nat /\ Banked(row, points, EarnedBy(p)) \in Nat
              /\ Banked(row', points', BySource(p, s)) \in Nat
              /\ Banked(row, points, BySource(p, s)) \in Nat
            BY <1>2, <1>3, <3>2
        <3>5. /\ Banked(row', points', EarnedBy(p)) + tx[v].award <= DailyCap
              /\ Banked(row', points', BySource(p, s)) + tx[v].award <= EntityCap
            BY <1>1, <3>1, <3>3, <3>4
        <3> USE DEF p, s
        <3>6. QED
            BY <2>2, <3>5 DEF Room
    <2>3. CASE tx'[v] = tx[v] /\ ~(tx[v].stage = "decided" /\ tx[v].verdict = "VALID")
        BY <2>3 DEF Room
    <2>4. QED
        BY <2>1, <2>2, <2>3
<1>6. \A v, w \in Worker : OneLock(v, w)'
    BY DEF CapsInv, OneLock
<1>7. QED
    BY <1>4, <1>5, <1>6 DEF CapsInv

\* A transaction locks an earner nobody else has locked.
LEMMA CapsLock ==
    ASSUME IInv, BooksInv, CapsInv, UNCHANGED <<row, points>>, NEW w \in Worker,
           \A v \in Worker \ {w} : tx'[v] = tx[v],
           Room(tx'[w], row, points), EarnerFree(Earner[tx'[w].event])
    PROVE  CapsInv'
<1>1. Within(row', points')
    BY DEF CapsInv
<1>2. \A v \in Worker : Room(tx'[v], row', points')
    <2>1. SUFFICES ASSUME NEW v \in Worker, v # w
                   PROVE  Room(tx'[v], row, points)
        OBVIOUS
    <2>2. Room(tx[v], row, points) /\ tx'[v] = tx[v]
        BY <2>1 DEF CapsInv
    <2>3. QED
        BY <2>2
<1>3. \A v, u \in Worker : OneLock(v, u)'
    BY DEF CapsInv, OneLock, EarnerFree, InTx, Locking
<1>4. QED
    BY <1>1, <1>2, <1>3 DEF CapsInv

LEMMA DecideCaps ==
    ASSUME IInv, BooksInv, CapsInv, NEW w \in Worker, Decide(w)
    PROVE  CapsInv'
<1> DEFINE e == tx[w].event
<1>1. /\ Shape /\ e \in Event /\ EarnerFree(Earner[e]) /\ UNCHANGED <<row, points>>
    BY DEF IInv, Decide, InTx, WorkerOK, IsTx, Tx, NoTx, storeVars
<1>2. PICK risk \in RiskOutcomes :
        tx' = [tx EXCEPT ![w] =
                [stage |-> "decided", event |-> e, verdict |-> Verdict(w, e, risk),
                 award |-> IF Verdict(w, e, risk) = "VALID" THEN applyCaps(e) ELSE 0]]
    BY DEF Decide
<1> DEFINE t == [stage |-> "decided", event |-> e, verdict |-> Verdict(w, e, risk),
                 award |-> IF Verdict(w, e, risk) = "VALID" THEN applyCaps(e) ELSE 0]
<1>3. tx'[w] = t /\ \A v \in Worker \ {w} : tx'[v] = tx[v]
    BY <1>1, <1>2, TxFrame
<1>4. CASE t.verdict = "VALID"
    <2> DEFINE p == Earner[e]
               s == SourceOf[e]
               S == {f \in Event : SourceOf[f] = s}
    <2>1. p \in Participant /\ s \in Source /\ Worth[e] \in Int /\ DailyCap \in Int /\ EntityCap \in Int
        BY <1>1, StoreAssumption
    <2>2. applyCaps(e) = Min({Worth[e], EntityCap - sourceEntityPoints(e), DailyCap - pointsSince(p)})
        BY DEF applyCaps
    <2>3. /\ pointsSince(p) = Banked(row, points, EarnedBy(p))
          /\ sourceEntityPoints(e) = Banked(row, points, S)
        BY <1>1, <2>1, SumsOfTables DEF BooksInv
    <2>4. /\ points \in [Event -> Nat] /\ IsFiniteSet(ValidRows(row))
          /\ EarnedBy(p) \in SUBSET Event /\ S \in SUBSET Event /\ BySource(p, s) \in SUBSET S
        BY <1>1 DEF Shape, BooksInv, RowsAt, ValidRows, EarnedBy, BySource
    <2> HIDE DEF e, p, s, S
    <2>5. /\ Banked(row, points, EarnedBy(p)) \in Nat /\ Banked(row, points, S) \in Nat
          /\ Banked(row, points, BySource(p, s)) \in Nat
          /\ Banked(row, points, BySource(p, s)) <= Banked(row, points, S)
        <3>1. BySource(p, s) \in SUBSET Event
            BY <2>4
        <3>2. QED
            BY <2>4, <3>1, BankedType, BankedPart
    <2> DEFINE b == EntityCap - Banked(row, points, S)
               d == DailyCap - Banked(row, points, EarnedBy(p))
               a == applyCaps(e)
    <2>6. b \in Int /\ d \in Int
        BY <2>1, <2>5
    <2>7. a = Min({Worth[e], b, d})
        BY <2>2, <2>3
    <2> HIDE DEF a, b, d
    <2>8. a \in {Worth[e], b, d} /\ a <= b /\ a <= d
        BY <2>1, <2>6, <2>7, MinOfThree
    <2>9. a \in Int
        BY <2>1, <2>6, <2>8
    <2> USE DEF b, d
    <2>10. /\ Banked(row, points, EarnedBy(p)) + a <= DailyCap
           /\ Banked(row, points, BySource(p, s)) + a <= EntityCap
        BY <2>1, <2>5, <2>8, <2>9
    <2>11. t.award = a /\ t.event = e
        BY <1>4 DEF a
    <2>12. Room(t, row, points)
        BY <2>10, <2>11 DEF Room, p, s
    <2>13. QED
        BY <1>1, <1>3, <2>12, CapsLock DEF e
<1>5. CASE t.verdict # "VALID"
    <2>1. Room(t, row, points)
        BY <1>5 DEF Room
    <2>2. QED
        BY <1>1, <1>3, <2>1, CapsLock
<1>6. QED
    BY <1>4, <1>5

LEMMA DebitCaps ==
    ASSUME IInv, BooksInv, CapsInv, NEW w \in Worker, NEW e \in Event, Debit(w, e)
    PROVE  CapsInv'
<1> DEFINE t == [stage |-> "debiting", event |-> e]
<1>1. Shape /\ EarnerFree(Earner[e]) /\ UNCHANGED <<row, points>> /\ tx' = [tx EXCEPT ![w] = t]
    BY DEF IInv, Debit, storeVars
<1>2. tx'[w] = t /\ \A v \in Worker \ {w} : tx'[v] = tx[v]
    BY <1>1, TxFrame
<1>3. Room(t, row, points) /\ t.event = e
    BY DEF Room
<1>4. QED
    BY <1>1, <1>2, <1>3, CapsLock

LEMMA SettleCaps ==
    ASSUME IInv, BooksInv, CapsInv, NEW w \in Worker, Settle(w), IInv', BooksInv'
    PROVE  CapsInv'
<1> DEFINE e == tx[w].event
           v == tx[w].verdict
<1>1. /\ Shape /\ e \in Event /\ row[e] = "PENDING" /\ tx[w].stage = "decided"
      /\ v \in Status /\ tx[w].award \in Nat
    BY DEF IInv, Settle, InTx, WorkerOK, IsTx, Tx, NoTx, ScoringOK, Scoring
<1>2. /\ row \in [Event -> Status] /\ points \in [Event -> Nat] /\ points' \in [Event -> Nat]
      /\ IsFiniteSet(ValidRows(row)) /\ IsFiniteSet(ValidRows(row'))
    BY <1>1 DEF IInv, Shape, BooksInv, RowsAt, ValidRows
<1>3. row'[e] = v /\ points'[e] = tx[w].award /\ SameBut(row, points, row', points', e)
    <2>1. row' = [row EXCEPT ![e] = v] /\ points' = [points EXCEPT ![e] = tx[w].award]
        BY DEF Settle, settleEvent
    <2>2. QED
        BY <1>1, <1>2, <2>1 DEF SameBut
<1>4. tx'[w] = NoTx /\ \A u \in Worker \ {w} : tx'[u] = tx[u]
    BY <1>1, TxFrame DEF Settle
<1>5. \A u \in Worker : tx'[u] = tx[u] \/ tx'[u].stage \notin Locking
    BY <1>4 DEF NoTx, Locking
<1>6. CASE v # "VALID"
    <2> HIDE DEF e
    <2>1. \A K \in SUBSET Event : Banked(row', points', K) <= Banked(row, points, K)
        BY <1>1, <1>2, <1>3, <1>6, BankedLess
    <2>2. QED
        BY <1>5, <2>1, CapsKept
<1>7. CASE v = "VALID"
    <2> DEFINE o == Earner[e]
               c == SourceOf[e]
               a == tx[w].award
    <2>1. /\ o \in Participant /\ c \in Source /\ DailyCap \in Nat /\ EntityCap \in Nat
          /\ \A p \in Participant : EarnedBy(p) \in SUBSET Event
          /\ \A p \in Participant, s \in Source : BySource(p, s) \in SUBSET Event
        BY <1>1, StoreAssumption DEF EarnedBy, BySource
    \* Only sets with e in them gain, and no more than the award.
    <2>2. ASSUME NEW K \in SUBSET Event, e \notin K
          PROVE  Banked(row', points', K) = Banked(row, points, K)
        BY <1>2, <1>3, <2>2, BankedOthers
    <2>3. ASSUME NEW K \in SUBSET Event, e \in K
          PROVE  Banked(row', points', K) = Banked(row, points, K) + a
        <3>1. /\ row[e] # "VALID" /\ row'[e] = "VALID"
              /\ \A f \in K \ {e} : ((row[f] = "VALID") <=> (row'[f] = "VALID")) /\ points[f] = points'[f]
            BY <1>1, <1>3, <1>7 DEF SameBut
        <3> HIDE DEF e
        <3>2. Banked(row', points', K) = Banked(row, points, K) + points'[e]
            BY <1>2, <2>3, <3>1, BankedMore
        <3>3. QED
            BY <1>3, <3>2
    <2>4. /\ Banked(row, points, EarnedBy(o)) + a <= DailyCap
          /\ Banked(row, points, BySource(o, c)) + a <= EntityCap
        BY <1>1, <1>7 DEF CapsInv, Room
    <2>5. e \in EarnedBy(o) /\ e \in BySource(o, c)
        BY <1>1 DEF EarnedBy, BySource
    <2>6. Within(row', points')
        <3>1. ASSUME NEW p \in Participant
              PROVE  Banked(row', points', EarnedBy(p)) <= DailyCap
            <4>1. CASE p = o
                BY <2>1, <2>3, <2>4, <2>5, <4>1
            <4>2. CASE p # o
                <5>1. e \notin EarnedBy(p)
                    BY <4>2 DEF EarnedBy
                <5>2. QED
                    BY <2>1, <2>2, <5>1 DEF CapsInv, Within
            <4>3. QED
                BY <4>1, <4>2
        <3>2. ASSUME NEW p \in Participant, NEW s \in Source
              PROVE  Banked(row', points', BySource(p, s)) <= EntityCap
            <4>1. CASE p = o /\ s = c
                BY <2>1, <2>3, <2>4, <2>5, <4>1
            <4>2. CASE p # o \/ s # c
                <5>1. e \notin BySource(p, s)
                    BY <4>2 DEF BySource, EarnedBy
                <5>2. QED
                    BY <2>1, <2>2, <5>1 DEF CapsInv, Within
            <4>3. QED
                BY <4>1, <4>2
        <3>3. QED
            BY <3>1, <3>2 DEF Within
    <2>7. ASSUME NEW u \in Worker
          PROVE  Room(tx'[u], row', points')
        <3>1. CASE u = w
            BY <1>4, <3>1 DEF Room, NoTx
        <3>2. CASE u # w /\ tx[u].stage = "decided" /\ tx[u].verdict = "VALID"
            <4> DEFINE p == Earner[tx[u].event]
                       s == SourceOf[tx[u].event]
            <4>1. tx'[u] = tx[u] /\ p \in Participant /\ s \in Source
                BY <1>4, <3>2, StoreAssumption DEF IInv, WorkerOK, IsTx, Tx, NoTx
            <4>2. p # o
                BY <1>1, <3>2 DEF CapsInv, OneLock, Locking
            <4>3. e \notin EarnedBy(p) /\ e \notin BySource(p, s)
                BY <4>2 DEF EarnedBy, BySource
            <4>4. /\ Banked(row', points', EarnedBy(p)) = Banked(row, points, EarnedBy(p))
                  /\ Banked(row', points', BySource(p, s)) = Banked(row, points, BySource(p, s))
                BY <2>1, <2>2, <4>1, <4>3
            <4>5. Room(tx[u], row, points)
                BY DEF CapsInv
            <4>6. QED
                BY <4>1, <4>4, <4>5 DEF Room
        <3>3. CASE u # w /\ ~(tx[u].stage = "decided" /\ tx[u].verdict = "VALID")
            BY <1>4, <3>3 DEF Room
        <3>4. QED
            BY <3>1, <3>2, <3>3
    <2>8. \A u, x \in Worker : OneLock(u, x)'
        BY <1>5 DEF CapsInv, OneLock
    <2>9. QED
        BY <2>6, <2>7, <2>8 DEF CapsInv
<1>8. QED
    BY <1>6, <1>7

LEMMA ReverseCaps ==
    ASSUME IInv, BooksInv, CapsInv, NEW w \in Worker, Reverse(w), IInv', BooksInv'
    PROVE  CapsInv'
<1> DEFINE e == tx[w].event
<1>1. Shape /\ e \in Event
    BY DEF IInv, Reverse, InTx, WorkerOK, IsTx, Tx, NoTx
<1>2. /\ row \in [Event -> Status] /\ points \in [Event -> Nat] /\ points' \in [Event -> Nat]
      /\ IsFiniteSet(ValidRows(row)) /\ IsFiniteSet(ValidRows(row'))
    BY DEF IInv, Shape, BooksInv, RowsAt, ValidRows
<1>3. row'[e] = "REVERSED" /\ SameBut(row, points, row', points', e)
    <2>1. row' = [row EXCEPT ![e] = "REVERSED"] /\ points' = [points EXCEPT ![e] = work[w].snap[e]]
        BY DEF Reverse, settleEvent
    <2>2. QED
        BY <1>1, <1>2, <2>1 DEF SameBut
<1>4. tx'[w] = NoTx /\ \A u \in Worker \ {w} : tx'[u] = tx[u]
    BY <1>1, TxFrame DEF Reverse
<1>5. \A u \in Worker : tx'[u] = tx[u] \/ tx'[u].stage \notin Locking
    BY <1>4 DEF NoTx, Locking
<1> HIDE DEF e
<1>6. \A K \in SUBSET Event : Banked(row', points', K) <= Banked(row, points, K)
    BY <1>1, <1>2, <1>3, BankedLess
<1>7. QED
    BY <1>5, <1>6, CapsKept

\* The step makes no row VALID and locks no earner.
LEMMA CapsQuiet ==
    ASSUME IInv, BooksInv, CapsInv, BooksInv', IInv', points' = points,
           \A f \in Event : (row[f] = "VALID") <=> (row'[f] = "VALID"),
           \A v \in Worker : tx'[v] = tx[v] \/ tx'[v].stage \notin Locking
    PROVE  CapsInv'
<1>1. points \in [Event -> Nat] /\ IsFiniteSet(ValidRows(row))
    BY DEF IInv, Shape, BooksInv, RowsAt, ValidRows
<1>2. ASSUME NEW K \in SUBSET Event
      PROVE  Banked(row', points', K) <= Banked(row, points, K)
    <2>1. {f \in K : row'[f] = "VALID"} = {f \in K : row[f] = "VALID"}
        OBVIOUS
    <2>2. Banked(row', points', K) = Banked(row, points, K)
        BY <2>1 DEF Banked
    <2>3. Banked(row, points, K) \in Nat
        BY <1>1, BankedType
    <2>4. QED
        BY <2>2, <2>3
<1>3. QED
    BY <1>2, CapsKept

\* Recording and releasing leave the VALID rows alone.
LEMMA PendingNotValid ==
    ASSUME row \in [Event -> Status], NEW e \in Event, insertPendingEvent(e) \/ SetPending(e)
    PROVE  \A f \in Event : (row[f] = "VALID") <=> (row'[f] = "VALID")
<1>1. row' = row \/ (row[e] # "VALID" /\ row' = [row EXCEPT ![e] = "PENDING"])
    BY DEF insertPendingEvent, SetPending
<1>2. QED
    BY <1>1

LEMMA CapsInvInit == Init => CapsInv
<1> SUFFICES ASSUME Init PROVE CapsInv
    OBVIOUS
<1>1. /\ row = [e \in Event |-> "absent"] /\ DailyCap \in Nat /\ EntityCap \in Nat
      /\ tx = [w \in Worker |-> NoTx]
    BY StoreAssumption DEF Init, StoreInit
<1>2. ASSUME NEW K \in SUBSET Event
      PROVE  Banked(row, points, K) = 0
    <2>1. {e \in K : row[e] = "VALID"} = {}
        BY <1>1
    <2>2. QED
        BY <2>1, SumEmpty DEF Banked
<1>3. /\ \A p \in Participant : EarnedBy(p) \in SUBSET Event
      /\ \A p \in Participant, s \in Source : BySource(p, s) \in SUBSET Event
    BY DEF EarnedBy, BySource
<1>4. Within(row, points)
    BY <1>1, <1>2, <1>3 DEF Within
<1>5. /\ \A w \in Worker : Room(tx[w], row, points)
      /\ \A v, w \in Worker : OneLock(v, w)
    BY <1>1 DEF Room, OneLock, NoTx, Locking
<1>6. QED
    BY <1>4, <1>5 DEF CapsInv

LEMMA CapsInvNext ==
    ASSUME IInv, RouteTypes, BooksInv, CapsInv, [Next]_vars, IInv', BooksInv'
    PROVE  CapsInv'
<1>0. Shape /\ row \in [Event -> Status]
    BY DEF IInv, Shape
<1>1. CASE UNCHANGED <<row, points, tx>>
    BY <1>1, CapsQuiet
<1>2. CASE Product
    BY <1>1, <1>2 DEF Product, Interact, Undo, DeleteContent, storeVars
<1>3. CASE Operator
    <2>1. UNCHANGED <<row, points, tx>>
        BY <1>3 DEF Operator, Freeze, Cancel, finalizeContest, Reinstate, StartReconcile,
                    Disqualify, StartRelease, storeVars, engineVars
    <2>2. QED
        BY <1>1, <2>1
<1>4. ASSUME NEW w \in Worker, Stop(w) PROVE CapsInv'
    <2>1. UNCHANGED <<row, points>> /\ tx' = [tx EXCEPT ![w] = NoTx]
        BY <1>4 DEF Stop, storeVars
    <2>2. tx'[w] = NoTx /\ \A v \in Worker \ {w} : tx'[v] = tx[v]
        BY <1>0, <2>1, TxFrame
    <2>3. \A v \in Worker : tx'[v] = tx[v] \/ tx'[v].stage \notin Locking
        BY <2>2 DEF NoTx, Locking
    <2>4. QED
        BY <2>1, <2>3, CapsQuiet
<1>5. CASE Failure
    <2>1. ASSUME NEW j \in jobs, LoseJob(j) PROVE CapsInv'
        BY <1>1, <2>1 DEF LoseJob, storeVars
    <2>2. QED
        BY <1>4, <1>5, <2>1 DEF Failure, Crash
<1>6. ASSUME NEW w \in Worker, Continue(w) PROVE CapsInv'
    <2>1. CASE LoadContest(w) \/ List(w) \/ Finish(w)
        BY <1>1, <2>1 DEF LoadContest, List, Finish, storeVars
    <2>2. CASE Decide(w) \/ Settle(w) \/ Reverse(w)
        BY <2>2, DecideCaps, SettleCaps, ReverseCaps
    <2>3. CASE Deadlock(w)
        BY <1>4, <2>3 DEF Deadlock
    <2>4. ASSUME NEW e \in Event, Claim(w, e) PROVE CapsInv'
        <3>1. UNCHANGED <<row, points>>
            BY <2>4 DEF Claim, storeVars
        <3>2. \A v \in Worker : tx'[v] = tx[v] \/ tx'[v].stage \notin Locking
            <4>1. CASE claimEventForScoring(e, w)
                <5>1. tx' = [tx EXCEPT ![w] = [stage |-> "claimed", event |-> e]]
                    BY <2>4, <4>1 DEF Claim
                <5>2. tx'[w] = [stage |-> "claimed", event |-> e] /\ \A v \in Worker \ {w} : tx'[v] = tx[v]
                    BY <1>0, <5>1, TxFrame
                <5>3. QED
                    BY <5>2 DEF Locking
            <4>2. CASE ~claimEventForScoring(e, w)
                BY <2>4, <4>2 DEF Claim
            <4>3. QED
                BY <4>1, <4>2
        <3>3. QED
            BY <3>1, <3>2, CapsQuiet
    <2>5. ASSUME NEW e \in Event, Debit(w, e) PROVE CapsInv'
        BY <2>5, DebitCaps
    <2>6. ASSUME NEW e \in Event, Release(w, e) \/ Replay(w, e) PROVE CapsInv'
        <3>1. UNCHANGED <<points, tx>> /\ (insertPendingEvent(e) \/ SetPending(e))
            BY <2>6 DEF Release, Replay
        <3>2. QED
            BY <1>0, <3>1, PendingNotValid, CapsQuiet
    <2>7. QED
        BY <1>6, <2>1, <2>2, <2>3, <2>4, <2>5, <2>6 DEF Continue
<1>7. ASSUME NEW w \in Worker, processSweep(w) PROVE CapsInv'
    BY <1>1, <1>7 DEF processSweep, storeVars
<1>8. ASSUME NEW w \in Worker, NEW j \in jobs, TakeJob(w, j) PROVE CapsInv'
    <2>1. UNCHANGED <<points, tx>> /\ j.events \subseteq Event
        BY <1>8 DEF TakeJob, RouteTypes
    <2>2. CASE row' = row
        BY <1>1, <2>1, <2>2
    <2>3. ASSUME NEW e \in j.events, insertPendingEvent(e) PROVE CapsInv'
        <3>1. e \in Event
            BY <2>1
        <3>2. \A f \in Event : (row[f] = "VALID") <=> (row'[f] = "VALID")
            BY <1>0, <2>3, <3>1, PendingNotValid
        <3>3. QED
            BY <2>1, <3>2, CapsQuiet
    <2>4. CASE processEngagement(w, j)
        BY <2>2, <2>3, <2>4 DEF processEngagement
    <2>5. CASE processReversal(w, j)
        BY <2>2, <2>5 DEF processReversal
    <2>6. QED
        BY <1>8, <2>4, <2>5 DEF TakeJob
<1>9. CASE UNCHANGED vars
    BY <1>1, <1>9 DEF vars, storeVars, engineVars
<1>10. QED
    BY <1>2, <1>3, <1>5, <1>6, <1>7, <1>8, <1>9 DEF Next

\* However many scoring transactions, reversals, releases and reconciliations
\* interleave, no participant banks more than the daily cap, or more than the
\* source cap from one piece of content: what a transaction decided on still
\* holds when it writes, because it has locked the earner's row.
THEOREM ParticipantCapsHoldAlways == Spec => []ParticipantCapsHold
<1> DEFINE J == IInv /\ RouteTypes /\ BooksInv
<1>1. Init => J /\ CapsInv
    BY InitIInv, BooksInvInit, CapsInvInit
<1>2. J /\ CapsInv /\ [Next]_vars => J' /\ CapsInv'
    BY NextIInv, NextRouteTypes, BooksInvNext, CapsInvNext
<1>3. J /\ CapsInv => ParticipantCapsHold
    <2> SUFFICES ASSUME BooksInv, CapsInv PROVE ParticipantCapsHold
        OBVIOUS
    <2> DEFINE Own(p, s) == Total({e \in RowsAt("VALID") \cap EarnedBy(p) : SourceOf[e] = s})
    <2>1. /\ \A p \in Participant : pointsSince(p) = Banked(row, points, EarnedBy(p))
          /\ \A p \in Participant, s \in Source : Own(p, s) = Banked(row, points, BySource(p, s))
        <3>1. ledger \subseteq Entry /\ IsFiniteSet(ledger)
            BY DEF BooksInv
        <3>2. QED
            BY <3>1, SumsOfTables
    <2> HIDE DEF Own
    <2>2. \A p \in Participant : pointsSince(p) <= DailyCap
        BY <2>1 DEF CapsInv, Within
    <2>3. \A p \in Participant, s \in Source : Own(p, s) <= EntityCap
        BY <2>1 DEF CapsInv, Within
    <2> USE DEF Own
    <2>4. QED
        BY <2>2, <2>3 DEF ParticipantCapsHold
<1> HIDE DEF J
<1>4. QED
    BY <1>1, <1>2, <1>3, PTL DEF Spec
=============================================================================
