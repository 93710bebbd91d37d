-------------------------- MODULE RelayDeliveryProofs --------------------------
(***************************************************************************)
(* Theorems about RelayDelivery and the queue replay it is made of, for    *)
(* any identities, instances, sockets and envelopes, any set of allowed    *)
(* faults and any bound on their number.                                   *)
(***************************************************************************)
EXTENDS RelayDelivery, SequenceTheorems, FiniteSetTheorems, TLAPS

-----------------------------------------------------------------------------
(* The elements of the sequences the queue is built from.                  *)

LEMMA ElemsConcat ==
    ASSUME NEW S, NEW a \in Seq(S), NEW b \in Seq(S)
    PROVE  /\ a \o b \in Seq(S)
           /\ Elems(a \o b) = Elems(a) \cup Elems(b)
<1>1. Len(a) \in Nat /\ Len(b) \in Nat /\ Len(a \o b) = Len(a) + Len(b)
    OBVIOUS
<1>2. ASSUME NEW n \in 1..Len(a \o b)
      PROVE  (a \o b)[n] \in Elems(a) \cup Elems(b)
    <2>1. CASE n <= Len(a)
        BY <1>1, <2>1 DEF Elems
    <2>2. CASE n > Len(a)
        <3>1. n - Len(a) \in 1..Len(b) /\ (a \o b)[n] = b[n - Len(a)]
            BY <1>1, <2>2
        <3>2. QED
            BY <3>1 DEF Elems
    <2>3. QED
        BY <1>1, <2>1, <2>2
<1>3. ASSUME NEW n \in 1..Len(a)
      PROVE  a[n] \in Elems(a \o b)
    <2>1. n \in 1..Len(a \o b) /\ (a \o b)[n] = a[n]
        BY <1>1
    <2>2. QED
        BY <2>1 DEF Elems
<1>4. ASSUME NEW n \in 1..Len(b)
      PROVE  b[n] \in Elems(a \o b)
    <2>1. n + Len(a) \in 1..Len(a \o b) /\ (a \o b)[n + Len(a)] = b[n]
        BY <1>1
    <2>2. QED
        BY <2>1 DEF Elems
<1>5. Elems(a \o b) \subseteq Elems(a) \cup Elems(b)
    BY <1>2 DEF Elems
<1>6. Elems(a) \cup Elems(b) \subseteq Elems(a \o b)
    BY <1>3, <1>4 DEF Elems
<1>7. QED
    BY <1>5, <1>6

LEMMA ElemsAppend ==
    ASSUME NEW S, NEW a \in Seq(S), NEW x \in S
    PROVE  /\ Append(a, x) \in Seq(S)
           /\ Elems(Append(a, x)) = Elems(a) \cup {x}
<1>1. Len(Append(a, x)) = Len(a) + 1 /\ Len(a) \in Nat
    OBVIOUS
<1>2. ASSUME NEW n \in 1..(Len(a) + 1)
      PROVE  Append(a, x)[n] = IF n = Len(a) + 1 THEN x ELSE a[n]
    OBVIOUS
<1>3. Elems(Append(a, x)) \subseteq Elems(a) \cup {x}
    <2>1. ASSUME NEW n \in 1..(Len(a) + 1)
          PROVE  Append(a, x)[n] \in Elems(a) \cup {x}
        BY <1>1, <1>2 DEF Elems
    <2>2. QED
        BY <1>1, <2>1 DEF Elems
<1>4. ASSUME NEW n \in 1..Len(a)
      PROVE  a[n] \in Elems(Append(a, x))
    <2>1. n \in 1..Len(Append(a, x)) /\ Append(a, x)[n] = a[n]
        BY <1>1, <1>2
    <2>2. QED
        BY <2>1 DEF Elems
<1>5. x \in Elems(Append(a, x))
    <2>1. Len(a) + 1 \in 1..Len(Append(a, x)) /\ Append(a, x)[Len(a) + 1] = x
        BY <1>1, <1>2
    <2>2. QED
        BY <2>1 DEF Elems
<1>6. Elems(a) \cup {x} \subseteq Elems(Append(a, x))
    BY <1>4, <1>5 DEF Elems
<1>7. QED
    BY <1>3, <1>6

LEMMA ElemsSplit ==
    ASSUME NEW S, NEW a \in Seq(S), NEW k \in 0..Len(a)
    PROVE  /\ SubSeq(a, 1, k) \in Seq(S)
           /\ SubSeq(a, k + 1, Len(a)) \in Seq(S)
           /\ Elems(a) = Elems(SubSeq(a, 1, k)) \cup Elems(SubSeq(a, k + 1, Len(a)))
           /\ k = Len(a) => SubSeq(a, k + 1, Len(a)) = <<>>
<1> DEFINE front == SubSeq(a, 1, k)
           back == SubSeq(a, k + 1, Len(a))
<1>1. Len(a) \in Nat /\ k \in Nat /\ k <= Len(a)
    OBVIOUS
<1>2. /\ front \in Seq(S) /\ Len(front) = k
      /\ \A n \in 1..k : front[n] = a[n]
    BY <1>1
<1>3. /\ back \in Seq(S) /\ Len(back) = Len(a) - k
      /\ \A n \in 1..(Len(a) - k) : back[n] = a[k + n]
    BY <1>1
<1>4. ASSUME NEW n \in 1..Len(a)
      PROVE  a[n] \in Elems(front) \cup Elems(back)
    <2>1. CASE n <= k
        BY <1>1, <1>2, <2>1 DEF Elems
    <2>2. CASE n > k
        <3>1. n - k \in 1..Len(back) /\ back[n - k] = a[n]
            BY <1>1, <1>3, <2>2
        <3>2. QED
            BY <3>1 DEF Elems
    <2>3. QED
        BY <1>1, <2>1, <2>2
<1>5. Elems(front) \subseteq Elems(a)
    BY <1>1, <1>2 DEF Elems
<1>6. Elems(back) \subseteq Elems(a)
    <2>1. ASSUME NEW n \in 1..Len(back)
          PROVE  back[n] \in Elems(a)
        <3>1. k + n \in 1..Len(a) /\ back[n] = a[k + n]
            BY <1>1, <1>3
        <3>2. QED
            BY <3>1 DEF Elems
    <2>2. QED
        BY <2>1 DEF Elems
<1>7. Elems(a) \subseteq Elems(front) \cup Elems(back)
    BY <1>4 DEF Elems
<1>8. k = Len(a) => back = <<>>
    BY <1>1, <1>3
<1>9. QED
    BY <1>2, <1>3, <1>5, <1>6, <1>7, <1>8

LEMMA ElemsEmpty == Elems(<<>>) = {}
BY DEF Elems

LEMMA ElemsType ==
    ASSUME NEW S, NEW a \in Seq(S)
    PROVE  Elems(a) \subseteq S
BY DEF Elems

-----------------------------------------------------------------------------
(* Type correctness.                                                       *)

LEMMA ScriptTypes ==
    ASSUME QueueTypeOK, NEW r \in Identity
    PROVE  /\ queue[r] \in Seq(Envelope) /\ inflight[r] \in Seq(Envelope)
           /\ Claimable(r) \in Seq(Envelope)
           /\ Elems(Claimable(r)) = Stored(r)
           /\ ClaimScript(r) => QueueTypeOK'
           /\ SettleDel(r) => QueueTypeOK'
           /\ \A es \in Seq(Envelope) : RestoreScript(r, es) => QueueTypeOK'
           /\ \A e \in Envelope : PushEnvelope(r, e) => QueueTypeOK'
           /\ ExpireQueue(r) => QueueTypeOK'
           /\ ExpireInflight(r) => QueueTypeOK'
<1>1. queue[r] \in Seq(Envelope) /\ inflight[r] \in Seq(Envelope) /\ <<>> \in Seq(Envelope)
    BY DEF QueueTypeOK
<1>2. Claimable(r) \in Seq(Envelope) /\ Elems(Claimable(r)) = Stored(r)
    BY <1>1, ElemsConcat DEF Claimable, Stored
<1>3. \A es \in Seq(Envelope) : es \o queue[r] \in Seq(Envelope)
    BY <1>1, ElemsConcat
<1>4. \A e \in Envelope : Append(queue[r], e) \in Seq(Envelope)
    BY <1>1, ElemsAppend
<1>5. QED
    BY <1>1, <1>2, <1>3, <1>4
    DEF QueueTypeOK, ClaimScript, SettleDel, RestoreScript, PushEnvelope,
        ExpireQueue, ExpireInflight

\* Every step keeps every variable's type.
LEMMA TypeNext ==
    ASSUME TypeOK, [Next]_vars
    PROVE  TypeOK'
<1> USE ReplayAssumption, PartiesAssumption DEF TypeOK, Stages, GoTo, Fault
<1>1. ASSUME NEW s \in Socket, Connect(s)
      PROVE  TypeOK'
    BY <1>1 DEF Connect, queueVars, historyVars, QueueTypeOK
<1>2. ASSUME NEW s \in Socket, Claim(s)
      PROVE  TypeOK'
    BY <1>2, ScriptTypes DEF Claim, historyVars
<1>3. ASSUME NEW s \in Socket, Replay(s)
      PROVE  TypeOK'
    <2>1. PICK delivered \in 0..Len(batch[s]) :
              /\ wire[s] = "down" => delivered = 0
              /\ IF wire[s] = "open" /\ delivered < Len(batch[s])
                 THEN Fault("close")
                 ELSE UNCHANGED faults
              /\ written' = [written EXCEPT ![Owner[s]] =
                                  @ \cup Elems(SubSeq(batch[s], 1, delivered))]
              /\ batch' = [batch EXCEPT ![s] = SubSeq(@, delivered + 1, Len(@))]
              /\ GoTo(s, IF delivered = Len(batch[s]) THEN "settling" ELSE "restoring")
        BY <1>3 DEF Replay
    <2>2. /\ SubSeq(batch[s], 1, delivered) \in Seq(Envelope)
          /\ SubSeq(batch[s], delivered + 1, Len(batch[s])) \in Seq(Envelope)
        BY ElemsSplit
    <2>3. Elems(SubSeq(batch[s], 1, delivered)) \subseteq Envelope
        BY <2>2, ElemsType
    <2>4. written' \in [Identity -> SUBSET Envelope]
        BY <2>1, <2>3
    <2>5. batch' \in [Socket -> Seq(Envelope)] /\ pc' \in [Socket -> Stages]
        BY <2>1, <2>2
    <2>6. faults' \in 0..MaxFaults
        BY <2>1
    <2>7. QED
        BY <1>3, <2>4, <2>5, <2>6 DEF Replay, queueVars, QueueTypeOK
<1>4. ASSUME NEW s \in Socket, Settle(s)
      PROVE  TypeOK'
    BY <1>4, ScriptTypes DEF Settle, historyVars
<1>5. ASSUME NEW s \in Socket, Restore(s)
      PROVE  TypeOK'
    BY <1>5, ScriptTypes DEF Restore, historyVars
<1>6. ASSUME NEW s \in Socket, ClaimFails(s)
      PROVE  TypeOK'
    <2>1. QueueTypeOK'
        <3>1. CASE ClaimScript(Owner[s])
            BY <3>1, ScriptTypes
        <3>2. CASE UNCHANGED queueVars
            BY <3>2 DEF queueVars, QueueTypeOK
        <3>3. QED
            BY <1>6, <3>1, <3>2 DEF ClaimFails
    <2>2. QED
        BY <1>6, <2>1 DEF ClaimFails, historyVars
<1>7. ASSUME NEW s \in Socket, SettleOrRestoreFails(s)
      PROVE  TypeOK'
    BY <1>7 DEF SettleOrRestoreFails, historyVars, queueVars, QueueTypeOK
<1>8. ASSUME NEW s \in Socket, Hangup(s)
      PROVE  TypeOK'
    BY <1>8 DEF Hangup, historyVars, queueVars, QueueTypeOK
<1>9. ASSUME NEW s \in Socket, Drop(s)
      PROVE  TypeOK'
    BY <1>9 DEF Drop, historyVars, queueVars, QueueTypeOK
<1>10. ASSUME NEW r \in Identity, NEW e \in Envelope, Enqueue(r, e)
       PROVE  TypeOK'
    BY <1>10, ScriptTypes, ElemsAppend DEF Enqueue, replayVars
<1>11. ASSUME NEW i \in Instance, Crash(i)
       PROVE  TypeOK'
    BY <1>11 DEF Crash, historyVars, queueVars, QueueTypeOK
<1>12. ASSUME NEW r \in Identity, Expire(r)
       PROVE  TypeOK'
    <2>1. Elems(queue[r]) \subseteq Envelope /\ Elems(inflight[r]) \subseteq Envelope
        BY ScriptTypes, ElemsType
    <2>2. expired' \in [Identity -> SUBSET Envelope]
        <3>1. PICK lost \in SUBSET Envelope :
                  expired' = [expired EXCEPT ![r] = @ \cup lost]
            BY <1>12, <2>1 DEF Expire
        <3>2. QED
            BY <3>1
    <2>3. QED
        BY <1>12, <2>2, ScriptTypes DEF Expire, replayVars
<1>13. CASE UNCHANGED vars
    BY <1>13 DEF vars, queueVars, replayVars, historyVars, QueueTypeOK
<1>14. QED
    BY <1>1, <1>2, <1>3, <1>4, <1>5, <1>6, <1>7, <1>8, <1>9, <1>10, <1>11,
       <1>12, <1>13 DEF Next

(***************************************************************************)
(* Every variable keeps its type.                                          *)
(***************************************************************************)
THEOREM TypeCorrect == Spec => []TypeOK
<1>1. Init => TypeOK
    BY ReplayAssumption, PartiesAssumption DEF Init, TypeOK, QueueInit, QueueTypeOK, Stages
<1>2. TypeOK /\ [Next]_vars => TypeOK'
    BY TypeNext
<1>3. QED
    BY <1>1, <1>2, PTL DEF Spec

-----------------------------------------------------------------------------
(* One replay at a time, with every fault.                                 *)

(***************************************************************************)
(* A step of socket s that touches only its own call and its own           *)
(* recipient's lists leaves the other sockets' replays parked: those of    *)
(* other recipients see nothing, those of the same recipient are idle.     *)
(***************************************************************************)
LEMMA OwnStep ==
    ASSUME NEW s \in Socket,
           TypeOK, OneReplay, \A t \in Socket : Parked(t),
           pc[s] # "idle",
           \A t \in Socket \ {s} : pc'[t] = pc[t] /\ batch'[t] = batch[t],
           \A r \in Identity \ {Owner[s]} :
               inflight'[r] = inflight[r] /\ written'[r] = written[r],
           Parked(s)'
    PROVE  OneReplay' /\ \A t \in Socket : Parked(t)'
<1>1. \A t \in Socket : Owner[t] \in Identity
    BY ReplayAssumption, PartiesAssumption
<1>2. OneReplay'
    BY DEF OneReplay
<1>3. ASSUME NEW t \in Socket, t # s, Owner[t] # Owner[s]
      PROVE  Parked(t)'
    BY <1>1, <1>3 DEF Parked
<1>4. ASSUME NEW t \in Socket, t # s, Owner[t] = Owner[s]
      PROVE  Parked(t)'
    <2>1. pc[t] = "idle"
        BY <1>4 DEF OneReplay
    <2>2. pc'[t] = "idle"
        BY <1>4, <2>1
    <2>3. QED
        BY <2>2 DEF Parked
<1>5. QED
    BY <1>2, <1>3, <1>4

LEMMA SoloInvInit == Init => SoloInv
<1> SUFFICES ASSUME Init
             PROVE  SoloInv
    OBVIOUS
<1> USE ReplayAssumption, PartiesAssumption DEF Init, QueueInit
<1>1. OneReplay
    BY DEF OneReplay
<1>2. \A s \in Socket : Parked(s)
    BY DEF Parked
<1>3. \A r \in Identity : Accounted(r)
    BY ElemsEmpty DEF Accounted
<1>4. QED
    BY <1>1, <1>2, <1>3 DEF SoloInv

(***************************************************************************)
(* What one step does to Redis' obligations to each recipient: what leaves *)
(* the two lists has been written, or its TTL ran out.  Both the inductive *)
(* step and the refinement rest on it.                                     *)
(***************************************************************************)
LEMMA SoloClaim ==
    ASSUME TypeOK, NEW s \in Socket, ClaimScript(Owner[s])
    PROVE  /\ \A r \in Identity : Stored(r)' = Stored(r)
           /\ inflight'[Owner[s]] = Claimable(Owner[s])
           /\ \A r \in Identity \ {Owner[s]} : inflight'[r] = inflight[r]
<1> DEFINE o == Owner[s]
<1>1. o \in Identity /\ QueueTypeOK
    BY ReplayAssumption, PartiesAssumption DEF TypeOK
<1>2. /\ inflight' = [inflight EXCEPT ![o] = Claimable(o)]
      /\ queue' = [queue EXCEPT ![o] = <<>>]
    BY DEF ClaimScript
<1>3. inflight'[o] = Claimable(o) /\ queue'[o] = <<>>
    BY <1>1, <1>2 DEF QueueTypeOK
<1>4. Stored(o)' = Stored(o)
    <2>1. Elems(Claimable(o)) = Stored(o)
        BY <1>1, ScriptTypes
    <2>2. Stored(o)' = Elems(inflight'[o]) \cup Elems(queue'[o])
        BY DEF Stored
    <2>3. QED
        BY <1>3, <2>1, <2>2, ElemsEmpty
<1>5. \A r \in Identity \ {o} : inflight'[r] = inflight[r] /\ queue'[r] = queue[r]
    BY <1>2 DEF QueueTypeOK
<1>6. \A r \in Identity \ {o} : Stored(r)' = Stored(r)
    BY <1>5 DEF Stored
<1>7. QED
    BY <1>3, <1>4, <1>5, <1>6

LEMMA SoloEnd ==
    ASSUME TypeOK, SoloInv, NEW s \in Socket, Settle(s) \/ Restore(s)
    PROVE  /\ Stored(Owner[s])' \subseteq Stored(Owner[s])
           /\ Stored(Owner[s]) \subseteq Stored(Owner[s])' \cup written[Owner[s]]
           /\ \A r \in Identity \ {Owner[s]} :
                  inflight'[r] = inflight[r] /\ queue'[r] = queue[r]
<1> DEFINE o == Owner[s]
<1>1. o \in Identity /\ QueueTypeOK /\ batch[s] \in Seq(Envelope)
    BY ReplayAssumption, PartiesAssumption DEF TypeOK
<1>2. Parked(s)
    BY DEF SoloInv
<1>3. CASE Settle(s)
    <2>1. inflight' = [inflight EXCEPT ![o] = <<>>] /\ queue' = queue
        BY <1>3 DEF Settle, SettleDel
    <2>2. inflight'[o] = <<>>
        BY <1>1, <2>1 DEF QueueTypeOK
    <2>3. Stored(o)' = Elems(queue[o])
        BY <2>1, <2>2, ElemsEmpty DEF Stored
    <2>4. Elems(inflight[o]) \subseteq written[o]
        BY <1>2, <1>3 DEF Parked, Settle
    <2>5. \A r \in Identity \ {o} : inflight'[r] = inflight[r] /\ queue'[r] = queue[r]
        BY <1>1, <2>1 DEF QueueTypeOK
    <2>6. QED
        BY <2>3, <2>4, <2>5 DEF Stored
<1>4. CASE Restore(s)
    <2>1. /\ inflight' = [inflight EXCEPT ![o] = <<>>]
          /\ queue' = [queue EXCEPT ![o] = batch[s] \o @]
        BY <1>4 DEF Restore, RestoreScript
    <2>2. inflight'[o] = <<>> /\ queue'[o] = batch[s] \o queue[o]
        BY <1>1, <2>1 DEF QueueTypeOK
    <2>3. Elems(batch[s] \o queue[o]) = Elems(batch[s]) \cup Elems(queue[o])
        BY <1>1, ElemsConcat, ScriptTypes
    <2>4. Stored(o)' = Elems(batch[s]) \cup Elems(queue[o])
        BY <2>2, <2>3, ElemsEmpty DEF Stored
    <2>5. /\ Elems(batch[s]) \subseteq Elems(inflight[o])
          /\ Elems(inflight[o]) \subseteq written[o] \cup Elems(batch[s])
        BY <1>2, <1>4 DEF Parked, Restore
    <2>6. \A r \in Identity \ {o} : inflight'[r] = inflight[r] /\ queue'[r] = queue[r]
        BY <1>1, <2>1 DEF QueueTypeOK
    <2>7. QED
        BY <2>4, <2>5, <2>6 DEF Stored
<1>5. QED
    BY <1>3, <1>4

LEMMA ReplayEffect ==
    ASSUME TypeOK, NEW s \in Socket, Replay(s)
    PROVE  \E S \in SUBSET Envelope :
              /\ written' = [written EXCEPT ![Owner[s]] = @ \cup S]
              /\ batch'[s] \in Seq(Envelope)
              /\ Elems(batch[s]) = S \cup Elems(batch'[s])
              /\ \/ pc'[s] = "settling" /\ batch'[s] = <<>>
                 \/ pc'[s] = "restoring"
              /\ \A t \in Socket \ {s} : pc'[t] = pc[t] /\ batch'[t] = batch[t]
<1>1. PICK k \in 0..Len(batch[s]) :
          /\ written' = [written EXCEPT ![Owner[s]] =
                              @ \cup Elems(SubSeq(batch[s], 1, k))]
          /\ batch' = [batch EXCEPT ![s] = SubSeq(@, k + 1, Len(@))]
          /\ GoTo(s, IF k = Len(batch[s]) THEN "settling" ELSE "restoring")
    BY DEF Replay
<1> DEFINE S == Elems(SubSeq(batch[s], 1, k))
<1>2. batch[s] \in Seq(Envelope)
    BY DEF TypeOK
<1>3. S \subseteq Envelope
    BY <1>2, ElemsSplit, ElemsType
<1>4. batch'[s] = SubSeq(batch[s], k + 1, Len(batch[s]))
    BY <1>1 DEF TypeOK
<1>5. /\ batch'[s] \in Seq(Envelope)
      /\ Elems(batch[s]) = S \cup Elems(batch'[s])
      /\ k = Len(batch[s]) => batch'[s] = <<>>
    BY <1>2, <1>4, ElemsSplit
<1>6. pc'[s] = IF k = Len(batch[s]) THEN "settling" ELSE "restoring"
    BY <1>1 DEF GoTo, TypeOK
<1>7. \A t \in Socket \ {s} : pc'[t] = pc[t] /\ batch'[t] = batch[t]
    BY <1>1 DEF GoTo, TypeOK
<1>8. QED
    BY <1>1, <1>3, <1>5, <1>6, <1>7

LEMMA SoloInvNext ==
    ASSUME Solo, TypeOK, SoloInv, [Next]_vars
    PROVE  SoloInv'
<1> USE ReplayAssumption, PartiesAssumption
<1>0. /\ OneReplay /\ \A s \in Socket : Parked(s)
      /\ \A r \in Identity : Accounted(r)
      /\ \A s \in Socket : Owner[s] \in Identity
    BY DEF SoloInv
<1>1. ASSUME NEW s \in Socket, Connect(s)
      PROVE  SoloInv'
    <2>1. /\ pc'[s] = "claiming"
          /\ \A t \in Socket \ {s} : pc'[t] = pc[t]
          /\ UNCHANGED <<queue, inflight, batch, log, written, expired>>
        BY <1>1 DEF Connect, GoTo, TypeOK, queueVars, historyVars
    <2>2. \A t \in Socket : Owner[t] = Owner[s] => pc[t] = "idle"
        BY <1>1 DEF Connect, Idle, SocketsOf
    <2>3. OneReplay'
        BY <1>0, <2>1, <2>2 DEF OneReplay
    <2>4. \A t \in Socket : Parked(t)'
        BY <1>0, <2>1 DEF Parked
    <2>5. \A r \in Identity : Accounted(r)'
        BY <1>0, <2>1 DEF Accounted, Stored
    <2>6. QED
        BY <2>3, <2>4, <2>5 DEF SoloInv
<1>2. ASSUME NEW s \in Socket, Claim(s)
      PROVE  SoloInv'
    <2>1. /\ pc[s] = "claiming"
          /\ batch'[s] = Claimable(Owner[s])
          /\ pc'[s] \in {"idle", "replaying"}
          /\ \A t \in Socket \ {s} : pc'[t] = pc[t] /\ batch'[t] = batch[t]
          /\ UNCHANGED <<log, written, expired>>
        BY <1>2 DEF Claim, GoTo, TypeOK, historyVars
    <2>2. /\ \A r \in Identity : Stored(r)' = Stored(r)
          /\ inflight'[Owner[s]] = Claimable(Owner[s])
          /\ \A r \in Identity \ {Owner[s]} : inflight'[r] = inflight[r]
        BY <1>2, SoloClaim DEF Claim
    <2>3. Parked(s)'
        BY <2>1, <2>2 DEF Parked
    <2>4. OneReplay' /\ \A t \in Socket : Parked(t)'
        BY <1>0, <2>1, <2>2, <2>3, OwnStep
    <2>5. \A r \in Identity : Accounted(r)'
        BY <1>0, <2>1, <2>2 DEF Accounted
    <2>6. QED
        BY <2>4, <2>5 DEF SoloInv
<1>3. ASSUME NEW s \in Socket, Replay(s)
      PROVE  SoloInv'
    <2>1. PICK S \in SUBSET Envelope :
              /\ written' = [written EXCEPT ![Owner[s]] = @ \cup S]
              /\ batch'[s] \in Seq(Envelope)
              /\ Elems(batch[s]) = S \cup Elems(batch'[s])
              /\ \/ pc'[s] = "settling" /\ batch'[s] = <<>>
                 \/ pc'[s] = "restoring"
              /\ \A t \in Socket \ {s} : pc'[t] = pc[t] /\ batch'[t] = batch[t]
        BY <1>3, ReplayEffect
    <2>2. pc[s] = "replaying" /\ UNCHANGED <<queue, inflight, log, expired>>
        BY <1>3 DEF Replay, queueVars
    <2>3. /\ written'[Owner[s]] = written[Owner[s]] \cup S
          /\ \A r \in Identity \ {Owner[s]} : written'[r] = written[r]
        BY <1>0, <2>1 DEF TypeOK
    <2>4. batch[s] = inflight[Owner[s]]
        BY <1>0, <2>2 DEF Parked
    <2>5. Parked(s)'
        BY <2>1, <2>2, <2>3, <2>4, ElemsEmpty DEF Parked
    <2>6. OneReplay' /\ \A t \in Socket : Parked(t)'
        BY <1>0, <2>1, <2>2, <2>3, <2>5, OwnStep
    <2>7. \A r \in Identity : Accounted(r)'
        BY <1>0, <2>2, <2>3 DEF Accounted, Stored
    <2>8. QED
        BY <2>6, <2>7 DEF SoloInv
<1>4. ASSUME NEW s \in Socket, Settle(s) \/ Restore(s)
      PROVE  SoloInv'
    <2>1. /\ pc[s] # "idle" /\ pc'[s] = "idle"
          /\ \A t \in Socket \ {s} : pc'[t] = pc[t] /\ batch'[t] = batch[t]
          /\ UNCHANGED <<log, written, expired>>
        BY <1>4 DEF Settle, Restore, GoTo, TypeOK, historyVars
    <2>2. /\ Stored(Owner[s]) \subseteq Stored(Owner[s])' \cup written[Owner[s]]
          /\ \A r \in Identity \ {Owner[s]} :
                 inflight'[r] = inflight[r] /\ queue'[r] = queue[r]
        BY <1>4, SoloEnd
    <2>3. Parked(s)'
        BY <2>1 DEF Parked
    <2>4. OneReplay' /\ \A t \in Socket : Parked(t)'
        BY <1>0, <2>1, <2>2, <2>3, OwnStep
    <2>5. ASSUME NEW r \in Identity
          PROVE  Accounted(r)'
        <3>1. CASE r = Owner[s]
            BY <1>0, <2>1, <2>2, <3>1 DEF Accounted
        <3>2. CASE r # Owner[s]
            BY <1>0, <2>1, <2>2, <3>2 DEF Accounted, Stored
        <3>3. QED
            BY <3>1, <3>2
    <2>6. QED
        BY <2>4, <2>5 DEF SoloInv
<1>5. ASSUME NEW s \in Socket, ClaimFails(s)
      PROVE  SoloInv'
    <2>1. /\ pc[s] = "claiming" /\ pc'[s] = "idle"
          /\ \A t \in Socket \ {s} : pc'[t] = pc[t]
          /\ UNCHANGED <<batch, log, written, expired>>
        BY <1>5 DEF ClaimFails, GoTo, TypeOK, historyVars
    <2>2. /\ \A r \in Identity : Stored(r)' = Stored(r)
          /\ \A r \in Identity \ {Owner[s]} : inflight'[r] = inflight[r]
        <3>1. CASE ClaimScript(Owner[s])
            BY <3>1, SoloClaim
        <3>2. CASE UNCHANGED queueVars
            BY <3>2 DEF queueVars, Stored
        <3>3. QED
            BY <1>5, <3>1, <3>2 DEF ClaimFails
    <2>3. Parked(s)'
        BY <2>1 DEF Parked
    <2>4. OneReplay' /\ \A t \in Socket : Parked(t)'
        BY <1>0, <2>1, <2>2, <2>3, OwnStep
    <2>5. \A r \in Identity : Accounted(r)'
        BY <1>0, <2>1, <2>2 DEF Accounted
    <2>6. QED
        BY <2>4, <2>5 DEF SoloInv
<1>6. ASSUME NEW s \in Socket, SettleOrRestoreFails(s)
      PROVE  SoloInv'
    <2>1. /\ pc[s] # "idle" /\ pc'[s] = "idle"
          /\ \A t \in Socket \ {s} : pc'[t] = pc[t] /\ batch'[t] = batch[t]
          /\ UNCHANGED <<queue, inflight, log, written, expired>>
        BY <1>6 DEF SettleOrRestoreFails, GoTo, TypeOK, queueVars, historyVars
    <2>2. Parked(s)'
        BY <2>1 DEF Parked
    <2>3. OneReplay' /\ \A t \in Socket : Parked(t)'
        BY <1>0, <2>1, <2>2, OwnStep
    <2>4. \A r \in Identity : Accounted(r)'
        BY <1>0, <2>1 DEF Accounted, Stored
    <2>5. QED
        BY <2>3, <2>4 DEF SoloInv
<1>7. ASSUME NEW s \in Socket, Hangup(s) \/ Drop(s)
      PROVE  SoloInv'
    <2>1. UNCHANGED <<queue, inflight, pc, batch, log, written, expired>>
        BY <1>7 DEF Hangup, Drop, queueVars, historyVars
    <2>2. QED
        BY <2>1 DEF SoloInv, OneReplay, Parked, Accounted, Stored
<1>8. ASSUME NEW r \in Identity, NEW e \in Envelope, Enqueue(r, e)
      PROVE  SoloInv'
    <2>1. UNCHANGED <<inflight, pc, batch, written, expired>>
        BY <1>8 DEF Enqueue, PushEnvelope, replayVars
    <2>2. OneReplay' /\ \A s \in Socket : Parked(s)'
        BY <1>0, <2>1 DEF OneReplay, Parked
    <2>3. /\ queue'[r] = Append(queue[r], e) /\ log'[r] = Append(log[r], e)
          /\ \A q \in Identity \ {r} : queue'[q] = queue[q] /\ log'[q] = log[q]
        BY <1>8 DEF Enqueue, PushEnvelope, TypeOK, QueueTypeOK
    <2>4. /\ Elems(queue'[r]) = Elems(queue[r]) \cup {e}
          /\ Elems(log'[r]) = Elems(log[r]) \cup {e}
        BY <2>3, ElemsAppend DEF TypeOK, QueueTypeOK
    <2>5. ASSUME NEW q \in Identity
          PROVE  Accounted(q)'
        <3>1. CASE q = r
            BY <1>0, <2>1, <2>4, <3>1 DEF Accounted, Stored
        <3>2. CASE q # r
            BY <1>0, <2>1, <2>3, <3>2 DEF Accounted, Stored
        <3>3. QED
            BY <3>1, <3>2
    <2>6. QED
        BY <2>2, <2>5 DEF SoloInv
<1>9. ASSUME NEW i \in Instance, Crash(i)
      PROVE  SoloInv'
    <2>1. /\ \A s \in Socket : \/ pc'[s] = "idle"
                               \/ pc'[s] = pc[s] /\ batch'[s] = batch[s]
          /\ UNCHANGED <<queue, inflight, log, written, expired>>
        BY <1>9 DEF Crash, queueVars, historyVars
    <2>2. OneReplay'
        BY <1>0, <2>1 DEF OneReplay
    <2>3. \A s \in Socket : Parked(s)'
        BY <1>0, <2>1 DEF Parked
    <2>4. \A r \in Identity : Accounted(r)'
        BY <1>0, <2>1 DEF Accounted, Stored
    <2>5. QED
        BY <2>2, <2>3, <2>4 DEF SoloInv
<1>10. ASSUME NEW r \in Identity, Expire(r)
       PROVE  SoloInv'
    <2>1. /\ UNCHANGED <<pc, batch, log, written>>
          /\ \A s \in Socket : Owner[s] = r => pc[s] = "idle"
        BY <1>10 DEF Expire, replayVars, Idle, SocketsOf
    <2>2. /\ Stored(r) \cup expired[r] \subseteq Stored(r)' \cup expired'[r]
          /\ \A q \in Identity \ {r} : /\ inflight'[q] = inflight[q]
                                      /\ queue'[q] = queue[q]
                                      /\ expired'[q] = expired[q]
        BY <1>10, ElemsEmpty
        DEF Expire, ExpireQueue, ExpireInflight, Stored, TypeOK, QueueTypeOK
    <2>3. OneReplay'
        BY <1>0, <2>1 DEF OneReplay
    <2>4. \A s \in Socket : Parked(s)'
        BY <1>0, <2>1, <2>2 DEF Parked
    <2>5. ASSUME NEW q \in Identity
          PROVE  Accounted(q)'
        <3>1. CASE q = r
            BY <1>0, <2>1, <2>2, <3>1 DEF Accounted
        <3>2. CASE q # r
            BY <1>0, <2>1, <2>2, <3>2 DEF Accounted, Stored
        <3>3. QED
            BY <3>1, <3>2
    <2>6. QED
        BY <2>3, <2>4, <2>5 DEF SoloInv
<1>11. CASE UNCHANGED vars
    BY <1>11
    DEF vars, queueVars, replayVars, historyVars, SoloInv, OneReplay, Parked,
        Accounted, Stored
<1>12. QED
    BY <1>1, <1>2, <1>3, <1>4, <1>5, <1>6, <1>7, <1>8, <1>9, <1>10, <1>11 DEF Next

(***************************************************************************)
(* With one replay at a time per recipient, what a replay has in hand is   *)
(* parked in-flight whatever crashes or fails.                             *)
(***************************************************************************)
THEOREM SoloInvariant == Solo => (Spec => []SoloInv)
<1> SUFFICES ASSUME Solo
             PROVE  Spec => []SoloInv
    OBVIOUS
<1>1. TypeOK /\ SoloInv /\ [Next]_vars => SoloInv'
    BY SoloInvNext
<1>2. QED
    BY <1>1, SoloInvInit, TypeCorrect, PTL DEF Spec

(***************************************************************************)
(* With one replay at a time, no crash, lost connection or Redis failure   *)
(* destroys a queued envelope: NothingDestroyed for every instance.        *)
(***************************************************************************)
THEOREM SoloNothingDestroyed == Solo => (Spec => []NothingDestroyed)
<1> SUFFICES ASSUME Solo
             PROVE  Spec => []NothingDestroyed
    OBVIOUS
<1>1. SoloInv => NothingDestroyed
    BY DEF SoloInv, Accounted, NothingDestroyed
<1>2. QED
    BY <1>1, SoloInvariant, PTL

-----------------------------------------------------------------------------
(* Replay order, one replay at a time.                                     *)

\* What q holds stands in l too, in the same order and none twice.
InOrder(q, l) ==
    \A m, n \in 1..Len(q) :
        m < n => \E a, b \in 1..Len(l) : a < b /\ l[a] = q[m] /\ l[b] = q[n]

\* Cutting elements off either end of a list keeps what is left in order.
LEMMA OrderCut ==
    ASSUME NEW S, NEW q \in Seq(S), NEW p \in Seq(S), NEW l \in Seq(S),
           NEW k \in Nat, k + Len(p) <= Len(q),
           \A n \in 1..Len(p) : p[n] = q[k + n],
           InOrder(q, l), Elems(q) \subseteq Elems(l)
    PROVE  InOrder(p, l) /\ Elems(p) \subseteq Elems(l)
<1>1. Len(p) \in Nat /\ Len(q) \in Nat
    OBVIOUS
<1>2. ASSUME NEW m \in 1..Len(p), NEW n \in 1..Len(p), m < n
      PROVE  \E a, b \in 1..Len(l) : a < b /\ l[a] = p[m] /\ l[b] = p[n]
    <2>1. k + m \in 1..Len(q) /\ k + n \in 1..Len(q) /\ k + m < k + n
        BY <1>1, <1>2
    <2>2. \E a, b \in 1..Len(l) : a < b /\ l[a] = q[k + m] /\ l[b] = q[k + n]
        BY <2>1 DEF InOrder
    <2>3. QED
        BY <2>2
<1>3. ASSUME NEW n \in 1..Len(p)
      PROVE  p[n] \in Elems(q)
    <2>1. k + n \in 1..Len(q) /\ p[n] = q[k + n]
        BY <1>1
    <2>2. QED
        BY <2>1 DEF Elems
<1>4. Elems(p) \subseteq Elems(q)
    BY <1>3 DEF Elems
<1>5. QED
    BY <1>2, <1>4 DEF InOrder

\* Appending to the second of two lists appends to both read in order.
LEMMA AppendJoins ==
    ASSUME NEW S, NEW a \in Seq(S), NEW b \in Seq(S), NEW x \in S
    PROVE  a \o Append(b, x) = Append(a \o b, x)
<1>1. <<x>> \in Seq(S) /\ a \o b \in Seq(S)
    OBVIOUS
<1>2. Append(b, x) = b \o <<x>> /\ Append(a \o b, x) = (a \o b) \o <<x>>
    BY <1>1, AppendIsConcat
<1>3. a \o (b \o <<x>>) = (a \o b) \o <<x>>
    BY <1>1, ConcatAssociative
<1>4. QED
    BY <1>2, <1>3

\* The newest envelope may join a list at its end.
LEMMA OrderAppend ==
    ASSUME NEW S, NEW q \in Seq(S), NEW l \in Seq(S), NEW x \in S,
           InOrder(q, l), Elems(q) \subseteq Elems(l)
    PROVE  /\ InOrder(Append(q, x), Append(l, x))
           /\ Elems(Append(q, x)) \subseteq Elems(Append(l, x))
<1> DEFINE p == Append(q, x)
           k == Append(l, x)
<1>1. /\ Len(q) \in Nat /\ Len(p) = Len(q) + 1
      /\ \A n \in 1..Len(q) : p[n] = q[n]
      /\ p[Len(q) + 1] = x
    OBVIOUS
<1>2. /\ Len(l) \in Nat /\ Len(k) = Len(l) + 1
      /\ \A n \in 1..Len(l) : k[n] = l[n]
      /\ k[Len(l) + 1] = x
    OBVIOUS
<1>3. Elems(p) \subseteq Elems(k)
    BY ElemsAppend
<1> HIDE DEF p, k
<1>4. ASSUME NEW m \in 1..Len(p), NEW n \in 1..Len(p), m < n
      PROVE  \E a, b \in 1..Len(k) : a < b /\ k[a] = p[m] /\ k[b] = p[n]
    <2>1. m \in 1..Len(q) /\ p[m] = q[m]
        BY <1>1, <1>4
    <2>2. CASE n \in 1..Len(q)
        <3>1. PICK a \in 1..Len(l), b \in 1..Len(l) :
                  a < b /\ l[a] = q[m] /\ l[b] = q[n]
            BY <1>4, <2>1, <2>2 DEF InOrder
        <3>2. /\ a \in 1..Len(k) /\ k[a] = p[m]
              /\ b \in 1..Len(k) /\ k[b] = p[n]
            BY <1>1, <1>2, <2>1, <2>2, <3>1
        <3>3. QED
            BY <3>1, <3>2
    <2>3. CASE n \notin 1..Len(q)
        <3>1. n = Len(q) + 1 /\ p[n] = x
            BY <1>1, <2>3
        <3>2. PICK a \in 1..Len(l) : l[a] = q[m]
            BY <2>1 DEF Elems
        <3>3. /\ a \in 1..Len(k) /\ Len(l) + 1 \in 1..Len(k) /\ a < Len(l) + 1
              /\ k[a] = p[m] /\ k[Len(l) + 1] = p[n]
            BY <1>2, <2>1, <3>1, <3>2
        <3>4. QED
            BY <3>3
    <2>4. QED
        BY <2>2, <2>3
<1>5. InOrder(p, k)
    BY <1>4 DEF InOrder
<1>6. QED
    BY <1>3, <1>5 DEF p, k

(***************************************************************************)
(* The inductive invariant behind OldestFirst: a list holds only what was  *)
(* queued, in the order it was, and what a replay is about to put back at  *)
(* the head of the queue is the end of the in-flight list.                 *)
(***************************************************************************)
Ordered(r) ==
    /\ InOrder(Claimable(r), log[r])
    /\ Elems(Claimable(r)) \subseteq Elems(log[r])

Undelivered(held, b) ==
    \E k \in 0..Len(held) : b = SubSeq(held, k + 1, Len(held))

PutsBack(s) ==
    pc[s] = "restoring" => Undelivered(inflight[Owner[s]], batch[s])

OrderInv ==
    /\ \A r \in Identity : Ordered(r)
    /\ \A s \in Socket : PutsBack(s)

LEMMA OrderInvInit == Init => OrderInv
<1> SUFFICES ASSUME Init
             PROVE  OrderInv
    OBVIOUS
<1>1. ASSUME NEW r \in Identity
      PROVE  Ordered(r)
    <2>1. inflight[r] = <<>> /\ queue[r] = <<>> /\ log[r] = <<>>
        BY DEF Init, QueueInit
    <2>2. Claimable(r) = <<>>
        BY <2>1 DEF Claimable
    <2>3. QED
        BY <2>1, <2>2 DEF Ordered, InOrder, Elems
<1>2. \A s \in Socket : PutsBack(s)
    BY DEF Init, PutsBack
<1>3. QED
    BY <1>1, <1>2 DEF OrderInv

\* A list that shrinks to what follows or precedes some place keeps its order.
LEMMA ListsCut ==
    ASSUME TypeOK, TypeOK', NEW r \in Identity, Ordered(r), log'[r] = log[r],
           \/ Claimable(r)' = Claimable(r)
           \/ Claimable(r)' = inflight[r]
           \/ Undelivered(inflight[r], <<>>) /\ Claimable(r)' = queue[r]
           \/ \E b \in Seq(Envelope) :
                  Undelivered(inflight[r], b) /\ Claimable(r)' = b \o queue[r]
    PROVE  Ordered(r)'
<1> DEFINE held == inflight[r]
           rest == queue[r]
           old == Claimable(r)
           new == inflight'[r] \o queue'[r]
<1>1. /\ held \in Seq(Envelope) /\ rest \in Seq(Envelope)
      /\ inflight'[r] \in Seq(Envelope) /\ queue'[r] \in Seq(Envelope)
      /\ log[r] \in Seq(Envelope)
    BY DEF TypeOK, QueueTypeOK
<1>2. old = held \o rest /\ Claimable(r)' = new
    BY DEF Claimable
<1>3. InOrder(old, log[r]) /\ Elems(old) \subseteq Elems(log[r])
    BY DEF Ordered
<1>4. old \in Seq(Envelope) /\ new \in Seq(Envelope)
    BY <1>1, <1>2, ElemsConcat
<1> SUFFICES InOrder(new, log[r]) /\ Elems(new) \subseteq Elems(log[r])
    BY <1>2 DEF Ordered
<1> HIDE DEF old, new, held, rest
<1>5. CASE new = old
    BY <1>3, <1>5
<1>6. CASE new = held
    <2>1. 0 + Len(new) <= Len(old) /\ \A n \in 1..Len(new) : new[n] = old[0 + n]
        BY <1>1, <1>2, <1>6
    <2>2. QED
        BY <1>1, <1>3, <1>4, <2>1, OrderCut
<1>7. ASSUME NEW b \in Seq(Envelope), Undelivered(held, b), new = b \o rest
      PROVE  InOrder(new, log[r]) /\ Elems(new) \subseteq Elems(log[r])
    <2>1. PICK k \in 0..Len(held) : b = SubSeq(held, k + 1, Len(held))
        BY <1>7 DEF Undelivered
    <2>2. /\ Len(held) \in Nat /\ Len(rest) \in Nat /\ k \in Nat /\ k <= Len(held)
          /\ Len(b) = Len(held) - k
          /\ \A n \in 1..Len(b) : b[n] = held[k + n]
        BY <1>1, <2>1
    <2>3. /\ Len(new) = Len(held) - k + Len(rest) /\ Len(old) = Len(held) + Len(rest)
          /\ \A n \in 1..Len(new) :
                 new[n] = IF n <= Len(b) THEN b[n] ELSE rest[n - Len(b)]
          /\ \A n \in 1..Len(old) :
                 old[n] = IF n <= Len(held) THEN held[n] ELSE rest[n - Len(held)]
        BY <1>1, <1>2, <1>7, <2>2
    <2>4. ASSUME NEW n \in 1..Len(new)
          PROVE  new[n] = old[k + n]
        <3>1. k + n \in 1..Len(old)
            BY <2>2, <2>3
        <3>2. /\ new[n] = IF n <= Len(b) THEN b[n] ELSE rest[n - Len(b)]
              /\ old[k + n] = IF k + n <= Len(held) THEN held[k + n] ELSE rest[k + n - Len(held)]
            BY <2>3, <3>1
        <3>3. /\ n \in Nat /\ (n <= Len(b) <=> k + n <= Len(held))
              /\ k + n - Len(held) = n - Len(b)
            BY <2>2, <2>3
        <3>4. CASE n <= Len(b)
            <4>1. n \in 1..Len(b)
                BY <2>2, <2>3, <3>4
            <4>2. b[n] = held[k + n]
                BY <2>2, <4>1
            <4>3. QED
                BY <3>2, <3>3, <3>4, <4>2
        <3>5. CASE ~(n <= Len(b))
            BY <3>2, <3>3, <3>5
        <3>6. QED
            BY <3>4, <3>5
    <2>5. k + Len(new) <= Len(old)
        BY <2>2, <2>3
    <2>6. QED
        BY <1>1, <1>3, <1>4, <2>2, <2>4, <2>5, OrderCut
<1>8. <<>> \in Seq(Envelope) /\ <<>> \o rest = rest
    BY <1>1
<1>9. QED
    BY <1>2, <1>5, <1>6, <1>7, <1>8 DEF held, rest, old

\* The whole of a list, and nothing of it, may be left undelivered.
LEMMA UndeliveredEnds ==
    ASSUME NEW S, NEW a \in Seq(S)
    PROVE  /\ Undelivered(a, <<>>)
           /\ \A k \in 0..Len(a) : Undelivered(a, SubSeq(a, k + 1, Len(a)))
<1>1. Len(a) \in 0..Len(a) /\ SubSeq(a, Len(a) + 1, Len(a)) = <<>>
    BY ElemsSplit
<1>2. QED
    BY <1>1 DEF Undelivered

\* A claim moves a recipient's lists without changing what they hold in order.
LEMMA ClaimOrder ==
    ASSUME TypeOK, NEW r \in Identity, ClaimScript(r)
    PROVE  \A q \in Identity : /\ Claimable(q)' = Claimable(q)
                               /\ q # r => inflight'[q] = inflight[q]
<1>1. /\ inflight'[r] = Claimable(r) /\ queue'[r] = <<>>
      /\ \A q \in Identity \ {r} : inflight'[q] = inflight[q] /\ queue'[q] = queue[q]
    BY DEF ClaimScript, TypeOK, QueueTypeOK
<1>2. Claimable(r) \in Seq(Envelope)
    BY ScriptTypes DEF TypeOK
<1>3. Claimable(r)' = Claimable(r) \o <<>>
    BY <1>1 DEF Claimable
<1>4. Claimable(r)' = Claimable(r)
    BY <1>2, <1>3
<1>5. \A q \in Identity \ {r} : Claimable(q)' = Claimable(q)
    BY <1>1 DEF Claimable
<1>6. QED
    BY <1>1, <1>4, <1>5

\* Lists and history that do not change stay in order.
LEMMA OrderKept ==
    ASSUME NEW r \in Identity, Ordered(r),
           UNCHANGED <<queue[r], inflight[r], log[r]>>
    PROVE  Ordered(r)'
<1>1. Claimable(r)' = Claimable(r) /\ log'[r] = log[r]
    BY DEF Claimable
<1>2. QED
    BY <1>1 DEF Ordered

LEMMA OrderInvNext ==
    ASSUME Solo, TypeOK, TypeOK', SoloInv, OrderInv, [Next]_vars
    PROVE  OrderInv'
<1> USE ReplayAssumption, PartiesAssumption
<1>0. /\ OneReplay /\ \A s \in Socket : Parked(s)
      /\ \A r \in Identity : Ordered(r)
      /\ \A s \in Socket : PutsBack(s)
      /\ \A s \in Socket : Owner[s] \in Identity
      /\ QueueTypeOK
    BY DEF SoloInv, OrderInv, TypeOK
<1>1. ASSUME UNCHANGED <<queue, inflight, log>>
      PROVE  \A r \in Identity : Ordered(r)'
    BY <1>0, <1>1, OrderKept
<1>2. ASSUME \A s \in Socket : \/ pc'[s] # "restoring"
                               \/ /\ pc'[s] = pc[s] /\ batch'[s] = batch[s]
                                  /\ inflight'[Owner[s]] = inflight[Owner[s]]
      PROVE  \A s \in Socket : PutsBack(s)'
    BY <1>0, <1>2 DEF PutsBack
<1>3. ASSUME NEW s \in Socket, pc[s] # "idle", NEW t \in Socket, t # s,
             Owner[t] = Owner[s]
      PROVE  pc[t] = "idle"
    BY <1>0, <1>3 DEF OneReplay
<1>4. ASSUME NEW s \in Socket, Connect(s)
      PROVE  OrderInv'
    <2>1. /\ pc'[s] = "claiming"
          /\ \A t \in Socket \ {s} : pc'[t] = pc[t]
          /\ UNCHANGED <<queue, inflight, batch, log>>
        BY <1>4 DEF Connect, GoTo, TypeOK, queueVars, historyVars
    <2>2. QED
        BY <1>1, <1>2, <2>1 DEF OrderInv
<1>5. ASSUME NEW s \in Socket, Claim(s) \/ ClaimFails(s)
      PROVE  OrderInv'
    <2>1. /\ pc[s] = "claiming" /\ pc'[s] \in {"idle", "replaying"}
          /\ \A t \in Socket \ {s} : pc'[t] = pc[t] /\ batch'[t] = batch[t]
          /\ log' = log
        BY <1>5 DEF Claim, ClaimFails, GoTo, TypeOK, historyVars
    <2>2. \A q \in Identity : /\ Claimable(q)' = Claimable(q)
                              /\ q # Owner[s] => inflight'[q] = inflight[q]
        <3>1. CASE ClaimScript(Owner[s])
            BY <1>0, <3>1, ClaimOrder
        <3>2. CASE UNCHANGED queueVars
            BY <3>2 DEF queueVars, Claimable
        <3>3. QED
            BY <1>5, <3>1, <3>2 DEF Claim, ClaimFails
    <2>3. \A q \in Identity : Ordered(q)'
        BY <1>0, <2>1, <2>2, ListsCut
    <2>4. ASSUME NEW t \in Socket
          PROVE  PutsBack(t)'
        <3>1. CASE t = s
            BY <2>1, <3>1 DEF PutsBack
        <3>2. CASE t # s /\ Owner[t] = Owner[s]
            BY <1>3, <2>1, <3>2 DEF PutsBack
        <3>3. CASE t # s /\ Owner[t] # Owner[s]
            BY <1>0, <2>1, <2>2, <3>3 DEF PutsBack
        <3>4. QED
            BY <3>1, <3>2, <3>3
    <2>5. QED
        BY <2>3, <2>4 DEF OrderInv
<1>6. ASSUME NEW s \in Socket, Replay(s)
      PROVE  OrderInv'
    <2>1. PICK k \in 0..Len(batch[s]) :
              /\ batch' = [batch EXCEPT ![s] = SubSeq(@, k + 1, Len(@))]
              /\ \A t \in Socket \ {s} : pc'[t] = pc[t]
        BY <1>6 DEF Replay, GoTo, TypeOK
    <2>2. pc[s] = "replaying" /\ UNCHANGED <<queue, inflight, log>>
        BY <1>6 DEF Replay, queueVars
    <2>3. batch[s] = inflight[Owner[s]] /\ batch[s] \in Seq(Envelope)
        BY <1>0, <2>2 DEF Parked, TypeOK
    <2>4. batch'[s] = SubSeq(batch[s], k + 1, Len(batch[s]))
        BY <2>1 DEF TypeOK
    <2>5. Undelivered(inflight'[Owner[s]], batch'[s])
        BY <2>2, <2>3, <2>4, UndeliveredEnds
    <2>6. \A t \in Socket \ {s} : PutsBack(t)'
        BY <1>0, <2>1, <2>2 DEF PutsBack, TypeOK
    <2>7. PutsBack(s)'
        BY <2>5 DEF PutsBack
    <2>8. QED
        BY <1>1, <2>2, <2>6, <2>7 DEF OrderInv
<1>7. ASSUME NEW s \in Socket, Settle(s) \/ Restore(s)
      PROVE  OrderInv'
    <2> DEFINE o == Owner[s]
    <2>1. /\ pc[s] # "idle" /\ pc'[s] = "idle"
          /\ \A t \in Socket \ {s} : pc'[t] = pc[t] /\ batch'[t] = batch[t]
          /\ log' = log
        BY <1>7 DEF Settle, Restore, GoTo, TypeOK, historyVars
    <2>2. \A r \in Identity \ {o} : inflight'[r] = inflight[r] /\ queue'[r] = queue[r]
        BY <1>7 DEF Settle, SettleDel, Restore, RestoreScript, TypeOK, QueueTypeOK
    <2>3. Ordered(o)'
        <3>1. CASE Settle(s)
            <4>1. inflight'[o] = <<>> /\ queue'[o] = queue[o]
                BY <1>0, <3>1 DEF Settle, SettleDel, QueueTypeOK
            <4>2. Claimable(o)' = <<>> \o queue[o]
                BY <4>1 DEF Claimable
            <4>3. Claimable(o)' = queue[o]
                BY <1>0, <4>2 DEF QueueTypeOK
            <4>4. Undelivered(inflight[o], <<>>)
                BY <1>0, UndeliveredEnds DEF QueueTypeOK
            <4>5. QED
                BY <1>0, <2>1, <4>3, <4>4, ListsCut
        <3>2. CASE Restore(s)
            <4>1. inflight'[o] = <<>> /\ queue'[o] = batch[s] \o queue[o]
                BY <1>0, <3>2 DEF Restore, RestoreScript, QueueTypeOK
            <4>2. batch[s] \in Seq(Envelope) /\ queue[o] \in Seq(Envelope)
                BY <1>0 DEF TypeOK, QueueTypeOK
            <4>3. batch[s] \o queue[o] \in Seq(Envelope)
                BY <4>2, ElemsConcat
            <4>4. Claimable(o)' = <<>> \o (batch[s] \o queue[o])
                BY <4>1 DEF Claimable
            <4>5. Claimable(o)' = batch[s] \o queue[o]
                BY <4>3, <4>4
            <4>6. Undelivered(inflight[o], batch[s])
                BY <1>0, <3>2 DEF PutsBack, Restore
            <4>7. QED
                BY <1>0, <2>1, <4>2, <4>5, <4>6, ListsCut
        <3>3. QED
            BY <1>7, <3>1, <3>2
    <2>4. \A r \in Identity \ {o} : Ordered(r)'
        BY <1>0, <2>1, <2>2, OrderKept
    <2>5. ASSUME NEW t \in Socket
          PROVE  PutsBack(t)'
        <3>1. CASE t = s
            BY <2>1, <3>1 DEF PutsBack
        <3>2. CASE t # s /\ Owner[t] = Owner[s]
            BY <1>3, <2>1, <3>2 DEF PutsBack
        <3>3. CASE t # s /\ Owner[t] # Owner[s]
            BY <1>0, <2>1, <2>2, <3>3 DEF PutsBack
        <3>4. QED
            BY <3>1, <3>2, <3>3
    <2>6. QED
        BY <2>3, <2>4, <2>5 DEF OrderInv
<1>8. ASSUME NEW s \in Socket, SettleOrRestoreFails(s)
      PROVE  OrderInv'
    <2>1. /\ pc'[s] = "idle"
          /\ \A t \in Socket \ {s} : pc'[t] = pc[t] /\ batch'[t] = batch[t]
          /\ UNCHANGED <<queue, inflight, log>>
        BY <1>8 DEF SettleOrRestoreFails, GoTo, TypeOK, queueVars, historyVars
    <2>2. QED
        BY <1>1, <1>2, <2>1 DEF OrderInv
<1>9. ASSUME NEW s \in Socket, Hangup(s) \/ Drop(s)
      PROVE  OrderInv'
    <2>1. UNCHANGED <<queue, inflight, pc, batch, log>>
        BY <1>9 DEF Hangup, Drop, queueVars, historyVars
    <2>2. QED
        BY <1>1, <1>2, <2>1 DEF OrderInv
<1>10. ASSUME NEW r \in Identity, NEW e \in Envelope, Enqueue(r, e)
       PROVE  OrderInv'
    <2>1. UNCHANGED <<inflight, pc, batch>>
        BY <1>10 DEF Enqueue, PushEnvelope, replayVars
    <2>2. /\ queue'[r] = Append(queue[r], e) /\ log'[r] = Append(log[r], e)
          /\ \A q \in Identity \ {r} : queue'[q] = queue[q] /\ log'[q] = log[q]
        BY <1>10 DEF Enqueue, PushEnvelope, TypeOK, QueueTypeOK
    <2>3. /\ inflight[r] \in Seq(Envelope) /\ queue[r] \in Seq(Envelope)
          /\ log[r] \in Seq(Envelope) /\ Claimable(r) \in Seq(Envelope)
        BY <1>0, ScriptTypes DEF TypeOK
    <2>4. inflight[r] \o Append(queue[r], e) = Append(inflight[r] \o queue[r], e)
        <3>1. \A a, b \in Seq(Envelope) : a \o Append(b, e) = Append(a \o b, e)
            BY AppendJoins
        <3>2. QED
            BY <2>3, <3>1, Zenon
    <2>5. Claimable(r)' = Append(Claimable(r), e)
        BY <2>1, <2>2, <2>4 DEF Claimable
    <2>6. /\ InOrder(Append(Claimable(r), e), Append(log[r], e))
          /\ Elems(Append(Claimable(r), e)) \subseteq Elems(Append(log[r], e))
        BY <1>0, <2>3, OrderAppend DEF Ordered
    <2>7. Ordered(r)'
        BY <2>2, <2>5, <2>6 DEF Ordered
    <2>8. \A q \in Identity \ {r} : Ordered(q)'
        BY <1>0, <2>1, <2>2, OrderKept
    <2>9. QED
        BY <1>2, <2>1, <2>7, <2>8 DEF OrderInv
<1>11. ASSUME NEW i \in Instance, Crash(i)
       PROVE  OrderInv'
    <2>1. /\ \A s \in Socket : \/ pc'[s] = "idle"
                               \/ pc'[s] = pc[s] /\ batch'[s] = batch[s]
          /\ UNCHANGED <<queue, inflight, log>>
        BY <1>11 DEF Crash, queueVars, historyVars
    <2>2. QED
        BY <1>1, <1>2, <2>1 DEF OrderInv
<1>12. ASSUME NEW r \in Identity, Expire(r)
       PROVE  OrderInv'
    <2>1. /\ UNCHANGED <<pc, batch, log>>
          /\ \A s \in Socket : Owner[s] = r => pc[s] = "idle"
        BY <1>12 DEF Expire, replayVars, Idle, SocketsOf
    <2>2. \A q \in Identity \ {r} : inflight'[q] = inflight[q] /\ queue'[q] = queue[q]
        BY <1>12 DEF Expire, ExpireQueue, ExpireInflight, TypeOK, QueueTypeOK
    <2>3. inflight[r] \in Seq(Envelope) /\ queue[r] \in Seq(Envelope)
        BY <1>0 DEF QueueTypeOK
    <2>4. Ordered(r)'
        <3>1. CASE ExpireQueue(r)
            <4>1. inflight'[r] = inflight[r] /\ queue'[r] = <<>>
                BY <1>0, <3>1 DEF ExpireQueue, QueueTypeOK
            <4>2. Claimable(r)' = inflight[r]
                BY <2>3, <4>1 DEF Claimable
            <4>3. QED
                BY <1>0, <2>1, <4>2, ListsCut
        <3>2. CASE ExpireInflight(r)
            <4>1. inflight'[r] = <<>> /\ queue'[r] = queue[r]
                BY <1>0, <3>2 DEF ExpireInflight, QueueTypeOK
            <4>2. Claimable(r)' = queue[r]
                BY <2>3, <4>1 DEF Claimable
            <4>3. Undelivered(inflight[r], <<>>)
                BY <2>3, UndeliveredEnds
            <4>4. QED
                BY <1>0, <2>1, <4>2, <4>3, ListsCut
        <3>3. QED
            BY <1>12, <3>1, <3>2 DEF Expire
    <2>5. \A q \in Identity \ {r} : Ordered(q)'
        BY <1>0, <2>1, <2>2, OrderKept
    <2>6. \A s \in Socket : PutsBack(s)'
        BY <1>0, <2>1, <2>2 DEF PutsBack
    <2>7. QED
        BY <2>4, <2>5, <2>6 DEF OrderInv
<1>13. CASE UNCHANGED vars
    BY <1>1, <1>2, <1>13 DEF vars, queueVars, replayVars, historyVars, OrderInv
<1>14. QED
    BY <1>4, <1>5, <1>6, <1>7, <1>8, <1>9, <1>10, <1>11, <1>12, <1>13 DEF Next

(***************************************************************************)
(* With one replay at a time, whatever crashes, fails or expires, the next *)
(* claim returns envelopes in the order they arrived and none twice:       *)
(* OldestFirst for every instance.                                         *)
(***************************************************************************)
THEOREM SoloOldestFirst == Solo => (Spec => []OldestFirst)
<1> SUFFICES ASSUME Solo
             PROVE  Spec => []OldestFirst
    OBVIOUS
<1>1. TypeOK /\ TypeOK' /\ SoloInv /\ OrderInv /\ [Next]_vars => OrderInv'
    BY OrderInvNext
<1>2. OrderInv => OldestFirst
    BY DEF OrderInv, Ordered, InOrder, OldestFirst, ArrivedBefore
<1>3. QED
    BY <1>1, <1>2, OrderInvInit, TypeCorrect, SoloInvariant, PTL DEF Spec

-----------------------------------------------------------------------------
(* One replay at a time implements Mailbox.                                *)

LEMMA DurableStep ==
    ASSUME Solo, TypeOK, SoloInv, [Next]_vars
    PROVE  [Durable!Next]_(Durable!mailboxVars)
<1> USE ReplayAssumption, PartiesAssumption
<1> DEFINE owed == [r \in Identity |-> Stored(r)]
<1>0. /\ OneReplay /\ \A s \in Socket : Parked(s)
      /\ \A s \in Socket : Owner[s] \in Identity
      /\ \A r \in Identity : Stored(r) \subseteq Envelope
    BY ScriptTypes, ElemsType DEF SoloInv, Stored, TypeOK
<1>1. ASSUME \A r \in Identity : Stored(r)' = Stored(r),
             UNCHANGED <<written, expired>>
      PROVE  UNCHANGED Durable!mailboxVars
    BY <1>1 DEF Durable!mailboxVars
<1>2. ASSUME UNCHANGED <<queue, inflight, written, expired>>
      PROVE  UNCHANGED Durable!mailboxVars
    BY <1>1, <1>2 DEF Stored
<1>3. ASSUME NEW s \in Socket, Connect(s) \/ SettleOrRestoreFails(s) \/ Hangup(s) \/ Drop(s)
      PROVE  UNCHANGED Durable!mailboxVars
    BY <1>2, <1>3
    DEF Connect, SettleOrRestoreFails, Hangup, Drop, queueVars, historyVars
<1>4. ASSUME NEW s \in Socket, Claim(s) \/ ClaimFails(s)
      PROVE  UNCHANGED Durable!mailboxVars
    <2>1. UNCHANGED <<written, expired>>
        BY <1>4 DEF Claim, ClaimFails, historyVars
    <2>2. CASE ClaimScript(Owner[s])
        BY <1>1, <2>1, <2>2, SoloClaim
    <2>3. CASE UNCHANGED queueVars
        BY <1>2, <2>1, <2>3 DEF queueVars
    <2>4. QED
        BY <1>4, <2>2, <2>3 DEF Claim, ClaimFails
<1>5. ASSUME NEW s \in Socket, Replay(s)
      PROVE  \E S \in SUBSET Envelope : Durable!HandOver(Owner[s], S)
    <2>1. PICK S \in SUBSET Envelope :
              /\ written' = [written EXCEPT ![Owner[s]] = @ \cup S]
              /\ Elems(batch[s]) = S \cup Elems(batch'[s])
        BY <1>5, ReplayEffect
    <2>2. pc[s] = "replaying" /\ UNCHANGED <<queue, inflight, expired>>
        BY <1>5 DEF Replay, queueVars
    <2>3. S \subseteq Stored(Owner[s])
        BY <1>0, <2>1, <2>2 DEF Parked, Stored
    <2>4. \A r \in Identity : Stored(r)' = Stored(r)
        BY <2>2 DEF Stored
    <2>5. Durable!HandOver(Owner[s], S)
        BY <1>0, <2>1, <2>2, <2>3, <2>4 DEF Durable!HandOver
    <2>6. QED
        BY <2>5
<1>6. ASSUME NEW s \in Socket, Settle(s) \/ Restore(s)
      PROVE  \E S \in SUBSET Envelope : Durable!Forget(Owner[s], S)
    <2> DEFINE o == Owner[s]
               S == Stored(o) \ Stored(o)'
    <2>1. UNCHANGED <<written, expired>>
        BY <1>6 DEF Settle, Restore, historyVars
    <2>2. /\ Stored(o)' \subseteq Stored(o)
          /\ Stored(o) \subseteq Stored(o)' \cup written[o]
          /\ \A r \in Identity \ {o} : Stored(r)' = Stored(r)
        BY <1>6, SoloEnd DEF Stored
    <2>3. owed' = [owed EXCEPT ![o] = @ \ S]
        BY <1>0, <2>2
    <2>4. S \in SUBSET Envelope
        BY <1>0
    <2>5. S \subseteq written[o]
        BY <2>2
    <2>6. Durable!Forget(o, S)
        BY <2>1, <2>3, <2>5 DEF Durable!Forget
    <2>7. QED
        BY <2>4, <2>6
<1>7. ASSUME NEW r \in Identity, NEW e \in Envelope, Enqueue(r, e)
      PROVE  Durable!Accept(r, e)
    <2>1. UNCHANGED <<inflight, written, expired>>
        BY <1>7 DEF Enqueue, PushEnvelope
    <2>2. /\ queue'[r] = Append(queue[r], e)
          /\ \A q \in Identity \ {r} : queue'[q] = queue[q]
        BY <1>7 DEF Enqueue, PushEnvelope, TypeOK, QueueTypeOK
    <2>3. Elems(queue'[r]) = Elems(queue[r]) \cup {e}
        BY <2>2, ElemsAppend DEF TypeOK, QueueTypeOK
    <2>4. /\ Stored(r)' = Stored(r) \cup {e}
          /\ \A q \in Identity \ {r} : Stored(q)' = Stored(q)
        BY <2>1, <2>2, <2>3 DEF Stored
    <2>5. owed' = [owed EXCEPT ![r] = @ \cup {e}]
        BY <2>4
    <2>6. QED
        BY <2>1, <2>5 DEF Durable!Accept
<1>8. ASSUME NEW i \in Instance, Crash(i)
      PROVE  UNCHANGED Durable!mailboxVars
    BY <1>2, <1>8 DEF Crash, queueVars, historyVars
<1>9. ASSUME NEW r \in Identity, Expire(r)
      PROVE  \E S \in SUBSET Envelope : Durable!Lapse(r, S)
    <2>1. PICK S \in SUBSET Stored(r) :
              /\ expired' = [expired EXCEPT ![r] = @ \cup S]
              /\ Stored(r)' \subseteq Stored(r)
              /\ Stored(r) \subseteq Stored(r)' \cup S
              /\ \A q \in Identity \ {r} : Stored(q)' = Stored(q)
        <3>1. CASE ExpireQueue(r) /\ expired' = [expired EXCEPT ![r] = @ \cup Elems(queue[r])]
            <4>1. /\ queue'[r] = <<>> /\ inflight' = inflight
                  /\ \A q \in Identity \ {r} : queue'[q] = queue[q]
                BY <3>1 DEF ExpireQueue, TypeOK, QueueTypeOK
            <4>2. Stored(r)' = Elems(inflight[r])
                BY <4>1, ElemsEmpty DEF Stored
            <4>3. QED
                BY <3>1, <4>1, <4>2 DEF Stored
        <3>2. CASE ExpireInflight(r) /\ expired' = [expired EXCEPT ![r] = @ \cup Elems(inflight[r])]
            <4>1. /\ inflight'[r] = <<>> /\ queue' = queue
                  /\ \A q \in Identity \ {r} : inflight'[q] = inflight[q]
                BY <3>2 DEF ExpireInflight, TypeOK, QueueTypeOK
            <4>2. Stored(r)' = Elems(queue[r])
                BY <4>1, ElemsEmpty DEF Stored
            <4>3. QED
                BY <3>2, <4>1, <4>2 DEF Stored
        <3>3. QED
            BY <1>9, <3>1, <3>2 DEF Expire
    <2> DEFINE T == Stored(r) \ Stored(r)'
    <2>2. owed' = [owed EXCEPT ![r] = @ \ T] /\ T \in SUBSET S
        BY <2>1
    <2>3. UNCHANGED written
        BY <1>9 DEF Expire
    <2>4. Durable!Lapse(r, S)
        BY <2>1, <2>2, <2>3 DEF Durable!Lapse
    <2>5. S \in SUBSET Envelope
        BY <1>0, <2>1
    <2>6. QED
        BY <2>4, <2>5
<1>10. CASE UNCHANGED vars
    BY <1>2, <1>10 DEF vars, queueVars, historyVars
<1>11. QED
    BY <1>0, <1>3, <1>4, <1>5, <1>6, <1>7, <1>8, <1>9, <1>10 DEF Next, Durable!Next

(***************************************************************************)
(* With one replay at a time per recipient, the two Redis lists are the    *)
(* mailbox: every step of the code accepts, hands over, forgets what was   *)
(* handed over, lets lapse, or changes nothing the mailbox promises.       *)
(***************************************************************************)
THEOREM ReplayImplementsMailbox == Solo => (Spec => DurableSpec)
<1> SUFFICES ASSUME Solo
             PROVE  Spec => DurableSpec
    OBVIOUS
<1>1. Init => Durable!Init
    BY ElemsEmpty DEF Init, QueueInit, Durable!Init, Stored
<1>2. TypeOK /\ SoloInv /\ [Next]_vars => [Durable!Next]_(Durable!mailboxVars)
    BY DurableStep
<1>3. QED
    BY <1>1, <1>2, TypeCorrect, SoloInvariant, PTL DEF Spec, DurableSpec, Durable!Spec

-----------------------------------------------------------------------------
(* Any number of replays at a time, without crashes and Redis failures.    *)

LEMMA InHandOf ==
    ASSUME NEW r \in Identity, NEW e
    PROVE  e \in InHand(r) <=>
               \E s \in Socket : /\ Owner[s] = r
                                 /\ pc[s] \in {"replaying", "restoring"}
                                 /\ e \in Elems(batch[s])
BY DEF InHand, SocketsOf

LEMMA InHandOfNext ==
    ASSUME NEW r \in Identity, NEW e
    PROVE  e \in InHand(r)' <=>
               \E s \in Socket : /\ Owner[s] = r
                                 /\ pc'[s] \in {"replaying", "restoring"}
                                 /\ e \in Elems(batch'[s])
BY DEF InHand, SocketsOf

(***************************************************************************)
(* A step of socket s keeps what the others have in hand, and everything   *)
(* of its own that it passes on: to the queue, to its client, or to itself *)
(* for the rest of the call.                                               *)
(***************************************************************************)
KeptBy(s) ==
    written[Owner[s]] \cup Elems(queue[Owner[s]]) \cup
        (IF pc[s] \in {"replaying", "restoring"} THEN Elems(batch[s]) ELSE {})

LEMMA ConcurrentOwnStep ==
    ASSUME NEW s \in Socket, ConcurrentInv, TypeOK,
           \A t \in Socket \ {s} : pc'[t] = pc[t] /\ batch'[t] = batch[t],
           UNCHANGED <<log, expired>>,
           \A r \in Identity \ {Owner[s]} :
               queue'[r] = queue[r] /\ written'[r] = written[r],
           KeptBy(s) \subseteq KeptBy(s)'
    PROVE  ConcurrentInv'
<1> SUFFICES ASSUME NEW r \in Identity, NEW e \in Elems(log[r])
             PROVE  e \in written'[r] \cup expired[r] \cup Elems(queue'[r]) \cup InHand(r)'
    BY DEF ConcurrentInv
<1>1. e \in written[r] \cup expired[r] \cup Elems(queue[r]) \cup InHand(r)
    BY DEF ConcurrentInv
<1>2. KeptBy(s)' \subseteq written'[Owner[s]] \cup Elems(queue'[Owner[s]]) \cup InHand(Owner[s])'
    BY ReplayAssumption, PartiesAssumption, InHandOfNext DEF KeptBy
<1>3. ASSUME e \in InHand(r)
      PROVE  (r = Owner[s] /\ e \in KeptBy(s)) \/ e \in InHand(r)'
    <2>1. PICK t \in Socket : /\ Owner[t] = r
                              /\ pc[t] \in {"replaying", "restoring"}
                              /\ e \in Elems(batch[t])
        BY <1>3, InHandOf
    <2>2. CASE t = s
        BY <2>1, <2>2 DEF KeptBy
    <2>3. CASE t # s
        <3>1. pc'[t] \in {"replaying", "restoring"} /\ e \in Elems(batch'[t])
            BY <2>1, <2>3
        <3>2. QED
            BY <2>1, <3>1, InHandOfNext
    <2>4. QED
        BY <2>2, <2>3
<1>4. CASE r = Owner[s]
    BY <1>1, <1>2, <1>3, <1>4 DEF KeptBy
<1>5. CASE r # Owner[s]
    BY <1>1, <1>3, <1>5
<1>6. QED
    BY <1>4, <1>5

LEMMA ConcurrentInvNext ==
    ASSUME Faults \cap {"crash", "redis"} = {}, TypeOK, ConcurrentInv, [Next]_vars
    PROVE  ConcurrentInv'
<1> USE ReplayAssumption, PartiesAssumption
<1>0. \A s \in Socket : Owner[s] \in Identity
    OBVIOUS
<1>1. ASSUME NEW s \in Socket, Connect(s)
      PROVE  ConcurrentInv'
    <2>1. /\ pc[s] = "idle"
          /\ \A t \in Socket \ {s} : pc'[t] = pc[t] /\ batch'[t] = batch[t]
          /\ UNCHANGED <<queue, log, written, expired>>
        BY <1>1 DEF Connect, GoTo, TypeOK, queueVars, historyVars
    <2>2. QED
        BY <1>0, <2>1, ConcurrentOwnStep DEF KeptBy
<1>2. ASSUME NEW s \in Socket, Claim(s)
      PROVE  ConcurrentInv'
    <2> DEFINE o == Owner[s]
    <2>1. /\ pc[s] = "claiming"
          /\ batch'[s] = Claimable(o)
          /\ pc'[s] = IF Claimable(o) = <<>> THEN "idle" ELSE "replaying"
          /\ \A t \in Socket \ {s} : pc'[t] = pc[t] /\ batch'[t] = batch[t]
          /\ UNCHANGED <<log, written, expired>>
        BY <1>2 DEF Claim, GoTo, TypeOK, historyVars
    <2>2. \A r \in Identity \ {o} : queue'[r] = queue[r]
        BY <1>2 DEF Claim, ClaimScript, TypeOK, QueueTypeOK
    <2>3. Elems(Claimable(o)) = Stored(o)
        BY <1>0, ScriptTypes DEF TypeOK
    <2>4. CASE Claimable(o) = <<>>
        <3>1. Elems(queue[o]) = {}
            BY <2>3, <2>4, ElemsEmpty DEF Stored
        <3>2. QED
            BY <1>0, <2>1, <2>2, <3>1, ConcurrentOwnStep DEF KeptBy
    <2>5. CASE Claimable(o) # <<>>
        <3>1. pc'[s] = "replaying" /\ Elems(queue[o]) \subseteq Elems(batch'[s])
            BY <2>1, <2>3, <2>5 DEF Stored
        <3>2. QED
            BY <1>0, <2>1, <2>2, <3>1, ConcurrentOwnStep DEF KeptBy
    <2>6. QED
        BY <2>4, <2>5
<1>3. ASSUME NEW s \in Socket, Replay(s)
      PROVE  ConcurrentInv'
    <2>1. PICK S \in SUBSET Envelope :
              /\ written' = [written EXCEPT ![Owner[s]] = @ \cup S]
              /\ Elems(batch[s]) = S \cup Elems(batch'[s])
              /\ \/ pc'[s] = "settling" /\ batch'[s] = <<>>
                 \/ pc'[s] = "restoring"
              /\ \A t \in Socket \ {s} : pc'[t] = pc[t] /\ batch'[t] = batch[t]
        BY <1>3, ReplayEffect
    <2>2. /\ pc[s] = "replaying" /\ UNCHANGED <<queue, log, expired>>
          /\ written'[Owner[s]] = written[Owner[s]] \cup S
          /\ \A r \in Identity \ {Owner[s]} : written'[r] = written[r]
        BY <1>0, <1>3, <2>1 DEF Replay, queueVars, TypeOK
    <2>3. KeptBy(s) \subseteq KeptBy(s)'
        BY <2>1, <2>2, ElemsEmpty DEF KeptBy
    <2>4. QED
        BY <1>0, <2>1, <2>2, <2>3, ConcurrentOwnStep DEF KeptBy
<1>4. ASSUME NEW s \in Socket, Settle(s)
      PROVE  ConcurrentInv'
    <2>1. /\ pc[s] = "settling"
          /\ \A t \in Socket \ {s} : pc'[t] = pc[t] /\ batch'[t] = batch[t]
          /\ UNCHANGED <<queue, log, written, expired>>
        BY <1>4 DEF Settle, SettleDel, GoTo, TypeOK, historyVars
    <2>2. QED
        BY <1>0, <2>1, ConcurrentOwnStep DEF KeptBy
<1>5. ASSUME NEW s \in Socket, Restore(s)
      PROVE  ConcurrentInv'
    <2> DEFINE o == Owner[s]
    <2>1. /\ \A t \in Socket \ {s} : pc'[t] = pc[t] /\ batch'[t] = batch[t]
          /\ UNCHANGED <<log, written, expired>>
        BY <1>5 DEF Restore, GoTo, TypeOK, historyVars
    <2>2. /\ queue'[o] = batch[s] \o queue[o]
          /\ \A r \in Identity \ {o} : queue'[r] = queue[r]
        BY <1>0, <1>5 DEF Restore, RestoreScript, TypeOK, QueueTypeOK
    <2>3. Elems(queue'[o]) = Elems(batch[s]) \cup Elems(queue[o])
        BY <1>0, <2>2, ElemsConcat DEF TypeOK, QueueTypeOK
    <2>4. QED
        BY <1>0, <2>1, <2>2, <2>3, ConcurrentOwnStep DEF KeptBy
<1>6. ASSUME NEW s \in Socket, Hangup(s) \/ Drop(s)
      PROVE  ConcurrentInv'
    <2>1. UNCHANGED <<queue, pc, batch, log, written, expired>>
        BY <1>6 DEF Hangup, Drop, queueVars, historyVars
    <2>2. QED
        BY <2>1 DEF ConcurrentInv, InHand
<1>7. ASSUME NEW r \in Identity, NEW e \in Envelope, Enqueue(r, e)
      PROVE  ConcurrentInv'
    <2>1. UNCHANGED <<pc, batch, written, expired>>
        BY <1>7 DEF Enqueue, replayVars
    <2>2. /\ queue'[r] = Append(queue[r], e) /\ log'[r] = Append(log[r], e)
          /\ \A q \in Identity \ {r} : queue'[q] = queue[q] /\ log'[q] = log[q]
        BY <1>7 DEF Enqueue, PushEnvelope, TypeOK, QueueTypeOK
    <2>3. /\ Elems(queue'[r]) = Elems(queue[r]) \cup {e}
          /\ Elems(log'[r]) = Elems(log[r]) \cup {e}
        BY <2>2, ElemsAppend DEF TypeOK, QueueTypeOK
    <2>4. \A q \in Identity : InHand(q)' = InHand(q)
        BY <2>1 DEF InHand
    <2>5. ASSUME NEW q \in Identity
          PROVE  Elems(log'[q]) \subseteq
                     written[q] \cup expired[q] \cup Elems(queue'[q]) \cup InHand(q)'
        <3>1. CASE q = r
            BY <2>3, <2>4, <3>1 DEF ConcurrentInv
        <3>2. CASE q # r
            BY <2>2, <2>4, <3>2 DEF ConcurrentInv
        <3>3. QED
            BY <3>1, <3>2
    <2>6. QED
        BY <2>1, <2>5 DEF ConcurrentInv
<1>8. ASSUME NEW r \in Identity, Expire(r)
      PROVE  ConcurrentInv'
    <2>1. UNCHANGED <<pc, batch, log, written>>
        BY <1>8 DEF Expire, replayVars
    <2>2. \A q \in Identity : InHand(q)' = InHand(q)
        BY <2>1 DEF InHand
    <2>3. /\ Elems(queue[r]) \cup expired[r] \subseteq Elems(queue'[r]) \cup expired'[r]
          /\ \A q \in Identity \ {r} : queue'[q] = queue[q] /\ expired'[q] = expired[q]
        BY <1>8, ElemsEmpty DEF Expire, ExpireQueue, ExpireInflight, TypeOK, QueueTypeOK
    <2>4. QED
        BY <2>1, <2>2, <2>3 DEF ConcurrentInv
<1>9. ~ \E s \in Socket : ClaimFails(s) \/ SettleOrRestoreFails(s)
    BY DEF ClaimFails, SettleOrRestoreFails, Fault
<1>10. ~ \E i \in Instance : Crash(i)
    BY DEF Crash, Fault
<1>11. CASE UNCHANGED vars
    BY <1>11 DEF vars, queueVars, replayVars, historyVars, ConcurrentInv, InHand
<1>12. QED
    BY <1>1, <1>2, <1>3, <1>4, <1>5, <1>6, <1>7, <1>8, <1>9, <1>10, <1>11 DEF Next

(***************************************************************************)
(* Without crashes and Redis failures, any number of replays of the same   *)
(* recipient, on any instances, with sockets lost at any moment, destroy   *)
(* nothing.                                                                *)
(***************************************************************************)
THEOREM ConcurrentNothingDestroyed ==
    Faults \cap {"crash", "redis"} = {} => (Spec => []NothingDestroyed)
<1> SUFFICES ASSUME Faults \cap {"crash", "redis"} = {}
             PROVE  Spec => []NothingDestroyed
    OBVIOUS
<1>1. Init => ConcurrentInv
    BY ElemsEmpty DEF Init, ConcurrentInv
<1>2. TypeOK /\ ConcurrentInv /\ [Next]_vars => ConcurrentInv'
    BY ConcurrentInvNext
<1>3. ConcurrentInv => NothingDestroyed
    BY DEF ConcurrentInv, NothingDestroyed, Stored
<1>4. QED
    BY <1>1, <1>2, <1>3, TypeCorrect, PTL DEF Spec

-----------------------------------------------------------------------------
(* Routing, on top of the replay.                                          *)

LEMMA Parties ==
    /\ \A s \in Socket : Owner[s] \in Identity /\ Host[s] \in Instance
    /\ \A e \in Envelope : Recipients[e] \subseteq Identity /\ Kind[e] \in Kinds
BY PartiesAssumption, DeliveryAssumption

\* A connection's sequence with something sent on it, and with the oldest taken off.
LEMMA Sent ==
    ASSUME NEW S, NEW q \in Seq(S), NEW x \in S
    PROVE  /\ Append(q, x) \in Seq(S) /\ Len(Append(q, x)) = Len(q) + 1
           /\ Append(q, x)[Len(q) + 1] = x
           /\ \A n \in 1..Len(q) : Append(q, x)[n] = q[n]
OBVIOUS

LEMMA Taken ==
    ASSUME NEW S, NEW q \in Seq(S), q # <<>>
    PROVE  /\ Tail(q) \in Seq(S) /\ Len(Tail(q)) = Len(q) - 1
           /\ Len(q) \in Nat /\ 1 \in 1..Len(q) /\ Head(q) = q[1] /\ q[1] \in S
           /\ \A n \in 1..Len(Tail(q)) : n + 1 \in 1..Len(q) /\ Tail(q)[n] = q[n + 1]
           /\ \A n \in 1..Len(q) : n = 1 \/ (n - 1 \in 1..Len(Tail(q)) /\ Tail(q)[n - 1] = q[n])
OBVIOUS

-----------------------------------------------------------------------------
(* Type correctness.                                                       *)

LEMMA BusTypes ==
    ASSUME BusTypeOK
    PROVE  /\ \A i \in Instance, r \in Identity, s \in Socket :
                Track(i, r, s) \/ Untrack(i, r, s) => BusTypeOK'
           /\ \A i \in Instance :
                RunCommand(i) \/ RejectSubscribe(i) \/ LoseInstance(i) => BusTypeOK'
           /\ \A i \in Instance, r \in Identity, e \in Envelope : Publish(i, r, e) => BusTypeOK'
<1> USE DEF BusTypeOK
<1>1. ASSUME NEW i \in Instance, NEW r \in Identity, NEW s \in Socket,
             Track(i, r, s) \/ Untrack(i, r, s)
      PROVE  BusTypeOK'
    <2>1. \A op \in {"subscribe", "unsubscribe"} :
            Append(pipe[i], [op |-> op, id |-> r, by |-> s]) \in Seq(Command)
        BY Sent DEF Command
    <2>2. pipe' \in [Instance -> Seq(Command)]
        BY <1>1, <2>1 DEF Track, Untrack, Send
    <2>3. QED
        BY <1>1, <2>2 DEF Track, Untrack
<1>2. ASSUME NEW i \in Instance, RunCommand(i) \/ RejectSubscribe(i) \/ LoseInstance(i)
      PROVE  BusTypeOK'
    <2>1. CASE RunCommand(i) \/ RejectSubscribe(i)
        <3>1. pipe[i] \in Seq(Command) /\ pipe[i] # <<>>
            BY <2>1 DEF RunCommand, RejectSubscribe
        <3>2. Tail(pipe[i]) \in Seq(Command) /\ NextCommand(i) \in Command
            BY <3>1, Taken DEF NextCommand
        <3>3. NextCommand(i).id \in Identity
            BY <3>2 DEF Command
        <3>4. pipe' \in [Instance -> Seq(Command)]
            BY <2>1, <3>2 DEF RunCommand, RejectSubscribe
        <3>5. tracked' \subseteq Instance \X Identity /\ subs' \subseteq Instance \X Identity
            BY <2>1, <3>3 DEF RunCommand, RejectSubscribe
        <3>6. QED
            BY <2>1, <3>4, <3>5 DEF RunCommand, RejectSubscribe
    <2>2. CASE LoseInstance(i)
        <3>1. <<>> \in Seq(Command) /\ <<>> \in Seq(Identity \X Envelope)
            OBVIOUS
        <3>2. QED
            BY <2>2, <3>1 DEF LoseInstance
    <2>3. QED
        BY <1>2, <2>1, <2>2
<1>3. ASSUME NEW i \in Instance, NEW r \in Identity, NEW e \in Envelope, Publish(i, r, e)
      PROVE  BusTypeOK'
    <2>1. \A j \in Instance : Append(inbox[j], <<r, e>>) \in Seq(Identity \X Envelope)
        BY Sent
    <2>2. QED
        BY <1>3, <2>1 DEF Publish
<1>4. QED
    BY <1>1, <1>2, <1>3

LEMMA FaultTypes ==
    ASSUME NEW kind, Fault(kind), TypeOK
    PROVE  faults' \in 0..MaxFaults
BY ReplayAssumption DEF Fault, TypeOK

\* A routing call moves on.
LEMMA RouteTypes ==
    ASSUME DeliveryTypeOK, NEW e \in Envelope, NEW r \in Identity, NEW stage \in Stage,
           SetRoute(e, r, stage)
    PROVE  route' \in [Envelope -> [Identity -> Stage]]
BY DEF DeliveryTypeOK, SetRoute

LEMMA WriteLiveTypes ==
    ASSUME DeliveryTypeOK, NEW e \in Envelope, NEW writes \in SUBSET Socket, WriteLive(e, writes)
    PROVE  /\ written' \in [Identity -> SUBSET Envelope]
           /\ live' \subseteq Socket \X Envelope /\ twice' \in BOOLEAN
           /\ log' = log /\ expired' = expired
BY DEF DeliveryTypeOK, TypeOK, WriteLive

LEMMA DeliveryTypeInit == DeliveryInit => DeliveryTypeOK
<1>1. Init => TypeOK
    BY ReplayAssumption, PartiesAssumption DEF Init, TypeOK, QueueInit, QueueTypeOK, Stages
<1>2. BusInit => BusTypeOK
    <2>1. <<>> \in Seq(Command) /\ <<>> \in Seq(Identity \X Envelope)
        OBVIOUS
    <2>2. QED
        BY <2>1 DEF BusInit, BusTypeOK
<1>3. SUFFICES ASSUME DeliveryInit PROVE DeliveryTypeOK
    OBVIOUS
<1>4. /\ session \in [Socket -> Sessions] /\ route \in [Envelope -> [Identity -> Stage]]
      /\ local \in [Envelope -> [Identity -> BOOLEAN]]
      /\ reached \in [Envelope -> [Identity -> SUBSET Instance]]
    BY <1>3 DEF DeliveryInit, Sessions, Stage
<1>5. QED
    BY <1>1, <1>2, <1>3, <1>4 DEF DeliveryInit, DeliveryTypeOK

LEMMA DeliveryTypeNext ==
    ASSUME DeliveryTypeOK, [DeliveryNext]_deliveryVars
    PROVE  DeliveryTypeOK'
<1> USE Parties DEF DeliveryTypeOK
<1>1. ASSUME NEW s \in Socket, ReplayStep(s) \/ ReplayFails(s)
      PROVE  DeliveryTypeOK'
    <2>1. TypeOK'
        BY <1>1, TypeNext DEF ReplayStep, ReplayFails, DrainStep, Next
    <2>2. QED
        BY <1>1, <2>1 DEF ReplayStep, ReplayFails, liveVars, busVars, routeVars, traceVars, BusTypeOK
<1>2. ASSUME NEW s \in Socket, Open(s) \/ RefuseHandshake(s) \/ Lose(s)
      PROVE  DeliveryTypeOK'
    <2>1. wire' \in [Socket -> {"open", "down"}] /\ faults' \in 0..MaxFaults
        BY <1>2, ReplayAssumption, FaultTypes DEF Open, RefuseHandshake, Lose, TypeOK
    <2>2. TypeOK'
        BY <1>2, <2>1 DEF Open, RefuseHandshake, Lose, TypeOK, queueVars, historyVars, QueueTypeOK
    <2>3. QED
        BY <1>2, <2>2 DEF Open, RefuseHandshake, Lose, Sessions, liveVars, busVars, routeVars,
                          traceVars, BusTypeOK
<1>3. ASSUME NEW s \in Socket, Register(s)
      PROVE  DeliveryTypeOK'
    <2>1. TypeOK'
        BY <1>3 DEF Register, TypeOK, queueVars, historyVars, QueueTypeOK, Stages
    <2>2. BusTypeOK'
        BY <1>3, BusTypes DEF Register, busVars, BusTypeOK
    <2>3. session' \in [Socket -> Sessions]
        BY <1>3 DEF Register, Sessions
    <2>4. QED
        BY <1>3, <2>1, <2>2, <2>3 DEF Register, routeVars, traceVars
<1>4. ASSUME NEW s \in Socket, Teardown(s)
      PROVE  DeliveryTypeOK'
    <2>1. TypeOK'
        BY <1>4 DEF Teardown, TypeOK, queueVars, historyVars, QueueTypeOK
    <2>2. BusTypeOK'
        BY <1>4, BusTypes DEF Teardown, busVars, BusTypeOK
    <2>3. QED
        BY <1>4, <2>1, <2>2 DEF Teardown, Sessions, routeVars, traceVars
<1>5. ASSUME NEW i \in Instance, RunSubscriber(i) \/ SubscribeFails(i)
      PROVE  DeliveryTypeOK'
    <2>1. BusTypeOK'
        BY <1>5, BusTypes DEF RunSubscriber, SubscribeFails
    <2>2. faults' \in 0..MaxFaults /\ pc' \in [Socket -> Stages]
        <3>1. CASE RunSubscriber(i)
            BY <3>1 DEF RunSubscriber, TypeOK, Stages
        <3>2. CASE SubscribeFails(i)
            BY <3>2, FaultTypes DEF SubscribeFails, TypeOK, replayVars
        <3>3. QED
            BY <1>5, <3>1, <3>2
    <2>3. TypeOK'
        BY <1>5, <2>2 DEF RunSubscriber, SubscribeFails, TypeOK, queueVars, replayVars,
                          historyVars, QueueTypeOK
    <2>4. QED
        BY <1>5, <2>1, <2>3 DEF RunSubscriber, SubscribeFails, routeVars, traceVars
<1>6. ASSUME NEW i \in Instance, BusCallback(i)
      PROVE  DeliveryTypeOK'
    <2> DEFINE r == Head(inbox[i])[1]
               e == Head(inbox[i])[2]
    <2>1. r \in Identity /\ e \in Envelope /\ Tail(inbox[i]) \in Seq(Identity \X Envelope)
        BY <1>6, Taken DEF BusCallback, BusTypeOK
    <2>2. Writable(i, r) \subseteq Socket
        BY DEF Writable, Held, SocketsOf
    <2>3. /\ written' \in [Identity -> SUBSET Envelope]
          /\ live' \subseteq Socket \X Envelope /\ twice' \in BOOLEAN
          /\ log' = log /\ expired' = expired
        BY <1>6, <2>1, <2>2, WriteLiveTypes DEF BusCallback
    <2>4. TypeOK'
        BY <1>6, <2>3 DEF BusCallback, TypeOK, queueVars, replayVars, QueueTypeOK
    <2>5. BusTypeOK' /\ stale' \subseteq Envelope \X Identity
        BY <1>6, <2>1 DEF BusCallback, BusTypeOK
    <2>6. QED
        BY <1>6, <2>3, <2>4, <2>5 DEF BusCallback, routeVars
<1>7. ASSUME NEW i \in Instance, CrashInstance(i)
      PROVE  DeliveryTypeOK'
    <2>1. TypeOK'
        BY <1>7, TypeNext DEF CrashInstance, Next
    <2>2. BusTypeOK'
        BY <1>7, BusTypes DEF CrashInstance
    <2>3. route' \in [Envelope -> [Identity -> Stage]] /\ session' \in [Socket -> Sessions]
        BY <1>7 DEF CrashInstance, Stage, Sessions
    <2>4. QED
        BY <1>7, <2>1, <2>2, <2>3 DEF CrashInstance, traceVars
<1>8. ASSUME NEW e \in Envelope, Route(e)
      PROVE  DeliveryTypeOK'
    <2> DEFINE writes == UNION {Writable(via[e], r) : r \in Recipients[e]}
    <2>1. writes \in SUBSET Socket
        BY DEF Writable, Held, SocketsOf
    <2>2. /\ written' \in [Identity -> SUBSET Envelope]
          /\ live' \subseteq Socket \X Envelope /\ twice' \in BOOLEAN
          /\ log' = log /\ expired' = expired
        BY <1>8, <2>1, WriteLiveTypes DEF Route
    <2>3. TypeOK'
        BY <1>8, <2>2 DEF Route, TypeOK, queueVars, replayVars, QueueTypeOK
    <2>4. route' \in [Envelope -> [Identity -> Stage]]
        BY <1>8 DEF Route, Stage
    <2>5. local' \in [Envelope -> [Identity -> BOOLEAN]]
        <3>1. \A r \in Identity : (r \in Recipients[e] /\ DeliveredLocally(e, r)) \in BOOLEAN
            BY DEF DeliveredLocally
        <3>2. QED
            BY <1>8, <3>1 DEF Route
    <2>6. QED
        BY <1>8, <2>2, <2>3, <2>4, <2>5 DEF Route, busVars, BusTypeOK
<1>9. ASSUME NEW e \in Envelope, NEW r \in Recipients[e], RunPublish(e, r) \/ Judge(e, r)
      PROVE  DeliveryTypeOK'
    <2>1. r \in Identity
        OBVIOUS
    <2>2. route' \in [Envelope -> [Identity -> Stage]]
        <3>1. \E stage \in Stage : SetRoute(e, r, stage)
            BY <1>9 DEF RunPublish, Judge, Stage, Finished
        <3>2. QED
            BY <2>1, <3>1, RouteTypes
    <2>3. BusTypeOK'
        BY <1>9, <2>1, BusTypes DEF RunPublish, Judge, busVars, BusTypeOK
    <2>4. reached' \in [Envelope -> [Identity -> SUBSET Instance]]
        <3>1. Receivers(r) \in SUBSET Instance /\ {} \in SUBSET Instance
            BY DEF Receivers
        <3>2. \A v \in SUBSET Instance :
                [reached EXCEPT ![e][r] = v] \in [Envelope -> [Identity -> SUBSET Instance]]
            BY <2>1
        <3>3. QED
            BY <1>9, <3>1, <3>2 DEF RunPublish, Judge
    <2>5. local' \in [Envelope -> [Identity -> BOOLEAN]]
        <3>1. [local EXCEPT ![e][r] = FALSE] \in [Envelope -> [Identity -> BOOLEAN]]
            BY <2>1
        <3>2. local' = local \/ local' = [local EXCEPT ![e][r] = FALSE]
            BY <1>9 DEF RunPublish, Judge
        <3>3. QED
            BY <3>1, <3>2
    <2>6. TypeOK'
        BY <1>9 DEF RunPublish, Judge, vars, queueVars, replayVars, historyVars, TypeOK, QueueTypeOK
    <2>7. QED
        BY <1>9, <2>1, <2>2, <2>3, <2>4, <2>5, <2>6 DEF RunPublish, Judge, traceVars
<1>10. ASSUME NEW e \in Envelope, NEW r \in Identity,
              EnqueueOffline(e, r) \/ RouteFails(e, r)
       PROVE  DeliveryTypeOK'
    <2>1. route' \in [Envelope -> [Identity -> Stage]]
        <3>1. \E stage \in Stage : SetRoute(e, r, stage)
            BY <1>10 DEF EnqueueOffline, RouteFails, Stage, Finished
        <3>2. QED
            BY <3>1, RouteTypes
    <2>2. TypeOK'
        <3>1. CASE EnqueueOffline(e, r)
            BY <3>1, TypeNext DEF EnqueueOffline, Next
        <3>2. CASE RouteFails(e, r)
            <4>1. QueueTypeOK' /\ log' \in [Identity -> Seq(Envelope)]
                <5>1. CASE UNCHANGED <<queueVars, log>>
                    BY <5>1 DEF queueVars, TypeOK, QueueTypeOK
                <5>2. CASE PushEnvelope(r, e) /\ log' = [log EXCEPT ![r] = Append(@, e)]
                    BY <5>2, ScriptTypes, ElemsAppend DEF TypeOK
                <5>3. QED
                    BY <3>2, <5>1, <5>2 DEF RouteFails
            <4>2. QED
                BY <3>2, <4>1, ReplayAssumption DEF RouteFails, Fault, TypeOK, replayVars
        <3>3. QED
            BY <1>10, <3>1, <3>2
    <2>3. QED
        BY <1>10, <2>1, <2>2 DEF EnqueueOffline, RouteFails, busVars, BusTypeOK, traceVars
<1>11. ASSUME NEW e \in Envelope, SendReceipt(e)
       PROVE  DeliveryTypeOK'
    <2>1. receipt' \in [Envelope -> {"none", "delivered", "queued", "failed"}]
        BY <1>11 DEF SendReceipt, ReceiptFor
    <2>2. QED
        BY <1>11, <2>1 DEF SendReceipt, vars, queueVars, replayVars, historyVars, TypeOK, QueueTypeOK,
                           busVars, BusTypeOK, traceVars
<1>12. CASE UNCHANGED deliveryVars
    BY <1>12 DEF deliveryVars, liveVars, vars, queueVars, replayVars, historyVars, TypeOK,
                 QueueTypeOK, busVars, BusTypeOK, routeVars, traceVars
<1>13. QED
    BY <1>1, <1>2, <1>3, <1>4, <1>5, <1>6, <1>7, <1>8, <1>9, <1>10, <1>11, <1>12
    DEF DeliveryNext, RelayStep, ClientStep, FaultStep

\* Every variable of the relay keeps its type, whatever fails.
THEOREM DeliveryTypeCorrect == DeliverySpec => []DeliveryTypeOK
<1>1. DeliveryTypeOK /\ [DeliveryNext]_deliveryVars => DeliveryTypeOK'
    BY DeliveryTypeNext
<1>2. QED
    BY DeliveryTypeInit, <1>1, PTL DEF DeliverySpec

-----------------------------------------------------------------------------
(* What Redis will have heard of an identity once a pipe is empty: the     *)
(* last command about it decides, or the subscription there is.            *)

Asked(i, r, op) ==
    \E n \in 1..Len(pipe[i]) :
        /\ pipe[i][n].op = op /\ pipe[i][n].id = r
        /\ \A m \in 1..Len(pipe[i]) : pipe[i][m].id = r => m <= n

Unasked(i, r) == \A n \in 1..Len(pipe[i]) : pipe[i][n].id # r

Heard(i, r) == Asked(i, r, "subscribe") \/ (Unasked(i, r) /\ <<i, r>> \in subs)

Unheard(i, r) == Asked(i, r, "unsubscribe") \/ (Unasked(i, r) /\ <<i, r>> \notin subs)

\* A command that is sent has the last word on its identity, and none on others.
LEMMA SendEffect ==
    ASSUME BusTypeOK, NEW i \in Instance, NEW r \in Identity, NEW s \in Socket,
           NEW op \in {"subscribe", "unsubscribe"}, Send(i, op, r, s), subs' = subs
    PROVE  /\ Asked(i, r, op)'
           /\ \A j \in Instance, q \in Identity : <<j, q>> # <<i, r>> =>
                /\ Heard(j, q) => Heard(j, q)'
                /\ Unheard(j, q) => Unheard(j, q)'
<1> DEFINE c == [op |-> op, id |-> r, by |-> s]
<1>1. pipe[i] \in Seq(Command) /\ c \in Command
    BY DEF BusTypeOK, Command
<1>2. /\ pipe'[i] = Append(pipe[i], c)
      /\ \A j \in Instance : j # i => pipe'[j] = pipe[j]
    BY DEF Send, BusTypeOK
<1>3. /\ Len(pipe[i]) \in Nat /\ Len(pipe'[i]) = Len(pipe[i]) + 1
      /\ pipe'[i][Len(pipe[i]) + 1] = c
      /\ \A n \in 1..Len(pipe[i]) : pipe'[i][n] = pipe[i][n]
    BY <1>1, <1>2, Sent
<1> HIDE DEF c
<1>4. c.op = op /\ c.id = r
    BY DEF c
<1>5. Asked(i, r, op)'
    BY <1>3, <1>4 DEF Asked
<1>6. ASSUME NEW j \in Instance, NEW q \in Identity, <<j, q>> # <<i, r>>
      PROVE  /\ \A o \in {"subscribe", "unsubscribe"} : Asked(j, q, o) => Asked(j, q, o)'
             /\ Unasked(j, q) => Unasked(j, q)'
    <2>1. CASE j # i
        BY <1>2, <2>1 DEF Asked, Unasked
    <2>2. CASE j = i
        <3>1. \A n \in 1..Len(pipe'[i]) : n \in 1..Len(pipe[i]) \/ n = Len(pipe[i]) + 1
            BY <1>3
        <3>2. \A n \in 1..Len(pipe[i]) : n \in 1..Len(pipe'[i])
            BY <1>3
        <3>3. q # r
            BY <1>6, <2>2
        <3>4. \A o \in {"subscribe", "unsubscribe"} : Asked(j, q, o) => Asked(j, q, o)'
            BY <1>3, <1>4, <2>2, <3>1, <3>2, <3>3 DEF Asked
        <3>5. Unasked(j, q) => Unasked(j, q)'
            BY <1>3, <1>4, <2>2, <3>1, <3>3 DEF Unasked
        <3>6. QED
            BY <3>4, <3>5
    <2>3. QED
        BY <2>1, <2>2
<1>7. QED
    BY <1>5, <1>6 DEF Heard, Unheard

\* The oldest command goes: who had not the last word changes nothing.
LEMMA TakeEffect ==
    ASSUME BusTypeOK, NEW i \in Instance, pipe[i] # <<>>,
           pipe' = [pipe EXCEPT ![i] = Tail(@)],
           NEW j \in Instance, NEW q \in Identity
    PROVE  /\ \A o \in {"subscribe", "unsubscribe"} : Asked(j, q, o) =>
                \/ Asked(j, q, o)'
                \/ j = i /\ NextCommand(i).id = q /\ NextCommand(i).op = o /\ Unasked(j, q)'
           /\ Unasked(j, q) => Unasked(j, q)' /\ (j = i => NextCommand(i).id # q)
<1>1. /\ pipe'[i] = Tail(pipe[i]) /\ \A k \in Instance : k # i => pipe'[k] = pipe[k]
      /\ pipe[i] \in Seq(Command)
    BY DEF BusTypeOK
<1>2. CASE j # i
    BY <1>1, <1>2 DEF Asked, Unasked
<1>3. CASE j = i
    <2>1. /\ Len(pipe'[i]) = Len(pipe[i]) - 1 /\ Len(pipe[i]) \in Nat /\ 1 \in 1..Len(pipe[i])
          /\ NextCommand(i) = pipe[i][1]
          /\ \A n \in 1..Len(pipe'[i]) : n + 1 \in 1..Len(pipe[i]) /\ pipe'[i][n] = pipe[i][n + 1]
          /\ \A n \in 1..Len(pipe[i]) :
                n = 1 \/ (n - 1 \in 1..Len(pipe'[i]) /\ pipe'[i][n - 1] = pipe[i][n])
        <3> DEFINE old == pipe[i]
        <3>1. old \in Seq(Command) /\ old # <<>> /\ pipe'[i] = Tail(old)
              /\ NextCommand(i) = Head(old)
            BY <1>1 DEF NextCommand
        <3> HIDE DEF old
        <3>2. /\ Len(Tail(old)) = Len(old) - 1 /\ Len(old) \in Nat /\ 1 \in 1..Len(old)
              /\ Head(old) = old[1]
              /\ \A n \in 1..Len(Tail(old)) : n + 1 \in 1..Len(old) /\ Tail(old)[n] = old[n + 1]
              /\ \A n \in 1..Len(old) :
                    n = 1 \/ (n - 1 \in 1..Len(Tail(old)) /\ Tail(old)[n - 1] = old[n])
            BY <3>1, Taken
        <3>3. QED
            BY <3>1, <3>2 DEF old
    <2>2. Unasked(j, q) => Unasked(j, q)' /\ NextCommand(i).id # q
        BY <1>3, <2>1 DEF Unasked
    <2>3. ASSUME NEW o \in {"subscribe", "unsubscribe"}, Asked(j, q, o)
          PROVE  Asked(j, q, o)' \/ (NextCommand(i).id = q /\ NextCommand(i).op = o /\ Unasked(j, q)')
        <3>1. PICK n \in 1..Len(pipe[i]) :
                /\ pipe[i][n].op = o /\ pipe[i][n].id = q
                /\ \A m \in 1..Len(pipe[i]) : pipe[i][m].id = q => m <= n
            BY <1>3, <2>3 DEF Asked
        <3>2. CASE n = 1
            <4>1. ASSUME NEW m \in 1..Len(pipe'[i]), pipe'[i][m].id = q
                  PROVE  FALSE
                <5>1. m + 1 \in 1..Len(pipe[i]) /\ pipe[i][m + 1].id = q
                    BY <2>1, <4>1
                <5>2. m + 1 <= 1
                    BY <3>1, <3>2, <5>1
                <5>3. QED
                    BY <2>1, <5>2
            <4>2. QED
                BY <1>3, <2>1, <3>1, <3>2, <4>1 DEF Unasked
        <3>3. CASE n # 1
            <4>1. n - 1 \in 1..Len(pipe'[i]) /\ pipe'[i][n - 1] = pipe[i][n]
                BY <2>1, <3>3
            <4>2. \A m \in 1..Len(pipe'[i]) : pipe'[i][m].id = q => m <= n - 1
                BY <2>1, <3>1
            <4>3. QED
                BY <1>3, <3>1, <4>1, <4>2 DEF Asked
        <3>4. QED
            BY <3>2, <3>3
    <2>4. QED
        BY <1>3, <2>2, <2>3
<1>4. QED
    BY <1>2, <1>3

LEMMA RunEffect ==
    ASSUME BusTypeOK, NEW i \in Instance, RunCommand(i), NEW j \in Instance, NEW q \in Identity
    PROVE  (Heard(j, q) => Heard(j, q)') /\ (Unheard(j, q) => Unheard(j, q)')
<1>1. /\ pipe[i] # <<>> /\ pipe' = [pipe EXCEPT ![i] = Tail(@)]
      /\ subs' = IF NextCommand(i).op = "subscribe" THEN subs \cup {<<i, NextCommand(i).id>>}
                                                     ELSE subs \ {<<i, NextCommand(i).id>>}
    BY DEF RunCommand
<1>2. /\ \A o \in {"subscribe", "unsubscribe"} : Asked(j, q, o) =>
                \/ Asked(j, q, o)'
                \/ j = i /\ NextCommand(i).id = q /\ NextCommand(i).op = o /\ Unasked(j, q)'
      /\ Unasked(j, q) => Unasked(j, q)' /\ (j = i => NextCommand(i).id # q)
    BY <1>1, TakeEffect
<1>3. Asked(j, q, "subscribe") => Heard(j, q)'
    BY <1>1, <1>2 DEF Heard
<1>4. Asked(j, q, "unsubscribe") => Unheard(j, q)'
    BY <1>1, <1>2 DEF Unheard
<1>5. Unasked(j, q) => Unasked(j, q)' /\ (<<j, q>> \in subs' <=> <<j, q>> \in subs)
    BY <1>1, <1>2
<1>6. QED
    BY <1>3, <1>4, <1>5 DEF Heard, Unheard

\* The steps that change subscriptions or sessions.
LEMMA BusStep ==
    ASSUME [DeliveryNext]_deliveryVars
    PROVE  \/ UNCHANGED <<tracked, subs, pipe, session>>
           \/ \E s \in Socket : Open(s) \/ Register(s) \/ Teardown(s)
           \/ \E i \in Instance : RunSubscriber(i) \/ SubscribeFails(i) \/ CrashInstance(i)
<1>1. ASSUME NEW s \in Socket,
             ReplayStep(s) \/ ReplayFails(s) \/ RefuseHandshake(s) \/ Lose(s)
      PROVE  UNCHANGED <<tracked, subs, pipe, session>>
    BY <1>1 DEF ReplayStep, ReplayFails, RefuseHandshake, Lose, liveVars, busVars
<1>2. ASSUME NEW i \in Instance, BusCallback(i)
      PROVE  UNCHANGED <<tracked, subs, pipe, session>>
    BY <1>2 DEF BusCallback
<1>3. ASSUME NEW e \in Envelope, NEW r \in Identity,
             RunPublish(e, r) \/ Judge(e, r) \/ EnqueueOffline(e, r) \/ RouteFails(e, r)
      PROVE  UNCHANGED <<tracked, subs, pipe, session>>
    BY <1>3 DEF RunPublish, Publish, Judge, EnqueueOffline, RouteFails, busVars
<1>4. ASSUME NEW e \in Envelope, Route(e) \/ SendReceipt(e)
      PROVE  UNCHANGED <<tracked, subs, pipe, session>>
    BY <1>4 DEF Route, SendReceipt, busVars
<1>5. CASE UNCHANGED deliveryVars
    BY <1>5 DEF deliveryVars, liveVars, busVars
<1>6. \A e \in Envelope : Recipients[e] \subseteq Identity
    BY Parties
<1>7. CASE RelayStep
    BY <1>1, <1>2, <1>3, <1>4, <1>6, <1>7 DEF RelayStep
<1>8. CASE ClientStep
    BY <1>1, <1>4, <1>8 DEF ClientStep
<1>9. CASE FaultStep
    BY <1>1, <1>3, <1>9 DEF FaultStep
<1>10. QED
    BY <1>5, <1>7, <1>8, <1>9 DEF DeliveryNext

TrackedHeard == \A i \in Instance, r \in Identity : <<i, r>> \in tracked => Heard(i, r)

LEMMA TrackedHeardNext ==
    ASSUME DeliveryTypeOK, TrackedHeard, [DeliveryNext]_deliveryVars
    PROVE  TrackedHeard'
<1> USE Parties DEF DeliveryTypeOK
<1>1. CASE UNCHANGED <<tracked, subs, pipe>>
    BY <1>1 DEF TrackedHeard, Heard, Asked, Unasked
<1>2. ASSUME NEW s \in Socket, NEW op \in {"subscribe", "unsubscribe"},
             Send(Host[s], op, Owner[s], s), subs' = subs,
             tracked' = IF op = "subscribe" THEN tracked \cup {<<Host[s], Owner[s]>>}
                                            ELSE tracked \ {<<Host[s], Owner[s]>>}
      PROVE  TrackedHeard'
    <2>1. SUFFICES ASSUME NEW i \in Instance, NEW r \in Identity, <<i, r>> \in tracked'
                   PROVE  Heard(i, r)'
        BY DEF TrackedHeard
    <2>2. /\ Asked(Host[s], Owner[s], op)'
          /\ \A j \in Instance, q \in Identity : <<j, q>> # <<Host[s], Owner[s]>> =>
                (Heard(j, q) => Heard(j, q)')
        BY <1>2, SendEffect
    <2>3. CASE <<i, r>> = <<Host[s], Owner[s]>>
        BY <1>2, <2>1, <2>2, <2>3 DEF Heard
    <2>4. CASE <<i, r>> # <<Host[s], Owner[s]>>
        BY <1>2, <2>1, <2>2, <2>4 DEF TrackedHeard
    <2>5. QED
        BY <2>3, <2>4
<1>3. ASSUME NEW s \in Socket, Open(s) \/ Register(s) \/ Teardown(s)
      PROVE  TrackedHeard'
    <2>1. \/ UNCHANGED <<tracked, subs, pipe>>
          \/ \E op \in {"subscribe", "unsubscribe"} :
                /\ Send(Host[s], op, Owner[s], s) /\ subs' = subs
                /\ tracked' = IF op = "subscribe" THEN tracked \cup {<<Host[s], Owner[s]>>}
                                                  ELSE tracked \ {<<Host[s], Owner[s]>>}
        BY <1>3 DEF Open, Register, Teardown, Track, Untrack, busVars
    <2>2. QED
        BY <1>1, <1>2, <2>1
<1>4. ASSUME NEW i \in Instance, RunSubscriber(i)
      PROVE  TrackedHeard'
    <2>1. RunCommand(i) /\ tracked' = tracked
        BY <1>4 DEF RunSubscriber, RunCommand
    <2>2. QED
        BY <2>1, RunEffect DEF TrackedHeard
<1>5. ASSUME NEW i \in Instance, SubscribeFails(i)
      PROVE  TrackedHeard'
    <2>1. /\ pipe[i] # <<>> /\ pipe' = [pipe EXCEPT ![i] = Tail(@)] /\ subs' = subs
          /\ tracked' = tracked \ {<<i, NextCommand(i).id>>}
        BY <1>5 DEF SubscribeFails, RejectSubscribe
    <2>2. SUFFICES ASSUME NEW j \in Instance, NEW q \in Identity, <<j, q>> \in tracked'
                   PROVE  Heard(j, q)'
        BY DEF TrackedHeard
    <2>3. Heard(j, q) /\ (j = i => NextCommand(i).id # q)
        BY <2>1, <2>2 DEF TrackedHeard
    <2>4. /\ Asked(j, q, "subscribe") => Asked(j, q, "subscribe")'
          /\ Unasked(j, q) => Unasked(j, q)'
        BY <2>1, <2>3, TakeEffect
    <2>5. QED
        BY <2>1, <2>3, <2>4 DEF Heard
<1>6. ASSUME NEW i \in Instance, CrashInstance(i)
      PROVE  TrackedHeard'
    <2>1. /\ tracked' = {u \in tracked : u[1] # i} /\ subs' = {u \in subs : u[1] # i}
          /\ \A j \in Instance : j # i => pipe'[j] = pipe[j]
        BY <1>6 DEF CrashInstance, LoseInstance, BusTypeOK
    <2>2. SUFFICES ASSUME NEW j \in Instance, NEW q \in Identity, <<j, q>> \in tracked'
                   PROVE  Heard(j, q)'
        BY DEF TrackedHeard
    <2>3. j # i /\ Heard(j, q)
        BY <2>1, <2>2 DEF TrackedHeard
    <2>4. QED
        BY <2>1, <2>3 DEF Heard, Asked, Unasked
<1>7. QED
    BY <1>1, <1>3, <1>4, <1>5, <1>6, BusStep

(***************************************************************************)
(* Whatever crashes and whichever command Redis rejects, no identity stays *)
(* tracked without a subscription.                                         *)
(***************************************************************************)
THEOREM NoPhantomHolds == DeliverySpec => []NoPhantom
<1>1. DeliveryInit => TrackedHeard
    BY DEF DeliveryInit, BusInit, TrackedHeard
<1>2. DeliveryTypeOK /\ TrackedHeard /\ [DeliveryNext]_deliveryVars => TrackedHeard'
    BY TrackedHeardNext
<1>3. TrackedHeard => NoPhantom
    BY DEF TrackedHeard, NoPhantom, Heard, Asked
<1>4. QED
    BY <1>1, <1>2, <1>3, DeliveryTypeCorrect, PTL DEF DeliverySpec

\* An identity is tracked where a socket for it is held, and what is not tracked is
\* about to be unsubscribed.
PresenceInv ==
    Redis => \A i \in Instance, r \in Identity :
        /\ <<i, r>> \in tracked <=> Held(i, r) # {}
        /\ <<i, r>> \notin tracked => Unheard(i, r)

LEMMA PresenceInvNext ==
    ASSUME "redis" \notin Faults, DeliveryTypeOK, PresenceInv, [DeliveryNext]_deliveryVars
    PROVE  PresenceInv'
<1> SUFFICES ASSUME Redis
             PROVE  \A j \in Instance, q \in Identity :
                        /\ <<j, q>> \in tracked' <=> Held(j, q)' # {}
                        /\ <<j, q>> \notin tracked' => Unheard(j, q)'
    BY DEF PresenceInv
<1> USE Parties DEF DeliveryTypeOK
<1>0. \A j \in Instance, q \in Identity :
        /\ <<j, q>> \in tracked <=> Held(j, q) # {}
        /\ <<j, q>> \notin tracked => Unheard(j, q)
    BY DEF PresenceInv
<1>1. CASE UNCHANGED <<tracked, subs, pipe>> /\ \A j \in Instance, q \in Identity :
              Held(j, q) # {} <=> Held(j, q)' # {}
    BY <1>0, <1>1 DEF Unheard, Asked, Unasked
<1>2. CASE UNCHANGED <<tracked, subs, pipe, session>>
    BY <1>1, <1>2 DEF Held
<1>3. ASSUME NEW s \in Socket, Open(s)
      PROVE  \A j \in Instance, q \in Identity :
                /\ <<j, q>> \in tracked' <=> Held(j, q)' # {}
                /\ <<j, q>> \notin tracked' => Unheard(j, q)'
    <2>1. \A t \in Socket : session'[t] = "held" <=> session[t] = "held"
        BY <1>3 DEF Open
    <2>2. UNCHANGED <<tracked, subs, pipe>>
        BY <1>3 DEF Open, busVars
    <2>3. \A j \in Instance, q \in Identity : Held(j, q) = Held(j, q)'
        BY <2>1 DEF Held, SocketsOf
    <2>4. QED
        BY <1>1, <2>2, <2>3
<1>4. ASSUME NEW s \in Socket, Register(s)
      PROVE  \A j \in Instance, q \in Identity :
                /\ <<j, q>> \in tracked' <=> Held(j, q)' # {}
                /\ <<j, q>> \notin tracked' => Unheard(j, q)'
    <2> DEFINE own == <<Host[s], Owner[s]>>
    <2>1. CASE session' = [session EXCEPT ![s] = "refused"] /\ UNCHANGED busVars
        <3>1. \A t \in Socket : session'[t] = "held" <=> session[t] = "held"
            BY <1>4, <2>1 DEF Register
        <3>2. \A j \in Instance, q \in Identity : Held(j, q) = Held(j, q)'
            BY <3>1 DEF Held, SocketsOf
        <3>3. QED
            BY <1>1, <2>1, <3>2 DEF busVars
    <2>2. CASE session' = [session EXCEPT ![s] = "held"] /\ Track(Host[s], Owner[s], s)
        <3>1. /\ s \in Held(Host[s], Owner[s])'
              /\ \A j \in Instance, q \in Identity : <<j, q>> # own => Held(j, q)' = Held(j, q)
            BY <2>2 DEF Held, SocketsOf
        <3>2. own \in tracked' /\ tracked' = tracked \cup {own} /\ subs' = subs
            BY <2>2 DEF Track, TrackReturnsAtOnce
        <3>3. UNCHANGED pipe \/ Send(Host[s], "subscribe", Owner[s], s)
            BY <2>2 DEF Track
        <3>4. \A j \in Instance, q \in Identity :
                <<j, q>> # own => (Unheard(j, q) => Unheard(j, q)')
            <4>1. CASE UNCHANGED pipe
                BY <3>2, <4>1 DEF Unheard, Asked, Unasked
            <4>2. CASE Send(Host[s], "subscribe", Owner[s], s)
                BY <3>2, <4>2, SendEffect
            <4>3. QED
                BY <3>3, <4>1, <4>2
        <3>5. QED
            BY <1>0, <3>1, <3>2, <3>4
    <2>3. QED
        BY <1>4, <2>1, <2>2 DEF Register
<1>5. ASSUME NEW s \in Socket, Teardown(s)
      PROVE  \A j \in Instance, q \in Identity :
                /\ <<j, q>> \in tracked' <=> Held(j, q)' # {}
                /\ <<j, q>> \notin tracked' => Unheard(j, q)'
    <2> DEFINE own == <<Host[s], Owner[s]>>
    <2>1. session' = [session EXCEPT ![s] = "absent"]
        BY <1>5 DEF Teardown
    <2>2. \A j \in Instance, q \in Identity : Held(j, q)' = Held(j, q) \ {s}
        BY <2>1 DEF Held, SocketsOf
    <2>3. \A j \in Instance, q \in Identity : <<j, q>> # own => s \notin Held(j, q)
        BY DEF Held, SocketsOf
    <2>4. CASE session[s] = "held" /\ LastSocket(s)
        <3>0. Host[s] \in Instance /\ Owner[s] \in Identity
            BY Parties
        <3>1. Held(Host[s], Owner[s])' = {} /\ own \in tracked
            <4>1. Held(Host[s], Owner[s]) = {s}
                BY <2>4 DEF LastSocket
            <4>2. Held(Host[s], Owner[s])' = {s} \ {s}
                BY <2>2, <3>0, <4>1
            <4>3. own \in tracked
                BY <1>0, <3>0, <4>1
            <4>4. QED
                BY <4>2, <4>3
        <3>2. /\ tracked' = tracked \ {own} /\ subs' = subs
              /\ Send(Host[s], "unsubscribe", Owner[s], s)
            BY <1>5, <2>4, <3>1 DEF Teardown, Untrack
        <3>3. /\ Unheard(Host[s], Owner[s])'
              /\ \A j \in Instance, q \in Identity :
                    <<j, q>> # own => (Unheard(j, q) => Unheard(j, q)')
            BY <3>2, SendEffect DEF Unheard
        <3>4. ASSUME NEW j \in Instance, NEW q \in Identity
              PROVE  /\ <<j, q>> \in tracked' <=> Held(j, q)' # {}
                     /\ <<j, q>> \notin tracked' => Unheard(j, q)'
            <4>1. CASE <<j, q>> = own
                <5>1. j = Host[s] /\ q = Owner[s]
                    BY <4>1
                <5>2. Held(j, q)' = {} /\ Unheard(j, q)'
                    BY <3>1, <3>3, <5>1
                <5>3. <<j, q>> \notin tracked'
                    BY <3>2, <4>1
                <5>4. QED
                    BY <5>2, <5>3
            <4>2. CASE <<j, q>> # own
                <5>1. Held(j, q)' = Held(j, q)
                    <6>1. s \notin Held(j, q)
                        BY <2>3, <4>2
                    <6>2. Held(j, q) \ {s} = Held(j, q)
                        BY <6>1
                    <6>3. QED
                        BY <2>2, <6>2
                <5>2. Unheard(j, q) => Unheard(j, q)'
                    BY <3>3, <4>2
                <5>3. <<j, q>> \in tracked' <=> <<j, q>> \in tracked
                    BY <3>2, <4>2
                <5>4. QED
                    BY <1>0, <5>1, <5>2, <5>3
            <4>3. QED
                BY <4>1, <4>2
        <3>5. QED
            BY <3>4
    <2>5. CASE ~(session[s] = "held" /\ LastSocket(s))
        <3>1. UNCHANGED <<tracked, subs, pipe>>
            BY <1>5, <2>5 DEF Teardown, busVars
        <3>2. s \in Held(Host[s], Owner[s]) => Held(Host[s], Owner[s]) # {s}
            BY <2>5 DEF LastSocket, Held
        <3>3. \A j \in Instance, q \in Identity : Held(j, q) # {} <=> Held(j, q)' # {}
            BY <2>2, <2>3, <3>2
        <3>4. QED
            BY <1>1, <3>1, <3>3
    <2>6. QED
        BY <2>4, <2>5
<1>6. ASSUME NEW i \in Instance, RunSubscriber(i)
      PROVE  \A j \in Instance, q \in Identity :
                /\ <<j, q>> \in tracked' <=> Held(j, q)' # {}
                /\ <<j, q>> \notin tracked' => Unheard(j, q)'
    <2>1. RunCommand(i) /\ tracked' = tracked /\ session' = session
        BY <1>6 DEF RunSubscriber, RunCommand
    <2>2. \A j \in Instance, q \in Identity : Held(j, q)' = Held(j, q)
        BY <2>1 DEF Held
    <2>3. QED
        BY <1>0, <2>1, <2>2, RunEffect
<1>7. \A i \in Instance : ~SubscribeFails(i)
    BY DEF SubscribeFails, Fault
<1>8. ASSUME NEW i \in Instance, CrashInstance(i)
      PROVE  \A j \in Instance, q \in Identity :
                /\ <<j, q>> \in tracked' <=> Held(j, q)' # {}
                /\ <<j, q>> \notin tracked' => Unheard(j, q)'
    <2>1. /\ tracked' = {u \in tracked : u[1] # i} /\ subs' = {u \in subs : u[1] # i}
          /\ pipe'[i] = <<>> /\ \A j \in Instance : j # i => pipe'[j] = pipe[j]
          /\ \A t \in Socket : session'[t] = IF Host[t] = i THEN "absent" ELSE session[t]
        BY <1>8 DEF CrashInstance, LoseInstance, BusTypeOK
    <2>2. ASSUME NEW j \in Instance, NEW q \in Identity
          PROVE  /\ <<j, q>> \in tracked' <=> Held(j, q)' # {}
                 /\ <<j, q>> \notin tracked' => Unheard(j, q)'
        <3>1. CASE j = i
            <4>1. <<j, q>> \notin tracked' /\ <<j, q>> \notin subs' /\ Held(j, q)' = {}
                BY <2>1, <3>1 DEF Held, SocketsOf
            <4>2. Unasked(j, q)'
                BY <2>1, <3>1 DEF Unasked
            <4>3. QED
                BY <4>1, <4>2 DEF Unheard
        <3>2. CASE j # i
            <4>1. Held(j, q)' = Held(j, q) /\ (<<j, q>> \in tracked' <=> <<j, q>> \in tracked)
                BY <2>1, <3>2 DEF Held, SocketsOf
            <4>2. Unheard(j, q) => Unheard(j, q)'
                BY <2>1, <3>2 DEF Unheard, Asked, Unasked
            <4>3. QED
                BY <1>0, <4>1, <4>2
        <3>3. QED
            BY <3>1, <3>2
    <2>3. QED
        BY <2>2
<1>9. QED
    BY <1>2, <1>3, <1>4, <1>5, <1>6, <1>7, <1>8, BusStep

(***************************************************************************)
(* While Redis rejects nothing, subscriptions follow the sockets: whatever *)
(* the order in which any number of devices come and go, and whichever     *)
(* instances die.                                                          *)
(***************************************************************************)
THEOREM PresenceFollows ==
    "redis" \notin Faults => (DeliverySpec => []PresenceFollowsSockets)
<1> SUFFICES ASSUME "redis" \notin Faults
             PROVE  DeliverySpec => []PresenceFollowsSockets
    OBVIOUS
<1>1. DeliveryInit => PresenceInv
    BY DEF DeliveryInit, BusInit, PresenceInv, Held, SocketsOf, Unheard, Unasked
<1>2. DeliveryTypeOK /\ PresenceInv /\ [DeliveryNext]_deliveryVars => PresenceInv'
    BY PresenceInvNext
<1>3. PresenceInv /\ TrackedHeard => PresenceFollowsSockets
    <2> SUFFICES ASSUME PresenceInv, TrackedHeard, Redis, NEW i \in Instance, NEW r \in Identity
                 PROVE  /\ <<i, r>> \in tracked <=> Held(i, r) # {}
                        /\ pipe[i] = <<>> => (<<i, r>> \in subs <=> <<i, r>> \in tracked)
        BY DEF PresenceFollowsSockets
    <2>1. pipe[i] = <<>> => \A op \in {"subscribe", "unsubscribe"} : ~Asked(i, r, op)
        BY DEF Asked
    <2>2. <<i, r>> \in tracked => Heard(i, r)
        BY DEF TrackedHeard
    <2>3. /\ <<i, r>> \in tracked <=> Held(i, r) # {}
          /\ <<i, r>> \notin tracked => Unheard(i, r)
        BY DEF PresenceInv
    <2>4. QED
        BY <2>1, <2>2, <2>3 DEF Heard, Unheard
<1>4. DeliveryInit => TrackedHeard
    BY DEF DeliveryInit, BusInit, TrackedHeard
<1>5. DeliveryTypeOK /\ TrackedHeard /\ [DeliveryNext]_deliveryVars => TrackedHeard'
    BY TrackedHeardNext
<1>6. QED
    BY <1>1, <1>2, <1>3, <1>4, <1>5, DeliveryTypeCorrect, PTL DEF DeliverySpec

-----------------------------------------------------------------------------
(* Routing writes an envelope to a socket at most once.                    *)

NoneTwice(q) == \A m, n \in 1..Len(q) : q[m] = q[n] => m = n

LEMMA OnceAppended ==
    ASSUME NEW S, NEW q \in Seq(S), NEW x \in S \ Elems(q), NoneTwice(q)
    PROVE  NoneTwice(Append(q, x))
<1>1. /\ Len(q) \in Nat /\ Len(Append(q, x)) = Len(q) + 1
      /\ Append(q, x)[Len(q) + 1] = x /\ \A n \in 1..Len(q) : Append(q, x)[n] = q[n]
    BY Sent
<1>2. \A n \in 1..Len(Append(q, x)) : n \in 1..Len(q) \/ n = Len(q) + 1
    BY <1>1
<1>3. \A n \in 1..Len(q) : q[n] # x
    BY DEF Elems
<1>4. QED
    BY <1>1, <1>2, <1>3 DEF NoneTwice

LEMMA OnceTaken ==
    ASSUME NEW S, NEW q \in Seq(S), q # <<>>
    PROVE  /\ Tail(q) \in Seq(S) /\ Head(q) \in S
           /\ Elems(q) = {Head(q)} \cup Elems(Tail(q))
           /\ NoneTwice(q) => NoneTwice(Tail(q)) /\ Head(q) \notin Elems(Tail(q))
<1>1. /\ Tail(q) \in Seq(S) /\ Len(Tail(q)) = Len(q) - 1
      /\ Len(q) \in Nat /\ 1 \in 1..Len(q) /\ Head(q) = q[1] /\ q[1] \in S
      /\ \A n \in 1..Len(Tail(q)) : n + 1 \in 1..Len(q) /\ Tail(q)[n] = q[n + 1]
      /\ \A n \in 1..Len(q) : n = 1 \/ (n - 1 \in 1..Len(Tail(q)) /\ Tail(q)[n - 1] = q[n])
    BY Taken
<1>2. Elems(q) = {Head(q)} \cup Elems(Tail(q))
    <2>1. \A n \in 1..Len(q) : q[n] \in {Head(q)} \cup Elems(Tail(q))
        BY <1>1 DEF Elems
    <2>2. Head(q) \in Elems(q) /\ \A n \in 1..Len(Tail(q)) : Tail(q)[n] \in Elems(q)
        BY <1>1 DEF Elems
    <2>3. Elems(q) \subseteq {Head(q)} \cup Elems(Tail(q))
        BY <2>1 DEF Elems
    <2>4. {Head(q)} \cup Elems(Tail(q)) \subseteq Elems(q)
        BY <2>2 DEF Elems
    <2>5. QED
        BY <2>3, <2>4
<1>3. ASSUME NoneTwice(q)
      PROVE  NoneTwice(Tail(q)) /\ Head(q) \notin Elems(Tail(q))
    <2>1. \A m, n \in 1..Len(Tail(q)) : Tail(q)[m] = Tail(q)[n] => m + 1 = n + 1
        BY <1>1, <1>3 DEF NoneTwice
    <2>2. \A n \in 1..Len(Tail(q)) : Tail(q)[n] = Head(q) => n + 1 = 1
        BY <1>1, <1>3 DEF NoneTwice
    <2>3. QED
        BY <1>1, <2>1, <2>2 DEF NoneTwice, Elems
<1>4. QED
    BY <1>1, <1>2, <1>3

LEMMA Pushed ==
    ASSUME NEW i, NEW e, NEW r
    PROVE  PushedTo(i, e, r) <=> <<r, e>> \in Elems(inbox[i])
BY DEF PushedTo, Elems

(***************************************************************************)
(* Why an envelope is written to a socket once: it is routed once, to the  *)
(* sockets of its own instance; only after that is it published, once, to  *)
(* the other instances; and an instance takes its copy out of the inbox in *)
(* the step that writes it.                                                *)
(***************************************************************************)
Unpublished(e, r) == route[e][r] \in {"none", "publishing"}

LiveIsRouted ==
    \A s \in Socket, e \in Envelope : <<s, e>> \in live =>
        /\ route[e][Owner[s]] # "none"
        /\ \/ Host[s] = via[e]
           \/ ~Unpublished(e, Owner[s]) /\ <<Owner[s], e>> \notin Elems(inbox[Host[s]])

PushedIsPublished ==
    \A i \in Instance, e \in Envelope, r \in Identity :
        <<r, e>> \in Elems(inbox[i]) => i # via[e] /\ ~Unpublished(e, r)

OnceInv ==
    /\ LiveIsRouted
    /\ PushedIsPublished
    /\ \A i \in Instance : NoneTwice(inbox[i])
    /\ ~twice

LEMMA OnceInvInit == DeliveryInit => OnceInv
BY DEF DeliveryInit, BusInit, OnceInv, LiveIsRouted, PushedIsPublished, NoneTwice, Elems

\* A step that writes nothing, pushes nothing and takes no copy back to publishing.
LEMMA OnceKept ==
    ASSUME DeliveryTypeOK, OnceInv, UNCHANGED <<via, live, twice, inbox>>,
           \A e \in Envelope, r \in Identity : Unpublished(e, r)' => route'[e][r] = route[e][r]
    PROVE  OnceInv'
<1> USE Parties DEF DeliveryTypeOK
<1>1. PushedIsPublished'
    BY DEF OnceInv, PushedIsPublished, Unpublished
<1>2. LiveIsRouted'
    BY DEF OnceInv, LiveIsRouted, Unpublished
<1>3. QED
    BY <1>1, <1>2 DEF OnceInv

LEMMA OnceInvNext ==
    ASSUME DeliveryTypeOK, OnceInv, [DeliveryNext]_deliveryVars
    PROVE  OnceInv'
<1> USE Parties DEF DeliveryTypeOK
<1>0. /\ LiveIsRouted /\ PushedIsPublished /\ ~twice
      /\ \A i \in Instance : NoneTwice(inbox[i]) /\ inbox[i] \in Seq(Identity \X Envelope)
    BY DEF OnceInv, BusTypeOK
<1>1. ASSUME UNCHANGED <<route, via, live, twice, inbox>>
      PROVE  OnceInv'
    BY <1>1, OnceKept
<1>2. ASSUME NEW s \in Socket,
             ReplayStep(s) \/ ReplayFails(s) \/ Open(s) \/ Register(s) \/ RefuseHandshake(s)
                 \/ Lose(s) \/ Teardown(s)
      PROVE  OnceInv'
    BY <1>1, <1>2 DEF ReplayStep, ReplayFails, Open, Register, RefuseHandshake, Lose, Teardown,
                      Track, Untrack, liveVars, busVars, routeVars, traceVars
<1>3. ASSUME NEW i \in Instance, RunSubscriber(i) \/ SubscribeFails(i)
      PROVE  OnceInv'
    BY <1>1, <1>3 DEF RunSubscriber, SubscribeFails, RunCommand, RejectSubscribe, routeVars, traceVars
<1>4. ASSUME NEW e \in Envelope, SendReceipt(e)
      PROVE  OnceInv'
    BY <1>1, <1>4 DEF SendReceipt, busVars, traceVars
<1>5. ASSUME NEW e \in Envelope, NEW r \in Identity,
             Judge(e, r) \/ EnqueueOffline(e, r) \/ RouteFails(e, r)
      PROVE  OnceInv'
    <2>1. \E stage \in Stage \ {"none", "publishing"} : SetRoute(e, r, stage)
        BY <1>5 DEF Judge, EnqueueOffline, RouteFails, Stage, Finished
    <2>2. UNCHANGED <<via, live, twice, inbox>>
        BY <1>5 DEF Judge, EnqueueOffline, RouteFails, busVars, traceVars
    <2>3. \A d \in Envelope, q \in Identity : Unpublished(d, q)' => route'[d][q] = route[d][q]
        BY <2>1 DEF SetRoute, Unpublished
    <2>4. QED
        BY <2>2, <2>3, OnceKept
<1>6. ASSUME NEW e \in Envelope, Route(e)
      PROVE  OnceInv'
    <2> DEFINE writes == UNION {Writable(via[e], r) : r \in Recipients[e]}
    <2>1. /\ \A r \in Identity : route[e][r] = "none"
          /\ \A r \in Recipients[e] : route'[e][r] = "publishing"
          /\ \A d \in Envelope, r \in Identity : d # e => route'[d][r] = route[d][r]
          /\ via' = via /\ inbox' = inbox
        BY <1>6 DEF Route, busVars
    <2>2. /\ live' = live \cup (writes \X {e})
          /\ twice' = (twice \/ \E s \in writes : <<s, e>> \in live)
        BY <1>6 DEF Route, WriteLive
    <2>3. \A s \in writes : s \in Socket /\ Host[s] = via[e] /\ Owner[s] \in Recipients[e]
        BY DEF Writable, Held, SocketsOf
    <2> HIDE DEF writes
    <2>4. \A s \in Socket : <<s, e>> \notin live
        BY <1>0, <2>1 DEF LiveIsRouted
    <2>5. ~twice'
        BY <1>0, <2>2, <2>3, <2>4
    <2>6. PushedIsPublished'
        <3>1. SUFFICES ASSUME NEW i \in Instance, NEW d \in Envelope, NEW r \in Identity,
                              <<r, d>> \in Elems(inbox[i])
                       PROVE  i # via[d] /\ route'[d][r] \notin {"none", "publishing"}
            BY <2>1 DEF PushedIsPublished, Unpublished
        <3>2. i # via[d] /\ route[d][r] \notin {"none", "publishing"}
            BY <1>0, <3>1 DEF PushedIsPublished, Unpublished
        <3>3. QED
            BY <2>1, <3>2
    <2>7. LiveIsRouted'
        <3>1. SUFFICES ASSUME NEW s \in Socket, NEW d \in Envelope, <<s, d>> \in live'
                       PROVE  /\ route'[d][Owner[s]] # "none"
                              /\ \/ Host[s] = via[d]
                                 \/ /\ route'[d][Owner[s]] \notin {"none", "publishing"}
                                    /\ <<Owner[s], d>> \notin Elems(inbox[Host[s]])
            BY <2>1 DEF LiveIsRouted, Unpublished
        <3>2. CASE d = e
            <4>1. s \in writes
                BY <2>2, <2>4, <3>1, <3>2
            <4>2. QED
                BY <2>1, <2>3, <3>2, <4>1
        <3>3. CASE d # e
            <4>1. <<s, d>> \in live
                BY <2>2, <3>1, <3>3
            <4>2. QED
                BY <1>0, <2>1, <3>3, <4>1 DEF LiveIsRouted, Unpublished
        <3>4. QED
            BY <3>2, <3>3
    <2>8. QED
        BY <1>0, <2>1, <2>5, <2>6, <2>7 DEF OnceInv
<1>7. ASSUME NEW e \in Envelope, NEW r \in Recipients[e], RunPublish(e, r)
      PROVE  OnceInv'
    <2>1. /\ r \in Identity /\ route[e][r] = "publishing" /\ route'[e][r] = "replying"
          /\ \A d \in Envelope, q \in Identity : <<d, q>> # <<e, r>> => route'[d][q] = route[d][q]
          /\ UNCHANGED <<via, live, twice>>
        BY <1>7 DEF RunPublish, SetRoute, traceVars
    <2>2. \A j \in Instance : <<r, e>> \notin Elems(inbox[j])
        BY <1>0, <2>1 DEF PushedIsPublished, Unpublished
    <2>3. ASSUME NEW j \in Instance
          PROVE  /\ NoneTwice(inbox'[j])
                 /\ \/ inbox'[j] = inbox[j]
                    \/ j # via[e] /\ Elems(inbox'[j]) = Elems(inbox[j]) \cup {<<r, e>>}
        <3> DEFINE more == Append(inbox[j], <<r, e>>)
        <3>1. inbox'[j] = inbox[j] \/ (j # via[e] /\ inbox'[j] = more)
            BY <1>7 DEF RunPublish, Publish
        <3>2. <<r, e>> \in (Identity \X Envelope) \ Elems(inbox[j])
            BY <2>1, <2>2
        <3>3. inbox[j] \in Seq(Identity \X Envelope) /\ NoneTwice(inbox[j])
            BY <1>0
        <3>4. NoneTwice(more) /\ Elems(more) = Elems(inbox[j]) \cup {<<r, e>>}
            <4> DEFINE copy == <<r, e>>
                       copies == Identity \X Envelope
            <4>1. copy \in copies \ Elems(inbox[j]) /\ inbox[j] \in Seq(copies)
                BY <3>2, <3>3
            <4> HIDE DEF copy, copies
            <4>2. NoneTwice(Append(inbox[j], copy))
                BY <3>3, <4>1, OnceAppended
            <4>3. Elems(Append(inbox[j], copy)) = Elems(inbox[j]) \cup {copy}
                BY <4>1, ElemsAppend
            <4>4. QED
                BY <4>2, <4>3 DEF copy
        <3> HIDE DEF more
        <3>5. QED
            BY <3>1, <3>3, <3>4
    <2>4. PushedIsPublished'
        <3>1. SUFFICES ASSUME NEW i \in Instance, NEW d \in Envelope, NEW q \in Identity,
                              <<q, d>> \in Elems(inbox'[i])
                       PROVE  i # via[d] /\ route'[d][q] \notin {"none", "publishing"}
            BY <2>1 DEF PushedIsPublished, Unpublished
        <3>2. CASE <<q, d>> = <<r, e>>
            BY <2>1, <2>2, <2>3, <3>1, <3>2
        <3>3. CASE <<q, d>> # <<r, e>>
            <4>1. <<q, d>> \in Elems(inbox[i])
                BY <2>3, <3>1, <3>3
            <4>2. QED
                BY <1>0, <2>1, <3>3, <4>1 DEF PushedIsPublished, Unpublished
        <3>4. QED
            BY <3>2, <3>3
    <2>5. LiveIsRouted'
        <3>1. SUFFICES ASSUME NEW s \in Socket, NEW d \in Envelope, <<s, d>> \in live
                       PROVE  /\ route'[d][Owner[s]] # "none"
                              /\ \/ Host[s] = via[d]
                                 \/ /\ route'[d][Owner[s]] \notin {"none", "publishing"}
                                    /\ <<Owner[s], d>> \notin Elems(inbox'[Host[s]])
            BY <2>1 DEF LiveIsRouted, Unpublished
        <3>2. /\ route[d][Owner[s]] # "none"
              /\ \/ Host[s] = via[d]
                 \/ /\ route[d][Owner[s]] \notin {"none", "publishing"}
                    /\ <<Owner[s], d>> \notin Elems(inbox[Host[s]])
            BY <1>0, <3>1 DEF LiveIsRouted, Unpublished
        <3>3. CASE <<d, Owner[s]>> = <<e, r>>
            BY <2>1, <3>2, <3>3
        <3>4. CASE <<d, Owner[s]>> # <<e, r>>
            <4>1. route'[d][Owner[s]] = route[d][Owner[s]]
                BY <2>1, <3>4
            <4>2. <<Owner[s], d>> # <<r, e>>
                BY <3>4
            <4>3. <<Owner[s], d>> \in Elems(inbox'[Host[s]]) => <<Owner[s], d>> \in Elems(inbox[Host[s]])
                BY <2>3, <4>2
            <4>4. QED
                BY <3>2, <4>1, <4>3
        <3>5. QED
            BY <3>3, <3>4
    <2>6. QED
        BY <1>0, <2>1, <2>3, <2>4, <2>5 DEF OnceInv
<1>8. ASSUME NEW i \in Instance, BusCallback(i)
      PROVE  OnceInv'
    <2> DEFINE r == Head(inbox[i])[1]
               e == Head(inbox[i])[2]
    <2>1. /\ inbox[i] # <<>> /\ inbox' = [inbox EXCEPT ![i] = Tail(@)]
          /\ UNCHANGED <<route, via>>
          /\ live' = live \cup (Writable(i, r) \X {e})
          /\ twice' = (twice \/ \E s \in Writable(i, r) : <<s, e>> \in live)
        BY <1>8 DEF BusCallback, WriteLive, routeVars
    <2>2. /\ Head(inbox[i]) \in Identity \X Envelope
          /\ Elems(inbox[i]) = {Head(inbox[i])} \cup Elems(Tail(inbox[i]))
          /\ NoneTwice(Tail(inbox[i])) /\ Head(inbox[i]) \notin Elems(Tail(inbox[i]))
        BY <1>0, <2>1, OnceTaken
    <2>3. Head(inbox[i]) = <<r, e>> /\ r \in Identity /\ e \in Envelope
        BY <2>2
    <2> HIDE DEF r, e
    <2>4. /\ inbox'[i] = Tail(inbox[i]) /\ \A j \in Instance : j # i => inbox'[j] = inbox[j]
          /\ \A j \in Instance : Elems(inbox'[j]) \subseteq Elems(inbox[j])
        BY <2>1, <2>2 DEF BusTypeOK
    <2>5. i # via[e] /\ route[e][r] \notin {"none", "publishing"}
        BY <1>0, <2>2, <2>3 DEF PushedIsPublished, Unpublished
    <2>6. \A s \in Writable(i, r) : s \in Socket /\ Host[s] = i /\ Owner[s] = r
        BY DEF Writable, Held, SocketsOf
    <2>7. ~twice'
        <3>1. \A s \in Writable(i, r) : <<s, e>> \notin live
            BY <1>0, <2>2, <2>3, <2>5, <2>6 DEF LiveIsRouted
        <3>2. QED
            BY <1>0, <2>1, <3>1
    <2>8. PushedIsPublished'
        BY <1>0, <2>1, <2>4 DEF PushedIsPublished, Unpublished
    <2>9. LiveIsRouted'
        <3>1. SUFFICES ASSUME NEW s \in Socket, NEW d \in Envelope, <<s, d>> \in live'
                       PROVE  /\ route[d][Owner[s]] # "none"
                              /\ \/ Host[s] = via[d]
                                 \/ /\ route[d][Owner[s]] \notin {"none", "publishing"}
                                    /\ <<Owner[s], d>> \notin Elems(inbox'[Host[s]])
            BY <2>1 DEF LiveIsRouted, Unpublished
        <3>2. CASE <<s, d>> \in live
            BY <1>0, <2>4, <3>1, <3>2 DEF LiveIsRouted, Unpublished
        <3>3. CASE <<s, d>> \notin live
            <4>1. s \in Writable(i, r) /\ d = e
                BY <2>1, <3>1, <3>3
            <4>2. Host[s] = i /\ Owner[s] = r
                BY <2>6, <4>1
            <4>3. QED
                BY <2>2, <2>3, <2>4, <2>5, <4>1, <4>2
        <3>4. QED
            BY <3>2, <3>3
    <2>10. \A j \in Instance : NoneTwice(inbox'[j])
        BY <1>0, <2>2, <2>4
    <2>11. QED
        BY <2>7, <2>8, <2>9, <2>10 DEF OnceInv
<1>9. ASSUME NEW i \in Instance, CrashInstance(i)
      PROVE  OnceInv'
    <2>1. /\ UNCHANGED <<via, live, twice>>
          /\ \A j \in Instance : inbox'[j] = <<>> \/ inbox'[j] = inbox[j]
          /\ \A d \in Envelope, q \in Identity :
                route'[d][q] = route[d][q] \/ route'[d][q] = "failed"
        BY <1>9 DEF CrashInstance, LoseInstance, traceVars, BusTypeOK
    <2>2. /\ \A j \in Instance : Elems(inbox'[j]) \subseteq Elems(inbox[j])
          /\ \A j \in Instance : NoneTwice(inbox'[j])
        <3>1. Elems(<<>>) = {} /\ NoneTwice(<<>>)
            BY DEF Elems, NoneTwice
        <3>2. QED
            BY <1>0, <2>1, <3>1
    <2>3. PushedIsPublished'
        BY <1>0, <2>1, <2>2 DEF PushedIsPublished, Unpublished
    <2>4. LiveIsRouted'
        BY <1>0, <2>1, <2>2 DEF LiveIsRouted, Unpublished
    <2>5. QED
        BY <1>0, <2>1, <2>2, <2>3, <2>4 DEF OnceInv
<1>10. CASE UNCHANGED deliveryVars
    BY <1>1, <1>10 DEF deliveryVars, liveVars, busVars, routeVars, traceVars
<1>11. CASE RelayStep
    BY <1>2, <1>3, <1>4, <1>5, <1>7, <1>8, <1>11 DEF RelayStep
<1>12. CASE ClientStep
    BY <1>2, <1>6, <1>12 DEF ClientStep
<1>13. CASE FaultStep
    BY <1>2, <1>3, <1>5, <1>9, <1>13 DEF FaultStep
<1>14. QED
    BY <1>10, <1>11, <1>12, <1>13 DEF DeliveryNext

(***************************************************************************)
(* Routing writes no envelope to a socket twice: on any number of          *)
(* instances, whatever registers, closes, crashes or fails in between.     *)
(***************************************************************************)
THEOREM WrittenOnceHolds == DeliverySpec => []WrittenOnce
<1>1. DeliveryTypeOK /\ OnceInv /\ [DeliveryNext]_deliveryVars => OnceInv'
    BY OnceInvNext
<1>2. OnceInv => WrittenOnce
    BY DEF OnceInv, WrittenOnce
<1>3. QED
    BY OnceInvInit, <1>1, <1>2, DeliveryTypeCorrect, PTL DEF DeliverySpec

-----------------------------------------------------------------------------
(* A socket's register call starts one replay.                             *)

\* A register call waits for a SUBSCRIBE on this connection.
Waits(q, s) == \E n \in 1..Len(q) : q[n].op = "subscribe" /\ q[n].by = s

WaitsOnce(q) ==
    \A m, n \in 1..Len(q) :
        q[m].op = "subscribe" /\ q[n].op = "subscribe" /\ q[m].by = q[n].by => m = n

LEMMA CallSent ==
    ASSUME NEW q \in Seq(Command), NEW c \in Command
    PROVE  /\ \A s : Waits(Append(q, c), s) <=> Waits(q, s) \/ (c.op = "subscribe" /\ c.by = s)
           /\ WaitsOnce(q) /\ (c.op = "subscribe" => ~Waits(q, c.by)) => WaitsOnce(Append(q, c))
<1>1. /\ Len(q) \in Nat /\ Len(Append(q, c)) = Len(q) + 1
      /\ Append(q, c)[Len(q) + 1] = c /\ \A n \in 1..Len(q) : Append(q, c)[n] = q[n]
    BY Sent
<1>2. /\ \A n \in 1..Len(Append(q, c)) : n \in 1..Len(q) \/ n = Len(q) + 1
      /\ \A n \in 1..Len(q) : n \in 1..Len(Append(q, c))
      /\ Len(q) + 1 \in 1..Len(Append(q, c))
    BY <1>1
<1>3. ASSUME NEW s
      PROVE  Waits(Append(q, c), s) <=> Waits(q, s) \/ (c.op = "subscribe" /\ c.by = s)
    BY <1>1, <1>2 DEF Waits
<1>4. ASSUME WaitsOnce(q), c.op = "subscribe" => ~Waits(q, c.by)
      PROVE  WaitsOnce(Append(q, c))
    BY <1>1, <1>2, <1>4 DEF WaitsOnce, Waits
<1>5. QED
    BY <1>3, <1>4

LEMMA CallTaken ==
    ASSUME NEW q \in Seq(Command), q # <<>>
    PROVE  /\ Tail(q) \in Seq(Command) /\ Head(q) \in Command
           /\ \A s : Waits(Tail(q), s) => Waits(q, s)
           /\ Head(q).op = "subscribe" => Waits(q, Head(q).by)
           /\ WaitsOnce(q) =>
                /\ WaitsOnce(Tail(q))
                /\ Head(q).op = "subscribe" => ~Waits(Tail(q), Head(q).by)
<1>1. /\ Tail(q) \in Seq(Command) /\ Len(Tail(q)) = Len(q) - 1
      /\ Len(q) \in Nat /\ 1 \in 1..Len(q) /\ Head(q) = q[1] /\ q[1] \in Command
      /\ \A n \in 1..Len(Tail(q)) : n + 1 \in 1..Len(q) /\ Tail(q)[n] = q[n + 1]
    BY Taken
<1>2. \A s : Waits(Tail(q), s) => Waits(q, s)
    BY <1>1 DEF Waits
<1>3. Head(q).op = "subscribe" => Waits(q, Head(q).by)
    BY <1>1 DEF Waits
<1>4. ASSUME WaitsOnce(q)
      PROVE  /\ WaitsOnce(Tail(q))
             /\ Head(q).op = "subscribe" => ~Waits(Tail(q), Head(q).by)
    <2>1. \A m, n \in 1..Len(Tail(q)) :
            /\ Tail(q)[m].op = "subscribe" /\ Tail(q)[n].op = "subscribe"
            /\ Tail(q)[m].by = Tail(q)[n].by
            => m + 1 = n + 1
        BY <1>1, <1>4 DEF WaitsOnce
    <2>2. \A n \in 1..Len(Tail(q)) :
            /\ Head(q).op = "subscribe" /\ Tail(q)[n].op = "subscribe"
            /\ Tail(q)[n].by = Head(q).by
            => n + 1 = 1
        BY <1>1, <1>4 DEF WaitsOnce
    <2>3. QED
        BY <1>1, <2>1, <2>2 DEF WaitsOnce, Waits
<1>5. QED
    BY <1>1, <1>2, <1>3, <1>4

(***************************************************************************)
(* A socket whose registration is not over, or waits for Redis, is not     *)
(* being replayed to: the reply that starts its replay interrupts none.    *)
(***************************************************************************)
CallInv ==
    /\ \A s \in Socket : session[s] = "pending" => pc[s] = "idle"
    /\ \A i \in Instance, s \in Socket : Waits(pipe[i], s) =>
            Host[s] = i /\ pc[s] = "idle" /\ session[s] # "pending"
    /\ \A i \in Instance : WaitsOnce(pipe[i])

LEMMA CallInvInit == DeliveryInit => CallInv
BY DEF DeliveryInit, Init, BusInit, CallInv, Waits, WaitsOnce

LEMMA CallInvNext ==
    ASSUME DeliveryTypeOK, CallInv, [DeliveryNext]_deliveryVars
    PROVE  CallInv'
<1> USE Parties DEF DeliveryTypeOK
<1>0. /\ \A s \in Socket : session[s] = "pending" => pc[s] = "idle"
      /\ \A i \in Instance, s \in Socket : Waits(pipe[i], s) =>
            Host[s] = i /\ pc[s] = "idle" /\ session[s] # "pending"
      /\ \A i \in Instance : WaitsOnce(pipe[i]) /\ pipe[i] \in Seq(Command)
    BY DEF CallInv, BusTypeOK
<1>1. ASSUME UNCHANGED <<session, pc, pipe>>
      PROVE  CallInv'
    BY <1>1 DEF CallInv
<1>2. ASSUME NEW s \in Socket, ReplayStep(s) \/ ReplayFails(s)
      PROVE  CallInv'
    <2>1. /\ pc[s] # "idle" /\ UNCHANGED <<session, pipe>>
          /\ \A t \in Socket : t # s => pc'[t] = pc[t]
        BY <1>2 DEF ReplayStep, DrainStep, Claim, Replay, Settle, Restore, ReplayFails, ClaimFails,
                    SettleOrRestoreFails, GoTo, liveVars, busVars, TypeOK
    <2>2. QED
        BY <1>0, <2>1 DEF CallInv
<1>3. ASSUME NEW s \in Socket, Open(s)
      PROVE  CallInv'
    <2>1. /\ pc[s] = "idle" /\ UNCHANGED <<pc, pipe>>
          /\ ~Waits(pipe[Host[s]], s)
          /\ \A t \in Socket : t # s => session'[t] = session[t]
        BY <1>3 DEF Open, Subscribing, Waits, busVars
    <2>2. \A i \in Instance : ~Waits(pipe[i], s)
        BY <1>0, <2>1
    <2>3. QED
        BY <1>0, <2>1, <2>2 DEF CallInv
<1>4. ASSUME NEW s \in Socket, Register(s)
      PROVE  CallInv'
    <2>1. /\ session[s] = "pending" /\ pc[s] = "idle"
          /\ session'[s] \in {"refused", "held"}
          /\ \A t \in Socket : t # s => session'[t] = session[t] /\ pc'[t] = pc[t]
        BY <1>0, <1>4 DEF Register, TypeOK
    <2>2. \A i \in Instance : ~Waits(pipe[i], s)
        BY <1>0, <2>1
    <2>3. CASE UNCHANGED pipe
        BY <1>0, <2>1, <2>2, <2>3 DEF CallInv
    <2>4. CASE Send(Host[s], "subscribe", Owner[s], s) /\ UNCHANGED pc
        <3> DEFINE call == [op |-> "subscribe", id |-> Owner[s], by |-> s]
        <3>1. call \in Command /\ call.op = "subscribe" /\ call.by = s
            BY DEF Command
        <3>2. /\ pipe'[Host[s]] = Append(pipe[Host[s]], call)
              /\ \A i \in Instance : i # Host[s] => pipe'[i] = pipe[i]
            BY <2>4 DEF Send, BusTypeOK
        <3> HIDE DEF call
        <3>3. /\ \A t : Waits(pipe'[Host[s]], t) => Waits(pipe[Host[s]], t) \/ t = s
              /\ WaitsOnce(pipe'[Host[s]])
            BY <1>0, <2>2, <3>1, <3>2, CallSent
        <3>4. ASSUME NEW i \in Instance, NEW t \in Socket, Waits(pipe'[i], t)
              PROVE  Host[t] = i /\ pc'[t] = "idle" /\ session'[t] # "pending"
            <4>1. Waits(pipe[i], t) \/ (t = s /\ i = Host[s])
                BY <3>2, <3>3, <3>4
            <4>2. QED
                BY <1>0, <2>1, <2>2, <2>4, <4>1
        <3>5. \A i \in Instance : WaitsOnce(pipe'[i])
            BY <1>0, <3>2, <3>3
        <3>6. QED
            BY <1>0, <2>1, <2>4, <3>4, <3>5 DEF CallInv
    <2>5. QED
        BY <1>4, <2>3, <2>4 DEF Register, Track, busVars
<1>5. ASSUME NEW s \in Socket, Teardown(s)
      PROVE  CallInv'
    <2>1. /\ session'[s] = "absent" /\ UNCHANGED pc
          /\ \A t \in Socket : t # s => session'[t] = session[t]
        BY <1>5 DEF Teardown
    <2>2. CASE UNCHANGED pipe
        BY <1>0, <2>1, <2>2 DEF CallInv
    <2>3. CASE Send(Host[s], "unsubscribe", Owner[s], s)
        <3> DEFINE call == [op |-> "unsubscribe", id |-> Owner[s], by |-> s]
        <3>1. call \in Command /\ call.op # "subscribe"
            BY DEF Command
        <3>2. /\ pipe'[Host[s]] = Append(pipe[Host[s]], call)
              /\ \A i \in Instance : i # Host[s] => pipe'[i] = pipe[i]
            BY <2>3 DEF Send, BusTypeOK
        <3> HIDE DEF call
        <3>3. /\ \A t : Waits(pipe'[Host[s]], t) => Waits(pipe[Host[s]], t)
              /\ WaitsOnce(pipe'[Host[s]])
            BY <1>0, <3>1, <3>2, CallSent
        <3>4. \A i \in Instance, t \in Socket : Waits(pipe'[i], t) => Waits(pipe[i], t)
            BY <3>2, <3>3
        <3>5. \A i \in Instance : WaitsOnce(pipe'[i])
            BY <1>0, <3>2, <3>3
        <3>6. \A t \in Socket : session'[t] = "pending" => session[t] = "pending"
            BY <2>1
        <3>7. QED
            BY <1>0, <2>1, <3>4, <3>5, <3>6 DEF CallInv
    <2>4. QED
        BY <1>5, <2>2, <2>3 DEF Teardown, Untrack, busVars
<1>6. ASSUME NEW i \in Instance, RunSubscriber(i) \/ SubscribeFails(i)
      PROVE  CallInv'
    <2>1. /\ pipe[i] # <<>> /\ pipe'[i] = Tail(pipe[i])
          /\ \A j \in Instance : j # i => pipe'[j] = pipe[j]
          /\ UNCHANGED session
        BY <1>6 DEF RunSubscriber, SubscribeFails, RunCommand, RejectSubscribe, BusTypeOK
    <2>2. /\ Head(pipe[i]) \in Command
          /\ \A s : Waits(pipe'[i], s) => Waits(pipe[i], s)
          /\ Head(pipe[i]).op = "subscribe" => Waits(pipe[i], Head(pipe[i]).by)
          /\ WaitsOnce(pipe'[i])
          /\ Head(pipe[i]).op = "subscribe" => ~Waits(pipe'[i], Head(pipe[i]).by)
        <3> DEFINE q == pipe[i]
        <3>1. q \in Seq(Command) /\ q # <<>> /\ WaitsOnce(q) /\ pipe'[i] = Tail(q)
            BY <1>0, <2>1
        <3> HIDE DEF q
        <3>2. /\ Head(q) \in Command
              /\ \A s : Waits(Tail(q), s) => Waits(q, s)
              /\ Head(q).op = "subscribe" => Waits(q, Head(q).by)
              /\ WaitsOnce(Tail(q))
              /\ Head(q).op = "subscribe" => ~Waits(Tail(q), Head(q).by)
            BY <3>1, CallTaken
        <3>3. QED
            BY <3>1, <3>2 DEF q
    <2>3. CASE UNCHANGED pc
        BY <1>0, <2>1, <2>2, <2>3, SMTT(20) DEF CallInv
    <2>4. CASE Head(pipe[i]).op = "subscribe" /\ pc' = [pc EXCEPT ![Head(pipe[i]).by] = "claiming"]
        <3> DEFINE s == Head(pipe[i]).by
        <3>1. /\ s \in Socket /\ Waits(pipe[i], s) /\ ~Waits(pipe'[i], s)
            BY <2>2, <2>4 DEF Command
        <3>2. \A t \in Socket : t # s => pc'[t] = pc[t]
            BY <2>4 DEF TypeOK
        <3> HIDE DEF s
        <3>3. session[s] # "pending" /\ Host[s] = i
            BY <1>0, <3>1
        <3>4. ASSUME NEW j \in Instance, NEW t \in Socket, Waits(pipe'[j], t)
              PROVE  Host[t] = j /\ pc'[t] = "idle" /\ session'[t] # "pending"
            <4>1. Waits(pipe[j], t)
                BY <2>1, <2>2, <3>4
            <4>2. t # s
                BY <1>0, <3>1, <3>3, <3>4, <4>1
            <4>3. QED
                BY <1>0, <2>1, <3>2, <4>1, <4>2
        <3>5. /\ \A t \in Socket : session'[t] = "pending" => pc'[t] = "idle"
              /\ \A j \in Instance : WaitsOnce(pipe'[j])
            BY <1>0, <2>1, <2>2, <3>2, <3>3
        <3>6. QED
            BY <3>4, <3>5 DEF CallInv
    <2>5. QED
        BY <1>6, <2>3, <2>4 DEF RunSubscriber, SubscribeFails, NextCommand, replayVars
<1>7. ASSUME NEW i \in Instance, CrashInstance(i)
      PROVE  CallInv'
    <2>1. /\ pipe'[i] = <<>> /\ \A j \in Instance : j # i => pipe'[j] = pipe[j]
          /\ \A t \in Socket : session'[t] = session[t] \/ session'[t] = "absent"
          /\ \A t \in Socket : pc'[t] = pc[t] \/ pc'[t] = "idle"
        BY <1>7 DEF CrashInstance, Crash, LoseInstance, BusTypeOK
    <2>2. WaitsOnce(<<>>) /\ \A s \in Socket : ~Waits(<<>>, s)
        BY DEF WaitsOnce, Waits
    <2>3. ASSUME NEW j \in Instance, NEW t \in Socket, Waits(pipe'[j], t)
          PROVE  Host[t] = j /\ pc'[t] = "idle" /\ session'[t] # "pending"
        <3>1. Waits(pipe[j], t)
            BY <2>1, <2>2, <2>3
        <3>2. QED
            BY <1>0, <2>1, <3>1
    <2>4. /\ \A t \in Socket : session'[t] = "pending" => pc'[t] = "idle"
          /\ \A j \in Instance : WaitsOnce(pipe'[j])
        BY <1>0, <2>1, <2>2
    <2>5. QED
        BY <2>3, <2>4 DEF CallInv
<1>8. ASSUME NEW s \in Socket, RefuseHandshake(s) \/ Lose(s)
      PROVE  CallInv'
    BY <1>1, <1>8 DEF RefuseHandshake, Lose, liveVars, busVars
<1>9. ASSUME NEW i \in Instance, BusCallback(i)
      PROVE  CallInv'
    BY <1>1, <1>9 DEF BusCallback, replayVars
<1>10. ASSUME NEW e \in Envelope, NEW r \in Identity,
              RunPublish(e, r) \/ Judge(e, r) \/ EnqueueOffline(e, r) \/ RouteFails(e, r)
       PROVE  CallInv'
    BY <1>1, <1>10 DEF RunPublish, Publish, Judge, EnqueueOffline, Enqueue, RouteFails, vars,
                       replayVars, busVars
<1>11. ASSUME NEW e \in Envelope, Route(e) \/ SendReceipt(e)
       PROVE  CallInv'
    BY <1>1, <1>11 DEF Route, SendReceipt, vars, replayVars, busVars
<1>12. CASE UNCHANGED deliveryVars
    BY <1>1, <1>12 DEF deliveryVars, liveVars, vars, replayVars, busVars
<1>13. CASE RelayStep
    BY <1>2, <1>5, <1>6, <1>9, <1>10, <1>11, <1>13 DEF RelayStep
<1>14. CASE ClientStep
    BY <1>3, <1>4, <1>8, <1>11, <1>14 DEF ClientStep
<1>15. CASE FaultStep
    BY <1>2, <1>6, <1>7, <1>10, <1>15 DEF FaultStep
<1>16. QED
    BY <1>12, <1>13, <1>14, <1>15 DEF DeliveryNext

-----------------------------------------------------------------------------
(* An acknowledged copy is somewhere, while nothing crashes and Redis      *)
(* answers.                                                                *)

\* What was written, queued or only taken by a subscription stays noted.
LEMMA HistoryGrows ==
    ASSUME DeliveryTypeOK, [DeliveryNext]_deliveryVars
    PROVE  /\ \A r \in Identity : /\ written[r] \subseteq written'[r]
                                  /\ Elems(log[r]) \subseteq Elems(log'[r])
           /\ stale \subseteq stale'
           /\ expired' = expired
           /\ via' = via
<1> USE Parties DEF DeliveryTypeOK
<1>1. ASSUME UNCHANGED <<historyVars, stale, via>>
      PROVE  /\ \A r \in Identity : /\ written[r] \subseteq written'[r]
                                    /\ Elems(log[r]) \subseteq Elems(log'[r])
             /\ stale \subseteq stale' /\ expired' = expired /\ via' = via
    BY <1>1 DEF historyVars
<1>2. ASSUME NEW s \in Socket, ReplayStep(s)
      PROVE  /\ \A r \in Identity : /\ written[r] \subseteq written'[r]
                                    /\ Elems(log[r]) \subseteq Elems(log'[r])
             /\ stale \subseteq stale' /\ expired' = expired /\ via' = via
    <2>1. stale' = stale /\ via' = via
        BY <1>2 DEF ReplayStep, liveVars, routeVars, traceVars
    <2>2. CASE Replay(s)
        <3>1. PICK S \in SUBSET Envelope : written' = [written EXCEPT ![Owner[s]] = @ \cup S]
            BY <2>2, ReplayEffect
        <3>2. \A r \in Identity : written[r] \subseteq written'[r]
            BY <3>1 DEF TypeOK
        <3>3. log' = log /\ expired' = expired
            BY <2>2 DEF Replay
        <3>4. QED
            BY <2>1, <3>2, <3>3
    <2>3. CASE Claim(s) \/ Settle(s) \/ Restore(s)
        BY <1>1, <2>1, <2>3 DEF Claim, Settle, Restore
    <2>4. QED
        BY <1>2, <2>2, <2>3 DEF ReplayStep, DrainStep
<1>3. ASSUME NEW s \in Socket,
             ReplayFails(s) \/ Open(s) \/ Register(s) \/ RefuseHandshake(s) \/ Lose(s) \/ Teardown(s)
      PROVE  UNCHANGED <<historyVars, stale, via>>
    BY <1>3 DEF ReplayFails, ClaimFails, SettleOrRestoreFails, Open, Register, RefuseHandshake,
                Lose, Teardown, liveVars, routeVars, traceVars
<1>4. ASSUME NEW i \in Instance, RunSubscriber(i) \/ SubscribeFails(i) \/ CrashInstance(i)
      PROVE  UNCHANGED <<historyVars, stale, via>>
    BY <1>4 DEF RunSubscriber, SubscribeFails, CrashInstance, Crash, routeVars, traceVars
<1>5. ASSUME NEW e \in Envelope, NEW writes, WriteLive(e, writes)
      PROVE  /\ \A r \in Identity : /\ written[r] \subseteq written'[r]
                                    /\ Elems(log[r]) \subseteq Elems(log'[r])
             /\ expired' = expired
    BY <1>5 DEF WriteLive
<1>6. ASSUME NEW i \in Instance, BusCallback(i)
      PROVE  /\ \A r \in Identity : /\ written[r] \subseteq written'[r]
                                    /\ Elems(log[r]) \subseteq Elems(log'[r])
             /\ stale \subseteq stale' /\ expired' = expired /\ via' = via
    BY <1>6 DEF BusCallback, WriteLive, routeVars
<1>7. ASSUME NEW e \in Envelope, Route(e) \/ SendReceipt(e)
      PROVE  /\ \A r \in Identity : /\ written[r] \subseteq written'[r]
                                    /\ Elems(log[r]) \subseteq Elems(log'[r])
             /\ stale \subseteq stale' /\ expired' = expired /\ via' = via
    BY <1>1, <1>5, <1>7 DEF Route, SendReceipt, vars, traceVars
<1>8. ASSUME NEW e \in Envelope, NEW r \in Identity, RunPublish(e, r) \/ Judge(e, r)
      PROVE  /\ UNCHANGED <<historyVars, via>>
             /\ stale \subseteq stale'
    BY <1>8 DEF RunPublish, Judge, vars, traceVars
<1>9. ASSUME NEW e \in Envelope, NEW r \in Identity, EnqueueOffline(e, r) \/ RouteFails(e, r)
      PROVE  /\ \A q \in Identity : /\ written[q] \subseteq written'[q]
                                    /\ Elems(log[q]) \subseteq Elems(log'[q])
             /\ stale \subseteq stale' /\ expired' = expired /\ via' = via
    <2>1. UNCHANGED <<written, expired, stale, via>>
        BY <1>9 DEF EnqueueOffline, Enqueue, RouteFails, traceVars
    <2>2. log' = log \/ log' = [log EXCEPT ![r] = Append(@, e)]
        BY <1>9 DEF EnqueueOffline, Enqueue, RouteFails
    <2>3. Elems(Append(log[r], e)) = Elems(log[r]) \cup {e}
        BY ElemsAppend DEF TypeOK
    <2>4. \A q \in Identity : log'[q] = log[q] \/ (q = r /\ log'[q] = Append(log[r], e))
        BY <2>2 DEF TypeOK
    <2>5. \A q \in Identity : Elems(log[q]) \subseteq Elems(log'[q])
        BY <2>3, <2>4
    <2>6. QED
        BY <2>1, <2>5
<1>10. CASE UNCHANGED deliveryVars
    BY <1>1, <1>10 DEF deliveryVars, liveVars, vars, routeVars, traceVars
<1>11. CASE RelayStep
    BY <1>1, <1>2, <1>3, <1>4, <1>6, <1>7, <1>8, <1>9, <1>11 DEF RelayStep, historyVars
<1>12. CASE ClientStep
    BY <1>1, <1>3, <1>7, <1>12 DEF ClientStep
<1>13. CASE FaultStep
    BY <1>1, <1>3, <1>4, <1>9, <1>13 DEF FaultStep
<1>14. QED
    BY <1>10, <1>11, <1>12, <1>13 DEF DeliveryNext

\* The relay did what it could for the copy without its queue.
Received(e, r) ==
    \/ e \in written[r]
    \/ \E i \in Instance : <<r, e>> \in Elems(inbox[i])
    \/ <<e, r>> \in stale

\* A copy leaves an inbox for a socket or for a subscription without one.
LEMMA InboxStep ==
    ASSUME "crash" \notin Faults, DeliveryTypeOK, [DeliveryNext]_deliveryVars,
           NEW j \in Instance, NEW e \in Envelope, NEW r \in Identity, <<r, e>> \in Elems(inbox[j])
    PROVE  \/ <<r, e>> \in Elems(inbox'[j])
           \/ e \in written'[r]
           \/ <<e, r>> \in stale'
<1> USE Parties DEF DeliveryTypeOK
<1>0. inbox[j] \in Seq(Identity \X Envelope)
    BY DEF BusTypeOK
<1>1. CASE inbox' = inbox
    BY <1>1
<1>2. ASSUME NEW d \in Envelope, NEW q \in Identity, RunPublish(d, q)
      PROVE  <<r, e>> \in Elems(inbox'[j])
    <2> DEFINE copy == <<q, d>>
               copies == Identity \X Envelope
    <2>1. inbox'[j] = inbox[j] \/ inbox'[j] = Append(inbox[j], copy)
        BY <1>2 DEF RunPublish, Publish
    <2>2. copy \in copies /\ inbox[j] \in Seq(copies)
        BY <1>0
    <2> HIDE DEF copy, copies
    <2>3. Elems(Append(inbox[j], copy)) = Elems(inbox[j]) \cup {copy}
        BY <2>2, ElemsAppend
    <2>4. QED
        BY <2>1, <2>3
<1>3. ASSUME NEW i \in Instance, BusCallback(i)
      PROVE  \/ <<r, e>> \in Elems(inbox'[j])
             \/ e \in written'[r]
             \/ <<e, r>> \in stale'
    <2>1. inbox[i] # <<>> /\ inbox' = [inbox EXCEPT ![i] = Tail(@)]
        BY <1>3 DEF BusCallback
    <2>2. CASE j # i
        BY <2>1, <2>2
    <2>3. CASE j = i
        <3>1. inbox'[j] = Tail(inbox[j])
            BY <2>1, <2>3 DEF BusTypeOK
        <3>2. Elems(inbox[j]) = {Head(inbox[j])} \cup Elems(Tail(inbox[j]))
            BY <1>0, <2>1, <2>3, OnceTaken
        <3>3. CASE Head(inbox[j]) = <<r, e>>
            <4>1. /\ WriteLive(e, Writable(i, r))
                  /\ stale' = IF Writable(i, r) = {} THEN stale \cup {<<e, r>>} ELSE stale
                <5>1. Head(inbox[i])[1] = r /\ Head(inbox[i])[2] = e
                    BY <2>3, <3>3
                <5>2. QED
                    BY <1>3, <5>1 DEF BusCallback
            <4>2. CASE Writable(i, r) = {}
                BY <4>1, <4>2
            <4>3. CASE Writable(i, r) # {}
                <5>1. \E s \in Writable(i, r) : Owner[s] = r
                    BY <4>3 DEF Writable, Held, SocketsOf
                <5>2. QED
                    BY <4>1, <5>1 DEF WriteLive
            <4>4. QED
                BY <4>2, <4>3
        <3>4. CASE Head(inbox[j]) # <<r, e>>
            BY <3>1, <3>2, <3>4
        <3>5. QED
            BY <3>3, <3>4
    <2>4. QED
        BY <2>2, <2>3
<1>4. \A i \in Instance : ~CrashInstance(i)
    BY DEF CrashInstance, Crash, Fault
<1>5. ASSUME NEW s \in Socket,
             ReplayStep(s) \/ ReplayFails(s) \/ Open(s) \/ Register(s) \/ RefuseHandshake(s)
                 \/ Lose(s) \/ Teardown(s)
      PROVE  inbox' = inbox
    BY <1>5 DEF ReplayStep, ReplayFails, Open, Register, RefuseHandshake, Lose, Teardown, Track,
                Untrack, liveVars, busVars
<1>6. ASSUME NEW i \in Instance, RunSubscriber(i) \/ SubscribeFails(i)
      PROVE  inbox' = inbox
    BY <1>6 DEF RunSubscriber, SubscribeFails, RunCommand, RejectSubscribe
<1>7. ASSUME NEW d \in Envelope, NEW q \in Identity,
             Judge(d, q) \/ EnqueueOffline(d, q) \/ RouteFails(d, q)
      PROVE  inbox' = inbox
    BY <1>7 DEF Judge, EnqueueOffline, RouteFails, busVars
<1>8. ASSUME NEW d \in Envelope, Route(d) \/ SendReceipt(d)
      PROVE  inbox' = inbox
    BY <1>8 DEF Route, SendReceipt, busVars
<1>9. CASE UNCHANGED deliveryVars
    BY <1>1, <1>9 DEF deliveryVars, liveVars, busVars
<1>10. CASE RelayStep
    BY <1>1, <1>2, <1>3, <1>5, <1>6, <1>7, <1>8, <1>10 DEF RelayStep
<1>11. CASE ClientStep
    BY <1>1, <1>5, <1>8, <1>11 DEF ClientStep
<1>12. CASE FaultStep
    BY <1>1, <1>4, <1>5, <1>6, <1>7, <1>12 DEF FaultStep
<1>13. QED
    BY <1>9, <1>10, <1>11, <1>12 DEF DeliveryNext

LEMMA ReceivedStays ==
    ASSUME "crash" \notin Faults, DeliveryTypeOK, [DeliveryNext]_deliveryVars,
           NEW e \in Envelope, NEW r \in Identity, Received(e, r)
    PROVE  Received(e, r)'
<1>1. CASE e \in written[r] \/ <<e, r>> \in stale
    BY <1>1, HistoryGrows DEF Received
<1>2. CASE \E j \in Instance : <<r, e>> \in Elems(inbox[j])
    BY <1>2, InboxStep DEF Received
<1>3. QED
    BY <1>1, <1>2 DEF Received

\* The queue and the running replays hold what was queued, while sockets register, write
\* and close around them.
LEMMA HandsKept ==
    ASSUME TypeOK, ConcurrentInv, UNCHANGED <<queue, batch, log, expired>>,
           \A s \in Socket : pc[s] \in {"replaying", "restoring"} => pc'[s] = pc[s],
           \A r \in Identity : written[r] \subseteq written'[r]
    PROVE  ConcurrentInv'
<1>1. \A r \in Identity : InHand(r) \subseteq InHand(r)'
    BY InHandOf, InHandOfNext
<1>2. QED
    BY <1>1 DEF ConcurrentInv

LEMMA ConcurrentDelivery ==
    ASSUME Faults \cap {"crash", "redis"} = {}, DeliveryTypeOK, CallInv, ConcurrentInv,
           [DeliveryNext]_deliveryVars
    PROVE  ConcurrentInv'
<1> USE Parties DEF DeliveryTypeOK
<1>0. /\ \A r \in Identity : written[r] \subseteq written'[r]
      /\ expired' = expired
    BY HistoryGrows
<1>1. ASSUME [Next]_vars
      PROVE  ConcurrentInv'
    BY <1>1, ConcurrentInvNext
<1>2. ASSUME NEW s \in Socket, ReplayStep(s)
      PROVE  ConcurrentInv'
    BY <1>1, <1>2 DEF ReplayStep, DrainStep, Next
<1>3. ASSUME UNCHANGED <<queue, pc, batch, log>>
      PROVE  ConcurrentInv'
    BY <1>0, <1>3, HandsKept
<1>4. ASSUME NEW s \in Socket, Open(s) \/ RefuseHandshake(s) \/ Lose(s) \/ Teardown(s)
      PROVE  ConcurrentInv'
    BY <1>3, <1>4 DEF Open, RefuseHandshake, Lose, Teardown, queueVars, historyVars
<1>5. ASSUME NEW s \in Socket, Register(s)
      PROVE  ConcurrentInv'
    <2>1. /\ UNCHANGED <<queue, batch, log>> /\ pc[s] = "idle"
          /\ \A t \in Socket : t # s => pc'[t] = pc[t]
        BY <1>5 DEF Register, CallInv, queueVars, historyVars, TypeOK
    <2>2. QED
        BY <1>0, <2>1, HandsKept
<1>6. ASSUME NEW i \in Instance, RunSubscriber(i)
      PROVE  ConcurrentInv'
    <2>1. /\ UNCHANGED <<queue, batch, log>> /\ pipe[i] # <<>> /\ pipe[i] \in Seq(Command)
          /\ pc' = IF Head(pipe[i]).op = "subscribe"
                   THEN [pc EXCEPT ![Head(pipe[i]).by] = "claiming"] ELSE pc
        BY <1>6 DEF RunSubscriber, RunCommand, NextCommand, queueVars, historyVars, BusTypeOK
    <2>2. /\ Head(pipe[i]) \in Command
          /\ Head(pipe[i]).op = "subscribe" => Waits(pipe[i], Head(pipe[i]).by)
        BY <2>1, CallTaken
    <2>3. Head(pipe[i]).op = "subscribe" => pc[Head(pipe[i]).by] = "idle"
        BY <2>2 DEF CallInv, Command
    <2>4. \A t \in Socket : pc[t] # "idle" => pc'[t] = pc[t]
        BY <2>1, <2>3 DEF TypeOK
    <2>5. QED
        BY <1>0, <2>1, <2>4, HandsKept
<1>7. ASSUME NEW i \in Instance, BusCallback(i)
      PROVE  ConcurrentInv'
    BY <1>3, <1>7 DEF BusCallback, WriteLive, queueVars, replayVars
<1>8. ASSUME NEW e \in Envelope, Route(e)
      PROVE  ConcurrentInv'
    BY <1>3, <1>8 DEF Route, WriteLive, queueVars, replayVars
<1>9. ASSUME NEW e \in Envelope, NEW r \in Identity, RunPublish(e, r) \/ Judge(e, r)
      PROVE  ConcurrentInv'
    BY <1>1, <1>9 DEF RunPublish, Judge
<1>10. ASSUME NEW e \in Envelope, NEW r \in Identity, EnqueueOffline(e, r)
       PROVE  ConcurrentInv'
    BY <1>1, <1>10 DEF EnqueueOffline, Next
<1>11. ASSUME NEW e \in Envelope, SendReceipt(e)
       PROVE  ConcurrentInv'
    BY <1>1, <1>11 DEF SendReceipt
<1>12. ~FaultStep
    BY DEF FaultStep, ReplayFails, ClaimFails, SettleOrRestoreFails, SubscribeFails, CrashInstance,
           Crash, RouteFails, Fault
<1>13. CASE UNCHANGED deliveryVars
    BY <1>1, <1>13 DEF deliveryVars
<1>14. CASE RelayStep
    BY <1>2, <1>4, <1>6, <1>7, <1>9, <1>10, <1>11, <1>14 DEF RelayStep
<1>15. CASE ClientStep
    BY <1>4, <1>5, <1>8, <1>15 DEF ClientStep
<1>16. QED
    BY <1>12, <1>13, <1>14, <1>15 DEF DeliveryNext

(***************************************************************************)
(* Why an acknowledged copy is somewhere: a copy judged delivered was      *)
(* written on its own instance, or pushed to another one, or taken by the  *)
(* publisher's subscription alone; a copy judged offline is in the queue's *)
(* log; and the receipt comes after every copy was judged.                 *)
(***************************************************************************)
CopyInv(e, r) ==
    /\ route[e][r] \in {"publishing", "replying"} /\ local[e][r] => e \in written[r]
    /\ route[e][r] = "replying" /\ ~(reached[e][r] \subseteq {via[e]}) => Received(e, r)
    /\ route[e][r] = "delivered" => Received(e, r)
    /\ route[e][r] = "queued" => e \in Elems(log[r])
    /\ route[e][r] = "missed" => Kind[e] \notin QueuedKinds

AckInv ==
    /\ \A e \in Envelope, r \in Identity : CopyInv(e, r)
    /\ \A e \in Envelope : receipt[e] # "none" => Outcomes(e) \subseteq Finished
    /\ \A r \in Identity : expired[r] = {}

LEMMA AckInvInit == DeliveryInit => AckInv
BY Parties DEF DeliveryInit, Init, AckInv, CopyInv, Outcomes

\* A call that counts a remote receiver was told of a subscription.
LEMMA RemoteReached ==
    ASSUME NEW i \in Instance, NEW r \in Identity, NEW S,
           RemoteReceivers(i, r, Cardinality(S)) > 0
    PROVE  S # {}
BY FS_EmptySet DEF RemoteReceivers, OwnSubscription

LEMMA AckInvNext ==
    ASSUME Faults \cap {"crash", "redis"} = {}, DeliveryTypeOK, AckInv, [DeliveryNext]_deliveryVars
    PROVE  AckInv'
<1> USE Parties DEF DeliveryTypeOK
<1>0. /\ \A r \in Identity : /\ written[r] \subseteq written'[r]
                             /\ Elems(log[r]) \subseteq Elems(log'[r])
      /\ expired' = expired /\ via' = via
      /\ \A e \in Envelope, r \in Identity : Received(e, r) => Received(e, r)'
    BY HistoryGrows, ReceivedStays
<1>1. \A e \in Envelope, r \in Identity : CopyInv(e, r)
    BY DEF AckInv
<1>2. \A r \in Identity : expired'[r] = {}
    BY <1>0 DEF AckInv
\* The copies whose calls do not move.
<1>3. ASSUME NEW e \in Envelope, NEW r \in Identity,
             route'[e][r] = route[e][r], local'[e][r] = local[e][r], reached'[e][r] = reached[e][r]
      PROVE  CopyInv(e, r)'
    BY <1>0, <1>1, <1>3 DEF CopyInv
<1>4. ASSUME UNCHANGED <<route, local, reached, receipt>>
      PROVE  AckInv'
    BY <1>2, <1>3, <1>4 DEF AckInv, Outcomes
<1>5. ASSUME NEW s \in Socket,
             ReplayStep(s) \/ Open(s) \/ Register(s) \/ RefuseHandshake(s) \/ Lose(s) \/ Teardown(s)
      PROVE  AckInv'
    BY <1>4, <1>5 DEF ReplayStep, Open, Register, RefuseHandshake, Lose, Teardown, liveVars, routeVars
<1>6. ASSUME NEW i \in Instance, RunSubscriber(i) \/ BusCallback(i)
      PROVE  AckInv'
    BY <1>4, <1>6 DEF RunSubscriber, BusCallback, routeVars
<1>7. ASSUME NEW e \in Envelope, NEW r \in Recipients[e], NEW stage,
             SetRoute(e, r, stage), route[e][r] \notin Finished, CopyInv(e, r)',
             \A d \in Envelope, q \in Identity : <<d, q>> # <<e, r>> =>
                local'[d][q] = local[d][q] /\ reached'[d][q] = reached[d][q],
             receipt' = receipt
      PROVE  AckInv'
    <2>1. \A d \in Envelope, q \in Identity : <<d, q>> # <<e, r>> => route'[d][q] = route[d][q]
        BY <1>7 DEF SetRoute
    <2>2. ASSUME NEW d \in Envelope, NEW q \in Identity
          PROVE  CopyInv(d, q)'
        BY <1>3, <1>7, <2>1
    <2>3. ASSUME NEW d \in Envelope, receipt[d] # "none"
          PROVE  Outcomes(d)' \subseteq Finished
        <3>1. Outcomes(d) \subseteq Finished
            BY <2>3 DEF AckInv
        <3>2. d # e
            BY <1>7, <3>1 DEF Outcomes
        <3>3. QED
            BY <2>1, <3>1, <3>2 DEF Outcomes
    <2>4. QED
        BY <1>2, <1>7, <2>2, <2>3 DEF AckInv
<1>8. ASSUME NEW e \in Envelope, NEW r \in Recipients[e], RunPublish(e, r)
      PROVE  AckInv'
    <2>1. /\ route[e][r] = "publishing" /\ route'[e][r] = "replying"
          /\ local' = local /\ receipt' = receipt
          /\ reached'[e][r] = Receivers(r)
          /\ \A d \in Envelope, q \in Identity : <<d, q>> # <<e, r>> =>
                local'[d][q] = local[d][q] /\ reached'[d][q] = reached[d][q]
          /\ SetRoute(e, r, "replying")
        BY <1>8 DEF RunPublish, SetRoute
    <2>2. ASSUME NEW j \in Receivers(r), j # via[e]
          PROVE  Received(e, r)'
        <3>1. j \in Instance /\ inbox[j] \in Seq(Identity \X Envelope)
            BY DEF Receivers, BusTypeOK
        <3>2. inbox'[j] = Append(inbox[j], <<r, e>>)
            BY <1>8, <2>2, <3>1 DEF RunPublish, Publish, Receivers
        <3>3. <<r, e>> \in Elems(inbox'[j])
            <4> DEFINE copy == <<r, e>>
                       copies == Identity \X Envelope
            <4>1. copy \in copies /\ inbox[j] \in Seq(copies) /\ inbox'[j] = Append(inbox[j], copy)
                BY <3>1, <3>2
            <4> HIDE DEF copy, copies
            <4>2. copy \in Elems(inbox'[j])
                BY <4>1, ElemsAppend
            <4>3. QED
                BY <4>2 DEF copy
        <3>4. QED
            BY <3>1, <3>3 DEF Received
    <2>3. CopyInv(e, r)'
        <3>1. local'[e][r] => e \in written'[r]
            BY <1>0, <1>1, <2>1 DEF CopyInv
        <3>2. ~(reached'[e][r] \subseteq {via'[e]}) => Received(e, r)'
            BY <1>0, <2>1, <2>2
        <3>3. QED
            BY <2>1, <3>1, <3>2 DEF CopyInv
    <2>4. QED
        BY <1>7, <2>1, <2>3 DEF Finished
<1>9. ASSUME NEW e \in Envelope, NEW r \in Recipients[e], Judge(e, r)
      PROVE  AckInv'
    <2> DEFINE stage == IF Delivered(e, r) THEN "delivered"
                        ELSE IF Kind[e] \in QueuedKinds THEN "enqueueing" ELSE "missed"
    <2>1. /\ route[e][r] = "replying" /\ route'[e][r] = stage /\ SetRoute(e, r, stage)
          /\ receipt' = receipt
          /\ \A d \in Envelope, q \in Identity : <<d, q>> # <<e, r>> =>
                local'[d][q] = local[d][q] /\ reached'[d][q] = reached[d][q]
        BY <1>9 DEF Judge, SetRoute
    <2>2. ASSUME Delivered(e, r)
          PROVE  Received(e, r)'
        <3>1. CASE local[e][r]
            BY <1>0, <1>1, <2>1, <3>1 DEF CopyInv, Received
        <3>2. CASE ~local[e][r]
            <4>1. reached[e][r] # {}
                BY <2>2, <3>2, RemoteReached DEF Delivered
            <4>2. CASE reached[e][r] \subseteq {via[e]}
                <5>1. reached[e][r] = {via[e]}
                    BY <4>1, <4>2
                <5>2. <<e, r>> \in stale'
                    BY <1>9, <2>2, <3>2, <5>1 DEF Judge
                <5>3. QED
                    BY <5>2 DEF Received
            <4>3. CASE ~(reached[e][r] \subseteq {via[e]})
                BY <1>0, <1>1, <2>1, <4>3 DEF CopyInv
            <4>4. QED
                BY <4>2, <4>3
        <3>3. QED
            BY <3>1, <3>2
    <2>3. CopyInv(e, r)'
        <3>1. route'[e][r] \notin {"publishing", "replying", "queued"}
            BY <2>1
        <3>2. route'[e][r] = "delivered" => Received(e, r)'
            BY <2>1, <2>2
        <3>3. route'[e][r] = "missed" => Kind[e] \notin QueuedKinds
            BY <2>1
        <3>4. QED
            BY <3>1, <3>2, <3>3 DEF CopyInv
    <2>4. QED
        BY <1>7, <2>1, <2>3 DEF Finished
<1>10. ASSUME NEW e \in Envelope, NEW r \in Recipients[e], EnqueueOffline(e, r)
       PROVE  AckInv'
    <2>1. /\ route[e][r] = "enqueueing" /\ route'[e][r] = "queued" /\ SetRoute(e, r, "queued")
          /\ UNCHANGED <<local, reached, receipt>>
        BY <1>10 DEF EnqueueOffline, SetRoute
    <2>2. e \in Elems(log'[r])
        <3>1. log[r] \in Seq(Envelope) /\ log'[r] = Append(log[r], e)
            BY <1>10 DEF EnqueueOffline, Enqueue, TypeOK
        <3>2. QED
            BY <3>1, ElemsAppend
    <2>3. CopyInv(e, r)'
        BY <2>1, <2>2 DEF CopyInv
    <2>4. QED
        BY <1>7, <2>1, <2>3 DEF Finished
<1>11. ASSUME NEW e \in Envelope, Route(e)
       PROVE  AckInv'
    <2>1. /\ \A r \in Identity : route[e][r] = "none"
          /\ \A d \in Envelope, q \in Identity : d # e =>
                route'[d][q] = route[d][q] /\ local'[d][q] = local[d][q]
          /\ \A q \in Identity :
                /\ route'[e][q] \in {"none", "publishing"}
                /\ local'[e][q] = (q \in Recipients[e] /\ DeliveredLocally(e, q))
          /\ UNCHANGED <<reached, receipt>>
        BY <1>11 DEF Route
    <2>2. ASSUME NEW q \in Recipients[e], DeliveredLocally(e, q)
          PROVE  e \in written'[q]
        <3>1. PICK s \in Writable(via[e], q) : Owner[s] = q
            BY <2>2 DEF DeliveredLocally, Writable, Held, SocketsOf
        <3>2. s \in UNION {Writable(via[e], r) : r \in Recipients[e]}
            BY <3>1
        <3>3. QED
            BY <1>11, <3>1, <3>2 DEF Route, WriteLive
    <2>3. ASSUME NEW q \in Identity
          PROVE  CopyInv(e, q)'
        BY <2>1, <2>2 DEF CopyInv
    <2>4. ASSUME NEW d \in Envelope, NEW q \in Identity
          PROVE  CopyInv(d, q)'
        BY <1>3, <2>1, <2>3
    <2>5. ASSUME NEW d \in Envelope, receipt[d] # "none"
          PROVE  Outcomes(d)' \subseteq Finished
        <3>1. Outcomes(d) \subseteq Finished
            BY <2>5 DEF AckInv
        <3>2. PICK q \in Recipients[d] : q \in Identity
            <4>1. Recipients[d] \in SUBSET Identity /\ Recipients[d] # {}
                BY DeliveryAssumption
            <4>2. QED
                BY <4>1
        <3>3. d # e
            BY <2>1, <3>1, <3>2 DEF Outcomes, Finished
        <3>4. QED
            BY <2>1, <3>1, <3>3 DEF Outcomes
    <2>6. QED
        BY <1>2, <2>1, <2>4, <2>5 DEF AckInv
<1>12. ASSUME NEW e \in Envelope, SendReceipt(e)
       PROVE  AckInv'
    <2>1. /\ UNCHANGED <<route, local, reached>> /\ Outcomes(e) \subseteq Finished
          /\ \A d \in Envelope : d # e => receipt'[d] = receipt[d]
        BY <1>12 DEF SendReceipt, ReceiptDue
    <2>2. \A d \in Envelope : receipt'[d] # "none" => Outcomes(d) \subseteq Finished
        BY <2>1 DEF AckInv
    <2>3. QED
        BY <1>2, <1>3, <2>1, <2>2 DEF AckInv, Outcomes
<1>13. ~FaultStep
    BY DEF FaultStep, ReplayFails, ClaimFails, SettleOrRestoreFails, SubscribeFails, CrashInstance,
           Crash, RouteFails, Fault
<1>14. CASE UNCHANGED deliveryVars
    BY <1>4, <1>14 DEF deliveryVars, liveVars, routeVars
<1>15. CASE RelayStep
    BY <1>5, <1>6, <1>8, <1>9, <1>10, <1>12, <1>15 DEF RelayStep
<1>16. CASE ClientStep
    BY <1>5, <1>11, <1>16 DEF ClientStep
<1>17. QED
    BY <1>13, <1>14, <1>15, <1>16 DEF DeliveryNext

(***************************************************************************)
(* While no instance dies and Redis rejects nothing, a receipt tells the   *)
(* truth: every copy of an acknowledged envelope was written, is queued,   *)
(* in a replay or in an inbox, or a subscription without a socket took it. *)
(* Any number of sockets register, replay, are lost and close meanwhile.   *)
(***************************************************************************)
THEOREM AcknowledgedHolds ==
    Faults \cap {"crash", "redis"} = {} => (DeliverySpec => []AcknowledgedIsSafe)
<1> SUFFICES ASSUME Faults \cap {"crash", "redis"} = {}
             PROVE  DeliverySpec => []AcknowledgedIsSafe
    OBVIOUS
<1>1. DeliveryInit => ConcurrentInv
    BY ElemsEmpty DEF DeliveryInit, Init, ConcurrentInv
<1>2. DeliveryTypeOK /\ CallInv /\ [DeliveryNext]_deliveryVars => CallInv'
    BY CallInvNext
<1>3. DeliveryTypeOK /\ CallInv /\ ConcurrentInv /\ [DeliveryNext]_deliveryVars => ConcurrentInv'
    BY ConcurrentDelivery
<1>4. DeliveryTypeOK /\ AckInv /\ [DeliveryNext]_deliveryVars => AckInv'
    BY AckInvNext
<1>5. AckInv /\ ConcurrentInv => AcknowledgedIsSafe
    <2>1. SUFFICES ASSUME AckInv, ConcurrentInv, NEW e \in Envelope, Kind[e] \in QueuedKinds,
                          receipt[e] # "none", NEW r \in Recipients[e]
                   PROVE  \/ e \in written[r] \cup Stored(r) \cup InHand(r)
                          \/ \E i \in Instance : PushedTo(i, e, r)
                          \/ <<e, r>> \in stale
        BY DEF AcknowledgedIsSafe
    <2>2. r \in Identity /\ CopyInv(e, r) /\ expired[r] = {}
        BY <2>1, Parties DEF AckInv
    <2>3. route[e][r] \in Finished
        BY <2>1 DEF AckInv, Outcomes
    <2>4. CASE route[e][r] = "delivered"
        BY <2>2, <2>4, Pushed DEF CopyInv, Received
    <2>5. CASE route[e][r] = "queued"
        BY <2>1, <2>2, <2>5 DEF CopyInv, ConcurrentInv, Stored
    <2>6. CASE route[e][r] = "missed"
        BY <2>1, <2>2, <2>6 DEF CopyInv
    <2>7. QED
        BY <2>3, <2>4, <2>5, <2>6 DEF Finished
<1>6. QED
    BY <1>1, <1>2, <1>3, <1>4, <1>5, AckInvInit, CallInvInit, DeliveryTypeCorrect, PTL
    DEF DeliverySpec
=============================================================================
