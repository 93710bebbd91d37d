-------------------------------- MODULE ServicesProofs --------------------------------
(*****************************************************************************)
(* Theorems about the relay's services, Payments, Awards, Leaderboard, TtlCache*)
(* and Scoring, for any numbers of participants, transactions, processes,    *)
(* events, subscriptions and keys.                                           *)
(*****************************************************************************)
EXTENDS Payments, Awards, Leaderboard, TtlCache, Scoring, FiniteSums, FiniteSetTheorems,
        SequenceTheorems, TLAPS

-----------------------------------------------------------------------------
(* Payments. *)

\* What a request is about: only events about subscriptions are written in two steps, a
\* session that is reported on was created, and a request past its claim left the claim.
RequestsAreClaimed ==
  \A i \in Call : call[i] # Idle =>
    /\ call[i].event.about \in Subscription \cup offered
    /\ call[i].stage = "write" => call[i].event.about \in Subscription
    /\ call[i].stage # "claim" => call[i].event \in claimed

\* A claimed event has been applied, is in hand, or was interrupted.
ClaimedIsHandled ==
  \A e \in claimed : e \in applied \/ InHand(e) \/ e \in interrupted

\* Whoever was offered a session is registered.
OfferedIsRegistered == \A c \in offered : fee[PayerOf[c]] # "absent"

\* The inductive invariant of the theorems below.
PaymentsInv ==
  /\ PaymentsTypeOK
  /\ RequestsAreClaimed
  /\ ClaimedIsHandled /\ acked \subseteq claimed
  /\ OfferedIsRegistered
  /\ TablesMatchStripe

-------------------------------------------------------------------------------
(* The initial state, and facts about one request. *)

LEMMA PaymentsInitInv == PaymentsInit => PaymentsInv
<1> SUFFICES ASSUME PaymentsInit PROVE PaymentsInv
    OBVIOUS
<1>1. PaymentsTypeOK
    BY PaymentsAssumption DEF PaymentsInit, PaymentsTypeOK, None
<1>2. RequestsAreClaimed /\ ClaimedIsHandled /\ acked \subseteq claimed /\ OfferedIsRegistered
    BY DEF PaymentsInit, RequestsAreClaimed, ClaimedIsHandled, OfferedIsRegistered
<1>3. SubscriptionIsNewest
    BY DEF PaymentsInit, SubscriptionIsNewest
<1>4. PaidIsOnRecord /\ NobodyPaysABanOff
    BY DEF PaymentsInit, PaidIsOnRecord, NobodyPaysABanOff
<1>5. QED
    BY <1>1, <1>2, <1>3, <1>4 DEF PaymentsInv, TablesMatchStripe

Stages == {"claim", "handle", "write", "reply"}

\* The record of a request that is under way.
LEMMA RequestType ==
  ASSUME PaymentsTypeOK, NEW i \in Call, call[i].stage \in Stages \/ call[i] # Idle
  PROVE  /\ call[i] # Idle
         /\ call[i] \in [stage : Stages, event : Event]
         /\ call[i].event \in Event
BY DEF PaymentsTypeOK, Idle, Stages

\* Requests other than i keep what they have in hand.
LEMMA OthersInHand ==
  ASSUME NEW i \in Call, NEW e, InHand(e),
         \A j \in Call : j # i => call'[j] = call[j],
         call[i] # At("handle", e) /\ call[i] # At("write", e)
  PROVE  InHand(e)'
BY DEF InHand

\* A step of one request keeps the invariant's parts about requests.
LEMMA RequestStep ==
  ASSUME PaymentsInv, NEW i \in Call,
         call' \in [Call -> {Idle} \cup [stage : Stages, event : Event]],
         \A j \in Call : j # i => call'[j] = call[j],
         offered' = offered, claimed \subseteq claimed',
         call'[i] # Idle =>
           /\ call'[i].event.about \in Subscription \cup offered
           /\ call'[i].stage = "write" => call'[i].event.about \in Subscription
           /\ call'[i].stage # "claim" => call'[i].event \in claimed'
  PROVE  RequestsAreClaimed'
BY DEF PaymentsInv, RequestsAreClaimed

\* Events claimed before stay handled when request i moves on from its own.
LEMMA ClaimedStep ==
  ASSUME PaymentsInv, NEW i \in Call,
         \A j \in Call : j # i => call'[j] = call[j],
         claimed' = claimed, applied \subseteq applied', interrupted \subseteq interrupted',
         \A e \in claimed :
           call[i] = At("handle", e) \/ call[i] = At("write", e) =>
             e \in applied' \/ e \in interrupted' \/ InHand(e)'
  PROVE  ClaimedIsHandled'
<1> SUFFICES ASSUME NEW e \in claimed, e \notin applied', e \notin interrupted'
             PROVE  InHand(e)'
    BY DEF ClaimedIsHandled
<1>1. InHand(e)
    BY DEF PaymentsInv, ClaimedIsHandled
<1>2. CASE call[i] = At("handle", e) \/ call[i] = At("write", e)
    BY <1>2
<1>3. CASE call[i] # At("handle", e) /\ call[i] # At("write", e)
    BY <1>1, <1>3, OthersInHand
<1>4. QED
    BY <1>2, <1>3

\* Steps that leave the entry and subscription tables alone.
LEMMA TablesUnchanged ==
  ASSUME TablesMatchStripe, OfferedIsRegistered,
         UNCHANGED <<sub, applied, offered, payment, fee, standing, pardoned, banned>>
  PROVE  TablesMatchStripe' /\ OfferedIsRegistered'
BY DEF TablesMatchStripe, SubscriptionIsNewest, PaidIsOnRecord, NobodyPaysABanOff,
       OfferedIsRegistered

-------------------------------------------------------------------------------
(* One lemma per action. *)

LEMMA DeliverInv ==
  ASSUME PaymentsInv, NEW i \in Call, NEW e \in Event, Deliver(i, e)
  PROVE  PaymentsInv'
<1>1. /\ call' = [call EXCEPT ![i] = At("claim", e)]
      /\ call' \in [Call -> {Idle} \cup [stage : Stages, event : Event]]
    BY DEF Deliver, PaymentsInv, PaymentsTypeOK, At, Stages
<1>2. call'[i] = At("claim", e) /\ \A j \in Call : j # i => call'[j] = call[j]
    BY <1>1 DEF PaymentsInv, PaymentsTypeOK
<1>3. PaymentsTypeOK'
    BY <1>1 DEF Deliver, PaymentsInv, PaymentsTypeOK, Stages, entryVars
<1>4. RequestsAreClaimed'
    BY <1>1, <1>2, RequestStep DEF Deliver, At, entryVars
<1>5. ClaimedIsHandled'
    BY <1>2, ClaimedStep DEF Deliver, Idle, At, entryVars
<1>6. QED
    BY <1>3, <1>4, <1>5, TablesUnchanged DEF Deliver, PaymentsInv, entryVars

LEMMA ClaimInv ==
  ASSUME PaymentsInv, NEW i \in Call, claimStripeEvent(i)
  PROVE  PaymentsInv'
<1> DEFINE e == call[i].event
           next == At(IF e \in claimed THEN "reply" ELSE "handle", e)
<1>1. e \in Event /\ call[i] # Idle /\ e.about \in Subscription \cup offered
    BY RequestType DEF claimStripeEvent, PaymentsInv, RequestsAreClaimed, Stages
<1>2. /\ call' = [call EXCEPT ![i] = next]
      /\ call' \in [Call -> {Idle} \cup [stage : Stages, event : Event]]
    BY <1>1 DEF claimStripeEvent, PaymentsInv, PaymentsTypeOK, At, Stages
<1>3. call'[i] = next /\ \A j \in Call : j # i => call'[j] = call[j]
    BY <1>2 DEF PaymentsInv, PaymentsTypeOK
<1>4. PaymentsTypeOK'
    BY <1>1, <1>2 DEF claimStripeEvent, PaymentsInv, PaymentsTypeOK, Stages, entryVars
<1>5. RequestsAreClaimed'
    BY <1>1, <1>2, <1>3, RequestStep DEF claimStripeEvent, At, entryVars
<1>6. ClaimedIsHandled'
    <2>1. SUFFICES ASSUME NEW d \in claimed \cup {e}, d \notin applied, d \notin interrupted
                   PROVE  InHand(d)'
        BY DEF claimStripeEvent, ClaimedIsHandled
    <2>2. CASE d \in claimed
        <3>1. InHand(d)
            BY <2>1, <2>2 DEF PaymentsInv, ClaimedIsHandled
        <3>2. call[i] # At("handle", d) /\ call[i] # At("write", d)
            BY DEF claimStripeEvent, At
        <3>3. QED
            BY <1>3, <3>1, <3>2, OthersInHand
    <2>3. CASE d \notin claimed
        BY <1>3, <2>1, <2>3 DEF InHand
    <2>4. QED
        BY <2>2, <2>3
<1>7. acked' \subseteq claimed'
    BY DEF claimStripeEvent, PaymentsInv
<1>8. QED
    BY <1>4, <1>5, <1>6, <1>7, TablesUnchanged DEF claimStripeEvent, PaymentsInv, entryVars

LEMMA EnsureUserInv ==
  ASSUME PaymentsInv, NEW i \in Call, ensureUser(i)
  PROVE  PaymentsInv'
<1> DEFINE e == call[i].event
<1>1. /\ e \in Event /\ call[i] \in [stage : Stages, event : Event]
      /\ e.about \in Subscription /\ call[i] # Idle
    BY RequestType DEF ensureUser, PaymentsInv, Stages
<1>2. /\ call' = [call EXCEPT ![i].stage = "write"]
      /\ call' \in [Call -> {Idle} \cup [stage : Stages, event : Event]]
    BY <1>1 DEF ensureUser, PaymentsInv, PaymentsTypeOK, Stages
<1>3. /\ call'[i] = At("write", e)
      /\ \A j \in Call : j # i => call'[j] = call[j]
    BY <1>1, <1>2 DEF PaymentsInv, PaymentsTypeOK, At
<1>4. e.says \in {"active", "canceled"} /\ PayerOf[e.about] \in Payer
    BY <1>1, PaymentsAssumption
<1>5. PaymentsTypeOK'
    BY <1>2, <1>4 DEF ensureUser, PaymentsInv, PaymentsTypeOK, Stages, entryVars
<1>6. RequestsAreClaimed'
    <2>1. e \in claimed
        BY <1>1 DEF ensureUser, PaymentsInv, RequestsAreClaimed
    <2>2. QED
        BY <1>1, <1>2, <1>3, <2>1, RequestStep DEF ensureUser, At, entryVars
<1>7. ClaimedIsHandled'
    <2>1. \A d \in claimed : call[i] = At("handle", d) \/ call[i] = At("write", d) => InHand(d)'
        BY <1>3 DEF InHand, At
    <2>2. QED
        BY <1>3, <2>1, ClaimedStep DEF ensureUser, entryVars
<1>8. QED
    BY <1>5, <1>6, <1>7, TablesUnchanged DEF ensureUser, PaymentsInv, entryVars

\* The request's event is written or settled, and the request goes on to its answer.
LEMMA ToReply ==
  ASSUME PaymentsInv, NEW i \in Call, call[i].stage \in {"handle", "write"},
         call' = [call EXCEPT ![i].stage = "reply"], applied' = applied \cup {call[i].event},
         UNCHANGED <<acked, claimed, offered, interrupted>>
  PROVE  /\ call' \in [Call -> {Idle} \cup [stage : Stages, event : Event]]
         /\ RequestsAreClaimed' /\ ClaimedIsHandled' /\ acked' \subseteq claimed'
<1> DEFINE e == call[i].event
<1>1. e \in Event /\ call[i] \in [stage : Stages, event : Event] /\ call[i] # Idle
    BY RequestType DEF PaymentsInv, Stages
<1>2. call' \in [Call -> {Idle} \cup [stage : Stages, event : Event]]
    BY <1>1 DEF PaymentsInv, PaymentsTypeOK, Stages
<1>3. /\ call'[i] = At("reply", e)
      /\ \A j \in Call : j # i => call'[j] = call[j]
    BY <1>1, <1>2 DEF PaymentsInv, PaymentsTypeOK, At
<1>4. e \in claimed /\ e.about \in Subscription \cup offered
    BY <1>1 DEF PaymentsInv, RequestsAreClaimed
<1>5. RequestsAreClaimed'
    BY <1>2, <1>3, <1>4, RequestStep DEF At
<1>6. ClaimedIsHandled'
    BY <1>3, ClaimedStep DEF At
<1>7. QED
    BY <1>2, <1>5, <1>6 DEF PaymentsInv

LEMMA UpsertInv ==
  ASSUME PaymentsInv, NEW i \in Call, upsertSubscription(i)
  PROVE  PaymentsInv'
<1> DEFINE e == call[i].event
           t == e.about
<1>1. e \in Event /\ t \in Subscription /\ call[i] # Idle
    BY RequestType DEF upsertSubscription, PaymentsInv, RequestsAreClaimed, Stages
<1>2. e.at \in Nat /\ e.says \in {"active", "canceled"} /\ t \notin Checkout
    BY <1>1, PaymentsAssumption
<1>3. /\ call' \in [Call -> {Idle} \cup [stage : Stages, event : Event]]
      /\ RequestsAreClaimed' /\ ClaimedIsHandled' /\ acked' \subseteq claimed'
    BY ToReply DEF upsertSubscription, entryVars
<1>4. sub[t].at \in Nat /\ sub \in [Subscription -> [at : Nat, says : {"none", "active", "canceled"}]]
    BY <1>1 DEF PaymentsInv, PaymentsTypeOK
<1>5. PaymentsTypeOK'
    BY <1>1, <1>2, <1>3, <1>4 DEF upsertSubscription, PaymentsInv, PaymentsTypeOK, Stages, entryVars
<1>6. SubscriptionIsNewest'
    <2>1. SUFFICES ASSUME NEW s \in Subscription
                   PROVE  LET seen == {d \in applied' : d.about = s}
                          IN IF seen = {} THEN sub'[s] = None
                             ELSE \E d \in seen : /\ sub'[s] = [at |-> d.at, says |-> d.says]
                                                  /\ \A c \in seen : c.at <= d.at
        BY DEF SubscriptionIsNewest
    <2> DEFINE seen == {d \in applied : d.about = s}
    <2>2. applied' = applied \cup {e}
        BY DEF upsertSubscription
    <2>3. IF seen = {} THEN sub[s] = None
          ELSE \E d \in seen : /\ sub[s] = [at |-> d.at, says |-> d.says]
                               /\ \A c \in seen : c.at <= d.at
        BY DEF PaymentsInv, TablesMatchStripe, SubscriptionIsNewest
    <2>4. CASE s # t
        <3>1. sub'[s] = sub[s] /\ {d \in applied' : d.about = s} = seen
            BY <1>4, <2>2, <2>4 DEF upsertSubscription
        <3>2. QED
            BY <2>3, <3>1
    <2>5. CASE s = t
        <3>1. {d \in applied' : d.about = s} = seen \cup {e}
            BY <2>2, <2>5
        <3>2. \A d \in seen : d.at \in Nat
            BY PaymentsAssumption DEF PaymentsInv, PaymentsTypeOK
        <3>3. CASE e.at >= sub[t].at
            <4>1. sub'[s] = [at |-> e.at, says |-> e.says]
                BY <1>4, <2>5, <3>3 DEF upsertSubscription, Newer
            <4>2. ASSUME NEW c \in seen PROVE c.at <= e.at
                <5>1. PICK d \in seen : sub[s] = [at |-> d.at, says |-> d.says] /\ c.at <= d.at
                    BY <2>3, <4>2
                <5>2. QED
                    BY <1>2, <2>5, <3>2, <3>3, <5>1
            <4>3. QED
                BY <1>2, <3>1, <4>1, <4>2
        <3>4. CASE ~(e.at >= sub[t].at)
            <4>1. sub'[s] = sub[s]
                BY <2>5, <3>4 DEF upsertSubscription, Newer
            <4>2. seen # {}
                BY <1>2, <2>3, <2>5, <3>4 DEF None
            <4>3. PICK d \in seen : /\ sub[s] = [at |-> d.at, says |-> d.says]
                                    /\ \A c \in seen : c.at <= d.at
                BY <2>3, <4>2
            <4>4. e.at <= d.at
                BY <1>2, <2>5, <3>2, <3>4, <4>3
            <4>5. QED
                BY <3>1, <4>1, <4>3, <4>4
        <3>5. QED
            BY <3>3, <3>4
    <2>6. QED
        BY <2>4, <2>5
<1>7. PaidIsOnRecord' /\ OfferedIsRegistered' /\ NobodyPaysABanOff'
    BY DEF upsertSubscription, PaymentsInv, TablesMatchStripe, PaidIsOnRecord, NobodyPaysABanOff,
           OfferedIsRegistered, entryVars
<1>8. QED
    BY <1>3, <1>5, <1>6, <1>7 DEF PaymentsInv, TablesMatchStripe

\* What a settlement makes of a participant's row.
LEMMA SettledRow ==
  ASSUME NEW status \in {"paid", "failed"}, NEW f \in {"pending", "paid", "failed"},
         NEW s \in {"absent", "pending_payment", "eligible", "disqualified"}
  PROVE  /\ Settled(status, f, s).fee \in {"paid", "failed"}
         /\ Settled(status, f, s).fee = "paid" <=> (status = "paid" \/ f = "paid")
         /\ Settled(status, f, s).standing \in {"absent", "pending_payment", "eligible", "disqualified"}
         /\ Settled(status, f, s).standing = "eligible" => status = "paid" \/ s = "eligible"
         /\ s = "disqualified" /\ Settled(status, f, s).standing # s =>
              status = "failed" /\ Settled(status, f, s).standing = "pending_payment"
BY DEF Settled

LEMMA SettleInv ==
  ASSUME PaymentsInv, NEW i \in Call, settleEntryPayment(i)
  PROVE  PaymentsInv'
<1> DEFINE e == call[i].event
           c == e.about
           p == PayerOf[c]
           after == Settled(Outcome(e), fee[p], standing[p])
<1>1. /\ e \in Event /\ c \in Checkout /\ c \notin Subscription
      /\ c \in offered /\ call[i] # Idle /\ p \in Payer
    BY RequestType, PaymentsAssumption
    DEF settleEntryPayment, PaymentsInv, RequestsAreClaimed, Stages
<1>2. /\ call' \in [Call -> {Idle} \cup [stage : Stages, event : Event]]
      /\ RequestsAreClaimed' /\ ClaimedIsHandled' /\ acked' \subseteq claimed'
    BY ToReply DEF settleEntryPayment
<1>3. /\ fee \in [Payer -> {"absent", "pending", "paid", "failed"}]
      /\ standing \in [Payer -> {"absent", "pending_payment", "eligible", "disqualified"}]
      /\ payment \in [Checkout -> {"absent", "created", "paid", "failed"}]
    BY DEF PaymentsInv, PaymentsTypeOK
<1>4. fee[p] # "absent" /\ Outcome(e) \in {"paid", "failed"}
    BY <1>1 DEF PaymentsInv, OfferedIsRegistered, Outcome
<1>5. /\ after.fee \in {"paid", "failed"}
      /\ after.fee = "paid" <=> (Outcome(e) = "paid" \/ fee[p] = "paid")
      /\ after.standing \in {"absent", "pending_payment", "eligible", "disqualified"}
      /\ after.standing = "eligible" => Outcome(e) = "paid" \/ standing[p] = "eligible"
      /\ standing[p] = "disqualified" /\ after.standing # "disqualified" =>
           Outcome(e) = "failed" /\ after.standing = "pending_payment"
    BY <1>1, <1>3, <1>4, SettledRow
<1>6. applied' = applied \cup {e} /\ UNCHANGED <<sub, offered, joining, pardoned, banned>>
    BY DEF settleEntryPayment
<1>7. SubscriptionIsNewest'
    <2>1. \A s \in Subscription : {d \in applied' : d.about = s} = {d \in applied : d.about = s}
        BY <1>1, <1>6
    <2>2. QED
        BY <1>6, <2>1 DEF PaymentsInv, TablesMatchStripe, SubscriptionIsNewest
<1>8. CASE payment[c] \in {"absent", "created"}
    <2>1. /\ payment' = [payment EXCEPT ![c] = Outcome(e)]
          /\ fee' = [fee EXCEPT ![p] = after.fee]
          /\ standing' = [standing EXCEPT ![p] = after.standing]
        BY <1>8 DEF settleEntryPayment
    <2>2. /\ payment'[c] = Outcome(e) /\ \A d \in Checkout : d # c => payment'[d] = payment[d]
          /\ fee'[p] = after.fee /\ \A q \in Payer : q # p => fee'[q] = fee[q]
          /\ standing'[p] = after.standing
          /\ \A q \in Payer : q # p => standing'[q] = standing[q]
        BY <1>1, <1>3, <2>1
    <2>3. /\ fee' \in [Payer -> {"absent", "pending", "paid", "failed"}]
          /\ standing' \in [Payer -> {"absent", "pending_payment", "eligible", "disqualified"}]
          /\ payment' \in [Checkout -> {"absent", "created", "paid", "failed"}]
        BY <1>3, <1>4, <1>5, <2>1
    <2>4. PaymentsTypeOK'
        BY <1>1, <1>2, <2>3 DEF settleEntryPayment, PaymentsInv, PaymentsTypeOK, Stages
    <2>5. OfferedIsRegistered'
        <3>1. \A d \in offered : PayerOf[d] \in Payer
            BY PaymentsAssumption DEF PaymentsInv, PaymentsTypeOK
        <3>2. QED
            BY <1>5, <1>6, <2>2, <3>1 DEF PaymentsInv, OfferedIsRegistered
    <2>6. \A q \in Payer :
            (fee'[q] = "paid") <=> \E d \in Checkout : PayerOf[d] = q /\ payment'[d] = "paid"
        <3>1. SUFFICES ASSUME NEW q \in Payer
                       PROVE (fee'[q] = "paid") <=>
                               \E d \in Checkout : PayerOf[d] = q /\ payment'[d] = "paid"
            OBVIOUS
        <3>2. (fee[q] = "paid") <=> \E d \in Checkout : PayerOf[d] = q /\ payment[d] = "paid"
            BY DEF PaymentsInv, TablesMatchStripe, PaidIsOnRecord
        <3>3. payment[c] # "paid"
            BY <1>8
        <3>4. CASE q # p
            BY <1>1, <2>2, <3>2, <3>4
        <3>5. CASE q = p
            BY <1>1, <1>5, <2>2, <3>2, <3>3, <3>5
        <3>6. QED
            BY <3>4, <3>5
    <2>7. \A q \in Payer : standing'[q] = "eligible" =>
            \/ q \in pardoned'
            \/ \E d \in applied' : d.about \in Checkout /\ PayerOf[d.about] = q /\ d.says = "paid"
        <3>1. Outcome(e) = "paid" => e.says = "paid"
            BY DEF Outcome
        <3>2. ASSUME NEW q \in Payer, standing'[q] = "eligible"
              PROVE  \/ q \in pardoned'
                     \/ \E d \in applied' : d.about \in Checkout /\ PayerOf[d.about] = q /\ d.says = "paid"
            <4>1. CASE standing[q] = "eligible"
                <5>1. \/ q \in pardoned
                      \/ \E d \in applied : d.about \in Checkout /\ PayerOf[d.about] = q /\ d.says = "paid"
                    BY <4>1 DEF PaymentsInv, TablesMatchStripe, PaidIsOnRecord
                <5>2. QED
                    BY <1>6, <5>1
            <4>2. CASE standing[q] # "eligible"
                BY <1>1, <1>5, <1>6, <2>2, <3>1, <3>2, <4>2
            <4>3. QED
                BY <4>1, <4>2
        <3>3. QED
            BY <3>2
    <2>8. NobodyPaysABanOff'
        <3> SUFFICES ASSUME NEW q \in banned
                     PROVE  /\ standing'[q] # "disqualified" =>
                                 \E d \in Checkout : PayerOf[d] = q /\ payment'[d] = "failed"
                            /\ standing'[q] = "eligible" => fee'[q] = "paid"
            BY <1>6 DEF NobodyPaysABanOff
        <3>1. /\ q \in Payer
              /\ standing[q] # "disqualified" =>
                   \E d \in Checkout : PayerOf[d] = q /\ payment[d] = "failed"
              /\ standing[q] = "eligible" => fee[q] = "paid"
            BY DEF PaymentsInv, PaymentsTypeOK, TablesMatchStripe, NobodyPaysABanOff
        <3>2. ASSUME NEW d \in Checkout, payment[d] = "failed" PROVE payment'[d] = "failed"
            BY <1>8, <2>2, <3>2
        <3>3. CASE q # p
            BY <2>2, <3>1, <3>2, <3>3
        <3>4. CASE q = p
            <4>1. standing'[p] # "disqualified" =>
                    \E d \in Checkout : PayerOf[d] = p /\ payment'[d] = "failed"
                BY <1>1, <1>5, <2>2, <3>1, <3>2, <3>4
            <4>2. standing'[p] = "eligible" => fee'[p] = "paid"
                BY <1>5, <2>2, <3>1, <3>4
            <4>3. QED
                BY <3>4, <4>1, <4>2
        <3>5. QED
            BY <3>3, <3>4
    <2>9. QED
        BY <1>2, <1>7, <2>4, <2>5, <2>6, <2>7, <2>8 DEF PaidIsOnRecord, PaymentsInv, TablesMatchStripe
<1>9. CASE payment[c] \notin {"absent", "created"}
    <2>1. UNCHANGED <<payment, fee, standing>>
        BY <1>9 DEF settleEntryPayment
    <2>2. PaymentsTypeOK'
        BY <1>1, <1>2, <2>1 DEF settleEntryPayment, PaymentsInv, PaymentsTypeOK, Stages
    <2>3. OfferedIsRegistered' /\ PaidIsOnRecord' /\ NobodyPaysABanOff'
        BY <1>6, <2>1
        DEF PaymentsInv, OfferedIsRegistered, TablesMatchStripe, PaidIsOnRecord, NobodyPaysABanOff
    <2>4. QED
        BY <1>2, <1>7, <2>2, <2>3 DEF PaymentsInv, TablesMatchStripe
<1>10. QED
    BY <1>8, <1>9

LEMMA AnswerInv ==
  ASSUME PaymentsInv, NEW i \in Call, Answer(i) \/ FailCall(i)
  PROVE  PaymentsInv'
<1> DEFINE e == call[i].event
<1>1. e \in Event /\ call[i] # Idle
    BY RequestType DEF Answer, FailCall, PaymentsInv, Stages
<1>2. /\ call' = [call EXCEPT ![i] = Idle]
      /\ call' \in [Call -> {Idle} \cup [stage : Stages, event : Event]]
    BY DEF Answer, FailCall, PaymentsInv, PaymentsTypeOK, Stages
<1>3. call'[i] = Idle /\ \A j \in Call : j # i => call'[j] = call[j]
    BY <1>2 DEF PaymentsInv, PaymentsTypeOK
<1>4. /\ UNCHANGED <<claimed, applied, users, sub, entryVars>>
      /\ interrupted \subseteq interrupted' /\ interrupted' \subseteq interrupted \cup {e}
      /\ acked' \subseteq claimed /\ acked \subseteq acked'
      /\ faults' \in 0..MaxFaults
    <2>1. call[i].stage = "reply" => e \in claimed
        BY <1>1 DEF PaymentsInv, RequestsAreClaimed
    <2>2. QED
        BY <2>1, PaymentsAssumption DEF Answer, FailCall, PaymentsInv, PaymentsTypeOK
<1>5. PaymentsTypeOK'
    BY <1>1, <1>2, <1>4 DEF PaymentsInv, PaymentsTypeOK, Stages, entryVars
<1>6. RequestsAreClaimed'
    BY <1>2, <1>3, <1>4, RequestStep DEF entryVars
<1>7. ClaimedIsHandled'
    <2>1. call[i].stage \in {"handle", "write"} => e \in interrupted'
        BY DEF Answer, FailCall
    <2>2. QED
        BY <1>3, <1>4, <2>1, ClaimedStep DEF At
<1>8. QED
    BY <1>4, <1>5, <1>6, <1>7, TablesUnchanged DEF PaymentsInv, entryVars

\* Steps outside the webhook leave its own state alone.
LEMMA WebhookUnchanged ==
  ASSUME PaymentsInv, offered \subseteq offered',
         UNCHANGED <<acked, claimed, call, sub, applied, interrupted>>
  PROVE  /\ RequestsAreClaimed' /\ ClaimedIsHandled' /\ acked' \subseteq claimed'
         /\ SubscriptionIsNewest'
BY DEF PaymentsInv, RequestsAreClaimed, ClaimedIsHandled, InHand, TablesMatchStripe,
       SubscriptionIsNewest

LEMMA JoinInv ==
  ASSUME PaymentsInv, NEW c \in Checkout, Join(c)
  PROVE  PaymentsInv'
<1> DEFINE p == PayerOf[c]
<1>1. p \in Payer /\ \A d \in Checkout : PayerOf[d] \in Payer
    BY PaymentsAssumption
<1>2. /\ fee \in [Payer -> {"absent", "pending", "paid", "failed"}]
      /\ standing \in [Payer -> {"absent", "pending_payment", "eligible", "disqualified"}]
      /\ offered \subseteq Checkout /\ joining \subseteq offered
    BY DEF PaymentsInv, PaymentsTypeOK
<1>3. /\ fee'[p] = (IF fee[p] = "absent" THEN "pending" ELSE fee[p])
      /\ standing'[p] = (IF standing[p] = "absent" THEN "pending_payment" ELSE standing[p])
      /\ \A q \in Payer : q # p => fee'[q] = fee[q] /\ standing'[q] = standing[q]
    BY <1>1, <1>2 DEF Join
<1>4. /\ fee' \in [Payer -> {"absent", "pending", "paid", "failed"}]
      /\ standing' \in [Payer -> {"absent", "pending_payment", "eligible", "disqualified"}]
    BY <1>1, <1>2 DEF Join
<1>5. PaymentsTypeOK'
    <2>1. offered' = offered \cup {c} /\ joining' = joining \cup {c}
        BY DEF Join
    <2>2. UNCHANGED <<acked, claimed, call, users, sub, payment, applied, interrupted,
                      pardoned, banned, faults>>
        BY DEF Join
    <2>3. QED
        BY <1>2, <1>4, <2>1, <2>2 DEF PaymentsInv, PaymentsTypeOK
<1>6. OfferedIsRegistered'
    <2>1. fee'[p] # "absent" /\ \A d \in offered : fee'[PayerOf[d]] # "absent"
        BY <1>1, <1>2, <1>3 DEF PaymentsInv, OfferedIsRegistered
    <2>2. QED
        BY <2>1 DEF Join, OfferedIsRegistered
<1>7. PaidIsOnRecord'
    <2>1. \A q \in Payer : (fee'[q] = "paid") <=> (fee[q] = "paid")
        BY <1>3
    <2>2. \A q \in Payer : standing'[q] = "eligible" => standing[q] = "eligible"
        BY <1>3
    <2>3. UNCHANGED <<payment, applied, pardoned>>
        BY DEF Join
    <2>4. QED
        BY <2>1, <2>2, <2>3 DEF PaymentsInv, TablesMatchStripe, PaidIsOnRecord
<1>8. NobodyPaysABanOff'
    <2>1. \A q \in Payer : /\ standing[q] = "disqualified" => standing'[q] = "disqualified"
                           /\ standing'[q] = "eligible" => standing[q] = "eligible"
                           /\ fee[q] = "paid" => fee'[q] = "paid"
        BY <1>3
    <2>2. UNCHANGED <<payment, banned>>
        BY DEF Join
    <2>3. QED
        BY <2>1, <2>2 DEF PaymentsInv, PaymentsTypeOK, TablesMatchStripe, NobodyPaysABanOff
<1>9. QED
    BY <1>5, <1>6, <1>7, <1>8, WebhookUnchanged DEF Join, PaymentsInv, TablesMatchStripe

LEMMA EntryInv ==
  ASSUME PaymentsInv, NEW c \in Checkout, createEntryPayment(c) \/ CutJoin(c)
  PROVE  PaymentsInv'
<1>1. /\ payment' \in [Checkout -> {"absent", "created", "paid", "failed"}]
      /\ \A d \in Checkout : /\ (payment'[d] = "paid") <=> (payment[d] = "paid")
                             /\ payment[d] = "failed" => payment'[d] = "failed"
      /\ joining' \subseteq offered /\ faults' \in 0..MaxFaults
    BY PaymentsAssumption DEF createEntryPayment, CutJoin, PaymentsInv, PaymentsTypeOK
<1>2. UNCHANGED <<acked, claimed, call, users, sub, offered, fee, standing, applied,
                  interrupted, pardoned, banned>>
    BY DEF createEntryPayment, CutJoin
<1>3. PaymentsTypeOK'
    BY <1>1, <1>2 DEF PaymentsInv, PaymentsTypeOK
<1>4. OfferedIsRegistered' /\ PaidIsOnRecord' /\ NobodyPaysABanOff'
    BY <1>1, <1>2
    DEF PaymentsInv, OfferedIsRegistered, TablesMatchStripe, PaidIsOnRecord, NobodyPaysABanOff
<1>5. QED
    BY <1>2, <1>3, <1>4, WebhookUnchanged DEF PaymentsInv, TablesMatchStripe

LEMMA ReviewInv ==
  ASSUME PaymentsInv, NEW p \in Payer, disqualifyParticipant(p) \/ reinstateParticipant(p)
  PROVE  PaymentsInv'
<1>1. /\ standing' \in [Payer -> {"absent", "pending_payment", "eligible", "disqualified"}]
      /\ pardoned \subseteq pardoned' /\ pardoned' \subseteq Payer
      /\ \A q \in Payer : standing'[q] = "eligible" => standing[q] = "eligible" \/ q \in pardoned'
      /\ banned' \subseteq Payer
      /\ \A q \in banned' : \/ standing'[q] = "disqualified"
                            \/ q \in banned /\ standing'[q] = standing[q]
    BY DEF disqualifyParticipant, reinstateParticipant, PaymentsInv, PaymentsTypeOK
<1>2. UNCHANGED <<acked, claimed, call, users, sub, offered, joining, payment, fee, applied,
                  interrupted, faults>>
    BY DEF disqualifyParticipant, reinstateParticipant
<1>3. PaymentsTypeOK'
    BY <1>1, <1>2 DEF PaymentsInv, PaymentsTypeOK
<1>4. OfferedIsRegistered' /\ PaidIsOnRecord' /\ NobodyPaysABanOff'
    BY <1>1, <1>2
    DEF PaymentsInv, OfferedIsRegistered, TablesMatchStripe, PaidIsOnRecord, NobodyPaysABanOff
<1>5. QED
    BY <1>2, <1>3, <1>4, WebhookUnchanged DEF PaymentsInv, TablesMatchStripe

-------------------------------------------------------------------------------
(* Theorems. *)

\* Whatever requests overlap, fail or are repeated, the tables keep their type, a claimed
\* event is accounted for, and the tables say what Stripe said.
THEOREM PaymentsInvariant == PaymentsSpec => []PaymentsInv
<1>1. PaymentsInv /\ [PaymentsNext]_payVars => PaymentsInv'
    <2>1. SUFFICES ASSUME PaymentsInv, [PaymentsNext]_payVars PROVE PaymentsInv'
        OBVIOUS
    <2>2. CASE UNCHANGED payVars
        BY <2>1, <2>2
        DEF payVars, PaymentsInv, PaymentsTypeOK, RequestsAreClaimed, ClaimedIsHandled, InHand,
            OfferedIsRegistered, TablesMatchStripe, SubscriptionIsNewest, PaidIsOnRecord,
            NobodyPaysABanOff
    <2>3. CASE PaymentsNext
        BY <2>1, <2>3, DeliverInv, ClaimInv, EnsureUserInv, UpsertInv, SettleInv, AnswerInv,
           JoinInv, EntryInv, ReviewInv
        DEF PaymentsNext
    <2>4. QED
        BY <2>1, <2>2, <2>3
<1>2. QED
    BY <1>1, PaymentsInitInv, PTL DEF PaymentsSpec

\* A subscription's row is the newest event's and an entry is paid exactly when a session
\* was, in any order of delivery.
THEOREM TablesFollowStripe == PaymentsSpec => []TablesMatchStripe
<1>1. PaymentsInv => TablesMatchStripe
    BY DEF PaymentsInv
<1>2. QED
    BY <1>1, PaymentsInvariant, PTL

\* Stripe is told an event is done only if it is, or a request was interrupted with it.
THEOREM AcknowledgedIsHandled == PaymentsSpec => []AckedIsHandled
<1>1. PaymentsInv => AckedIsHandled
    BY DEF PaymentsInv, ClaimedIsHandled, AckedIsHandled
<1>2. QED
    BY <1>1, PaymentsInvariant, PTL

-----------------------------------------------------------------------------
(* Winners and risk. *)

Flags == 1..MaxFlags
Held == {"locked", "assessed", "reviewed"}
Txns == [kind : {"score", "reverse", "flag", "clear", "review"}, who : Entrant,
         step : Held \cup {"read"}, adds : SUBSET Flags, clears : SUBSET Flags,
         sum : Nat, late : BOOLEAN]
Rows == [Entrant -> [score : Nat, rank : Nat]]

\* The type invariant of Awards.
AwardsTypeOK ==
    /\ raised \in [Entrant -> SUBSET Flags] /\ resolved \in [Entrant -> SUBSET Flags]
    /\ riskScore \in [Entrant -> Nat] /\ total \in [Entrant -> Nat]
    /\ barred \subseteq Entrant /\ concluded \in BOOLEAN
    /\ job \in [Job -> {NoJob} \cup Txns]
    /\ ranking \in {NoJob} \cup [step : {"locked"}] \cup [step : {"ranked"}, rows : Rows]
    /\ ledgerWas \in [Entrant -> Nat] /\ final \in Rows
    /\ winners \subseteq [who : Entrant, review : {"PENDING", "APPROVED", "REJECTED"},
                          payout : {"PENDING", "PAID", "FAILED"}]

\* The risk score once adds are recorded and clears resolved.
RiskWith(p, adds, clears) ==
    Min({RiskCeiling, Cardinality((raised[p] \cup adds) \ (resolved[p] \cup clears))})

\* A participant's row is locked by one transaction.
RowsApart ==
    \A j, k \in Job :
        job[j].step \in Held /\ job[k].step \in Held /\ job[j].who = job[k].who => j = k

\* A sum that will be written, by whoever has the row or was not overtaken, is what
\* the tables will say.
SumsCurrent ==
    \A j \in Job :
        /\ job[j].step \in Held => job[j].clears = {}
        /\ job[j].step = "assessed" \/ (job[j].step = "read" /\ ~job[j].late) =>
            job[j].sum = RiskWith(job[j].who, job[j].adds, job[j].clears)

\* Scores are those of the totals, and more points have a lower rank.
Orderly(ranks, totals) ==
    /\ \A p \in Entrant : ranks[p].score = totals[p]
    /\ \A p, q \in Entrant :
        ranks[p].rank # 0 /\ ranks[q].rank # 0 /\ totals[p] > totals[q] =>
            ranks[p].rank < ranks[q].rank

\* None of those disqualified is ranked, but who was overtaken by it.
Eligible(ranks, off) == \A p \in Entrant : ranks[p].rank # 0 => p \notin off \ outran

\* What finalisation has read stays true until it commits, and what it committed
\* from then on.
StandingsHold ==
    /\ ranking # NoJob => ~concluded
    /\ ranking.step = "ranked" =>
        Orderly(ranking.rows, total) /\ Eligible(ranking.rows, barred)
    /\ concluded => Orderly(final, ledgerWas) /\ Eligible(final, barredThen)
    /\ \A w \in winners :
        /\ concluded
        /\ final[w.who].rank \in 1..WinnerCount
        /\ w.payout # "PENDING" => w.review # "PENDING"

\* The inductive invariant of both theorems.
AwardsInv ==
    /\ AwardsTypeOK
    /\ RowsApart
    /\ SumsCurrent
    /\ RiskIsCurrent
    /\ StandingsHold

-----------------------------------------------------------------------------
(* Risk scores and ranks.                                                  *)

\* A set of risk events is finite, and its clamped sum a number.
LEMMA RiskIsNat ==
    ASSUME NEW S \in SUBSET Flags
    PROVE  /\ Cardinality(S) \in Nat
           /\ Min({RiskCeiling, Cardinality(S)}) \in Nat
           /\ S = {} => Min({RiskCeiling, Cardinality(S)}) = 0
<1>1. IsFiniteSet(Flags)
    BY AwardsAssumption, FS_Interval DEF Flags
<1>2. IsFiniteSet(S) /\ Cardinality(S) \in Nat
    BY <1>1, FS_Subset, FS_CardinalityType
<1>3. \E m \in {RiskCeiling, Cardinality(S)} : \A y \in {RiskCeiling, Cardinality(S)} : m <= y
    BY <1>2, AwardsAssumption
<1>4. /\ Min({RiskCeiling, Cardinality(S)}) \in {RiskCeiling, Cardinality(S)}
      /\ Min({RiskCeiling, Cardinality(S)}) <= Cardinality(S)
    BY <1>3 DEF Min
<1>5. S = {} => Cardinality(S) = 0
    BY FS_EmptySet
<1>6. QED
    BY <1>2, <1>4, <1>5, AwardsAssumption

\* Ranking by total leaves nobody with more points behind.
LEMMA RanksFollowTotals ==
    ASSUME AwardsTypeOK, NEW ranks, ranks = [p \in Entrant |-> Ranked(p)]
    PROVE  ranks \in Rows /\ Orderly(ranks, total) /\ Eligible(ranks, barred)
<1> DEFINE Above(p) == {q \in Contenders : total[q] > total[p] \/ (total[q] = total[p] /\ q < p)}
<1>1. \A p \in Entrant : IsFiniteSet(Above(p)) /\ Cardinality(Above(p)) \in Nat
    <2>1. \A p \in Entrant : Above(p) \in SUBSET Entrant
        BY DEF Contenders
    <2>2. QED
        BY <2>1, AwardsAssumption, FS_Subset, FS_CardinalityType
<1>2. \A p \in Entrant :
        /\ ranks[p].score = total[p]
        /\ ranks[p].rank = IF p \notin Contenders THEN 0 ELSE 1 + Cardinality(Above(p))
    BY DEF Ranked
<1>3. ranks \in Rows
    <2> HIDE DEF Above
    <2>1. \A p \in Entrant : ranks[p] = [score |-> ranks[p].score, rank |-> ranks[p].rank]
        BY DEF Ranked
    <2>2. \A p \in Entrant : ranks[p].score \in Nat /\ ranks[p].rank \in Nat
        BY <1>1, <1>2 DEF AwardsTypeOK
    <2>3. QED
        BY <2>1, <2>2 DEF Rows
<1>4. ASSUME NEW p \in Contenders, NEW q \in Contenders, total[p] > total[q]
      PROVE  Cardinality(Above(p)) < Cardinality(Above(q))
    <2>1. p \in Entrant /\ q \in Entrant /\ total \in [Entrant -> Nat] /\ Contenders \subseteq Entrant
        BY DEF Contenders, AwardsTypeOK
    <2>2. Above(p) \subseteq Above(q)
        BY <2>1, <1>4
    <2>3. p \in Above(q) /\ p \notin Above(p)
        BY <2>1, <1>4, AwardsAssumption
    <2>4. /\ Cardinality(Above(p)) <= Cardinality(Above(q))
          /\ Cardinality(Above(p)) # Cardinality(Above(q))
        BY <2>1, <2>2, <2>3, <1>1, FS_Subset
    <2>5. Cardinality(Above(p)) \in Nat /\ Cardinality(Above(q)) \in Nat
        BY <2>1, <1>1
    <2> HIDE DEF Above
    <2>6. QED
        BY <2>4, <2>5
<1>5. Orderly(ranks, total)
    <2> HIDE DEF Above
    <2>1. ASSUME NEW p \in Entrant, NEW q \in Entrant,
                 ranks[p].rank # 0, ranks[q].rank # 0, total[p] > total[q]
          PROVE  ranks[p].rank < ranks[q].rank
        <3>1. p \in Contenders /\ q \in Contenders
            BY <2>1, <1>2
        <3>2. Cardinality(Above(p)) < Cardinality(Above(q))
            BY <2>1, <3>1, <1>4
        <3>3. QED
            BY <3>1, <3>2, <1>1, <1>2
    <2>2. QED
        BY <2>1, <1>2 DEF Orderly
<1>6. Eligible(ranks, barred)
    BY <1>2 DEF Eligible, Contenders
<1>7. QED
    BY <1>3, <1>5, <1>6

-----------------------------------------------------------------------------
(* Steps of transactions.                                                  *)

\* A step of one transaction that writes no risk table.
LEMMA QuietRisk ==
    ASSUME AwardsInv, NEW j \in Job, UNCHANGED riskVars,
           \A k \in Job : k # j => job'[k] = job[k],
           job'[j] = NoJob \/ job'[j] \in Txns,
           job'[j].step \in Held =>
               /\ job'[j].clears = {}
               /\ RowFree(job'[j].who) \/ (job[j].step \in Held /\ job[j].who = job'[j].who),
           job'[j].step \in {"assessed", "read"} =>
               job'[j].sum = RiskWith(job'[j].who, job'[j].adds, job'[j].clears)
    PROVE  RowsApart' /\ SumsCurrent' /\ RiskIsCurrent'
<1>1. RowsApart'
    BY DEF AwardsInv, RowsApart, RowFree, Open, Held
<1>2. SumsCurrent'
    BY DEF AwardsInv, SumsCurrent, RiskWith, riskVars, Held
<1>3. RiskIsCurrent'
    BY DEF AwardsInv, RiskIsCurrent, cumulativeRisk, riskVars
<1>4. QED
    BY <1>1, <1>2, <1>3

\* The commit of a sum by a transaction that has, or gets, the participant's row.
LEMMA CommitRiskStep ==
    ASSUME AwardsInv, NEW j \in Job, CommitRisk(j),
           job[j].step = "assessed" \/ (job[j].step = "read" /\ RowFree(job[j].who))
    PROVE  /\ job' \in [Job -> {NoJob} \cup Txns]
           /\ raised' \in [Entrant -> SUBSET Flags] /\ resolved' \in [Entrant -> SUBSET Flags]
           /\ riskScore' \in [Entrant -> Nat]
           /\ RowsApart' /\ SumsCurrent' /\ RiskIsCurrent'
<1> DEFINE p == job[j].who
<1>1. job[j] \in Txns /\ NoJob.step = "none"
    BY DEF AwardsInv, AwardsTypeOK, NoJob
<1>2. p \in Entrant /\ job[j].adds \subseteq Flags /\ job[j].clears \subseteq Flags /\ job[j].sum \in Nat
    BY <1>1 DEF Txns
<1>3. /\ raised' = [raised EXCEPT ![p] = @ \cup job[j].adds]
      /\ resolved' = [resolved EXCEPT ![p] = @ \cup job[j].clears]
      /\ riskScore' = [riskScore EXCEPT ![p] = job[j].sum]
      /\ mistaken' = IF job[j].late THEN mistaken \cup {p} ELSE mistaken \ {p}
    BY DEF CommitRisk
<1>4. /\ raised' \in [Entrant -> SUBSET Flags] /\ resolved' \in [Entrant -> SUBSET Flags]
      /\ riskScore' \in [Entrant -> Nat]
    BY <1>2, <1>3 DEF AwardsInv, AwardsTypeOK
<1>5. /\ job'[j] = NoJob
      /\ \A k \in Job : k # j => job'[k] = IF job[k].step = "read" /\ job[k].who = p
                                           THEN [job[k] EXCEPT !.late = TRUE] ELSE job[k]
    BY DEF CommitRisk, Open
<1>6. job' \in [Job -> {NoJob} \cup Txns]
    <2>1. \A k \in Job : job[k] \in Txns => [job[k] EXCEPT !.late = TRUE] \in Txns
        BY DEF Txns
    <2>2. \A k \in Job : job[k].step = "read" => job[k] \in Txns
        BY <1>1 DEF AwardsInv, AwardsTypeOK
    <2>3. \A k \in Job : job'[k] \in {NoJob} \cup Txns
        BY <1>5, <2>1, <2>2 DEF AwardsInv, AwardsTypeOK
    <2>4. job' = [k \in Job |-> job'[k]]
        BY DEF CommitRisk
    <2>5. QED
        BY <2>3, <2>4
<1>7. \A k \in Job : k # j => /\ job'[k].step = job[k].step /\ job'[k].who = job[k].who
                              /\ job'[k].adds = job[k].adds /\ job'[k].clears = job[k].clears
                              /\ job'[k].sum = job[k].sum
                              /\ job[k].step = "read" /\ job[k].who = p => job'[k].late
                              /\ job[k].who # p => job'[k] = job[k]
    <2>1. \A k \in Job : job[k].step = "read" => job[k] \in Txns
        BY <1>1 DEF AwardsInv, AwardsTypeOK
    <2>2. QED
        BY <1>5, <2>1 DEF Txns
<1>8. RowsApart'
    BY <1>1, <1>5, <1>7 DEF AwardsInv, RowsApart, Held
<1>9. \A q \in Entrant : q # p => /\ raised'[q] = raised[q] /\ resolved'[q] = resolved[q]
                                  /\ riskScore'[q] = riskScore[q]
    BY <1>2, <1>3 DEF AwardsInv, AwardsTypeOK
<1>10. SumsCurrent'
    <2> SUFFICES ASSUME NEW k \in Job
                 PROVE  /\ job'[k].step \in Held => job'[k].clears = {}
                        /\ job'[k].step = "assessed" \/ (job'[k].step = "read" /\ ~job'[k].late) =>
                             (job[k].sum = RiskWith(job[k].who, job[k].adds, job[k].clears))'
        BY DEF SumsCurrent
    <2>1. CASE k = j
        BY <2>1, <1>1, <1>5 DEF Held
    <2>2. CASE k # j
        <3>1. job'[k].step \in Held => job'[k].clears = {}
            BY <2>2, <1>7 DEF AwardsInv, SumsCurrent
        <3>2. ASSUME job'[k].step = "assessed" \/ (job'[k].step = "read" /\ ~job'[k].late)
              PROVE  (job[k].sum = RiskWith(job[k].who, job[k].adds, job[k].clears))'
            <4>1. job[k].who # p
                BY <3>2, <2>2, <1>7 DEF AwardsInv, RowsApart, RowFree, Open, Held
            <4>2. job'[k] = job[k] /\ job[k] \in Txns
                BY <3>2, <4>1, <2>2, <1>1, <1>7 DEF AwardsInv, AwardsTypeOK
            <4>3. job[k].sum = RiskWith(job[k].who, job[k].adds, job[k].clears)
                BY <3>2, <4>2 DEF AwardsInv, SumsCurrent
            <4>4. job[k].who \in Entrant
                BY <4>2 DEF Txns
            <4>5. QED
                BY <4>1, <4>2, <4>3, <4>4, <1>9 DEF RiskWith
        <3>3. QED
            BY <3>1, <3>2
    <2>3. QED
        BY <2>1, <2>2
<1>11. RiskIsCurrent'
    <2> SUFFICES ASSUME NEW q \in Entrant, q \notin mistaken'
                 PROVE  riskScore'[q] = cumulativeRisk(q, {})'
        BY DEF RiskIsCurrent
    <2>1. CASE q = p
        <3>1. job[j].sum = RiskWith(p, job[j].adds, job[j].clears)
            BY <2>1, <1>3 DEF AwardsInv, SumsCurrent
        <3>2. /\ riskScore'[p] = job[j].sum
              /\ raised'[p] = raised[p] \cup job[j].adds
              /\ resolved'[p] = resolved[p] \cup job[j].clears
            BY <1>2, <1>3 DEF AwardsInv, AwardsTypeOK
        <3>3. raised'[p] \cup {} = raised'[p]
            OBVIOUS
        <3>4. QED
            BY <2>1, <3>1, <3>2, <3>3 DEF RiskWith, cumulativeRisk
    <2>2. CASE q # p
        BY <2>2, <1>3, <1>9 DEF AwardsInv, RiskIsCurrent, cumulativeRisk
    <2>3. QED
        BY <2>1, <2>2
<1>12. QED
    BY <1>4, <1>6, <1>8, <1>10, <1>11

\* Steps that leave totals, standings and the finalisation alone.
LEMMA StandingsQuiet ==
    ASSUME StandingsHold, UNCHANGED <<total, barred, finalVars, ranking, outran>>
    PROVE  StandingsHold'
BY DEF StandingsHold, Orderly, Eligible, finalVars

-----------------------------------------------------------------------------
(* The initial states, and one lemma per action.                           *)

LEMMA AwardsInitInv == AwardsInit => AwardsInv
<1> SUFFICES ASSUME AwardsInit PROVE AwardsInv
    OBVIOUS
<1>1. \A j \in Job : job[j] = NoJob /\ NoJob.step = "none"
    BY DEF AwardsInit, NoJob
<1>2. AwardsTypeOK
    BY DEF AwardsInit, AwardsTypeOK, Rows, Unranked
<1>3. RowsApart /\ SumsCurrent
    BY <1>1 DEF RowsApart, SumsCurrent, Held
<1>4. \A p \in Entrant : riskScore[p] = 0 /\ raised[p] \cup {} = {} /\ {} \ resolved[p] = {}
    BY DEF AwardsInit
<1>5. RiskIsCurrent
    BY <1>4, RiskIsNat DEF RiskIsCurrent, cumulativeRisk
<1>6. StandingsHold
    BY DEF AwardsInit, StandingsHold, NoJob
<1>7. QED
    BY <1>2, <1>3, <1>5, <1>6 DEF AwardsInv

\* What a transaction's step must show that writes nothing but its own record.
LEMMA OwnStep ==
    ASSUME AwardsInv, NEW j \in Job, NEW t,
           job' = [job EXCEPT ![j] = t], t = NoJob \/ t \in Txns,
           UNCHANGED <<riskVars, restVars>>,
           t.step \in Held =>
               /\ t.clears = {}
               /\ RowFree(t.who) \/ (job[j].step \in Held /\ job[j].who = t.who),
           t.step \in {"assessed", "read"} => t.sum = RiskWith(t.who, t.adds, t.clears)
    PROVE  AwardsInv'
<1>1. job'[j] = t /\ \A k \in Job : k # j => job'[k] = job[k]
    BY DEF AwardsInv, AwardsTypeOK
<1>2. AwardsTypeOK'
    BY DEF AwardsInv, AwardsTypeOK, riskVars, restVars, finalVars
<1>3. RowsApart' /\ SumsCurrent' /\ RiskIsCurrent'
    BY <1>1, QuietRisk
<1>4. StandingsHold'
    BY StandingsQuiet DEF AwardsInv, restVars
<1>5. QED
    BY <1>2, <1>3, <1>4 DEF AwardsInv

LEMMA BeginInv ==
    ASSUME AwardsInv, NEW j \in Job, NEW p \in Entrant,
           \/ LockEarner(j, "score", p) \/ LockEarner(j, "reverse", p)
           \/ Clear(j, p) \/ Review(j, p)
    PROVE  AwardsInv'
<1>1. CASE \/ LockEarner(j, "score", p) \/ LockEarner(j, "reverse", p) \/ Review(j, p)
    <2>1. PICK kind \in {"score", "reverse", "review"}, step \in Held \ {"assessed"} :
            RowFree(p) /\ Begin(j, Begun(kind, p, step))
        BY <1>1 DEF LockEarner, Review, Held
    <2>2. PICK t \in Txns : /\ RowFree(t.who) /\ Begin(j, t)
                            /\ t.clears = {} /\ t.step \notin {"assessed", "read"}
        <3>1. Begun(kind, p, step) \in Txns /\ Begun(kind, p, step).step = step
            BY DEF Begun, Txns
        <3>2. Begun(kind, p, step).who = p /\ Begun(kind, p, step).clears = {}
            BY DEF Begun
        <3>3. QED
            BY <2>1, <3>1, <3>2 DEF Held
    <2>3. QED
        BY <2>2, OwnStep DEF Begin
<1>2. CASE Clear(j, p)
    <2> DEFINE t == [Begun("clear", p, "read") EXCEPT !.clears = raised[p] \ resolved[p]]
    <2>1. /\ t.step = "read" /\ t.who = p /\ t.adds = {} /\ t.sum = 0
          /\ t.clears = raised[p] \ resolved[p]
        BY DEF Begun
    <2>2. raised[p] \subseteq Flags
        BY DEF AwardsInv, AwardsTypeOK
    <2>3. t \in Txns
        BY <2>2 DEF Begun, Txns
    <2>4. t.sum = RiskWith(t.who, t.adds, t.clears)
        <3>1. (raised[p] \cup {}) \ (resolved[p] \cup (raised[p] \ resolved[p])) = {}
            OBVIOUS
        <3>2. QED
            BY <2>1, <3>1, RiskIsNat DEF RiskWith
    <2>5. job' = [job EXCEPT ![j] = t] /\ UNCHANGED <<riskVars, restVars>>
        BY <1>2 DEF Clear, Begin
    <2> HIDE DEF t
    <2>6. QED
        BY <2>1, <2>3, <2>4, <2>5, OwnStep DEF Held
<1>3. QED
    BY <1>1, <1>2

\* What recordRiskEvent and cumulativeRisk leave in a transaction.
LEMMA AssessedTxn ==
    ASSUME AwardsInv, NEW j \in Job, NEW t \in [kind : {"score", "flag"}, who : Entrant,
               step : {"none", "locked"}, adds : SUBSET Flags, clears : {{}},
               sum : Nat, late : BOOLEAN],
           NEW step \in {"assessed", "read"}, NEW inserting \in BOOLEAN,
           Assessed(j, t, step, inserting)
    PROVE  \E u \in Txns : /\ job' = [job EXCEPT ![j] = u]
                           /\ u.step = step /\ u.who = t.who /\ u.clears = {}
                           /\ u.sum = RiskWith(u.who, u.adds, u.clears)
<1>1. PICK adds \in SUBSET Flags :
        job' = [job EXCEPT ![j] = [t EXCEPT !.step = step, !.adds = adds,
                                            !.sum = cumulativeRisk(t.who, adds)]]
    <2> DEFINE used == raised[t.who] \cup
                        UNION {job[k].adds : k \in {i \in Sharing : job[i].who = t.who}}
               next == {f \in 1..MaxFlags : f \notin used /\ 1..(f - 1) \subseteq used}
    <2>1. \E adds \in IF inserting THEN {{f} : f \in next} ELSE {{}} :
            job' = [job EXCEPT ![j] = [t EXCEPT !.step = step, !.adds = adds,
                                                !.sum = cumulativeRisk(t.who, adds)]]
        BY DEF Assessed
    <2>2. next \subseteq Flags
        BY DEF Flags
    <2> HIDE DEF next
    <2>3. \A adds \in IF inserting THEN {{f} : f \in next} ELSE {{}} : adds \in SUBSET Flags
        BY <2>2
    <2>4. QED
        BY <2>1, <2>3
<1> DEFINE u == [t EXCEPT !.step = step, !.adds = adds, !.sum = cumulativeRisk(t.who, adds)]
<1>2. cumulativeRisk(t.who, adds) \in Nat
    <2>1. (raised[t.who] \cup adds) \ resolved[t.who] \in SUBSET Flags
        BY DEF AwardsInv, AwardsTypeOK
    <2>2. QED
        BY <2>1, RiskIsNat DEF cumulativeRisk
<1>3. u \in Txns
    BY <1>2 DEF Txns, Held
<1>4. /\ u.step = step /\ u.who = t.who /\ u.clears = {}
      /\ u.adds = adds /\ u.sum = cumulativeRisk(t.who, adds)
    OBVIOUS
<1>5. cumulativeRisk(t.who, adds) = RiskWith(t.who, adds, {})
    <2>1. resolved[t.who] \cup {} = resolved[t.who]
        OBVIOUS
    <2>2. QED
        BY <2>1 DEF cumulativeRisk, RiskWith
<1> HIDE DEF u
<1>6. job' = [job EXCEPT ![j] = u]
    BY <1>1 DEF u
<1>7. QED
    BY <1>3, <1>4, <1>5, <1>6

LEMMA AssessInv ==
    ASSUME AwardsInv, NEW j \in Job, Assess(j)
    PROVE  AwardsInv'
<1>1. PICK inserting \in BOOLEAN : Assessed(j, job[j], "assessed", inserting)
    BY DEF Assess
<1>2. job[j].step = "locked" /\ job[j].kind = "score"
    BY DEF Assess, Open
<1>3. job[j] \in Txns /\ job[j].clears = {}
    BY <1>2 DEF AwardsInv, AwardsTypeOK, NoJob, SumsCurrent, Held
<1>4. job[j] \in [kind : {"score", "flag"}, who : Entrant,
               step : {"none", "locked"}, adds : SUBSET Flags, clears : {{}},
               sum : Nat, late : BOOLEAN]
    BY <1>2, <1>3 DEF Txns
<1>5. PICK u \in Txns : /\ job' = [job EXCEPT ![j] = u]
                        /\ u.step = "assessed" /\ u.who = job[j].who /\ u.clears = {}
                        /\ u.sum = RiskWith(u.who, u.adds, u.clears)
    BY <1>1, <1>4, AssessedTxn
<1>6. UNCHANGED <<riskVars, restVars>>
    BY DEF Assess
<1>7. QED
    BY <1>2, <1>5, <1>6, OwnStep DEF Held

LEMMA FlagInv ==
    ASSUME AwardsInv, NEW j \in Job, NEW p \in Entrant, Flag(j, p)
    PROVE  AwardsInv'
<1>1. Begun("flag", p, "none") \in [kind : {"score", "flag"}, who : Entrant,
               step : {"none", "locked"}, adds : SUBSET Flags, clears : {{}},
               sum : Nat, late : BOOLEAN]
    BY DEF Begun
<1>2. PICK u \in Txns : /\ job' = [job EXCEPT ![j] = u]
                        /\ u.step = "read" /\ u.who = p /\ u.clears = {}
                        /\ u.sum = RiskWith(u.who, u.adds, u.clears)
    <2>1. Assessed(j, Begun("flag", p, "none"), "read", TRUE) /\ Begun("flag", p, "none").who = p
        BY DEF Flag, Begun
    <2>2. PICK t \in [kind : {"score", "flag"}, who : Entrant,
                      step : {"none", "locked"}, adds : SUBSET Flags, clears : {{}},
                      sum : Nat, late : BOOLEAN],
                inserting \in BOOLEAN :
            Assessed(j, t, "read", inserting) /\ t.who = p
        BY <1>1, <2>1
    <2>3. QED
        BY <2>2, AssessedTxn
<1>3. QED
    BY <1>2, OwnStep DEF Flag, Held

LEMMA AbandonInv ==
    ASSUME AwardsInv, NEW j \in Job, Abandon(j)
    PROVE  AwardsInv'
BY OwnStep DEF Abandon, NoJob, Held

LEMMA CommitScoreInv ==
    ASSUME AwardsInv, NEW j \in Job, CommitScore(j)
    PROVE  AwardsInv'
<1>1. /\ job' \in [Job -> {NoJob} \cup Txns]
      /\ raised' \in [Entrant -> SUBSET Flags] /\ resolved' \in [Entrant -> SUBSET Flags]
      /\ riskScore' \in [Entrant -> Nat]
      /\ RowsApart' /\ SumsCurrent' /\ RiskIsCurrent'
    BY CommitRiskStep DEF CommitScore, Open
<1>2. UNCHANGED <<barred, finalVars, ranking, outran>>
    BY DEF CommitScore
<1>3. total' \in [Entrant -> Nat] /\ (ranking # NoJob => total' = total)
    BY DEF CommitScore, ContestShared, AwardsInv, AwardsTypeOK
<1>4. AwardsTypeOK'
    BY <1>1, <1>2, <1>3 DEF AwardsInv, AwardsTypeOK, finalVars
<1>5. StandingsHold'
    BY <1>2, <1>3 DEF AwardsInv, StandingsHold, Orderly, Eligible, finalVars, NoJob
<1>6. QED
    BY <1>1, <1>4, <1>5 DEF AwardsInv

LEMMA CommitFlagInv ==
    ASSUME AwardsInv, NEW j \in Job, CommitFlag(j)
    PROVE  AwardsInv'
<1>1. /\ job' \in [Job -> {NoJob} \cup Txns]
      /\ raised' \in [Entrant -> SUBSET Flags] /\ resolved' \in [Entrant -> SUBSET Flags]
      /\ riskScore' \in [Entrant -> Nat]
      /\ RowsApart' /\ SumsCurrent' /\ RiskIsCurrent'
    BY CommitRiskStep DEF CommitFlag, Open
<1>2. AwardsTypeOK'
    BY <1>1 DEF CommitFlag, AwardsInv, AwardsTypeOK, restVars, finalVars
<1>3. StandingsHold'
    BY StandingsQuiet DEF CommitFlag, AwardsInv, restVars
<1>4. QED
    BY <1>1, <1>2, <1>3 DEF AwardsInv

LEMMA CommitReverseInv ==
    ASSUME AwardsInv, NEW j \in Job, CommitReverse(j)
    PROVE  AwardsInv'
<1>1. job' = [job EXCEPT ![j] = NoJob] /\ UNCHANGED riskVars
    BY DEF CommitReverse
<1>2. job'[j] = NoJob /\ NoJob.step = "none" /\ \A k \in Job : k # j => job'[k] = job[k]
    BY <1>1 DEF AwardsInv, AwardsTypeOK, NoJob
<1>3. RowsApart' /\ SumsCurrent' /\ RiskIsCurrent'
    BY <1>1, <1>2, QuietRisk DEF Held
<1>4. job[j].who \in Entrant
    BY DEF CommitReverse, Open, AwardsInv, AwardsTypeOK, Txns, NoJob
<1>5. total' \in [Entrant -> Nat] /\ ranking = NoJob
    BY <1>4 DEF CommitReverse, ContestShared, AwardsInv, AwardsTypeOK
<1>6. AwardsTypeOK'
    BY <1>1, <1>5 DEF CommitReverse, AwardsInv, AwardsTypeOK, riskVars, finalVars
<1>7. StandingsHold'
    BY <1>5 DEF CommitReverse, AwardsInv, StandingsHold, Orderly, Eligible, finalVars, NoJob
<1>8. QED
    BY <1>3, <1>6, <1>7 DEF AwardsInv

LEMMA CommitReviewInv ==
    ASSUME AwardsInv, NEW j \in Job, CommitReview(j)
    PROVE  AwardsInv'
<1>1. job' = [job EXCEPT ![j] = NoJob] /\ UNCHANGED riskVars
    BY DEF CommitReview
<1>2. job'[j] = NoJob /\ NoJob.step = "none" /\ \A k \in Job : k # j => job'[k] = job[k]
    BY <1>1 DEF AwardsInv, AwardsTypeOK, NoJob
<1>3. RowsApart' /\ SumsCurrent' /\ RiskIsCurrent'
    BY <1>1, <1>2, QuietRisk DEF Held
<1>4. job[j].who \in Entrant
    BY DEF CommitReview, Open, AwardsInv, AwardsTypeOK, Txns, NoJob
<1>5. AwardsTypeOK'
    BY <1>1, <1>4 DEF CommitReview, AwardsInv, AwardsTypeOK, riskVars, finalVars
<1>6. StandingsHold'
    <2>1. outran \subseteq outran'
        BY DEF CommitReview
    <2>2. ranking.step = "ranked" => barred' \ outran' \subseteq barred \ outran
        BY DEF CommitReview, NoJob
    <2>3. QED
        BY <2>1, <2>2 DEF CommitReview, AwardsInv, StandingsHold, Orderly, Eligible, finalVars
<1>7. QED
    BY <1>3, <1>5, <1>6 DEF AwardsInv

\* Steps of the finalisation change no transaction but one it aborts, and no risk.
LEMMA RankingInv ==
    ASSUME AwardsInv, LockContest \/ finalizeStandings \/ CommitFinal
    PROVE  AwardsInv'
<1>1. UNCHANGED <<riskVars, total, barred, job, outran>>
    BY DEF LockContest, finalizeStandings, CommitFinal
<1>2. RowsApart' /\ SumsCurrent' /\ RiskIsCurrent'
    BY <1>1 DEF AwardsInv, RowsApart, SumsCurrent, RiskWith, RiskIsCurrent, cumulativeRisk,
                riskVars
<1>3. CASE LockContest
    <2>1. ranking' = [step |-> "locked"] /\ ~concluded /\ UNCHANGED finalVars
        BY <1>3 DEF LockContest
    <2>2. AwardsTypeOK'
        BY <1>1, <2>1 DEF AwardsInv, AwardsTypeOK, riskVars, finalVars
    <2>3. StandingsHold'
        BY <1>1, <2>1 DEF AwardsInv, StandingsHold, finalVars
    <2>4. QED
        BY <1>2, <2>2, <2>3 DEF AwardsInv
<1>4. CASE finalizeStandings
    <2> DEFINE ranks == [p \in Entrant |-> Ranked(p)]
    <2>1. ranks \in Rows /\ Orderly(ranks, total) /\ Eligible(ranks, barred)
        BY RanksFollowTotals DEF AwardsInv
    <2> HIDE DEF ranks
    <2>2. ranking' = [step |-> "ranked", rows |-> ranks] /\ UNCHANGED finalVars
        BY <1>4 DEF finalizeStandings, ranks
    <2>3. ~concluded
        BY <1>4 DEF finalizeStandings, AwardsInv, StandingsHold, NoJob
    <2>4. AwardsTypeOK'
        BY <1>1, <2>1, <2>2 DEF AwardsInv, AwardsTypeOK, riskVars, finalVars
    <2>5. StandingsHold'
        BY <1>1, <2>1, <2>2, <2>3 DEF AwardsInv, StandingsHold, Orderly, Eligible, finalVars
    <2>6. QED
        BY <1>2, <2>4, <2>5 DEF AwardsInv
<1>5. CASE CommitFinal
    <2>1. ranking \in [step : {"ranked"}, rows : Rows]
        BY <1>5 DEF CommitFinal, AwardsInv, AwardsTypeOK, NoJob
    <2>2. /\ ranking.rows \in Rows
          /\ Orderly(ranking.rows, total) /\ Eligible(ranking.rows, barred)
        BY <2>1 DEF AwardsInv, StandingsHold
    <2>3. /\ final' = ranking.rows /\ concluded' = TRUE /\ ranking' = NoJob
          /\ ledgerWas' = total /\ barredThen' = barred
          /\ winners' = {[who |-> p, review |-> "PENDING", payout |-> "PENDING"] :
                p \in {q \in Entrant : final'[q].rank \in 1..WinnerCount}}
        BY <1>5 DEF CommitFinal, upsertWinners
    <2>4. AwardsTypeOK'
        BY <1>1, <2>2, <2>3 DEF AwardsInv, AwardsTypeOK, riskVars
    <2>5. StandingsHold'
        BY <1>1, <2>2, <2>3 DEF StandingsHold, Orderly, Eligible, NoJob
    <2>6. QED
        BY <1>2, <2>4, <2>5 DEF AwardsInv
<1>6. QED
    BY <1>3, <1>4, <1>5

LEMMA BreakDeadlockInv ==
    ASSUME AwardsInv, BreakDeadlock
    PROVE  AwardsInv'
<1>1. CASE ranking' = NoJob /\ UNCHANGED job
    <2>1. RowsApart' /\ SumsCurrent' /\ RiskIsCurrent'
        BY <1>1 DEF BreakDeadlock, AwardsInv, RowsApart, SumsCurrent, RiskWith, RiskIsCurrent,
                    cumulativeRisk, riskVars
    <2>2. AwardsTypeOK'
        BY <1>1 DEF BreakDeadlock, AwardsInv, AwardsTypeOK, riskVars, finalVars
    <2>3. StandingsHold'
        BY <1>1 DEF BreakDeadlock, AwardsInv, StandingsHold, Orderly, Eligible, finalVars, NoJob
    <2>4. QED
        BY <2>1, <2>2, <2>3 DEF AwardsInv
<1>2. CASE UNCHANGED ranking /\ \E j \in Job : job' = [job EXCEPT ![j] = NoJob]
    BY <1>2, OwnStep DEF BreakDeadlock, NoJob, Held, restVars
<1>3. QED
    BY <1>1, <1>2 DEF BreakDeadlock, Open

LEMMA WinnerInv ==
    ASSUME AwardsInv, NEW w \in winners,
           \/ \E d \in {"APPROVED", "REJECTED"} : setWinnerReview(w, d)
           \/ \E o \in {"PAID", "FAILED"} : setWinnerPayout(w, o)
    PROVE  AwardsInv'
<1>1. w \in [who : Entrant, review : {"PENDING", "APPROVED", "REJECTED"},
             payout : {"PENDING", "PAID", "FAILED"}]
    BY DEF AwardsInv, AwardsTypeOK
<1>2. PICK v \in [who : Entrant, review : {"PENDING", "APPROVED", "REJECTED"},
                  payout : {"PENDING", "PAID", "FAILED"}] :
        Rewritten(w, v) /\ v.who = w.who /\ v.review # "PENDING"
    BY <1>1 DEF setWinnerReview, setWinnerPayout
<1>3. /\ winners' = (winners \ {w}) \cup {v}
      /\ UNCHANGED <<riskVars, total, barred, concluded, final, ledgerWas, barredThen,
                     job, ranking, outran>>
    BY <1>2 DEF Rewritten
<1>4. RowsApart' /\ SumsCurrent' /\ RiskIsCurrent'
    BY <1>3 DEF AwardsInv, RowsApart, SumsCurrent, RiskWith, RiskIsCurrent, cumulativeRisk,
                riskVars
<1>5. AwardsTypeOK'
    BY <1>2, <1>3 DEF AwardsInv, AwardsTypeOK, riskVars
<1>6. StandingsHold'
    BY <1>2, <1>3 DEF AwardsInv, StandingsHold, Orderly, Eligible
<1>7. QED
    BY <1>4, <1>5, <1>6 DEF AwardsInv

-----------------------------------------------------------------------------
\* In every reachable state one transaction has a participant's row, its sum and
\* those not overtaken are current, and what finalisation read still holds
\* (contest/repository.ts, service.ts, lifecycle.ts).
THEOREM AwardsInvariant == AwardsSpec => []AwardsInv
<1>1. AwardsInv /\ [AwardsNext]_awardVars => AwardsInv'
    <2>1. SUFFICES ASSUME AwardsInv, [AwardsNext]_awardVars PROVE AwardsInv'
        OBVIOUS
    <2>2. CASE UNCHANGED awardVars
        BY <2>1, <2>2 DEF awardVars, AwardsInv, AwardsTypeOK, RowsApart, SumsCurrent, RiskWith,
              RiskIsCurrent, cumulativeRisk, StandingsHold, Orderly, Eligible
    <2>3. ASSUME NEW j \in Job,
                 \/ Assess(j) \/ CommitScore(j) \/ CommitReverse(j) \/ Abandon(j)
                 \/ CommitFlag(j) \/ CommitReview(j)
          PROVE  AwardsInv'
        BY <2>1, <2>3, AssessInv, CommitScoreInv, CommitReverseInv, AbandonInv, CommitFlagInv,
           CommitReviewInv
    <2>4. ASSUME NEW j \in Job, NEW p \in Entrant,
                 \/ LockEarner(j, "score", p) \/ LockEarner(j, "reverse", p)
                 \/ Flag(j, p) \/ Clear(j, p) \/ Review(j, p)
          PROVE  AwardsInv'
        BY <2>1, <2>4, BeginInv, FlagInv
    <2>5. CASE LockContest \/ finalizeStandings \/ CommitFinal \/ BreakDeadlock
        BY <2>1, <2>5, RankingInv, BreakDeadlockInv
    <2>6. CASE \E w \in winners :
                 \/ \E d \in {"APPROVED", "REJECTED"} : setWinnerReview(w, d)
                 \/ \E o \in {"PAID", "FAILED"} : setWinnerPayout(w, o)
        BY <2>1, <2>6, WinnerInv
    <2>7. QED
        BY <2>1, <2>2, <2>3, <2>4, <2>5, <2>6 DEF AwardsNext
<1>2. QED
    BY AwardsInitInv, <1>1, PTL DEF AwardsSpec

\* The risk score is the sum of the unresolved risk events (service.ts:448), whoever
\* recomputes it, unless the last to do so was overtaken.
THEOREM RiskStaysCurrent == AwardsSpec => []RiskIsCurrent
<1>1. AwardsInv => RiskIsCurrent
    BY DEF AwardsInv
<1>2. QED
    BY AwardsInvariant, <1>1, PTL

\* Whatever scores, reverses and reviews while standings are frozen
\* (repository.ts:1612), final scores are the ledger's and ranks follow them.
THEOREM FinalStandingsDefensible == AwardsSpec => []FinalIsDefensible
<1>1. AwardsInv => FinalIsDefensible
    BY DEF AwardsInv, AwardsTypeOK, StandingsHold, Orderly, Eligible, FinalIsDefensible
<1>2. QED
    BY AwardsInvariant, <1>1, PTL

-----------------------------------------------------------------------------
(* The leaderboard.                                                        *)

Scores == 0..MaxScore
Boards == [Player -> 0..Off]
Publication == [stage : {"read"}, who : Player]
                   \cup [stage : {"publish"}, who : Player, score : Scores]
Rebuild == [stage : {"clear", "fill", "swap"}, snapshot : Boards]

BoardTypes ==
    /\ score \in [Player -> Scores] /\ out \in SUBSET Player
    /\ board \in Boards /\ staging \in Boards
    /\ writer \in [Instance -> {Resting} \cup Publication]
    /\ rebuilding \in [Instance -> {Resting} \cup Rebuild]
    /\ removal \in {Resting} \cup [stage : {"reverse", "remove"}, who : Player]
    /\ removal # Resting => removal.who \in out

\* What a board should show of p.
Shown(p) == IF p \in out THEN Off ELSE score[p]
Staged == \E i \in Instance : rebuilding[i].stage \in {"fill", "swap"}

\* What instances have read of p and staged for p is as p is now.
WritersKnow(p) ==
    \A i \in Instance :
        writer[i].stage = "publish" /\ writer[i].who = p => writer[i].score = score[p]
RebuildsKnow(p) ==
    \A i \in Instance : rebuilding[i] # Resting => rebuilding[i].snapshot[p] = Shown(p)
StagedKnows(p) ==
    Staged => /\ staging[p] \in {Off, Shown(p)}
              /\ p \notin out => staging = Empty \/ staging[p] # Off
BoardKnows(p) ==
    /\ p \notin out => board = Empty \/ board[p] # Off
    /\ (removal # Resting => removal.who # p) =>
            /\ ~Pending(p) => board[p] \in {Off, score[p]}
            /\ p \in out => board[p] = Off

Known(p) == WritersKnow(p) /\ RebuildsKnow(p) /\ StagedKnows(p) /\ BoardKnows(p)
BoardInv == BoardTypes /\ \A p \in Player \ disturbed : Known(p)

\* It holds of an empty board.
LEMMA BoardInvInit == BoardInit => BoardInv
<1> SUFFICES ASSUME BoardInit PROVE BoardInv
    OBVIOUS
<1> USE LeaderboardAssumption
<1>1. BoardTypes
    BY DEF BoardInit, BoardTypes, Boards, Scores, Off, Empty
<1>2. ASSUME NEW p \in Player
      PROVE  Known(p)
    <2>1. WritersKnow(p) /\ RebuildsKnow(p) /\ StagedKnows(p)
        BY DEF BoardInit, WritersKnow, RebuildsKnow, StagedKnows, Staged, Resting
    <2>2. BoardKnows(p)
        BY DEF BoardInit, BoardKnows, Empty
    <2>3. QED
        BY <2>1, <2>2 DEF Known
<1>3. QED
    BY <1>1, <1>2 DEF BoardInv

\* Every step keeps the types.
LEMMA BoardTypesNext ==
    ASSUME BoardTypes, BoardNext
    PROVE  BoardTypes'
<1> USE LeaderboardAssumption DEF BoardTypes, Boards, Scores, Publication, Rebuild
<1>0. Off \in Nat /\ Off = MaxScore + 1 /\ Empty \in Boards
    BY DEF Off, Empty
<1>1. ASSUME NEW i \in Instance, NEW p \in Player, NEW n \in 0..MaxScore, settleEvent(i, p, n)
      PROVE  BoardTypes'
    BY <1>1 DEF settleEvent
<1>2. ASSUME NEW i \in Instance, publishStanding(i) PROVE BoardTypes'
    BY <1>2 DEF publishStanding, Resting
<1>3. ASSUME NEW i \in Instance, publishScore(i) PROVE BoardTypes'
    <2>1. writer[i].who \in Player /\ writer[i].score \in 0..Off
        BY <1>0, <1>3 DEF publishScore, Resting
    <2>2. QED
        BY <1>3, <2>1 DEF publishScore
<1>4. ASSUME NEW i \in Instance, LosePublish(i) \/ LoseRebuild(i) PROVE BoardTypes'
    BY <1>4 DEF LosePublish, LoseRebuild
<1>5. ASSUME NEW i \in Instance, NEW asked \in BOOLEAN, rebuild(i, asked) PROVE BoardTypes'
    <2>1. Snapshot \in Boards
        BY <1>0 DEF Snapshot
    <2>2. QED
        BY <1>5, <2>1 DEF rebuild
<1>6. ASSUME NEW i \in Instance, ClearStaging(i) PROVE BoardTypes'
    BY <1>0, <1>6 DEF ClearStaging, Resting
<1>7. ASSUME NEW i \in Instance, FillStaging(i) PROVE BoardTypes'
    <2>1. rebuilding[i].snapshot \in Boards /\ rebuilding[i] \in Rebuild
        BY <1>7 DEF FillStaging, Resting
    <2>2. CASE rebuilding[i].snapshot = Empty
        BY <1>0, <1>7, <2>2 DEF FillStaging
    <2>3. CASE rebuilding[i].snapshot # Empty
        BY <1>7, <2>1, <2>3 DEF FillStaging
    <2>4. QED
        BY <2>2, <2>3
<1>8. ASSUME NEW i \in Instance, SwapBoard(i) PROVE BoardTypes'
    BY <1>0, <1>8 DEF SwapBoard
<1>9. ASSUME NEW p \in Player, disqualify(p) PROVE BoardTypes'
    BY <1>9 DEF disqualify
<1>10. ASSUME NEW p \in Player, reinstate(p) PROVE BoardTypes'
    BY <1>10 DEF reinstate
<1>11. CASE reverseParticipantEvents
    BY <1>11 DEF reverseParticipantEvents, Resting
<1>12. CASE remove
    BY <1>0, <1>12 DEF remove, Resting
<1>13. CASE LoseRemove \/ Expire
    BY <1>0, <1>13 DEF LoseRemove, Expire
<1>14. QED
    BY <1>1, <1>2, <1>3, <1>4, <1>5, <1>6, <1>7, <1>8, <1>9, <1>10, <1>11, <1>12, <1>13
       DEF BoardNext

\* A step leaves what is known of everyone it does not disturb.
LEMMA KnownNext ==
    ASSUME BoardTypes, BoardNext, NEW p \in Player, p \notin disturbed', Known(p), p \notin disturbed
    PROVE  Known(p)'
<1> USE LeaderboardAssumption DEF Known
<1>0. Off \in Nat /\ Off = MaxScore + 1 /\ Empty \in Boards /\ Empty[p] = Off /\ score[p] # Off
    BY DEF Off, Empty, BoardTypes, Boards, Scores
<1>t. /\ \A i \in Instance : writer[i] \in {Resting} \cup Publication
      /\ \A i \in Instance : rebuilding[i] \in {Resting} \cup Rebuild
    BY DEF BoardTypes
<1>1. ASSUME NEW i \in Instance, NEW q \in Player, NEW n \in 0..MaxScore, settleEvent(i, q, n)
      PROVE  Known(p)'
    <2>1. CASE q = p
        <3>1. ~Outdated(p)
            BY <1>1, <2>1 DEF settleEvent
        <3>2. QED
            BY <1>1, <2>1, <3>1 DEF settleEvent, Outdated, WritersKnow, RebuildsKnow, StagedKnows,
                Staged, BoardKnows, Pending, Resting, BoardTypes
    <2>2. CASE q # p
        BY <1>1, <2>2 DEF settleEvent, WritersKnow, RebuildsKnow, StagedKnows, Staged, BoardKnows,
            Pending, Resting, BoardTypes, Shown
    <2>3. QED
        BY <2>1, <2>2
<1>2. ASSUME NEW i \in Instance, publishStanding(i) PROVE Known(p)'
    BY <1>2 DEF publishStanding, WritersKnow, RebuildsKnow, StagedKnows, Staged, BoardKnows,
        Pending, Resting, BoardTypes, Shown
<1>3. ASSUME NEW i \in Instance, publishScore(i) PROVE Known(p)'
    <2> DEFINE q == writer[i].who
    <2>0. q \in Player /\ writer[i].score \in Scores /\ writer[i].stage = "publish"
        BY <1>3, <1>t DEF publishScore, Publication, Resting
    <2>1. WritersKnow(p)' /\ RebuildsKnow(p)' /\ StagedKnows(p)'
        BY <1>3 DEF publishScore, WritersKnow, RebuildsKnow, StagedKnows, Staged, Resting,
           BoardTypes, Shown
    <2>2. CASE q = p
        <3>1. p \notin out /\ board'[p] = score[p] /\ UNCHANGED <<score, out>>
            BY <1>3, <2>0, <2>2 DEF publishScore, WritersKnow, BoardTypes, Boards
        <3>2. QED
            BY <1>0, <2>1, <3>1 DEF BoardKnows
    <2>3. CASE q # p
        <3>1. board # Empty /\ board'[p] = board[p] /\ UNCHANGED <<score, out, removal>>
            BY <1>3, <2>0, <2>3 DEF publishScore, BoardTypes, Boards
        <3>2. Pending(p)' <=> Pending(p)
            BY <1>3, <2>3 DEF publishScore, Pending, BoardTypes
        <3>3. BoardKnows(p)'
            BY <3>1, <3>2 DEF BoardKnows
        <3>4. QED
            BY <2>1, <3>3
    <2>4. QED
        BY <2>2, <2>3
<1>4. ASSUME NEW i \in Instance, LosePublish(i) PROVE Known(p)'
    BY <1>4 DEF LosePublish, WritersKnow, RebuildsKnow, StagedKnows, Staged, BoardKnows,
        Pending, Resting, BoardTypes, Shown
<1>41. ASSUME NEW i \in Instance, LoseRebuild(i) PROVE Known(p)'
    BY <1>41 DEF LoseRebuild, WritersKnow, RebuildsKnow, StagedKnows, Staged, BoardKnows,
        Pending, Resting, BoardTypes, Shown
<1>5. ASSUME NEW i \in Instance, NEW asked \in BOOLEAN, rebuild(i, asked) PROVE Known(p)'
    BY <1>5 DEF rebuild, Snapshot, WritersKnow, RebuildsKnow, StagedKnows, Staged, BoardKnows,
        Pending, Resting, BoardTypes, Shown
<1>6. ASSUME NEW i \in Instance, ClearStaging(i) PROVE Known(p)'
    BY <1>0, <1>6 DEF ClearStaging, WritersKnow, RebuildsKnow, StagedKnows, Staged, BoardKnows,
        Pending, Resting, BoardTypes, Shown
<1>7. ASSUME NEW i \in Instance, FillStaging(i) PROVE Known(p)'
    <2> DEFINE s == rebuilding[i].snapshot
    <2>0. s \in Boards /\ s[p] = Shown(p)
        BY <1>7, <1>t DEF FillStaging, Rebuild, Resting, RebuildsKnow
    <2>1. WritersKnow(p)' /\ RebuildsKnow(p)'
        <3>1. WritersKnow(p)' /\ UNCHANGED <<score, out>>
            BY <1>7 DEF FillStaging, WritersKnow
        <3>2. ASSUME NEW j \in Instance, rebuilding'[j] # Resting
              PROVE  rebuilding'[j].snapshot = rebuilding[j].snapshot /\ rebuilding[j] # Resting
            BY <1>7, <1>t, <3>2 DEF FillStaging, Resting, Rebuild, BoardTypes
        <3>3. RebuildsKnow(p)'
            BY <3>1, <3>2 DEF RebuildsKnow, Shown
        <3>4. QED
            BY <3>1, <3>3
    <2>2. CASE s = Empty
        <3>1. p \in out
            BY <1>0, <2>0, <2>2 DEF Shown
        <3>2. board' = Empty /\ UNCHANGED <<score, out, writer, removal, staging>>
            BY <1>7, <2>2 DEF FillStaging
        <3>3. BoardKnows(p)'
            BY <1>0, <3>1, <3>2 DEF BoardKnows
        <3>4. Staged
            BY <1>7 DEF FillStaging, Staged
        <3>5. StagedKnows(p)'
            BY <3>1, <3>2, <3>4 DEF StagedKnows, Shown
        <3>6. QED
            BY <2>1, <3>3, <3>5
    <2>3. CASE s # Empty
        <3>1. staging'[p] = (IF s[p] = Off THEN staging[p] ELSE s[p]) /\ UNCHANGED <<board, score, out, writer, removal>>
            BY <1>7, <2>3 DEF FillStaging
        <3>2. BoardKnows(p)'
            BY <3>1 DEF BoardKnows, Pending
        <3>3. Staged
            BY <1>7 DEF FillStaging, Staged
        <3>4. StagedKnows(p)'
            BY <1>0, <2>0, <3>1, <3>3 DEF StagedKnows, Shown
        <3>5. QED
            BY <2>1, <3>2, <3>4
    <2>4. QED
        BY <2>2, <2>3
<1>8. ASSUME NEW i \in Instance, SwapBoard(i) PROVE Known(p)'
    BY <1>0, <1>8 DEF SwapBoard, WritersKnow, RebuildsKnow, StagedKnows, Staged, BoardKnows,
        Pending, Resting, BoardTypes, Shown
<1>9. ASSUME NEW q \in Player, disqualify(q) PROVE Known(p)'
    BY <1>9 DEF disqualify, WritersKnow, RebuildsKnow, StagedKnows, Staged, BoardKnows,
        Pending, Outdated, Resting, BoardTypes, Shown
<1>10. ASSUME NEW q \in Player, reinstate(q) PROVE Known(p)'
    BY <1>10 DEF reinstate, WritersKnow, RebuildsKnow, StagedKnows, Staged, BoardKnows,
        Pending, Resting, BoardTypes, Shown
<1>11. CASE reverseParticipantEvents
    BY <1>11 DEF reverseParticipantEvents, WritersKnow, RebuildsKnow, StagedKnows, Staged,
       BoardKnows,
        Pending, Outdated, Resting, BoardTypes, Shown
<1>12. CASE remove
    <2>0. removal.who \in out /\ removal # Resting
        BY <1>12 DEF remove, Resting, BoardTypes
    <2>1. WritersKnow(p)' /\ RebuildsKnow(p)' /\ StagedKnows(p)'
        BY <1>12 DEF remove, WritersKnow, RebuildsKnow, StagedKnows, Staged, Shown
    <2>2. CASE p = removal.who
        <3>1. board'[p] = Off /\ p \in out'
            BY <1>12, <2>0, <2>2 DEF remove, BoardTypes, Boards
        <3>2. QED
            BY <2>1, <3>1 DEF BoardKnows
    <2>3. CASE p # removal.who
        <3>1. board'[p] = board[p] /\ UNCHANGED <<score, out, writer>>
            BY <1>12, <2>3 DEF remove, BoardTypes, Boards
        <3>2. board = Empty => board' = Empty
            BY <1>12 DEF remove, Empty
        <3>3. BoardKnows(p)'
            BY <2>3, <3>1, <3>2 DEF BoardKnows, Pending
        <3>4. QED
            BY <2>1, <3>3
    <2>4. QED
        BY <2>2, <2>3
<1>13. CASE LoseRemove
    BY <1>13 DEF LoseRemove, WritersKnow, RebuildsKnow, StagedKnows, Staged, BoardKnows,
        Pending, Resting, BoardTypes, Shown
<1>131. CASE Expire
    BY <1>0, <1>131 DEF Expire, WritersKnow, RebuildsKnow, StagedKnows, Staged, BoardKnows,
        Pending, Resting, BoardTypes, Shown
<1>14. QED
    BY <1>1, <1>2, <1>3, <1>4, <1>41, <1>5, <1>6, <1>7, <1>8, <1>9, <1>10, <1>11, <1>12, <1>13,
       <1>131
       DEF BoardNext

\* Nobody's entry becomes accurate again by itself.
LEMMA DisturbedGrows ==
    ASSUME BoardNext
    PROVE  disturbed \subseteq disturbed'
BY DEF BoardNext, settleEvent, publishStanding, publishScore, LosePublish, rebuild, ClearStaging,
    FillStaging, SwapBoard, LoseRebuild, disqualify, reinstate, reverseParticipantEvents, remove,
    LoseRemove, Expire

\* Every step of the board keeps what each player's row promises.
LEMMA BoardInvNext == BoardInv /\ [BoardNext]_boardVars => BoardInv'
<1> SUFFICES ASSUME BoardInv, [BoardNext]_boardVars PROVE BoardInv'
    OBVIOUS
<1>1. CASE BoardNext
    <2>1. BoardTypes'
        BY <1>1, BoardTypesNext DEF BoardInv
    <2>2. ASSUME NEW p \in Player \ disturbed' PROVE Known(p)'
        BY <1>1, <2>2, DisturbedGrows, KnownNext DEF BoardInv
    <2>3. QED
        BY <2>1, <2>2 DEF BoardInv
<1>2. CASE UNCHANGED boardVars
    BY <1>2 DEF boardVars, BoardInv, BoardTypes, Known, WritersKnow, RebuildsKnow, StagedKnows,
        Staged, BoardKnows, Pending, Shown
<1>3. QED
    BY <1>1, <1>2

\* A board that is there is whole, and it shows the scores of Postgres and nobody who
\* is disqualified, but for participants whose entries were lost, overtaken or begun
\* anew.
THEOREM BoardIsCurrentHolds == BoardSpec => []BoardIsCurrent
<1>1. BoardInv => BoardIsCurrent
    BY DEF BoardInv, Known, BoardKnows, BoardIsCurrent, BoardIsWhole
<1>2. QED
    BY <1>1, BoardInvInit, BoardInvNext, PTL DEF BoardSpec

-----------------------------------------------------------------------------
(* The cache.                                                              *)

CacheTypes ==
    /\ truth \in [Key -> Nat] /\ value \in [Key -> Nat] /\ order \in Seq(Key)
    /\ inFlight \in [Key -> SUBSET Computation]
    /\ computing \in [Computation -> {NoComputation} \cup [stage : {"query"}, key : Key]
                                        \cup [stage : {"settle"}, key : Key, value : Nat]]

\* A key is in the map once.
Distinct(s) == \A m, n \in 1..Len(s) : s[m] = s[n] => m = n

\* What a query answered, and will be stored, is what it would answer now, unless the
\* computation was overtaken.
AnswersAreFresh ==
    \A c \in Computation :
        /\ computing[c].stage = "settle"
        /\ computing[c].key \notin unforgotten
        /\ c \notin overtaken
        => computing[c].value = truth[computing[c].key]

\* Callers of a key share a computation of that key.
SharesAreTheirs ==
    \A k \in Key : \A c \in inFlight[k] :
        c \in Computation /\ computing[c] # NoComputation /\ computing[c].key = k

CacheInv == CacheTypes /\ Distinct(order) /\ AnswersAreFresh /\ SharesAreTheirs /\ ForgottenIsFresh

\* Deleting a key from a map leaves the others, in their order.
LEMMA DeletedKey ==
    ASSUME NEW s \in Seq(Key), Distinct(s), NEW k \in Key
    PROVE  /\ RemoveFirst(s, k) \in Seq(Key)
           /\ Distinct(RemoveFirst(s, k))
           /\ ToSet(RemoveFirst(s, k)) \subseteq ToSet(s) \ {k}
<1>1. CASE \A i \in 1..Len(s) : s[i] # k
    <2>1. RemoveFirst(s, k) = s
        BY <1>1 DEF RemoveFirst
    <2>2. k \notin ToSet(s)
        BY <1>1 DEF ToSet
    <2>3. QED
        BY <2>1, <2>2
<1>2. ASSUME NEW i \in 1..Len(s), s[i] = k
      PROVE  /\ RemoveFirst(s, k) \in Seq(Key)
             /\ Distinct(RemoveFirst(s, k))
             /\ ToSet(RemoveFirst(s, k)) \subseteq ToSet(s) \ {k}
    <2> DEFINE I == {j \in 1..Len(s) : s[j] = k}
               n == Len(s)
               r == RemoveAt(s, i)
    <2>1. I = {i}
        BY <1>2 DEF Distinct
    <2>2. SelectInSeq(s, LAMBDA v : v = k) = i
        BY <1>2, <2>1 DEF SelectInSeq, Min
    <2>3. RemoveFirst(s, k) = r
        BY <1>2, <2>2 DEF RemoveFirst
    <2>4. n \in Nat /\ i \in 1..n /\ \A j \in 1..n : s[j] \in Key
        BY <1>2
    <2>5. /\ SubSeq(s, 1, i - 1) \in Seq(Key) /\ Len(SubSeq(s, 1, i - 1)) = i - 1
          /\ \A j \in 1..(i - 1) : SubSeq(s, 1, i - 1)[j] = s[j]
        <3>1. \A j \in 1..(i - 1) : s[j] \in Key
            BY <2>4
        <3>2. QED
            BY <2>4, <3>1, SubSeqProperties
    <2>6. /\ SubSeq(s, i + 1, n) \in Seq(Key) /\ Len(SubSeq(s, i + 1, n)) = n - i
          /\ \A j \in 1..(n - i) : SubSeq(s, i + 1, n)[j] = s[i + j]
        <3>1. \A j \in (i + 1)..n : s[j] \in Key
            BY <2>4
        <3>2. QED
            BY <2>4, <3>1, SubSeqProperties
    <2>7. /\ r \in Seq(Key) /\ Len(r) = n - 1
          /\ \A j \in 1..(n - 1) : r[j] = s[IF j < i THEN j ELSE j + 1]
        <3> DEFINE a == SubSeq(s, 1, i - 1)
                   b == SubSeq(s, i + 1, n)
        <3>1. r = a \o b
            BY DEF RemoveAt
        <3>2. Len(a) = i - 1 /\ Len(b) = n - i /\ Len(a) + Len(b) = n - 1
            <4>1. Len(a) = i - 1 /\ Len(b) = n - i
                BY <2>5, <2>6
            <4>2. n \in Nat /\ i \in Int
                BY <2>4
            <4> HIDE DEF a, b, n
            <4>3. QED
                BY <4>1, <4>2
        <3> HIDE DEF a, b, r
        <3>3. a \in Seq(Key) /\ b \in Seq(Key)
            BY <2>5, <2>6 DEF a, b
        <3>4. /\ r \in Seq(Key) /\ Len(r) = Len(a) + Len(b)
              /\ \A j \in 1..(Len(a) + Len(b)) : r[j] = IF j <= Len(a) THEN a[j] ELSE b[j - Len(a)]
            BY <3>1, <3>3, ConcatProperties
        <3>5. ASSUME NEW j \in 1..(n - 1) PROVE r[j] = s[IF j < i THEN j ELSE j + 1]
            <4>1. CASE j < i
                <5>1. j \in 1..(i - 1) /\ j <= Len(a)
                    BY <2>4, <3>2, <4>1
                <5>2. QED
                    BY <2>5, <3>2, <3>4, <4>1, <5>1 DEF a
            <4>2. CASE ~(j < i)
                <5>1. ~(j <= Len(a)) /\ j - Len(a) = j - i + 1 /\ j - i + 1 \in 1..(n - i) /\ i + (j - i + 1) = j + 1
                    BY <2>4, <3>2, <4>2
                <5>2. r[j] = b[j - i + 1]
                    BY <3>2, <3>4, <5>1
                <5>3. QED
                    BY <2>6, <4>2, <5>1, <5>2 DEF b
            <4>3. QED
                BY <4>1, <4>2
        <3>6. QED
            BY <3>2, <3>4, <3>5
    <2> HIDE DEF r, I
    <2>8. Distinct(r)
        BY <2>4, <2>7, SMTT(20) DEF Distinct
    <2>9. ToSet(r) \subseteq ToSet(s) \ {k}
        <3>1. DOMAIN r = 1..(n - 1) /\ DOMAIN s = 1..n
            BY <2>4, <2>7
        <3>2. ASSUME NEW j \in 1..(n - 1) PROVE r[j] \in ToSet(s) \ {k}
            <4> DEFINE m == IF j < i THEN j ELSE j + 1
            <4>1. m \in 1..n /\ m # i /\ r[j] = s[m]
                BY <2>4, <2>7
            <4>2. s[m] # k
                BY <1>2, <2>4, <4>1 DEF Distinct
            <4>3. QED
                BY <3>1, <4>1, <4>2 DEF ToSet
        <3>3. QED
            BY <3>1, <3>2 DEF ToSet
    <2>10. QED
        BY <2>3, <2>7, <2>8, <2>9
<1>3. QED
    BY <1>1, <1>2

\* Storing a key puts it last, and evicts at most the oldest.
LEMMA StoredKey ==
    ASSUME NEW s \in Seq(Key), Distinct(s), NEW k \in Key, k \notin ToSet(s)
    PROVE  /\ Evicted(Append(s, k)) \in Seq(Key)
           /\ Distinct(Evicted(Append(s, k)))
           /\ ToSet(Evicted(Append(s, k))) \subseteq ToSet(s) \cup {k}
<1> DEFINE t == Append(s, k)
           n == Len(t)
<1>1. /\ t \in Seq(Key) /\ n \in Nat /\ n = Len(s) + 1
      /\ \A j \in 1..n : t[j] = IF j = n THEN k ELSE s[j]
    OBVIOUS
<1>2. \A j \in 1..Len(s) : s[j] # k /\ s[j] \in ToSet(s)
    BY DEF ToSet
<1>3. Distinct(t)
    BY <1>1, <1>2 DEF Distinct
<1>4. \A j \in 1..n : t[j] \in ToSet(s) \cup {k}
    BY <1>1, <1>2
<1> HIDE DEF t, n
<1>5. CASE n > maxEntries
    <2> DEFINE d == n - maxEntries
               e == SubSeq(t, 1 + d, n)
    <2>1. d \in Nat /\ d < n /\ 1 + n - maxEntries = 1 + d
        BY <1>1, <1>5, TtlCacheAssumption
    <2> HIDE DEF d
    <2>2. \A j \in (1 + d)..n : t[j] \in Key
        BY <1>1, <2>1
    <2>3. e \in Seq(Key) /\ Len(e) = n - d /\ \A j \in 1..(n - d) : e[j] = t[d + j]
        BY <1>1, <2>1, <2>2, SubSeqProperties
    <2>4. Evicted(t) = e
        BY <1>5, <2>1 DEF Evicted, n
    <2> HIDE DEF e
    <2>5. Distinct(e)
        <3>1. n - d \in Nat /\ \A j \in 1..(n - d) : d + j \in 1..n
            BY <1>1, <2>1
        <3>2. \A j, m \in 1..n : t[j] = t[m] => j = m
            BY <1>3 DEF Distinct, n
        <3>3. ASSUME NEW j \in 1..(n - d), NEW m \in 1..(n - d), e[j] = e[m] PROVE j = m
            <4>1. t[d + j] = t[d + m] /\ d + j \in 1..n /\ d + m \in 1..n
                BY <2>3, <3>1, <3>3
            <4>2. d + j = d + m
                BY <3>2, <4>1
            <4>3. QED
                BY <2>1, <3>1, <4>2
        <3>4. QED
            BY <2>3, <3>3 DEF Distinct
    <2>6. ToSet(e) \subseteq ToSet(s) \cup {k}
        <3>1. DOMAIN e = 1..(n - d)
            BY <1>1, <2>1, <2>3
        <3>2. ASSUME NEW j \in 1..(n - d) PROVE e[j] \in ToSet(s) \cup {k}
            <4>1. d + j \in 1..n
                BY <1>1, <2>1
            <4>2. QED
                BY <1>4, <2>3, <4>1
        <3>3. QED
            BY <3>1, <3>2 DEF ToSet
    <2>7. QED
        BY <2>3, <2>4, <2>5, <2>6 DEF t
<1>6. CASE ~(n > maxEntries)
    <2>1. Evicted(t) = t
        BY <1>6 DEF Evicted, n
    <2>2. ToSet(t) \subseteq ToSet(s) \cup {k}
        BY <1>1, <1>4 DEF ToSet, n
    <2>3. QED
        BY <1>1, <1>3, <2>1, <2>2 DEF t
<1>7. QED
    BY <1>5, <1>6

\* It holds of an empty cache.
LEMMA CacheInitInv == CacheInit => CacheInv
BY DEF CacheInit, CacheInv, CacheTypes, Distinct, AnswersAreFresh, SharesAreTheirs,
   ForgottenIsFresh, ToSet, NoComputation

\* Every step keeps it.
LEMMA CacheInvNext == CacheInv /\ [CacheNext]_cacheVars => CacheInv'
<1> SUFFICES ASSUME CacheInv, [CacheNext]_cacheVars PROVE CacheInv'
    OBVIOUS
<1>t. CacheTypes /\ Distinct(order) /\ AnswersAreFresh /\ SharesAreTheirs /\ ForgottenIsFresh
    BY DEF CacheInv
<1>1. ASSUME NEW k \in Key, NEW c \in Computation, resolve(k, c) PROVE CacheInv'
    <2>1. CacheTypes' /\ Distinct(order)' /\ AnswersAreFresh'
        BY <1>t, <1>1 DEF resolve, CacheTypes, AnswersAreFresh, NoComputation
    <2>2. SharesAreTheirs'
        BY <1>t, <1>1 DEF resolve, CacheTypes, SharesAreTheirs, NoComputation
    <2>3. ForgottenIsFresh'
        BY <1>t, <1>1 DEF resolve, CacheTypes, SharesAreTheirs, ForgottenIsFresh, NoComputation
    <2>4. QED
        BY <2>1, <2>2, <2>3 DEF CacheInv
<1>2. ASSUME NEW c \in Computation, Query(c) PROVE CacheInv'
    <2>1. computing[c].key \in Key /\ computing[c].stage = "query"
        BY <1>t, <1>2 DEF Query, CacheTypes, NoComputation
    <2>2. CacheTypes' /\ Distinct(order)'
        BY <1>t, <1>2, <2>1 DEF Query, CacheTypes
    <2>3. AnswersAreFresh'
        BY <1>t, <1>2, <2>1 DEF Query, CacheTypes, AnswersAreFresh
    <2>4. SharesAreTheirs'
        BY <1>t, <1>2, <2>1 DEF Query, CacheTypes, SharesAreTheirs, NoComputation
    <2>5. ForgottenIsFresh'
        BY <1>t, <1>2, <2>1 DEF Query, CacheTypes, SharesAreTheirs, ForgottenIsFresh
    <2>6. QED
        BY <2>2, <2>3, <2>4, <2>5 DEF CacheInv
<1>3. ASSUME NEW c \in Computation, Settle(c) PROVE CacheInv'
    <2> DEFINE k == computing[c].key
               s == RemoveFirst(order, k)
    <2>1. k \in Key /\ computing[c].value \in Nat /\ computing[c].stage = "settle"
        BY <1>t, <1>3 DEF Settle, CacheTypes, NoComputation
    <2>2. /\ order' = Evicted(Append(s, k))
          /\ value' = [value EXCEPT ![k] = computing[c].value]
          /\ computing' = [computing EXCEPT ![c] = NoComputation]
          /\ inFlight' = [inFlight EXCEPT ![k] = {}]
          /\ stale' = (IF c \in overtaken THEN stale \cup {k} ELSE stale \ {k})
          /\ overtaken' = overtaken \ {c}
          /\ UNCHANGED <<truth, unforgotten>>
        BY <1>3 DEF Settle
    <2>3. s \in Seq(Key) /\ Distinct(s) /\ ToSet(s) \subseteq ToSet(order) \ {k}
        BY <1>t, <2>1, DeletedKey DEF CacheTypes
    <2>k. \A l \in Key : \A d \in inFlight'[l] : l # k /\ d \in inFlight[l] /\ d # c
        BY <1>t, <2>1, <2>2 DEF CacheTypes, SharesAreTheirs
    <2>a. c \in overtaken \/ k \in unforgotten \/ computing[c].value = truth[k]
        BY <1>t, <2>1 DEF AnswersAreFresh
    <2> HIDE DEF s, k
    <2>4. order' \in Seq(Key) /\ Distinct(order') /\ ToSet(order') \subseteq ToSet(s) \cup {k}
        BY <2>1, <2>2, <2>3, StoredKey
    <2>5. CacheTypes'
        BY <1>t, <2>1, <2>2, <2>4 DEF CacheTypes
    <2>6. AnswersAreFresh'
        BY <1>t, <2>2 DEF CacheTypes, AnswersAreFresh, NoComputation
    <2>7. SharesAreTheirs'
        BY <1>t, <2>2, <2>k DEF CacheTypes, SharesAreTheirs
    <2>8. ForgottenIsFresh'
        <3>1. ASSUME NEW l \in Key \ unforgotten', l \in ToSet(order') \ stale'
              PROVE  value'[l] = truth'[l]
            <4>1. CASE l = k
                BY <1>t, <2>1, <2>2, <2>a, <3>1, <4>1 DEF CacheTypes
            <4>2. CASE l # k
                BY <1>t, <2>2, <2>3, <2>4, <3>1, <4>2 DEF CacheTypes, ForgottenIsFresh
            <4>3. QED
                BY <4>1, <4>2
        <3>2. ASSUME NEW l \in Key \ unforgotten', NEW d \in inFlight'[l],
                     computing'[d].stage = "settle"
              PROVE  computing'[d].value = truth'[l]
            BY <1>t, <2>2, <2>k, <3>2 DEF CacheTypes, ForgottenIsFresh
        <3>3. QED
            BY <3>1, <3>2 DEF ForgottenIsFresh
    <2>9. QED
        BY <2>4, <2>5, <2>6, <2>7, <2>8 DEF CacheInv
<1>4. ASSUME NEW c \in Computation, Reject(c) PROVE CacheInv'
    <2>1. computing[c].key \in Key
        BY <1>t, <1>4 DEF Reject, CacheTypes, NoComputation
    <2>2. CacheTypes' /\ Distinct(order)' /\ AnswersAreFresh'
        BY <1>t, <1>4, <2>1 DEF Reject, CacheTypes, AnswersAreFresh, NoComputation
    <2>3. SharesAreTheirs' /\ ForgottenIsFresh'
        BY <1>t, <1>4, <2>1
        DEF Reject, CacheTypes, SharesAreTheirs, ForgottenIsFresh, NoComputation
    <2>4. QED
        BY <2>2, <2>3 DEF CacheInv
<1>5. ASSUME NEW k \in Key, Write(k) PROVE CacheInv'
    BY <1>t, <1>5
    DEF Write, CacheInv, CacheTypes, AnswersAreFresh, SharesAreTheirs, ForgottenIsFresh
<1>6. ASSUME NEW k \in Key, forget(k) PROVE CacheInv'
    <2>1. order' \in Seq(Key) /\ Distinct(order') /\ ToSet(order') \subseteq ToSet(order) \ {k}
        BY <1>t, <1>6, DeletedKey DEF forget, CacheTypes
    <2>2. CacheTypes'
        BY <1>t, <1>6, <2>1 DEF forget, CacheTypes
    <2>3. AnswersAreFresh'
        BY <1>t, <1>6 DEF forget, AnswersAreFresh, Answered
    <2>4. SharesAreTheirs'
        BY <1>t, <1>6 DEF forget, CacheTypes, SharesAreTheirs
    <2>5. ForgottenIsFresh'
        BY <1>t, <1>6, <2>1 DEF forget, CacheTypes, ForgottenIsFresh
    <2>6. QED
        BY <2>1, <2>2, <2>3, <2>4, <2>5 DEF CacheInv
<1>7. ASSUME NEW k \in Key, ExpireEntry(k) PROVE CacheInv'
    <2>1. order' \in Seq(Key) /\ Distinct(order') /\ ToSet(order') \subseteq ToSet(order) \ {k}
        BY <1>t, <1>7, DeletedKey DEF ExpireEntry, CacheTypes
    <2>2. CacheTypes' /\ AnswersAreFresh' /\ SharesAreTheirs' /\ ForgottenIsFresh'
        BY <1>t, <1>7, <2>1
        DEF ExpireEntry, CacheTypes, AnswersAreFresh, SharesAreTheirs, ForgottenIsFresh
    <2>3. QED
        BY <2>1, <2>2 DEF CacheInv
<1>8. CASE UNCHANGED cacheVars
    BY <1>t, <1>8
    DEF cacheVars, CacheInv, CacheTypes, AnswersAreFresh, SharesAreTheirs, ForgottenIsFresh
<1>9. QED
    BY <1>1, <1>2, <1>3, <1>4, <1>5, <1>6, <1>7, <1>8 DEF CacheNext

\* What is returned for a forgotten key is as fresh as the data, an entry and a shared
\* computation alike, but for an entry that a computation stored whose query had been
\* answered before the write and the forget (ttl-cache.ts:52).
THEOREM ForgottenIsFreshHolds == CacheSpec => []ForgottenIsFresh
<1>1. CacheInv => ForgottenIsFresh
    BY DEF CacheInv
<1>2. QED
    BY <1>1, CacheInitInv, CacheInvNext, PTL DEF CacheSpec

-----------------------------------------------------------------------------
(* Scoring. *)

\* The limits as they read of any table r, to compare a table with the next.
ValidIn(r) == {i \in DOMAIN r : r[i].status = "VALID"}
PairIn(r, i) == {j \in ValidIn(r) : j.earner = i.earner /\ j.actor = i.actor}
WindowIn(r, i) == {j \in PairIn(r, i) : i.at <= j.at /\ j.at <= i.at + Rules.pairWindow}
DayIn(r, i) == {j \in ValidIn(r) : j.earner = i.earner /\ utcDayStart(j.at) = utcDayStart(i.at)}
PointsIn(r, S) == SumOver([x \in S |-> r[x].points], S)

PairLimit(r) ==
  Rules.perActorPairPoints > 0 => \A i \in ValidIn(r) :
    isSelfAuthored(i.kind) \/ PointsIn(r, WindowIn(r, i)) <= Rules.perActorPairPoints
DayLimit(r) ==
  \A i \in ValidIn(r) :
    /\ Rules.dailyPointsPerParticipant = 0 \/ PointsIn(r, DayIn(r, i)) <= Rules.dailyPointsPerParticipant
    /\ Cardinality(OfKind(DayIn(r, i), i.kind)) <= Rules.dailyEvents[i.kind]
GapLimit(r) ==
  \A i, j \in ValidIn(r) : i # j /\ i.actor = j.actor /\ i.kind = j.kind /\ i.at <= j.at
                      => j.at - i.at >= Rules.cooldown[i.kind]
Disinterested(r) == \A i \in ValidIn(r) : isSelfAuthored(i.kind) \/ i.actor # i.earner

Proper(i) == /\ i.kind \in DOMAIN Rules.points /\ i.at \in Nat
             /\ isSelfAuthored(i.kind) => i.actor = i.earner
EventRows == [status : {"PENDING", "VALID", "PENDING_REVIEW", "REJECTED", "REVERSED"}, points : Nat]
Table(r) == IsFiniteSet(DOMAIN r) /\ \A i \in DOMAIN r : Proper(i) /\ r[i] \in EventRows
Kept(r) == Table(r) /\ PairLimit(r) /\ DayLimit(r) /\ GapLimit(r) /\ Disinterested(r)

\* The limits of the module are those of its table.
LEMMA LimitsOfTable == Kept(rows) => LimitsHold
<1> SUFFICES ASSUME Kept(rows) PROVE LimitsHold
    OBVIOUS
<1>1. \A S : Points(S) = PointsIn(rows, S)
    BY DEF PointsIn, Points, SumOf, FoldSet, MapThenFoldSet, SumOver, Sums, Pick
<1>2. \A i : /\ WindowIn(rows, i) = {j \in Pair(i) : i.at <= j.at /\ j.at <= i.at + Rules.pairWindow}
            /\ DayIn(rows, i) = {j \in Valid : j.earner = i.earner /\ utcDayStart(j.at) = utcDayStart(i.at)}
    BY DEF WindowIn, PairIn, DayIn, ValidIn, Valid, Pair
<1>3. PairCapHolds /\ DayCapsHold
    BY <1>1, <1>2 DEF Kept, PairLimit, PairCapHolds, DayLimit, DayCapsHold, ValidIn, Valid
<1>4. CooldownHolds /\ NobodyPraisesThemselves
    BY DEF Kept, GapLimit, Disinterested, CooldownHolds, NobodyPraisesThemselves, ValidIn, Valid
<1>5. QED
    BY <1>3, <1>4 DEF LimitsHold

\* A part of a table's points is no more than the whole.
LEMMA FewerPoints ==
    ASSUME NEW r, NEW S, IsFiniteSet(S), \A x \in S : r[x].points \in Nat, NEW T \in SUBSET S
    PROVE  PointsIn(r, T) \in Nat /\ PointsIn(r, S) \in Nat /\ PointsIn(r, T) <= PointsIn(r, S)
<1> DEFINE w == [x \in S |-> r[x].points]
           v == [x \in T |-> r[x].points]
<1>1. IsFiniteSet(T) /\ \A x \in T : v[x] = w[x] /\ v[x] \in Nat
    BY FS_Subset
<1>2. \A x \in S : w[x] \in Nat
    OBVIOUS
<1> HIDE DEF w, v
<1>3. SumOver(v, T) = SumOver(w, T)
    BY <1>1, SumCongruent
<1>4. SumOver(w, T) <= SumOver(w, S) /\ SumOver(w, S) \in Nat /\ SumOver(v, T) \in Nat
    BY <1>1, <1>2, SumPart, SumType
<1>5. QED
    BY <1>3, <1>4 DEF PointsIn, w, v

\* One more row adds its points.
LEMMA OneMorePoints ==
    ASSUME NEW r, NEW S, IsFiniteSet(S), NEW a, a \notin S, \A x \in S \cup {a} : r[x].points \in Nat
    PROVE  PointsIn(r, S \cup {a}) = PointsIn(r, S) + r[a].points
<1> DEFINE w == [x \in S \cup {a} |-> r[x].points]
           v == [x \in S |-> r[x].points]
<1>1. \A x \in S : w[x] = v[x]
    OBVIOUS
<1>2. \A x \in S \cup {a} : w[x] \in Nat
    OBVIOUS
<1>3. w[a] = r[a].points
    OBVIOUS
<1> HIDE DEF w, v
<1>4. SumOver(w, S) = SumOver(v, S)
    BY <1>1, SumCongruent
<1>5. SumOver(w, S \cup {a}) = SumOver(w, S) + w[a]
    BY <1>2, SumAdd
<1>6. QED
    BY <1>3, <1>4, <1>5 DEF PointsIn, w, v

\* Valid interactions, of any subset, are finitely many.
LEMMA FinitelyMany ==
    ASSUME NEW r, Table(r), NEW S, S \subseteq DOMAIN r
    PROVE  IsFiniteSet(S) /\ \A x \in S : r[x].points \in Nat
BY FS_Subset DEF Table, EventRows

\* Limits that hold keep holding when interactions lose their points.
LEMMA FewerKeepLimits ==
    ASSUME NEW r, NEW q, Kept(r), Table(q), ValidIn(q) \subseteq ValidIn(r),
           \A i \in ValidIn(q) : q[i].points = r[i].points
    PROVE  Kept(q)
<1>1. /\ ValidIn(q) \subseteq DOMAIN q /\ ValidIn(r) \subseteq DOMAIN r
      /\ Table(r) /\ \A i \in DOMAIN r : Proper(i)
    BY DEF ValidIn, Kept, Table
<1>2. ASSUME NEW S \in SUBSET ValidIn(q), NEW T \in SUBSET ValidIn(r), S \subseteq T
      PROVE  PointsIn(q, S) <= PointsIn(r, T) /\ PointsIn(q, S) \in Nat /\ PointsIn(r, T) \in Nat
    <2>1. IsFiniteSet(S) /\ IsFiniteSet(T) /\ \A x \in T : r[x].points \in Nat
        BY <1>1, <1>2, FinitelyMany
    <2>2. [x \in S |-> q[x].points] = [x \in S |-> r[x].points]
        OBVIOUS
    <2>3. PointsIn(q, S) = PointsIn(r, S)
        BY <2>2 DEF PointsIn
    <2>4. QED
        BY <1>2, <2>1, <2>3, FewerPoints
<1>3. PairLimit(q)
    <2> SUFFICES ASSUME Rules.perActorPairPoints > 0, NEW i \in ValidIn(q), ~isSelfAuthored(i.kind)
                 PROVE  PointsIn(q, WindowIn(q, i)) <= Rules.perActorPairPoints
        BY DEF PairLimit
    <2>1. PointsIn(r, WindowIn(r, i)) <= Rules.perActorPairPoints
        BY DEF Kept, PairLimit
    <2>2. /\ WindowIn(q, i) \subseteq ValidIn(q) /\ WindowIn(r, i) \subseteq ValidIn(r)
          /\ WindowIn(q, i) \subseteq WindowIn(r, i)
        BY DEF WindowIn, PairIn
    <2>3. QED
        BY <1>2, <2>1, <2>2, RulesAssumption
<1>4. DayLimit(q)
    <2> SUFFICES ASSUME NEW i \in ValidIn(q)
                 PROVE  /\ \/ Rules.dailyPointsPerParticipant = 0
                           \/ PointsIn(q, DayIn(q, i)) <= Rules.dailyPointsPerParticipant
                        /\ Cardinality(OfKind(DayIn(q, i), i.kind)) <= Rules.dailyEvents[i.kind]
        BY DEF DayLimit
    <2>1. /\ \/ Rules.dailyPointsPerParticipant = 0
             \/ PointsIn(r, DayIn(r, i)) <= Rules.dailyPointsPerParticipant
          /\ Cardinality(OfKind(DayIn(r, i), i.kind)) <= Rules.dailyEvents[i.kind]
        BY DEF Kept, DayLimit
    <2>2. /\ DayIn(q, i) \subseteq ValidIn(q) /\ DayIn(r, i) \subseteq ValidIn(r)
          /\ DayIn(q, i) \subseteq DayIn(r, i)
          /\ OfKind(DayIn(q, i), i.kind) \subseteq OfKind(DayIn(r, i), i.kind)
          /\ OfKind(DayIn(r, i), i.kind) \subseteq ValidIn(r)
        BY DEF DayIn, OfKind
    <2>3. IsFiniteSet(OfKind(DayIn(r, i), i.kind))
        BY <1>1, <2>2, FinitelyMany
    <2>4. /\ Cardinality(OfKind(DayIn(q, i), i.kind)) <= Cardinality(OfKind(DayIn(r, i), i.kind))
          /\ Cardinality(OfKind(DayIn(r, i), i.kind)) \in Nat
          /\ Cardinality(OfKind(DayIn(q, i), i.kind)) \in Nat
        BY <2>2, <2>3, FS_Subset, FS_CardinalityType
    <2>5. Rules.dailyEvents[i.kind] \in Nat
        BY <1>1, RulesAssumption DEF Proper
    <2>6. QED
        BY <1>2, <2>1, <2>2, <2>4, <2>5, RulesAssumption
<1>5. GapLimit(q) /\ Disinterested(q)
    BY DEF Kept, GapLimit, Disinterested
<1>6. QED
    BY <1>3, <1>4, <1>5 DEF Kept

\* A day starts before its moments.
LEMMA Days ==
    ASSUME NEW t \in Nat
    PROVE  utcDayStart(t) \in Nat /\ utcDayStart(t) <= t
BY RulesAssumption DEF utcDayStart

LatelyIn(r, i) == Since(PairIn(r, i), Back(i.at, Rules.pairWindow))
TodayIn(r, i) == Since({j \in ValidIn(r) : j.earner = i.earner}, utcDayStart(i.at))

\* What i may be credited with, as the limits read of table r when it is scored.
Affordable(r, i, n) ==
  /\ n \in Nat
  /\ isSelfAuthored(i.kind) \/ i.actor # i.earner
  /\ \/ isSelfAuthored(i.kind) \/ Rules.perActorPairPoints = 0
     \/ PointsIn(r, LatelyIn(r, i)) + n <= Rules.perActorPairPoints
  /\ \/ Rules.dailyPointsPerParticipant = 0
     \/ PointsIn(r, TodayIn(r, i)) + n <= Rules.dailyPointsPerParticipant
  /\ Cardinality(OfKind(TodayIn(r, i), i.kind)) < Rules.dailyEvents[i.kind]
  /\ \A j \in ValidIn(r) : j.actor = i.actor /\ j.kind = i.kind =>
        Rules.cooldown[i.kind] = 0 \/ i.at >= j.at + Rules.cooldown[i.kind]

\* Limits that hold keep holding when an interaction is credited with what it may be,
\* also when it is earlier than others that were credited before it.
LEMMA OneMoreKeepsLimits ==
    ASSUME NEW r, NEW i, NEW n, NEW q, Kept(r), i \in DOMAIN r, i \notin ValidIn(r), Affordable(r, i, n),
           q = [r EXCEPT ![i] = [status |-> "VALID", points |-> n]]
    PROVE  Kept(q)
<1>1. /\ Table(r) /\ \A j \in DOMAIN r : Proper(j) /\ r[j].points \in Nat
      /\ ValidIn(r) \subseteq DOMAIN r /\ n \in Nat /\ i.at \in Nat
    <2>1. Table(r) /\ (\A j \in DOMAIN r : Proper(j) /\ r[j].points \in Nat)
        BY DEF Kept, Table, EventRows
    <2>2. ValidIn(r) \subseteq DOMAIN r /\ n \in Nat
        BY DEF ValidIn, Affordable
    <2>3. QED
        BY <2>1, <2>2 DEF Proper
<1>2. /\ DOMAIN q = DOMAIN r /\ q[i].points = n /\ q[i].status = "VALID"
      /\ \A j \in DOMAIN r : j # i => q[j] = r[j]
    OBVIOUS
<1>3. ValidIn(q) = ValidIn(r) \cup {i} /\ Table(q)
    BY <1>1, <1>2 DEF ValidIn, Table, EventRows
\* A sum of the new table without i, and with it.
<1>4. ASSUME NEW S, NEW T \in SUBSET ValidIn(r), S \subseteq ValidIn(q), S \ {i} \subseteq T
      PROVE  /\ i \notin S => PointsIn(q, S) <= PointsIn(r, T)
             /\ PointsIn(q, S) <= PointsIn(r, T) + n
             /\ PointsIn(q, S) \in Nat /\ PointsIn(r, T) \in Nat
    <2> DEFINE R == S \ {i}
    <2>1. /\ R \subseteq ValidIn(r) /\ IsFiniteSet(R) /\ IsFiniteSet(T)
          /\ \A x \in T : r[x].points \in Nat
          /\ i \notin R /\ (S = R \/ S = R \cup {i}) /\ (i \notin S => S = R)
        BY <1>1, <1>3, <1>4, FinitelyMany
    <2>2. (\A x \in R : q[x].points = r[x].points) /\ (\A x \in R : q[x].points \in Nat)
        BY <1>1, <1>2, <2>1
    <2> HIDE DEF R
    <2>3. PointsIn(q, R) = PointsIn(r, R)
        <3>1. [x \in R |-> q[x].points] = [x \in R |-> r[x].points]
            BY <2>2
        <3>2. QED
            BY <3>1 DEF PointsIn
    <2>4. PointsIn(r, R) <= PointsIn(r, T) /\ PointsIn(r, R) \in Nat /\ PointsIn(r, T) \in Nat
        BY <1>4, <2>1, FewerPoints DEF R
    <2>5. \A x \in R \cup {i} : q[x].points \in Nat
        BY <1>1, <1>2, <2>2
    <2>6. PointsIn(q, R \cup {i}) = PointsIn(q, R) + n
        BY <1>2, <2>1, <2>5, OneMorePoints
    <2>7. S = R \/ PointsIn(q, S) = PointsIn(r, R) + n
        BY <2>1, <2>3, <2>6
    <2>8. CASE S = R
        BY <1>1, <2>3, <2>4, <2>8
    <2>9. CASE S # R
        BY <1>1, <2>1, <2>4, <2>7, <2>9
    <2>10. QED
        BY <2>8, <2>9
<1>5. PairLimit(q)
    <2> SUFFICES ASSUME Rules.perActorPairPoints > 0, NEW k \in ValidIn(q), ~isSelfAuthored(k.kind)
                 PROVE  PointsIn(q, WindowIn(q, k)) <= Rules.perActorPairPoints
        BY DEF PairLimit
    <2>1. WindowIn(q, k) \subseteq ValidIn(q) /\ Rules.perActorPairPoints \in Nat /\ Rules.pairWindow \in Nat
        BY RulesAssumption DEF WindowIn, PairIn
    <2>2. k \in DOMAIN r /\ k.at \in Nat /\ k.actor # k.earner
        BY <1>1, <1>3 DEF Kept, Disinterested, Affordable, Proper
    <2>3. CASE i \notin WindowIn(q, k)
        <3>1. k # i
            BY <1>3, <2>1, <2>2, <2>3 DEF WindowIn, PairIn
        <3>2. k \in ValidIn(r) /\ PointsIn(r, WindowIn(r, k)) <= Rules.perActorPairPoints
            BY <1>3, <3>1 DEF Kept, PairLimit
        <3>3. WindowIn(r, k) \in SUBSET ValidIn(r) /\ WindowIn(q, k) \ {i} \subseteq WindowIn(r, k)
            BY <1>3 DEF WindowIn, PairIn
        <3>4. PointsIn(q, WindowIn(q, k)) <= PointsIn(r, WindowIn(r, k))
            BY <1>4, <2>1, <2>3, <3>3
        <3>5. PointsIn(q, WindowIn(q, k)) \in Nat /\ PointsIn(r, WindowIn(r, k)) \in Nat
            BY <1>4, <2>1, <3>3
        <3>6. QED
            BY <2>1, <3>2, <3>4, <3>5
    <2>4. CASE i \in WindowIn(q, k)
        <3>1. i.earner = k.earner /\ i.actor = k.actor /\ k.at <= i.at /\ i.at <= k.at + Rules.pairWindow
            BY <2>4 DEF WindowIn, PairIn
        <3>2. ~isSelfAuthored(i.kind)
            BY <1>1, <2>2, <3>1 DEF Proper
        <3>3. PointsIn(r, LatelyIn(r, i)) + n <= Rules.perActorPairPoints
            BY <3>2, <2>1 DEF Affordable
        <3>4. LatelyIn(r, i) \in SUBSET ValidIn(r)
            BY DEF LatelyIn, Since, PairIn
        <3>5. ASSUME NEW j \in WindowIn(q, k) \ {i} PROVE j \in LatelyIn(r, i)
            <4>1. j \in ValidIn(r) /\ j.earner = i.earner /\ j.actor = i.actor /\ k.at <= j.at /\ j.at \in Nat
                BY <1>1, <1>3, <3>1, <3>5 DEF WindowIn, PairIn, Proper
            <4>2. j.at >= Back(i.at, Rules.pairWindow)
                BY <1>1, <2>1, <2>2, <3>1, <4>1 DEF Back
            <4>3. QED
                BY <4>1, <4>2 DEF LatelyIn, Since, PairIn
        <3>6. /\ PointsIn(q, WindowIn(q, k)) <= PointsIn(r, LatelyIn(r, i)) + n
              /\ PointsIn(q, WindowIn(q, k)) \in Nat /\ PointsIn(r, LatelyIn(r, i)) \in Nat
            BY <1>4, <2>1, <3>4, <3>5
        <3>7. QED
            BY <1>1, <2>1, <3>3, <3>6
    <2>5. QED
        BY <2>3, <2>4
<1>6. DayLimit(q)
    <2> SUFFICES ASSUME NEW k \in ValidIn(q)
                 PROVE  /\ \/ Rules.dailyPointsPerParticipant = 0
                           \/ PointsIn(q, DayIn(q, k)) <= Rules.dailyPointsPerParticipant
                        /\ Cardinality(OfKind(DayIn(q, k), k.kind)) <= Rules.dailyEvents[k.kind]
        BY DEF DayLimit
    <2>1. DayIn(q, k) \subseteq ValidIn(q) /\ Rules.dailyPointsPerParticipant \in Nat
        BY RulesAssumption DEF DayIn
    <2>2. /\ k \in DOMAIN r /\ Rules.dailyEvents[k.kind] \in Nat /\ Rules.dailyEvents[i.kind] \in Nat
          /\ k.at \in Nat
        BY <1>1, <1>3, RulesAssumption DEF Proper
    <2>3. CASE i \notin DayIn(q, k)
        <3>1. k # i
            BY <1>3, <2>3 DEF DayIn
        <3>2. k \in ValidIn(r) /\ DayIn(r, k) \in SUBSET ValidIn(r) /\ DayIn(q, k) = DayIn(r, k)
            BY <1>3, <2>3, <3>1 DEF DayIn
        <3>3. /\ \/ Rules.dailyPointsPerParticipant = 0
                 \/ PointsIn(r, DayIn(r, k)) <= Rules.dailyPointsPerParticipant
              /\ Cardinality(OfKind(DayIn(r, k), k.kind)) <= Rules.dailyEvents[k.kind]
            BY <3>2 DEF Kept, DayLimit
        <3>4. /\ PointsIn(q, DayIn(q, k)) <= PointsIn(r, DayIn(r, k))
              /\ PointsIn(q, DayIn(q, k)) \in Nat /\ PointsIn(r, DayIn(r, k)) \in Nat
            BY <1>4, <2>1, <2>3, <3>2
        <3>5. QED
            BY <2>1, <3>2, <3>3, <3>4
    <2>4. CASE i \in DayIn(q, k)
        <3>1. i.earner = k.earner /\ utcDayStart(i.at) = utcDayStart(k.at)
            BY <2>4 DEF DayIn
        <3>2. TodayIn(r, i) \in SUBSET ValidIn(r)
            BY DEF TodayIn, Since
        <3>3. ASSUME NEW j \in DayIn(q, k) \ {i} PROVE j \in TodayIn(r, i)
            <4>1. j \in ValidIn(r) /\ j.earner = i.earner /\ utcDayStart(j.at) = utcDayStart(i.at) /\ j.at \in Nat
                BY <1>1, <1>3, <3>1, <3>3 DEF DayIn, Proper
            <4>2. j.at >= utcDayStart(i.at)
                BY <4>1, <1>1, Days
            <4>3. QED
                BY <4>1, <4>2 DEF TodayIn, Since
        <3>4. \/ Rules.dailyPointsPerParticipant = 0
              \/ PointsIn(q, DayIn(q, k)) <= Rules.dailyPointsPerParticipant
            <4>1. /\ PointsIn(q, DayIn(q, k)) <= PointsIn(r, TodayIn(r, i)) + n
                  /\ PointsIn(q, DayIn(q, k)) \in Nat /\ PointsIn(r, TodayIn(r, i)) \in Nat
                BY <1>4, <2>1, <3>2, <3>3
            <4>2. QED
                BY <1>1, <2>1, <4>1 DEF Affordable
        <3>5. Cardinality(OfKind(DayIn(q, k), k.kind)) <= Rules.dailyEvents[k.kind]
            <4> DEFINE A == OfKind(TodayIn(r, i), i.kind)
                       B == OfKind(DayIn(q, k), k.kind)
            <4>1. IsFiniteSet(A) /\ Cardinality(A) \in Nat /\ i \notin A
                BY <1>1, <3>2, FinitelyMany, FS_CardinalityType DEF OfKind
            <4>2. CASE k.kind = i.kind
                <5>1. B \subseteq A \cup {i}
                    BY <3>3, <4>2 DEF OfKind
                <5>2. Cardinality(A) + 1 <= Rules.dailyEvents[k.kind]
                    BY <2>2, <4>1, <4>2 DEF Affordable
                <5> HIDE DEF A, B
                <5>3. IsFiniteSet(A \cup {i}) /\ Cardinality(A \cup {i}) = Cardinality(A) + 1
                    BY <4>1, FS_AddElement
                <5>4. Cardinality(B) \in Nat /\ Cardinality(B) <= Cardinality(A) + 1
                    BY <5>1, <5>3, FS_Subset, FS_CardinalityType
                <5>5. QED
                    BY <2>2, <4>1, <5>2, <5>4 DEF B
            <4>3. CASE k.kind # i.kind
                <5>1. /\ k \in ValidIn(r) /\ B \subseteq OfKind(DayIn(r, k), k.kind)
                      /\ OfKind(DayIn(r, k), k.kind) \subseteq ValidIn(r)
                    BY <1>3, <4>3 DEF OfKind, DayIn
                <5>2. Cardinality(OfKind(DayIn(r, k), k.kind)) <= Rules.dailyEvents[k.kind]
                    BY <5>1 DEF Kept, DayLimit
                <5> HIDE DEF B
                <5>3. IsFiniteSet(OfKind(DayIn(r, k), k.kind))
                    BY <1>1, <5>1, FinitelyMany
                <5>4. /\ Cardinality(B) <= Cardinality(OfKind(DayIn(r, k), k.kind)) /\ Cardinality(B) \in Nat
                      /\ Cardinality(OfKind(DayIn(r, k), k.kind)) \in Nat
                    BY <5>1, <5>3, FS_Subset, FS_CardinalityType
                <5>5. QED
                    BY <2>2, <5>2, <5>4 DEF B
            <4>4. QED
                BY <4>2, <4>3
        <3>6. QED
            BY <3>4, <3>5
    <2>5. QED
        BY <2>3, <2>4
<1>9. GapLimit(q)
    <2> SUFFICES ASSUME NEW j \in ValidIn(q), NEW k \in ValidIn(q),
                        j # k, j.actor = k.actor, j.kind = k.kind, j.at <= k.at
                 PROVE  k.at - j.at >= Rules.cooldown[j.kind]
        BY DEF GapLimit
    <2>1. j.at \in Nat /\ k.at \in Nat /\ Rules.cooldown[j.kind] \in Nat
        BY <1>1, <1>3, RulesAssumption DEF Proper
    <2>2. CASE j # i /\ k # i
        BY <1>3, <2>2 DEF Kept, GapLimit
    <2>3. CASE k = i
        <3>1. j \in ValidIn(r) /\ j.actor = i.actor /\ j.kind = i.kind
            BY <1>3, <2>3
        <3>2. Rules.cooldown[i.kind] = 0 \/ i.at >= j.at + Rules.cooldown[i.kind]
            BY <3>1 DEF Affordable
        <3>3. QED
            BY <2>1, <2>3, <3>1, <3>2
    <2>4. CASE j = i
        <3>1. k \in ValidIn(r) /\ k.actor = i.actor /\ k.kind = i.kind
            BY <1>3, <2>4
        <3>2. Rules.cooldown[i.kind] = 0 \/ i.at >= k.at + Rules.cooldown[i.kind]
            BY <3>1 DEF Affordable
        <3>3. QED
            BY <2>1, <2>4, <3>1, <3>2
    <2>5. QED
        BY <2>2, <2>3, <2>4
<1>7. Disinterested(q)
    BY <1>3 DEF Kept, Disinterested, Affordable
<1>10. QED
    BY <1>3, <1>5, <1>6, <1>9, <1>7 DEF Kept

\* A half, halved again: division by a power of two leaves a number.
LEMMA Halved ==
    ASSUME NEW p \in Nat, NEW k \in Nat
    PROVE  p \div (2 ^ k) \in Nat
<1>1. IsFiniteSet(1..k) /\ Cardinality(1..k) = k
    BY FS_Interval
<1>2. IsFiniteSet(SUBSET (1..k)) /\ Cardinality(SUBSET (1..k)) = 2 ^ k
    BY <1>1, FS_SUBSET
<1>3. 2 ^ k \in Nat \ {0}
    BY <1>2, FS_CardinalityType, FS_EmptySet
<1> DEFINE d == 2 ^ k
<1> HIDE DEF d
<1>4. d \in Nat \ {0}
    BY <1>3 DEF d
<1>5. p \div d \in Nat
    BY <1>4
<1>6. QED
    BY <1>5 DEF d

\* What is left of an award within a limit.
LEMMA WithinLimit ==
    ASSUME NEW p \in Nat, NEW limit \in Nat, NEW spent \in Nat
    PROVE  /\ Within(p, limit, spent) \in Nat /\ Within(p, limit, spent) <= p
           /\ limit = 0 \/ Within(p, limit, spent) = 0 \/ spent + Within(p, limit, spent) <= limit
BY DEF Within

\* A finite set of numbers that is not empty has a greatest element.
LEMMA MaxOfFinite ==
    ASSUME NEW S, IsFiniteSet(S), S # {}, S \subseteq Nat
    PROVE  Max(S) \in S /\ \A x \in S : x <= Max(S)
<1> DEFINE w == [x \in S |-> x]
           U == {n \in Nat : \A x \in S : x <= n}
<1>1. \A x \in S : w[x] \in Nat /\ w[x] = x
    OBVIOUS
<1> HIDE DEF w
<1>2. ASSUME NEW x \in S PROVE x <= SumOver(w, S)
    <2>1. SumOver(w, {x}) <= SumOver(w, S)
        BY <1>1, SumPart
    <2>2. SumOver(w, {} \cup {x}) = SumOver(w, {}) + w[x]
        <3>1. IsFiniteSet({}) /\ x \notin {} /\ \A y \in {} \cup {x} : w[y] \in Nat
            BY <1>1, FS_EmptySet
        <3>2. QED
            BY <3>1, SumAdd
    <2>3. SumOver(w, {x}) = x
        BY <1>1, <2>2, SumEmpty
    <2>4. QED
        BY <2>1, <2>3
<1>3. SumOver(w, S) \in U
    BY <1>1, <1>2, SumType
<1>4. PICK m \in U : \A n \in U : m <= n
    <2> HIDE DEF U
    <2>1. U \subseteq Nat
        BY DEF U
    <2>2. QED
        BY <1>3, <2>1, LeastNumber
<1>5. m \in S
    <2> SUFFICES ASSUME m \notin S PROVE FALSE
        OBVIOUS
    <2>1. \A x \in S : x < m
        OBVIOUS
    <2>2. m \in Nat /\ \A x \in S : x <= m - 1
        BY <2>1
    <2>3. m # 0
        <3>1. PICK x \in S : TRUE
            OBVIOUS
        <3>2. QED
            BY <2>1, <3>1
    <2>4. m - 1 \in U
        BY <2>2, <2>3
    <2>5. QED
        BY <1>4, <2>2, <2>4
<1>6. \E x \in S : \A y \in S : x >= y
    BY <1>5
<1>7. Max(S) \in S /\ \A y \in S : Max(S) >= y
    BY <1>6 DEF Max
<1>8. QED
    BY <1>7

\* What the queries of scoring return, as the limits read of the table.
LEMMA QueriesReadTable ==
    ASSUME NEW i
    PROVE  /\ Valid = ValidIn(rows) /\ Pair(i) = PairIn(rows, i)
           /\ \A S : Points(S) = PointsIn(rows, S)
<1>1. \A S : Points(S) = PointsIn(rows, S)
    BY DEF PointsIn, Points, SumOf, FoldSet, MapThenFoldSet, SumOver, Sums, Pick
<1>2. QED
    BY <1>1 DEF PairIn, ValidIn, Valid, Pair

\* The caps leave what is affordable, and nothing too soon or too often.
LEMMA CapsAfford ==
    ASSUME Kept(rows), NEW i \in DOMAIN rows, i \notin Valid, applyCaps(i) # 0
    PROVE  /\ applyCaps(i) \in Nat /\ ~tooSoon(i)
           /\ Cardinality(OfKind(TodayIn(rows, i), i.kind)) < Rules.dailyEvents[i.kind]
           /\ \/ isSelfAuthored(i.kind) \/ Rules.perActorPairPoints = 0
              \/ PointsIn(rows, LatelyIn(rows, i)) + applyCaps(i) <= Rules.perActorPairPoints
           /\ \/ Rules.dailyPointsPerParticipant = 0
              \/ PointsIn(rows, TodayIn(rows, i)) + applyCaps(i) <= Rules.dailyPointsPerParticipant
<1> DEFINE today == TodayIn(rows, i)
           pair == LatelyIn(rows, i)
           ofSource == {j \in Valid : j.source = i.source}
           face == Rules.points[i.kind]
           faded == diminishingMultiplier(face, Cardinality(pair))
           paired == IF isSelfAuthored(i.kind) THEN face
                     ELSE Within(faded, Rules.perActorPairPoints, PointsIn(rows, pair))
           sourced == Within(paired, Rules.perSourceEntityPoints, PointsIn(rows, ofSource))
           banked == Within(sourced, Rules.dailyPointsPerParticipant, PointsIn(rows, today))
<1>1. /\ applyCaps(i) = banked /\ ~tooSoon(i)
      /\ ~(Cardinality(OfKind(today, i.kind)) >= Rules.dailyEvents[i.kind])
    <2>1. /\ Since(Pair(i), Back(i.at, Rules.pairWindow)) = pair
          /\ Since({j \in Valid : j.earner = i.earner}, utcDayStart(i.at)) = today
        BY QueriesReadTable DEF TodayIn, LatelyIn
    <2>2. /\ Points(pair) = PointsIn(rows, pair) /\ Points(today) = PointsIn(rows, today)
          /\ Points(ofSource) = PointsIn(rows, ofSource)
        BY QueriesReadTable
    <2> HIDE DEF today, pair
    <2>3. QED
        BY <2>1, <2>2 DEF applyCaps
<1>2. /\ Table(rows) /\ Proper(i) /\ today \subseteq DOMAIN rows /\ pair \subseteq DOMAIN rows
      /\ ofSource \subseteq DOMAIN rows /\ OfKind(today, i.kind) \subseteq DOMAIN rows
    BY DEF Kept, Table, EventRows, TodayIn, LatelyIn, ValidIn, Valid, PairIn, Since, OfKind
<1>3. /\ face \in Nat /\ Rules.dailyEvents[i.kind] \in Nat
      /\ Rules.perActorPairPoints \in Nat /\ Rules.perSourceEntityPoints \in Nat
      /\ Rules.dailyPointsPerParticipant \in Nat /\ Rules.fullValueInteractions \in Nat
    BY <1>2, RulesAssumption DEF Proper
<1> HIDE DEF today, pair, ofSource
<1>4. /\ IsFiniteSet(today) /\ IsFiniteSet(pair) /\ IsFiniteSet(ofSource)
      /\ Cardinality(pair) \in Nat /\ Cardinality(OfKind(today, i.kind)) \in Nat
    <2>1. \A S \in SUBSET DOMAIN rows : IsFiniteSet(S) /\ Cardinality(S) \in Nat
        BY <1>2, FinitelyMany, FS_CardinalityType
    <2>2. QED
        BY <1>2, <2>1
<1>5. \A S \in SUBSET DOMAIN rows : PointsIn(rows, S) \in Nat
    BY <1>2, FinitelyMany, FewerPoints
<1>6. faded \in Nat
    <2>1. CASE Cardinality(pair) < Rules.fullValueInteractions
        BY <1>3, <2>1 DEF diminishingMultiplier
    <2>2. CASE ~(Cardinality(pair) < Rules.fullValueInteractions)
        <3>1. Cardinality(pair) - Rules.fullValueInteractions + 1 \in Nat
            BY <1>3, <1>4, <2>2
        <3>2. QED
            BY <1>3, <2>2, <3>1, Halved DEF diminishingMultiplier
    <2>3. QED
        BY <2>1, <2>2
<1> HIDE DEF face, faded
<1>7. /\ paired \in Nat
      /\ \/ isSelfAuthored(i.kind) \/ Rules.perActorPairPoints = 0 \/ paired = 0
         \/ PointsIn(rows, pair) + paired <= Rules.perActorPairPoints
    BY <1>2, <1>3, <1>5, <1>6, WithinLimit
<1> HIDE DEF paired
<1>8. sourced \in Nat /\ sourced <= paired
    BY <1>2, <1>3, <1>5, <1>7, WithinLimit
<1> HIDE DEF sourced
<1>9. /\ banked \in Nat /\ banked <= sourced
      /\ \/ Rules.dailyPointsPerParticipant = 0 \/ banked = 0
         \/ PointsIn(rows, today) + banked <= Rules.dailyPointsPerParticipant
    BY <1>2, <1>3, <1>5, <1>8, WithinLimit
<1> HIDE DEF banked
<1>10. PointsIn(rows, pair) \in Nat /\ PointsIn(rows, today) \in Nat
    BY <1>2, <1>5
<1>11. /\ \/ isSelfAuthored(i.kind) \/ Rules.perActorPairPoints = 0
          \/ PointsIn(rows, pair) + banked <= Rules.perActorPairPoints
       /\ \/ Rules.dailyPointsPerParticipant = 0
          \/ PointsIn(rows, today) + banked <= Rules.dailyPointsPerParticipant
    BY <1>1, <1>3, <1>7, <1>8, <1>9, <1>10
<1>12. Cardinality(OfKind(today, i.kind)) < Rules.dailyEvents[i.kind]
    BY <1>1, <1>3, <1>4
<1>13. QED
    BY <1>1, <1>9, <1>11, <1>12 DEF today, pair

\* Nothing is too soon that is not sooner than the cooldown after any other.
LEMMA NotTooSoon ==
    ASSUME Kept(rows), NEW i \in DOMAIN rows, ~tooSoon(i), NEW j \in ValidIn(rows), j # i,
           j.actor = i.actor, j.kind = i.kind
    PROVE  Rules.cooldown[i.kind] = 0 \/ i.at >= j.at + Rules.cooldown[i.kind]
<1> DEFINE same == {k \in Valid \ {i} : k.actor = i.actor /\ k.kind = i.kind}
           times == {k.at : k \in same}
<1>1. same \subseteq DOMAIN rows /\ j \in same /\ j.at \in times
    BY DEF Valid, ValidIn
<1>2. Table(rows) /\ \A k \in DOMAIN rows : k.at \in Nat
    BY DEF Kept, Table, EventRows, Proper
<1>3. i.at \in Nat /\ j.at \in Nat /\ Rules.cooldown[i.kind] \in Nat
    BY <1>1, <1>2, RulesAssumption DEF Kept, Table, EventRows, Proper
<1>4. Rules.cooldown[i.kind] > 0 => ~(i.at < Max(times) + Rules.cooldown[i.kind])
    BY <1>1 DEF tooSoon
<1>5. IsFiniteSet(times) /\ times \subseteq Nat
    <2>1. IsFiniteSet(same)
        BY <1>1, <1>2, FinitelyMany
    <2> HIDE DEF same
    <2>2. IsFiniteSet(times)
        <3> DEFINE f == [k \in same |-> k.at]
        <3>1. f \in Surjection(same, times)
            BY DEF Surjection
        <3>2. QED
            BY <2>1, <3>1, FS_Surjection
    <2>3. QED
        BY <1>1, <1>2, <2>2
<1> HIDE DEF times
<1>6. Max(times) \in Nat /\ j.at <= Max(times)
    BY <1>1, <1>5, MaxOfFinite
<1>7. QED
    BY <1>3, <1>4, <1>6

\* Rounding a part of an award leaves no more than the award.
LEMMA ReducedIsLess ==
    ASSUME NEW p \in Nat, NEW k \in 0..16
    PROVE  reduced(p, k) \in Nat /\ reduced(p, k) <= p
BY DEF reduced

\* An interaction is credited only with what the limits afford.
LEMMA VerdictAffords ==
    ASSUME Kept(rows), NEW i \in DOMAIN rows, i \notin ValidIn(rows), Verdict(i).status = "VALID"
    PROVE  Affordable(rows, i, Verdict(i).points)
<1> DEFINE signals == assessEventRisk(i)
           band == riskBand(openRisk(i.earner, Flagged(i)))
           cuts == {4} \cup {s.cut : s \in signals}
           kept == Min(cuts)
           caps == applyCaps(i)
           part == kept * riskMultiplier(band)
           points == reduced(caps, part)
<1>1. /\ kept # 0 /\ points # 0 /\ Verdict(i).points = points
    BY DEF Verdict
<1>2. cuts \subseteq {0, 1, 2, 4} /\ 4 \in cuts
    <2>1. \A s \in signals : s.cut \in {0, 1, 2, 4}
        BY DEF assessEventRisk, Signal
    <2> HIDE DEF signals
    <2>2. QED
        BY <2>1
<1>3. ~isSelfAuthored(i.kind) /\ i.actor = i.earner => 0 \in cuts
    BY DEF assessEventRisk, Signal
<1> HIDE DEF cuts
<1>4. kept \in cuts /\ \A c \in cuts : kept <= c
    <2>1. cuts \subseteq Nat
        BY <1>2
    <2>2. \E n \in cuts : \A c \in cuts : n <= c
        BY <1>2, <2>1, LeastNumber
    <2>3. QED
        BY <2>2 DEF Min
<1> HIDE DEF kept
<1>5. kept \in {1, 2, 4}
    BY <1>1, <1>2, <1>4
<1>6. isSelfAuthored(i.kind) \/ i.actor # i.earner
    BY <1>1, <1>2, <1>3, <1>4
<1>7. riskMultiplier(band) \in {0, 2, 4}
    <2>1. band \in {0, 1, 2, 3}
        BY DEF riskBand
    <2> HIDE DEF band
    <2>2. QED
        BY <2>1 DEF riskMultiplier
<1> HIDE DEF band
<1>8. part \in 0..16
    BY <1>5, <1>7
<1> HIDE DEF part
<1>9. caps # 0
    <2>1. ASSUME caps = 0 PROVE points = 0
        BY <1>8, <2>1 DEF reduced
    <2>2. QED
        BY <1>1, <2>1
<1>10. /\ caps \in Nat /\ ~tooSoon(i)
       /\ Cardinality(OfKind(TodayIn(rows, i), i.kind)) < Rules.dailyEvents[i.kind]
       /\ \/ isSelfAuthored(i.kind) \/ Rules.perActorPairPoints = 0
          \/ PointsIn(rows, LatelyIn(rows, i)) + caps <= Rules.perActorPairPoints
       /\ \/ Rules.dailyPointsPerParticipant = 0
          \/ PointsIn(rows, TodayIn(rows, i)) + caps <= Rules.dailyPointsPerParticipant
    BY <1>9, CapsAfford, QueriesReadTable
<1> HIDE DEF caps
<1>11. points \in Nat /\ points <= caps
    BY <1>8, <1>10, ReducedIsLess
<1> HIDE DEF points
<1>12. PointsIn(rows, LatelyIn(rows, i)) \in Nat /\ PointsIn(rows, TodayIn(rows, i)) \in Nat
    <2>1. Table(rows) /\ LatelyIn(rows, i) \subseteq DOMAIN rows /\ TodayIn(rows, i) \subseteq DOMAIN rows
        BY DEF Kept, LatelyIn, TodayIn, Since, PairIn, ValidIn
    <2>2. QED
        BY <2>1, FinitelyMany, FewerPoints
<1>13. Rules.perActorPairPoints \in Nat /\ Rules.dailyPointsPerParticipant \in Nat
    BY RulesAssumption
<1>14. /\ \/ isSelfAuthored(i.kind) \/ Rules.perActorPairPoints = 0
          \/ PointsIn(rows, LatelyIn(rows, i)) + points <= Rules.perActorPairPoints
       /\ \/ Rules.dailyPointsPerParticipant = 0
          \/ PointsIn(rows, TodayIn(rows, i)) + points <= Rules.dailyPointsPerParticipant
    BY <1>10, <1>11, <1>12, <1>13
<1>15. \A j \in ValidIn(rows) : j.actor = i.actor /\ j.kind = i.kind =>
         Rules.cooldown[i.kind] = 0 \/ i.at >= j.at + Rules.cooldown[i.kind]
    BY <1>10, NotTooSoon
<1>16. QED
    BY <1>1, <1>6, <1>10, <1>11, <1>14, <1>15 DEF Affordable

\* A new row is of something that happened, is pending, and has no points.
LEMMA RecordKeeps ==
    ASSUME Kept(rows), NEW i, Proper(i), insertPendingEvent(i)
    PROVE  Kept(rows')
<1>1. CASE rows' = rows
    BY <1>1
<1>2. CASE \A j \in DOMAIN rows : [j EXCEPT !.at = i.at] # i
    <2> DEFINE q == [j \in DOMAIN rows \cup {i} |->
                       IF j = i THEN [status |-> "PENDING", points |-> 0] ELSE rows[j]]
    <2>1. rows' = q
        BY <1>2 DEF insertPendingEvent
    <2>2. IsFiniteSet(DOMAIN rows \cup {i}) /\ DOMAIN q = DOMAIN rows \cup {i}
        BY FS_AddElement DEF Kept, Table, EventRows
    <2>3. Table(q)
        BY <2>2 DEF Kept, Table, EventRows
    <2>4. ValidIn(q) \subseteq ValidIn(rows) /\ \A j \in ValidIn(q) : q[j].points = rows[j].points
        BY DEF ValidIn
    <2> HIDE DEF q
    <2>5. QED
        BY <2>1, <2>3, <2>4, FewerKeepLimits
<1>3. QED
    BY <1>1, <1>2 DEF insertPendingEvent

\* An empty table is within the limits.
LEMMA KeptInit == ScoringInit => Kept(rows)
<1> SUFFICES ASSUME ScoringInit PROVE Kept(rows)
    OBVIOUS
<1>1. DOMAIN rows = {} /\ ValidIn(rows) = {}
    BY DEF ScoringInit, ValidIn
<1>2. QED
    BY <1>1, FS_EmptySet DEF Kept, Table, EventRows, PairLimit, DayLimit, GapLimit, Disinterested

\* The inductive step.
LEMMA KeptNext == Kept(rows) /\ [ScoringNext]_scoringVars => Kept(rows')
<1> SUFFICES ASSUME Kept(rows), [ScoringNext]_scoringVars PROVE Kept(rows')
    OBVIOUS
<1>1. ASSUME NEW i \in Interaction, recordEvent(i) PROVE Kept(rows')
    <2>1. \A j \in Interaction : /\ j.kind \in DOMAIN Rules.points /\ j.at \in Nat
                                 /\ isSelfAuthored(j.kind) => j.actor = j.earner
        BY RulesAssumption
    <2>2. Proper(i)
        BY <2>1 DEF Proper
    <2>3. insertPendingEvent(i)
        BY <1>1 DEF recordEvent
    <2>4. QED
        BY <2>2, <2>3, RecordKeeps
<1>2. ASSUME NEW i \in DOMAIN rows, scoreEvent(i) PROVE Kept(rows')
    <2>1. rows' = [rows EXCEPT ![i] = Verdict(i)] /\ i \notin ValidIn(rows)
        BY <1>2 DEF scoreEvent, ValidIn
    <2>2. CASE Verdict(i).status = "VALID"
        <3>1. Verdict(i) = [status |-> "VALID", points |-> Verdict(i).points]
            BY <2>2 DEF Verdict
        <3>2. Affordable(rows, i, Verdict(i).points)
            BY <2>1, <2>2, VerdictAffords
        <3>3. QED
            BY <2>1, <3>1, <3>2, OneMoreKeepsLimits
    <2>3. CASE Verdict(i).status # "VALID"
        <3>1. DOMAIN rows' = DOMAIN rows /\ \A j \in DOMAIN rows : j # i => rows'[j] = rows[j]
            BY <2>1
        <3>2. rows'[i] = Verdict(i)
            BY <2>1
        <3>3. Verdict(i) \in EventRows
            <4>1. Verdict(i) \in {[status |-> "REJECTED", points |-> 0], [status |-> "PENDING_REVIEW", points |-> 0]}
                BY <2>3 DEF Verdict
            <4>2. QED
                BY <4>1 DEF EventRows
        <3>4. Table(rows')
            BY <3>1, <3>2, <3>3 DEF Kept, Table
        <3>5. /\ ValidIn(rows') \subseteq ValidIn(rows)
              /\ \A j \in ValidIn(rows') : rows'[j].points = rows[j].points
            BY <2>3, <3>1, <3>2 DEF ValidIn
        <3>6. QED
            BY <3>4, <3>5, FewerKeepLimits
    <2>4. QED
        BY <2>2, <2>3
<1>3. ASSUME NEW i \in DOMAIN rows, reverseEvent(i) PROVE Kept(rows')
    <2>1. /\ DOMAIN rows' = DOMAIN rows /\ \A j \in DOMAIN rows : j # i => rows'[j] = rows[j]
          /\ rows'[i] = [rows[i] EXCEPT !.status = "REVERSED"]
        BY <1>3 DEF reverseEvent
    <2>2. DOMAIN rows[i] = DOMAIN rows[i] /\ rows[i].status \in {"VALID", "PENDING_REVIEW"}
        BY <1>3 DEF reverseEvent
    <2>3. rows'[i].points = rows[i].points /\ rows'[i].status # "VALID"
        BY <2>1, <2>2
    <2>4. Table(rows')
        BY <2>1, <2>3 DEF Kept, Table, EventRows
    <2>5. /\ ValidIn(rows') \subseteq ValidIn(rows)
          /\ \A j \in ValidIn(rows') : rows'[j].points = rows[j].points
        BY <2>1, <2>3 DEF ValidIn
    <2>6. QED
        BY <2>4, <2>5, FewerKeepLimits
<1>4. ASSUME NEW d \in due, NEW time \in AwardedAt, awardChallenge(d, time) PROVE Kept(rows')
    <2>1. PICK kind \in ChallengeKinds :
             insertPendingEvent([kind |-> kind, actor |-> d.earner, earner |-> d.earner,
                                 source |-> <<d.id, d.start>>, at |-> time])
        BY <1>4 DEF awardChallenge, ChallengeKinds
    <2>2. Proper([kind |-> kind, actor |-> d.earner, earner |-> d.earner,
                  source |-> <<d.id, d.start>>, at |-> time])
        BY RulesAssumption DEF Proper
    <2>3. QED
        BY <2>1, <2>2, RecordKeeps
<1>5. ASSUME NEW i, releaseHeldEvents(i.earner) PROVE Kept(rows')
    <2>1. /\ DOMAIN rows' = DOMAIN rows
          /\ \A j \in DOMAIN rows : rows'[j] = rows[j] \/ rows'[j] = [rows[j] EXCEPT !.status = "PENDING"]
        BY <1>5 DEF releaseHeldEvents
    <2>2. ASSUME NEW j \in DOMAIN rows
          PROVE  /\ rows'[j] \in EventRows /\ rows'[j].points = rows[j].points
                 /\ rows'[j].status = "VALID" => rows[j].status = "VALID"
        <3>1. rows[j] \in EventRows
            BY DEF Kept, Table
        <3>2. QED
            BY <2>1, <3>1 DEF EventRows
    <2>3. Table(rows')
        BY <2>1, <2>2 DEF Kept, Table
    <2>4. /\ ValidIn(rows') \subseteq ValidIn(rows)
          /\ \A j \in ValidIn(rows') : rows'[j].points = rows[j].points
        BY <2>1, <2>2 DEF ValidIn
    <2>5. QED
        BY <2>3, <2>4, FewerKeepLimits
<1>6. ASSUME UNCHANGED rows PROVE Kept(rows')
    BY <1>6
<1>7. QED
    BY <1>1, <1>2, <1>3, <1>4, <1>5, <1>6
    DEF ScoringNext, scoringVars, resolveRiskEvents, sweepClusterRisk, flagParticipant

\* Whatever is scored late, held, released or undone, in whatever order, what is
\* credited in the end keeps every limit of the rules (scoring.ts:332, risk.ts:60).
THEOREM LimitsAlwaysHold == ScoringSpec => []LimitsHold
<1>1. ScoringSpec => []Kept(rows)
    <2>1. Kept(rows) /\ [ScoringNext]_scoringVars => Kept(rows)'
        BY KeptNext
    <2>2. QED
        BY <2>1, KeptInit, PTL DEF ScoringSpec
<1>2. QED
    BY <1>1, LimitsOfTable, PTL
===============================================================================
