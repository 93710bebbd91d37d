------------------------------- MODULE Payments -------------------------------
(***************************************************************************)
(* Stripe webhook, subscriptions and contest entry fees                    *)
(* (apps/relay/src/monetization-routes.ts, monetization-repository.ts and  *)
(* the join, review and entry payment parts of contest/routes.ts,          *)
(* contest/admin-routes.ts and contest/repository.ts).                     *)
(*                                                                         *)
(* Stripe delivers each event until it is answered with 200, any number of *)
(* times and in any order, to any instance.  Every SQL statement outside a *)
(* transaction is a step of its own.                                       *)
(***************************************************************************)
EXTENDS Naturals, FiniteSets

CONSTANTS
  Event,      \* [about, at, says]: what it is about, Stripe's stamp, its content
  Checkout,   \* contest entry Checkout sessions; other events are about
  Subscription, \* subscriptions
  Payer,      \* identities
  PayerOf,    \* the identity in the metadata of a session or subscription
  Call,       \* webhook requests in progress
  MaxFaults   \* bound: calls that fail, and joins that are cut short

ASSUME PaymentsAssumption ==
  /\ \A e \in Event : /\ e.about \in Checkout \cup Subscription
                      /\ e.at \in Nat
                      /\ e.about \in Checkout => e.says \in {"paid", "unpaid", "async_failed"}
                      /\ e.about \in Subscription => e.says \in {"active", "canceled"}
  /\ Checkout \cap Subscription = {}
  /\ PayerOf \in [Checkout \cup Subscription -> Payer]
  /\ MaxFaults \in Nat

VARIABLES
  acked,      \* events answered with 200: Stripe stops sending them
  claimed,    \* stripe_events
  call,       \* per request: its stage and event
  users,      \* users.subscription_status
  sub,        \* subscriptions: [at |-> last_event_at, says |-> status], or None
  offered,    \* Checkout sessions created at Stripe
  joining,    \* those whose contest_entry_payments row is still to be inserted
  payment,    \* contest_entry_payments.status
  fee,        \* contest_participants.payment_status
  standing,   \* contest_participants.eligibility_status
  applied,    \* history: events whose handling was completed
  interrupted, \* history: events claimed by a request that then failed
  pardoned,   \* history: identities an administrator reinstated
  banned,     \* history: those disqualified and not reinstated since
  faults

payVars == <<acked, claimed, call, users, sub, offered, joining, payment, fee,
             standing, applied, interrupted, pardoned, banned, faults>>
entryVars == <<offered, joining, payment, fee, standing, pardoned, banned>>

None == [at |-> 0, says |-> "none"]
Idle == [stage |-> "idle"]
At(stage, e) == [stage |-> stage, event |-> e]

PaymentsInit ==
  /\ acked = {} /\ claimed = {} /\ applied = {} /\ interrupted = {}
  /\ call = [i \in Call |-> Idle]
  /\ users = [p \in Payer |-> "none"]
  /\ sub = [s \in Subscription |-> None]
  /\ offered = {} /\ joining = {} /\ pardoned = {} /\ banned = {}
  /\ payment = [c \in Checkout |-> "absent"]
  /\ fee = [p \in Payer |-> "absent"]
  /\ standing = [p \in Payer |-> "absent"]
  /\ faults = 0

-------------------------------------------------------------------------------
(* The webhook. *)

\* Stripe calls, for the first time or again.  It reports on sessions it created.
Deliver(i, e) ==
  /\ call[i] = Idle
  /\ e.about \in Subscription \cup offered
  /\ call' = [call EXCEPT ![i] = At("claim", e)]
  /\ UNCHANGED <<acked, claimed, users, sub, applied, interrupted, faults, entryVars>>

\* claimStripeEvent: insert ... on conflict do nothing, committed by itself.
claimStripeEvent(i) ==
  /\ call[i].stage = "claim"
  /\ LET e == call[i].event
     IN /\ claimed' = claimed \cup {e}
        /\ call' = [call EXCEPT ![i] =
                      At(IF e \in claimed THEN "reply" ELSE "handle", e)]
  /\ UNCHANGED <<acked, users, sub, applied, interrupted, faults, entryVars>>

\* The first statement of upsertSubscription: users is overwritten in any case.
ensureUser(i) ==
  /\ call[i].stage = "handle"
  /\ call[i].event.about \in Subscription
  /\ users' = [users EXCEPT ![PayerOf[call[i].event.about]] = call[i].event.says]
  /\ call' = [call EXCEPT ![i].stage = "write"]
  /\ UNCHANGED <<acked, claimed, sub, applied, interrupted, faults, entryVars>>

\* No guard on the order.
Newer_Always(e, row) == TRUE

\* where excluded.last_event_at >= subscriptions.last_event_at
Newer(e, row) == e.at >= row.at

\* Its second statement.
upsertSubscription(i) ==
  /\ call[i].stage = "write"
  /\ LET e == call[i].event
     IN /\ sub' = IF Newer(e, sub[e.about])
                  THEN [sub EXCEPT ![e.about] = [at |-> e.at, says |-> e.says]]
                  ELSE sub
        /\ applied' = applied \cup {e}
        /\ call' = [call EXCEPT ![i].stage = "reply"]
  /\ UNCHANGED <<acked, claimed, users, interrupted, faults, entryVars>>

\* Every completed session counts as paid.
Outcome_Completed(e) == IF e.says \in {"paid", "unpaid"} THEN "paid" ELSE "failed"

\* "paid" is what Stripe says of a completed session: completing it is not paying.
Outcome(e) == IF e.says = "paid" THEN "paid" ELSE "failed"

\* A later failure overrides a payment.
Settled_OverPaid(status, f, s) ==
  IF f # "absent" /\ status = "failed"
  THEN [fee |-> "failed", standing |-> "pending_payment"]
  ELSE [fee |-> IF f = "absent" THEN f ELSE status,
        standing |-> IF f = "absent" \/ s = "disqualified" THEN s ELSE "eligible"]

\* Whoever pays is eligible.
Settled_Pardons(status, f, s) ==
  CASE f # "absent" /\ status = "paid" -> [fee |-> "paid", standing |-> "eligible"]
    [] f \notin {"absent", "paid"} /\ status = "failed" ->
         [fee |-> "failed", standing |-> "pending_payment"]
    [] OTHER -> [fee |-> f, standing |-> s]

\* The participant update of settleEntryPayment; no row, no update.
Settled(status, f, s) ==
  CASE f = "absent" -> [fee |-> f, standing |-> s]
    [] f # "absent" /\ status = "paid" ->
         [fee |-> "paid", standing |-> IF s = "disqualified" THEN s ELSE "eligible"]
    [] f # "absent" /\ status = "failed" /\ f # "paid" ->
         [fee |-> "failed", standing |-> "pending_payment"]
    [] OTHER -> [fee |-> f, standing |-> s]

\* One transaction: the first event of a session settles it, whether its row is
\* there or not; a later one changes nothing.
settleEntryPayment(i) ==
  /\ call[i].stage = "handle"
  /\ call[i].event.about \in Checkout
  /\ LET e == call[i].event
         p == PayerOf[e.about]
         after == Settled(Outcome(e), fee[p], standing[p])
     IN /\ IF payment[e.about] \in {"absent", "created"}
           THEN /\ payment' = [payment EXCEPT ![e.about] = Outcome(e)]
                /\ fee' = [fee EXCEPT ![p] = after.fee]
                /\ standing' = [standing EXCEPT ![p] = after.standing]
           ELSE UNCHANGED <<payment, fee, standing>>
        /\ applied' = applied \cup {e}
        /\ call' = [call EXCEPT ![i].stage = "reply"]
  /\ UNCHANGED <<acked, claimed, users, sub, interrupted, faults, offered, joining,
                 pardoned, banned>>

\* 200, for an event handled now and for a duplicate alike.
Answer(i) ==
  /\ call[i].stage = "reply"
  /\ acked' = acked \cup {call[i].event}
  /\ call' = [call EXCEPT ![i] = Idle]
  /\ UNCHANGED <<claimed, users, sub, applied, interrupted, faults, entryVars>>

\* A claim that fails is taken for a duplicate.
FailCall_Skip(i) ==
  /\ call[i] # Idle
  /\ faults < MaxFaults
  /\ faults' = faults + 1
  /\ call' = [call EXCEPT ![i] = Idle]
  /\ acked' = IF call[i].stage = "claim" THEN acked \cup {call[i].event} ELSE acked
  /\ UNCHANGED <<claimed, users, sub, applied, interrupted, entryVars>>

\* A statement fails, and the answer is 500; or the instance stops, or the answer
\* is lost.  The claim stays.
FailCall(i) ==
  /\ call[i] # Idle
  /\ faults < MaxFaults
  /\ faults' = faults + 1
  /\ interrupted' = IF call[i].stage \in {"handle", "write"}
                    THEN interrupted \cup {call[i].event} ELSE interrupted
  /\ call' = [call EXCEPT ![i] = Idle]
  /\ UNCHANGED <<acked, claimed, users, sub, applied, entryVars>>

-------------------------------------------------------------------------------
(* Entering a paid contest. *)

\* Registers the identity, or returns its row unchanged, and opens a session
\* unless the fee is paid; the row for the session is inserted afterwards.
Join(c) ==
  LET p == PayerOf[c]
  IN /\ c \notin offered
     /\ standing[p] # "disqualified"
     /\ fee[p] # "paid"
     /\ fee' = [fee EXCEPT ![p] = IF @ = "absent" THEN "pending" ELSE @]
     /\ standing' = [standing EXCEPT ![p] = IF @ = "absent" THEN "pending_payment" ELSE @]
     /\ offered' = offered \cup {c}
     /\ joining' = joining \cup {c}
     /\ UNCHANGED <<acked, claimed, call, users, sub, payment, applied, interrupted,
                    pardoned, banned, faults>>

\* insert ... on conflict do nothing: the webhook may have been faster.
createEntryPayment(c) ==
  /\ c \in joining
  /\ joining' = joining \ {c}
  /\ payment' = [payment EXCEPT ![c] = IF @ = "absent" THEN "created" ELSE @]
  /\ UNCHANGED <<acked, claimed, call, users, sub, offered, fee, standing, applied,
                 interrupted, pardoned, banned, faults>>

\* The join stops between Stripe's answer and the insert.
CutJoin(c) ==
  /\ c \in joining
  /\ faults < MaxFaults
  /\ faults' = faults + 1
  /\ joining' = joining \ {c}
  /\ UNCHANGED <<acked, claimed, call, users, sub, offered, payment, fee, standing,
                 applied, interrupted, pardoned, banned>>

disqualifyParticipant(p) ==
  /\ standing[p] # "absent"
  /\ standing' = [standing EXCEPT ![p] = "disqualified"]
  /\ banned' = banned \cup {p}
  /\ UNCHANGED <<acked, claimed, call, users, sub, offered, joining, payment, fee,
                 applied, interrupted, pardoned, faults>>

reinstateParticipant(p) ==
  /\ standing[p] # "absent"
  /\ standing' = [standing EXCEPT ![p] = IF fee[p] = "pending" THEN "pending_payment"
                                         ELSE "eligible"]
  /\ pardoned' = pardoned \cup {p}
  /\ banned' = banned \ {p}
  /\ UNCHANGED <<acked, claimed, call, users, sub, offered, joining, payment, fee,
                 applied, interrupted, faults>>

PaymentsNext ==
  \/ \E i \in Call, e \in Event : Deliver(i, e)
  \/ \E i \in Call : \/ claimStripeEvent(i) \/ ensureUser(i) \/ upsertSubscription(i)
                     \/ settleEntryPayment(i) \/ Answer(i) \/ FailCall(i)
  \/ \E c \in Checkout : Join(c) \/ createEntryPayment(c) \/ CutJoin(c)
  \/ \E p \in Payer : disqualifyParticipant(p) \/ reinstateParticipant(p)

PaymentsSpec == PaymentsInit /\ [][PaymentsNext]_payVars

-------------------------------------------------------------------------------
(* Properties. *)

PaymentsTypeOK ==
  /\ acked \subseteq Event /\ claimed \subseteq Event
  /\ applied \subseteq Event /\ interrupted \subseteq Event
  /\ call \in [Call -> {Idle} \cup
                [stage : {"claim", "handle", "write", "reply"}, event : Event]]
  /\ users \in [Payer -> {"none", "active", "canceled"}]
  /\ sub \in [Subscription -> [at : Nat, says : {"none", "active", "canceled"}]]
  /\ offered \subseteq Checkout /\ joining \subseteq offered
  /\ payment \in [Checkout -> {"absent", "created", "paid", "failed"}]
  /\ fee \in [Payer -> {"absent", "pending", "paid", "failed"}]
  /\ standing \in [Payer -> {"absent", "pending_payment", "eligible", "disqualified"}]
  /\ pardoned \subseteq Payer /\ banned \subseteq Payer /\ faults \in 0..MaxFaults

\* Whatever the order of delivery, a subscription's row is that of the newest
\* event applied to it (monetization-repository.ts:168).
SubscriptionIsNewest ==
  \A s \in Subscription :
    LET seen == {e \in applied : e.about = s}
    IN IF seen = {} THEN sub[s] = None
       ELSE \E e \in seen : /\ sub[s] = [at |-> e.at, says |-> e.says]
                            /\ \A d \in seen : d.at <= e.at

\* An identity's fee is paid exactly when one of its sessions is recorded paid: a failed
\* session settled late does not take a paid entry back.  And nobody becomes eligible
\* in a paid contest unless Stripe said the money moved, or an administrator
\* reinstated them (monetization-routes.ts:487).
PaidIsOnRecord ==
  \A p \in Payer :
    /\ (fee[p] = "paid") <=> \E c \in Checkout : PayerOf[c] = p /\ payment[c] = "paid"
    /\ standing[p] = "eligible" =>
         \/ p \in pardoned
         \/ \E e \in applied : /\ e.about \in Checkout /\ PayerOf[e.about] = p
                               /\ e.says = "paid"

\* A payment does not end a disqualification: nobody gets out of it but by reinstatement
\* or, as contest/repository.ts:1831 has it, by a session that failed, and whoever is
\* eligible again after that has paid.
NobodyPaysABanOff ==
  \A p \in banned :
    /\ standing[p] # "disqualified" => \E c \in Checkout : PayerOf[c] = p /\ payment[c] = "failed"
    /\ standing[p] = "eligible" => fee[p] = "paid"

\* Whatever order the events come in and whichever request fails, the tables say what
\* Stripe and the administrators said.
TablesMatchStripe == SubscriptionIsNewest /\ PaidIsOnRecord /\ NobodyPaysABanOff

\* Being handled by some request now.
InHand(e) == \E i \in Call : call[i] = At("handle", e) \/ call[i] = At("write", e)

\* An event is answered with 200, which ends Stripe's retries
\* (monetization-routes.ts:315), only once it is applied or in hand, unless the
\* request that claimed it failed half-way: then the claim makes the retry a duplicate.
AckedIsHandled == \A e \in acked : e \in applied \/ InHand(e) \/ e \in interrupted
===============================================================================
