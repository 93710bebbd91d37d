------------------------------ MODULE PresenceBus ------------------------------
(***************************************************************************)
(* The cross-instance delivery bus, apps/relay/src/presence-bus.ts: each   *)
(* relay instance subscribes to one Redis channel per identity it holds a  *)
(* socket for, and publishes to the channel of a recipient.                *)
(*                                                                         *)
(* Every instance has two Redis connections.  SUBSCRIBE and UNSUBSCRIBE    *)
(* travel in order on the subscriber connection (pipe), PUBLISH on the     *)
(* command connection, so Redis may run a PUBLISH before an earlier        *)
(* UNSUBSCRIBE.  What Redis pushes to a subscriber waits in its inbox.     *)
(***************************************************************************)
EXTENDS RelayTypes, FiniteSets

CONSTANT
    Redis       \* FALSE: REDIS_URL is unset and the bus is a no-op

VARIABLES
    tracked,    \* {<<i, r>>}: r is in the tracked set of instance i's bus
    subs,       \* {<<i, r>>}: Redis has i subscribed to the channel of r
    pipe,       \* pipe[i]:  i's subscriber commands Redis has not run yet
    inbox       \* inbox[i]: <<r, e>> pushed to i, callback not run yet

busVars == <<tracked, subs, pipe, inbox>>

Command == [op : {"subscribe", "unsubscribe"}, id : Identity, by : Socket]

BusTypeOK ==
    /\ tracked \subseteq Instance \X Identity
    /\ subs \subseteq Instance \X Identity
    /\ pipe \in [Instance -> Seq(Command)]
    /\ inbox \in [Instance -> Seq(Identity \X Envelope)]

BusInit ==
    /\ tracked = {}
    /\ subs = {}
    /\ pipe = [i \in Instance |-> <<>>]
    /\ inbox = [i \in Instance |-> <<>>]

-----------------------------------------------------------------------------
Send(i, op, r, s) == pipe' = [pipe EXCEPT ![i] = Append(@, [op |-> op, id |-> r, by |-> s])]

\* track() has nothing to wait for: no Redis, or already tracked.
TrackReturnsAtOnce(i, r) == ~Redis \/ <<i, r>> \in tracked

\* track(), called for socket s: the identity enters the set before SUBSCRIBE
\* is sent, and the caller waits for Redis.
Track(i, r, s) ==
    /\ IF TrackReturnsAtOnce(i, r)
       THEN UNCHANGED <<tracked, pipe>>
       ELSE /\ tracked' = tracked \cup {<<i, r>>}
            /\ Send(i, "subscribe", r, s)
    /\ UNCHANGED <<subs, inbox>>

\* untrack(), after socket s: the identity leaves the set before UNSUBSCRIBE
\* takes effect.
Untrack(i, r, s) ==
    /\ IF <<i, r>> \in tracked
       THEN /\ tracked' = tracked \ {<<i, r>>}
            /\ Send(i, "unsubscribe", r, s)
       ELSE UNCHANGED <<tracked, pipe>>
    /\ UNCHANGED <<subs, inbox>>

\* Redis runs the oldest command on i's subscriber connection.
NextCommand(i) == Head(pipe[i])

RunCommand(i) ==
    /\ pipe[i] # <<>>
    /\ subs' = IF NextCommand(i).op = "subscribe"
               THEN subs \cup {<<i, NextCommand(i).id>>}
               ELSE subs \ {<<i, NextCommand(i).id>>}
    /\ pipe' = [pipe EXCEPT ![i] = Tail(@)]
    /\ UNCHANGED <<tracked, inbox>>

\* Mutant: track() does not release the identity.
RejectSubscribe_Phantom(i) ==
    /\ pipe[i] # <<>>
    /\ NextCommand(i).op = "subscribe"
    /\ pipe' = [pipe EXCEPT ![i] = Tail(@)]
    /\ UNCHANGED <<tracked, subs, inbox>>

\* SUBSCRIBE rejects: track() releases the identity and rethrows.
RejectSubscribe(i) ==
    /\ pipe[i] # <<>>
    /\ NextCommand(i).op = "subscribe"
    /\ tracked' = tracked \ {<<i, NextCommand(i).id>>}
    /\ pipe' = [pipe EXCEPT ![i] = Tail(@)]
    /\ UNCHANGED <<subs, inbox>>

\* Mutant: the echo is delivered.
Publish_Echo(i, r, e) ==
    /\ inbox' = [j \in Instance |->
                    IF <<j, r>> \in subs THEN Append(inbox[j], <<r, e>>) ELSE inbox[j]]
    /\ UNCHANGED <<tracked, subs, pipe>>

\* Redis runs a PUBLISH that i sent.  The publisher's own subscription gets an
\* echo too, which its callback discards by origin, so it is not pushed here.
Publish(i, r, e) ==
    /\ inbox' = [j \in Instance |->
                    IF j # i /\ <<j, r>> \in subs
                    THEN Append(inbox[j], <<r, e>>)
                    ELSE inbox[j]]
    /\ UNCHANGED <<tracked, subs, pipe>>

\* The subscriptions PUBLISH reaches, the publisher's own included.  It replies
\* how many; publish(), when the reply is back, discounts its own subscription
\* by the tracked set of that moment.
Receivers(r) == {j \in Instance : <<j, r>> \in subs}

OwnSubscription(i, r) == IF <<i, r>> \in tracked THEN 1 ELSE 0

RemoteReceivers(i, r, receivers) ==
    IF receivers > OwnSubscription(i, r) THEN receivers - OwnSubscription(i, r) ELSE 0

\* The process of i is gone: its sets, its connections, what was on them.
LoseInstance(i) ==
    /\ tracked' = {t \in tracked : t[1] # i}
    /\ subs' = {t \in subs : t[1] # i}
    /\ pipe' = [pipe EXCEPT ![i] = <<>>]
    /\ inbox' = [inbox EXCEPT ![i] = <<>>]
=============================================================================
