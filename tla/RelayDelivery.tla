----------------------------- MODULE RelayDelivery -----------------------------
(***************************************************************************)
(* Live delivery in the relay, apps/relay/src/server.ts: the session       *)
(* registry of every instance, routing of an envelope to the sockets of    *)
(* its recipients on this instance and, over the presence bus, on the      *)
(* others, the offline queue for recipients found offline, and its replay  *)
(* (QueueReplay) when a socket registers.                                  *)
(*                                                                         *)
(* An action is what the Node event loop or Redis does without a break.    *)
(* One routing call per copy (an envelope for one recipient):              *)
(*   "publishing"  written to local sockets, PUBLISH on its way            *)
(*   "replying"    Redis ran PUBLISH, the reply is on its way              *)
(*   "enqueueing"  judged offline, RPUSH on its way                        *)
(*   "delivered" / "queued" / "missed"  finished                           *)
(*   "failed"      a Redis command rejected, or the instance died          *)
(***************************************************************************)
EXTENDS QueueReplay, PresenceBus

CONSTANTS
    Kind,           \* Kind[e]: what the envelope is
    Recipients,     \* Recipients[e]: its recipients, one unless a group message
    MaxSockets      \* MAX_SOCKETS_PER_IDENTITY

QueuedKinds == {"message", "group-message", "deletion"}
Kinds == QueuedKinds \cup {"call-signal", "ephemeral"}

ASSUME DeliveryAssumption ==
    /\ Kind \in [Envelope -> Kinds]
    /\ Recipients \in [Envelope -> (SUBSET Identity) \ {{}}]
    /\ MaxSockets \in Nat \ {0}
    /\ Redis \in BOOLEAN

VARIABLES
    session,    \* session[s]: see Sessions
    route,      \* route[e][r]: stage of the copy's routing call
    via,        \* via[e]: the instance the sender's socket is on
    local,      \* local[e][r]: deliveredLocally
    reached,    \* reached[e][r]: subscriptions PUBLISH reached; it replies their number
    receipt,    \* receipt[e]: status the relay sent the sender, or "none"
    stale,      \* history: copies that only a subscription without a socket took
    live,       \* history: <<s, e>> written to a socket by routing, not replay
    twice       \* history: TRUE once routing wrote an envelope to a socket again

\* absent: no connection; pending: in pendingHandshakes; refused: connected but
\* in no map; held: in socketsByPubkeyHash and pubkeyHashBySocket.
Sessions == {"absent", "pending", "refused", "held"}
Finished == {"delivered", "queued", "missed"}
Stage == {"none", "publishing", "replying", "enqueueing", "failed"} \cup Finished

routeVars == <<route, via, local, reached, receipt>>
traceVars == <<stale, live, twice>>
liveVars == <<session, busVars, routeVars, traceVars>>
deliveryVars == <<vars, liveVars>>

DeliveryTypeOK ==
    /\ TypeOK
    /\ BusTypeOK
    /\ session \in [Socket -> Sessions]
    /\ route \in [Envelope -> [Identity -> Stage]]
    /\ via \in [Envelope -> Instance]
    /\ local \in [Envelope -> [Identity -> BOOLEAN]]
    /\ reached \in [Envelope -> [Identity -> SUBSET Instance]]
    /\ receipt \in [Envelope -> {"none", "delivered", "queued", "failed"}]
    /\ stale \subseteq Envelope \X Identity
    /\ live \subseteq Socket \X Envelope
    /\ twice \in BOOLEAN

DeliveryInit ==
    /\ Init
    /\ BusInit
    /\ session = [s \in Socket |-> "absent"]
    /\ route = [e \in Envelope |-> [r \in Identity |-> "none"]]
    /\ via \in [Envelope -> Instance]
    /\ local = [e \in Envelope |-> [r \in Identity |-> FALSE]]
    /\ reached = [e \in Envelope |-> [r \in Identity |-> {}]]
    /\ receipt = [e \in Envelope |-> "none"]
    /\ stale = {}
    /\ live = {}
    /\ twice = FALSE

-----------------------------------------------------------------------------
Held(i, r) == {s \in SocketsOf(r) : Host[s] = i /\ session[s] = "held"}

\* The sockets of r on i that trySend would write to.
Writable(i, r) == {s \in Held(i, r) : wire[s] = "open"}

\* The call of s that waits for SUBSCRIBE.
Subscribing(s) ==
    \E n \in 1..Len(pipe[Host[s]]) :
        pipe[Host[s]][n].op = "subscribe" /\ pipe[Host[s]][n].by = s

(***************************************************************************)
(* Sessions.                                                               *)
(***************************************************************************)
\* A client connects and is sent a challenge.
Open(s) ==
    /\ session[s] = "absent" /\ pc[s] = "idle" /\ ~Subscribing(s)
    /\ session' = [session EXCEPT ![s] = "pending"]
    /\ wire' = [wire EXCEPT ![s] = "open"]
    /\ UNCHANGED <<queueVars, pc, batch, faults, historyVars, busVars, routeVars, traceVars>>

\* A register message with a valid proof, possibly on a socket the relay is
\* already closing.  Beyond the per-identity limit the socket is refused.
Register(s) ==
    /\ session[s] = "pending"
    /\ LET r == Owner[s]
           i == Host[s]
       IN IF Cardinality(Held(i, r)) >= MaxSockets
          THEN /\ session' = [session EXCEPT ![s] = "refused"]
               /\ wire' = [wire EXCEPT ![s] = "down"]
               /\ UNCHANGED <<pc, busVars>>
          ELSE /\ session' = [session EXCEPT ![s] = "held"]
               /\ Track(i, r, s)
               /\ pc' = IF TrackReturnsAtOnce(i, r)
                        THEN [pc EXCEPT ![s] = "claiming"]
                        ELSE pc
               /\ UNCHANGED wire
    /\ UNCHANGED <<queueVars, batch, faults, historyVars, routeVars, traceVars>>

\* The handshake timer or an invalid proof: socket.close().
RefuseHandshake(s) ==
    /\ session[s] = "pending" /\ wire[s] = "open"
    /\ Fault("close")
    /\ wire' = [wire EXCEPT ![s] = "down"]
    /\ UNCHANGED <<queueVars, pc, batch, historyVars, liveVars>>

\* A registered client leaves, is rate limited or loses its connection: the
\* socket is no longer OPEN, its 'close' event is still to come.
Lose(s) ==
    /\ session[s] = "held" /\ wire[s] = "open"
    /\ Fault("close")
    /\ wire' = [wire EXCEPT ![s] = "down"]
    /\ UNCHANGED <<queueVars, pc, batch, historyVars, liveVars>>

\* unregisterSocket: this instance holds no other socket of the identity.
\* Mutant: it never looks.
LastSocket_Always(s) == TRUE
LastSocket(s) == Held(Host[s], Owner[s]) = {s}

\* The 'close' event: teardown, and unregisterSocket up to its await.
Teardown(s) ==
    /\ session[s] # "absent" /\ wire[s] = "down"
    /\ session' = [session EXCEPT ![s] = "absent"]
    /\ IF session[s] = "held" /\ LastSocket(s)
       THEN Untrack(Host[s], Owner[s], s)
       ELSE UNCHANGED busVars
    /\ UNCHANGED <<queueVars, wire, pc, batch, faults, historyVars, routeVars, traceVars>>

\* Redis runs the next SUBSCRIBE or UNSUBSCRIBE of i.  The register call that
\* waited for a SUBSCRIBE goes on to the replay, also if its socket has closed.
RunSubscriber(i) ==
    /\ RunCommand(i)
    /\ pc' = IF NextCommand(i).op = "subscribe"
             THEN [pc EXCEPT ![NextCommand(i).by] = "claiming"]
             ELSE pc
    /\ UNCHANGED <<queueVars, wire, batch, faults, historyVars, session, routeVars, traceVars>>

\* The register call rejects: the socket stays registered, gets no
\* "registered" frame and no replay.
SubscribeFails(i) ==
    /\ RejectSubscribe(i)
    /\ Fault("redis")
    /\ UNCHANGED <<queueVars, replayVars, historyVars, session, routeVars, traceVars>>

(***************************************************************************)
(* Routing.                                                                *)
(***************************************************************************)
\* What writing e to a set of sockets adds to the history.
WriteLive(e, writes) ==
    /\ written' = [r \in Identity |->
                      IF \E s \in writes : Owner[s] = r THEN written[r] \cup {e} ELSE written[r]]
    /\ live' = live \cup (writes \X {e})
    /\ twice' = (twice \/ \E s \in writes : <<s, e>> \in live)
    /\ UNCHANGED <<log, expired>>

\* deliveredLocally.  Mutant: a closing socket counts.
DeliveredLocally_CountsClosing(e, r) == Held(via[e], r) # {}
DeliveredLocally(e, r) == Writable(via[e], r) # {}

\* An envelope reaches its handler: for every recipient at once, the local
\* writes of deliverToRecipient and its PUBLISH.
Route(e) ==
    LET writes == UNION {Writable(via[e], r) : r \in Recipients[e]} IN
    /\ \A r \in Identity : route[e][r] = "none"
    /\ route' = [route EXCEPT ![e] =
                    [r \in Identity |-> IF r \in Recipients[e] THEN "publishing" ELSE "none"]]
    /\ local' = [local EXCEPT ![e] =
                    [r \in Identity |-> r \in Recipients[e] /\ DeliveredLocally(e, r)]]
    /\ WriteLive(e, writes)
    /\ UNCHANGED <<queueVars, replayVars, faults, session, busVars, via, reached, receipt, stale>>

SetRoute(e, r, stage) == route' = [route EXCEPT ![e][r] = stage]

\* Redis runs the PUBLISH.
RunPublish(e, r) ==
    /\ route[e][r] = "publishing"
    /\ SetRoute(e, r, "replying")
    /\ Publish(via[e], r, e)
    /\ reached' = [reached EXCEPT ![e][r] = Receivers(r)]
    /\ UNCHANGED <<vars, session, via, local, receipt, traceVars>>

\* What became of e's copies.
Outcomes(e) == {route[e][r] : r \in Recipients[e]}

\* deliverToRecipient returns, and the handler queues what was not delivered.
\* The history notes a copy that counts as delivered because of the publisher's
\* own subscription, whose echo was discarded.
Delivered(e, r) ==
    local[e][r] \/ RemoteReceivers(via[e], r, Cardinality(reached[e][r])) > 0

Judge(e, r) ==
    /\ route[e][r] = "replying"
    /\ SetRoute(e, r,
           IF Delivered(e, r) THEN "delivered"
           ELSE IF Kind[e] \in QueuedKinds THEN "enqueueing"
           ELSE "missed")
    /\ stale' = IF Delivered(e, r) /\ ~local[e][r] /\ reached[e][r] = {via[e]}
                THEN stale \cup {<<e, r>>}
                ELSE stale
    /\ local' = [local EXCEPT ![e][r] = FALSE]
    /\ reached' = [reached EXCEPT ![e][r] = {}]
    /\ UNCHANGED <<vars, session, busVars, via, receipt, live, twice>>

EnqueueOffline(e, r) ==
    /\ route[e][r] = "enqueueing"
    /\ Enqueue(r, e)
    /\ SetRoute(e, r, "queued")
    /\ UNCHANGED <<session, busVars, via, local, reached, receipt, traceVars>>

\* PUBLISH or RPUSH rejects, and the whole handler with it.  The command may
\* have run and its reply been lost.
RouteFails(e, r) ==
    /\ Fault("redis")
    /\ \/ /\ route[e][r] \in {"publishing", "replying", "enqueueing"}
          /\ UNCHANGED <<queueVars, log>>
       \/ /\ route[e][r] = "enqueueing"
          /\ PushEnvelope(r, e)
          /\ log' = [log EXCEPT ![r] = Append(@, e)]
    /\ SetRoute(e, r, "failed")
    /\ UNCHANGED <<replayVars, written, expired, session, busVars, via, local, reached,
                   receipt, traceVars>>

\* The handler's last step: a receipt for the sender.  A delivered call signal
\* and an ephemeral envelope have none.
ReceiptFor(e) ==
    IF Kind[e] \in QueuedKinds
    THEN IF "delivered" \in Outcomes(e) THEN "delivered" ELSE "queued"
    ELSE "failed"

\* Mutant: a missed call signal is not reported.
ReceiptDue_QueuedOnly(e) == Outcomes(e) \subseteq Finished /\ Kind[e] \in QueuedKinds

ReceiptDue(e) ==
    /\ Outcomes(e) \subseteq Finished
    /\ \/ Kind[e] \in QueuedKinds
       \/ Kind[e] = "call-signal" /\ Outcomes(e) = {"missed"}

SendReceipt(e) ==
    /\ receipt[e] = "none"
    /\ ReceiptDue(e)
    /\ receipt' = [receipt EXCEPT ![e] = ReceiptFor(e)]
    /\ UNCHANGED <<vars, session, busVars, route, via, local, reached, traceVars>>

\* Instance i's callback for the next bus message: trySend to every socket it
\* holds for the recipient, result ignored.
BusCallback(i) ==
    /\ inbox[i] # <<>>
    /\ LET r == Head(inbox[i])[1]
           e == Head(inbox[i])[2]
       IN /\ WriteLive(e, Writable(i, r))
          /\ stale' = IF Writable(i, r) = {} THEN stale \cup {<<e, r>>} ELSE stale
    /\ inbox' = [inbox EXCEPT ![i] = Tail(@)]
    /\ UNCHANGED <<queueVars, replayVars, faults, session, tracked, subs, pipe, routeVars>>

\* The process of i dies with its sessions, its bus and its routing calls.
CrashInstance(i) ==
    /\ Crash(i)
    /\ session' = [s \in Socket |-> IF Host[s] = i THEN "absent" ELSE session[s]]
    /\ LoseInstance(i)
    /\ route' = [e \in Envelope |-> [r \in Identity |->
                    IF via[e] = i /\ route[e][r] \in {"publishing", "replying", "enqueueing"}
                    THEN "failed"
                    ELSE route[e][r]]]
    /\ UNCHANGED <<via, local, reached, receipt, traceVars>>

(***************************************************************************)
(* The specification.                                                      *)
(***************************************************************************)
\* The replay of QueueReplay, once its socket registered.
ReplayStep(s) == DrainStep(s) /\ UNCHANGED liveVars

ReplayFails(s) ==
    /\ ClaimFails(s) \/ SettleOrRestoreFails(s)
    /\ UNCHANGED liveVars

RelayStep ==
    \/ \E s \in Socket : ReplayStep(s) \/ Teardown(s)
    \/ \E i \in Instance : RunSubscriber(i) \/ BusCallback(i)
    \/ \E e \in Envelope :
        \/ \E r \in Recipients[e] : RunPublish(e, r) \/ Judge(e, r) \/ EnqueueOffline(e, r)
        \/ SendReceipt(e)

ClientStep ==
    \/ \E s \in Socket : Open(s) \/ Register(s) \/ RefuseHandshake(s) \/ Lose(s)
    \/ \E e \in Envelope : Route(e)

FaultStep ==
    \/ \E s \in Socket : ReplayFails(s)
    \/ \E i \in Instance : SubscribeFails(i) \/ CrashInstance(i)
    \/ \E e \in Envelope, r \in Identity : RouteFails(e, r)

DeliveryNext == RelayStep \/ ClientStep \/ FaultStep

DeliverySpec == DeliveryInit /\ [][DeliveryNext]_deliveryVars

\* Redis answers, the event loop turns and 'close' events fire; clients may
\* stop at any time.
FairDeliverySpec ==
    /\ DeliverySpec
    /\ \A s \in Socket : WF_deliveryVars(ReplayStep(s)) /\ WF_deliveryVars(Teardown(s))
    /\ \A i \in Instance : WF_deliveryVars(RunSubscriber(i)) /\ WF_deliveryVars(BusCallback(i))
    /\ \A e \in Envelope :
        /\ WF_deliveryVars(SendReceipt(e))
        /\ \A r \in Recipients[e] :
            WF_deliveryVars(RunPublish(e, r) \/ Judge(e, r) \/ EnqueueOffline(e, r))

-----------------------------------------------------------------------------
PushedTo(i, e, r) == \E n \in 1..Len(inbox[i]) : inbox[i][n] = <<r, e>>

OnItsWay(e, r) == \E i \in Instance : PushedTo(i, e, r) /\ Writable(i, r) # {}

(***************************************************************************)
(* Once the sender has a receipt for a message, group message or deletion, *)
(* every recipient's copy was written to one of its sockets, is in the     *)
(* queue, a running replay or an instance's inbox - unless it was only     *)
(* taken by a subscription of an instance without an open socket for it.   *)
(* Sockets may come, go and be replayed to at any moment; no other         *)
(* interleaving of routing, registering, replaying and teardown loses an   *)
(* acknowledged copy                                                       *)
(* (server.ts, "A false return is the authoritative 'offline everywhere'   *)
(* signal").                                                               *)
(***************************************************************************)
AcknowledgedIsSafe ==
    \A e \in Envelope :
        Kind[e] \in QueuedKinds /\ receipt[e] # "none" =>
            \A r \in Recipients[e] :
                \/ e \in written[r] \cup Stored(r) \cup InHand(r)
                \/ \E i \in Instance : PushedTo(i, e, r)
                \/ <<e, r>> \in stale

(***************************************************************************)
(* A subscription follows the sockets: an identity is tracked exactly      *)
(* while the instance holds a socket for it, and once the subscriber       *)
(* connection has nothing left to run, Redis agrees - whatever the order   *)
(* of several devices' registrations and teardowns (unregisterSocket,      *)
(* "Only stop listening once this instance holds no socket at all").       *)
(***************************************************************************)
PresenceFollowsSockets ==
    Redis => \A i \in Instance, r \in Identity :
        /\ <<i, r>> \in tracked <=> Held(i, r) # {}
        /\ pipe[i] = <<>> => (<<i, r>> \in subs <=> <<i, r>> \in tracked)

(***************************************************************************)
(* Also when Redis rejects commands and instances die, no identity is left *)
(* tracked without a subscription: that would make every later track() a   *)
(* no-op and the identity deaf to other instances for good ("Leaving a     *)
(* phantom entry would make later track() calls no-op", presence-bus.ts).  *)
(***************************************************************************)
NoPhantom ==
    \A i \in Instance : pipe[i] = <<>> =>
        \A r \in Identity : <<i, r>> \in tracked => <<i, r>> \in subs

(***************************************************************************)
(* Routing writes an envelope to a socket at most once, locally or through *)
(* the bus: an instance ignores the echo of its own publish ("delivering   *)
(* both locally and via the bus would duplicate", presence-bus.ts).        *)
(***************************************************************************)
WrittenOnce == ~twice

(***************************************************************************)
(* "delivered" means a socket of the recipient got it: what the receipt    *)
(* tells the sender of a direct message ("Count only sockets the payload   *)
(* was genuinely written to", server.ts).                                  *)
(***************************************************************************)
DeliveredWasWritten ==
    \A e \in Envelope, r \in Identity :
        Recipients[e] = {r} /\ receipt[e] = "delivered" => e \in written[r] \/ OnItsWay(e, r)

(***************************************************************************)
(* An envelope waits in the queue only for a recipient that is offline:    *)
(* when nothing is under way, a recipient with a registered open socket    *)
(* has an empty queue ("the recipient is offline everywhere, queue it" is  *)
(* "a safe conclusion", presence-bus.ts).                                  *)
(***************************************************************************)
Quiet(r) ==
    /\ Idle(r)
    /\ \A i \in Instance : pipe[i] = <<>> /\ inbox[i] = <<>>
    /\ \A e \in Envelope : route[e][r] \in Finished \cup {"none", "failed"}

QueuedOnlyIfOffline ==
    \A r \in Identity :
        Quiet(r) /\ Stored(r) # {} => \A i \in Instance : Writable(i, r) = {}

(***************************************************************************)
(* When Redis answers, every routed envelope comes to its end and the      *)
(* sender learns it: a receipt for what can be queued, "failed" for a call *)
(* signal nobody took, silence only for one that somebody did.  The chain  *)
(* of awaits has no branch that forgets the sender, a group's parallel     *)
(* branches included (routeMessage, routeGroupMessage, routeCallSignal).   *)
(***************************************************************************)
Answered(e) ==
    \/ receipt[e] # "none"
    \/ "failed" \in Outcomes(e)
    \/ Kind[e] = "call-signal" /\ Outcomes(e) = {"delivered"}
    \/ Kind[e] = "ephemeral" /\ Outcomes(e) \subseteq Finished

AcknowledgedEventually ==
    \A e \in Envelope : (Outcomes(e) # {"none"}) ~> Answered(e)
=============================================================================
