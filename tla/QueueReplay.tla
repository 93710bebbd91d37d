------------------------------ MODULE QueueReplay ------------------------------
(***************************************************************************)
(* Replay of the offline queue to a reconnecting client: the calls that    *)
(* drainQueuedMessages (apps/relay/src/server.ts) makes on the queue, run  *)
(* by any number of sockets on any number of relay instances at once.      *)
(*                                                                         *)
(* drainQueuedMessages awaits twice: for the claim and for the settle or   *)
(* restore.  Everything between two awaits is one step of the Node event   *)
(* loop and one action here.  A socket's process is idle, claiming (claim  *)
(* sent), replaying (the claim's reply is on its way back), settling or    *)
(* restoring (the second command is on its way to Redis).                  *)
(***************************************************************************)
EXTENDS OfflineQueue

CONSTANTS
    Faults,     \* failures this instance of the model allows: see FaultKinds
    MaxFaults,  \* bound on the number of failures in one behaviour
    Solo        \* TRUE: an identity never has two replays under way at once

FaultKinds == {"close", "crash", "redis", "expire"}

ASSUME ReplayAssumption ==
    /\ Faults \subseteq FaultKinds
    /\ MaxFaults \in Nat
    /\ Solo \in BOOLEAN

VARIABLES
    wire,       \* wire[s]: readyState, "open" or "down" (closing, closed, none)
    pc,         \* pc[s]: where the socket's drainQueuedMessages call is
    batch,      \* batch[s]: envelopes its call still has to write or restore
    faults,     \* number of failures so far
    log,        \* history: log[r], every envelope queued for r, oldest first
    written,    \* history: written[r], envelopes trySend wrote to a socket of r
    expired     \* history: expired[r], envelopes dropped by a list's TTL

replayVars == <<wire, pc, batch>>
historyVars == <<log, written, expired>>
vars == <<queueVars, replayVars, faults, historyVars>>

Stages == {"idle", "claiming", "replaying", "settling", "restoring"}

TypeOK ==
    /\ QueueTypeOK
    /\ wire \in [Socket -> {"open", "down"}]
    /\ pc \in [Socket -> Stages]
    /\ batch \in [Socket -> Seq(Envelope)]
    /\ faults \in 0..MaxFaults
    /\ log \in [Identity -> Seq(Envelope)]
    /\ written \in [Identity -> SUBSET Envelope]
    /\ expired \in [Identity -> SUBSET Envelope]

Init ==
    /\ QueueInit
    /\ wire = [s \in Socket |-> "down"]
    /\ pc = [s \in Socket |-> "idle"]
    /\ batch = [s \in Socket |-> <<>>]
    /\ faults = 0
    /\ log = [r \in Identity |-> <<>>]
    /\ written = [r \in Identity |-> {}]
    /\ expired = [r \in Identity |-> {}]

-----------------------------------------------------------------------------
Idle(r) == \A s \in SocketsOf(r) : pc[s] = "idle"

Fault(kind) ==
    /\ kind \in Faults
    /\ faults < MaxFaults
    /\ faults' = faults + 1

GoTo(s, stage) == pc' = [pc EXCEPT ![s] = stage]

\* The handler finished registering the socket and calls queue.drain().
Connect(s) ==
    /\ wire[s] = "down"
    /\ pc[s] = "idle"
    /\ Solo => Idle(Owner[s])
    /\ wire' = [wire EXCEPT ![s] = "open"]
    /\ GoTo(s, "claiming")
    /\ UNCHANGED <<queueVars, batch, faults, historyVars>>

\* Redis runs the claim.  An empty claim ends the call.
Claim(s) ==
    /\ pc[s] = "claiming"
    /\ ClaimScript(Owner[s])
    /\ batch' = [batch EXCEPT ![s] = Claimable(Owner[s])]
    /\ GoTo(s, IF Claimable(Owner[s]) = <<>> THEN "idle" ELSE "replaying")
    /\ UNCHANGED <<wire, faults, historyVars>>

\* drain() rejects.  The handler's promise rejects with it; the script ran or
\* did not, and either way nobody reads what it returned.
ClaimFails(s) ==
    /\ pc[s] = "claiming"
    /\ Fault("redis")
    /\ ClaimScript(Owner[s]) \/ UNCHANGED queueVars
    /\ GoTo(s, "idle")
    /\ UNCHANGED <<wire, batch, historyVars>>

\* The loop over the claimed envelopes and the choice between settle and
\* restore: one turn of the event loop.  trySend refuses a socket that is not
\* OPEN, and reports a send that throws; the first refusal ends the loop.
Replay(s) ==
    /\ pc[s] = "replaying"
    /\ \E delivered \in 0..Len(batch[s]) :
        /\ wire[s] = "down" => delivered = 0
        /\ IF wire[s] = "open" /\ delivered < Len(batch[s])
           THEN Fault("close")
           ELSE UNCHANGED faults
        /\ written' = [written EXCEPT ![Owner[s]] =
                            @ \cup Elems(SubSeq(batch[s], 1, delivered))]
        /\ batch' = [batch EXCEPT ![s] = SubSeq(@, delivered + 1, Len(@))]
        /\ GoTo(s, IF delivered = Len(batch[s]) THEN "settling" ELSE "restoring")
    /\ UNCHANGED <<queueVars, wire, log, expired>>

Settle(s) ==
    /\ pc[s] = "settling"
    /\ SettleDel(Owner[s])
    /\ GoTo(s, "idle")
    /\ UNCHANGED <<wire, batch, faults, historyVars>>

Restore(s) ==
    /\ pc[s] = "restoring"
    /\ RestoreScript(Owner[s], batch[s])
    /\ batch' = [batch EXCEPT ![s] = <<>>]
    /\ GoTo(s, "idle")
    /\ UNCHANGED <<wire, faults, historyVars>>

\* The second command rejects and did not run: logged, nothing else.  (One
\* that ran and lost its reply is Settle or Restore.)
SettleOrRestoreFails(s) ==
    /\ pc[s] \in {"settling", "restoring"}
    /\ Fault("redis")
    /\ batch' = [batch EXCEPT ![s] = <<>>]
    /\ GoTo(s, "idle")
    /\ UNCHANGED <<queueVars, wire, historyVars>>

-----------------------------------------------------------------------------
\* A sender's envelope found r offline.  Envelope ids are unique, so an
\* envelope is queued for a recipient once.
Enqueue(r, e) ==
    /\ e \notin Elems(log[r])
    /\ PushEnvelope(r, e)
    /\ log' = [log EXCEPT ![r] = Append(@, e)]
    /\ UNCHANGED <<replayVars, faults, written, expired>>

\* A client that is not being replayed to goes away.
Hangup(s) ==
    /\ wire[s] = "open"
    /\ pc[s] = "idle"
    /\ wire' = [wire EXCEPT ![s] = "down"]
    /\ UNCHANGED <<queueVars, pc, batch, faults, historyVars>>

\* The connection is lost while its replay is under way.
Drop(s) ==
    /\ wire[s] = "open"
    /\ pc[s] # "idle"
    /\ Fault("close")
    /\ wire' = [wire EXCEPT ![s] = "down"]
    /\ UNCHANGED <<queueVars, pc, batch, historyVars>>

\* The process dies: its sockets close and its calls stop where they are.  A
\* command it already sent may still run: that is this action, a moment later.
Crash(i) ==
    /\ Fault("crash")
    /\ wire' = [s \in Socket |-> IF Host[s] = i THEN "down" ELSE wire[s]]
    /\ pc' = [s \in Socket |-> IF Host[s] = i THEN "idle" ELSE pc[s]]
    /\ batch' = [s \in Socket |-> IF Host[s] = i THEN <<>> ELSE batch[s]]
    /\ UNCHANGED <<queueVars, historyVars>>

\* A list's TTL (days) does not run out during a replay (milliseconds).
Expire(r) ==
    /\ Idle(r)
    /\ Fault("expire")
    /\ \/ /\ ExpireQueue(r)
          /\ expired' = [expired EXCEPT ![r] = @ \cup Elems(queue[r])]
       \/ /\ ExpireInflight(r)
          /\ expired' = [expired EXCEPT ![r] = @ \cup Elems(inflight[r])]
    /\ UNCHANGED <<replayVars, log, written>>

DrainStep(s) ==
    Claim(s) \/ Replay(s) \/ Settle(s) \/ Restore(s)

Next ==
    \/ \E s \in Socket :
        \/ Connect(s) \/ Claim(s) \/ Replay(s) \/ Settle(s) \/ Restore(s)
        \/ ClaimFails(s) \/ SettleOrRestoreFails(s)
        \/ Hangup(s) \/ Drop(s)
    \/ \E r \in Identity, e \in Envelope : Enqueue(r, e)
    \/ \E i \in Instance : Crash(i)
    \/ \E r \in Identity : Expire(r)

Spec == Init /\ [][Next]_vars

\* Redis answers and the event loop turns, so a drain under way makes progress.
FairSpec == Spec /\ \A s \in Socket : WF_vars(DrainStep(s))

-----------------------------------------------------------------------------
Stored(r) == Elems(inflight[r]) \cup Elems(queue[r])

\* Envelopes a running call holds in memory and will write or restore.
InHand(r) ==
    UNION {Elems(batch[s]) : s \in {t \in SocketsOf(r) : pc[t] \in {"replaying", "restoring"}}}

(***************************************************************************)
(* No queued envelope is destroyed: until it was written to a socket of    *)
(* its recipient, or its list's TTL ran out, Redis or a running replay     *)
(* still has it (queue.ts, "leaves the envelopes recoverable by the next   *)
(* attempt instead of destroying them").                                   *)
(***************************************************************************)
NothingDestroyed ==
    \A r \in Identity :
        Elems(log[r]) \subseteq written[r] \cup expired[r] \cup Stored(r) \cup InHand(r)

(***************************************************************************)
(* The in-flight list and the queue, read in that order, are the owed      *)
(* envelopes in the order they arrived, none twice: "prepended so replay   *)
(* order stays oldest-first" (queue.ts).                                   *)
(***************************************************************************)
ArrivedBefore(r, d, e) ==
    \E m, n \in 1..Len(log[r]) : m < n /\ log[r][m] = d /\ log[r][n] = e

OldestFirst ==
    \A r \in Identity :
        \A m, n \in 1..Len(Claimable(r)) :
            m < n => ArrivedBefore(r, Claimable(r)[m], Claimable(r)[n])

(***************************************************************************)
(* While one replay runs at a time, Redis alone keeps every obligation:    *)
(* this module implements Mailbox, crashes and Redis failures included.    *)
(***************************************************************************)
Durable == INSTANCE Mailbox
    WITH owed <- [r \in Identity |-> Stored(r)],
         handed <- written,
         lapsed <- expired

DurableSpec == Durable!Spec

(***************************************************************************)
(* Why one replay at a time is safe: what the running replay has in hand   *)
(* is parked in-flight until it is written, so the command that ends the   *)
(* replay deletes nothing else.  The inductive invariant behind            *)
(* NothingDestroyed and DurableSpec when Solo holds.                       *)
(***************************************************************************)
OneReplay ==
    \A s, t \in Socket :
        s # t /\ Owner[s] = Owner[t] /\ pc[s] # "idle" => pc[t] = "idle"

Parked(s) ==
    LET held == inflight[Owner[s]] IN
    /\ pc[s] = "replaying" => batch[s] = held
    /\ pc[s] = "restoring" =>
            /\ Elems(batch[s]) \subseteq Elems(held)
            /\ Elems(held) \subseteq written[Owner[s]] \cup Elems(batch[s])
    /\ pc[s] = "settling" => Elems(held) \subseteq written[Owner[s]]

Accounted(r) == Elems(log[r]) \subseteq written[r] \cup expired[r] \cup Stored(r)

SoloInv ==
    /\ OneReplay
    /\ \A s \in Socket : Parked(s)
    /\ \A r \in Identity : Accounted(r)

(***************************************************************************)
(* Without crashes and Redis failures any number of replays may run at     *)
(* once: the queue and the running replays have everything between them,   *)
(* whatever their settles and restores delete from the in-flight list.     *)
(***************************************************************************)
ConcurrentInv ==
    \A r \in Identity :
        Elems(log[r]) \subseteq written[r] \cup expired[r] \cup Elems(queue[r]) \cup InHand(r)

(***************************************************************************)
(* A recipient that keeps coming back gets everything: if some socket of r *)
(* claims again and again, every stored envelope is eventually written or  *)
(* expires, whatever failed in between.                                    *)
(***************************************************************************)
Returning(r) == \E s \in SocketsOf(r) : pc[s] = "claiming"

ReplayedIfReturning ==
    \A r \in Identity :
        []<>Returning(r) =>
            \A e \in Envelope :
                (e \in Stored(r)) ~> (e \in written[r] \cup expired[r])
=============================================================================
