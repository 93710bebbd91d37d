----------------------------- MODULE OfflineQueue -----------------------------
(***************************************************************************)
(* The relay's offline queue, apps/relay/src/queue.ts: two Redis lists per *)
(* recipient, `relay_queue:<r>` and `relay_queue_inflight:<r>`, and the    *)
(* commands the relay runs on them.  Every operator below is the effect of *)
(* one Redis command or Lua script, so each one is atomic.                 *)
(*                                                                         *)
(* The lists hold serialized JSON that the queue never looks into.         *)
(***************************************************************************)
EXTENDS RelayTypes

VARIABLES
    queue,      \* queue[r]:    relay_queue:<r>, oldest first
    inflight    \* inflight[r]: relay_queue_inflight:<r>, oldest first

queueVars == <<queue, inflight>>

Elems(seq) == {seq[n] : n \in 1..Len(seq)}

QueueTypeOK ==
    /\ queue \in [Identity -> Seq(Envelope)]
    /\ inflight \in [Identity -> Seq(Envelope)]

QueueInit ==
    /\ queue = [r \in Identity |-> <<>>]
    /\ inflight = [r \in Identity |-> <<>>]

-----------------------------------------------------------------------------
\* Mutant: the leftovers are forgotten.
Claimable_QueueOnly(r) == queue[r]

\* What CLAIM_SCRIPT returns: the leftovers of an unfinished replay first.
Claimable(r) == inflight[r] \o queue[r]

\* Mutants: the claimed list is handed out without a copy; only what was queued
\* is parked.
ClaimScript_NotParked(r) ==
    /\ queue' = [queue EXCEPT ![r] = <<>>]
    /\ inflight' = [inflight EXCEPT ![r] = <<>>]

ClaimScript_ParksQueue(r) ==
    /\ queue' = [queue EXCEPT ![r] = <<>>]
    /\ inflight' = [inflight EXCEPT ![r] = queue[r]]

\* CLAIM_SCRIPT: the merged list is parked in-flight and the queue deleted.
ClaimScript(r) ==
    /\ queue' = [queue EXCEPT ![r] = <<>>]
    /\ inflight' = [inflight EXCEPT ![r] = Claimable(r)]

\* settle(): DEL of the whole in-flight list.
SettleDel(r) ==
    /\ inflight' = [inflight EXCEPT ![r] = <<>>]
    /\ UNCHANGED queue

\* Mutants: RPUSH for LPUSH; nothing pushed back.
RestoreScript_AtTail(r, undelivered) ==
    /\ queue' = [queue EXCEPT ![r] = @ \o undelivered]
    /\ inflight' = [inflight EXCEPT ![r] = <<>>]

RestoreScript_Drops(r, undelivered) ==
    /\ inflight' = [inflight EXCEPT ![r] = <<>>]
    /\ UNCHANGED queue

\* RESTORE_SCRIPT: LPUSH newest to oldest, so the undelivered envelopes lead
\* the queue oldest first; the in-flight list is deleted.
RestoreScript(r, undelivered) ==
    /\ queue' = [queue EXCEPT ![r] = undelivered \o @]
    /\ inflight' = [inflight EXCEPT ![r] = <<>>]

\* enqueue(): RPUSH and EXPIRE in one MULTI.
PushEnvelope(r, e) ==
    /\ queue' = [queue EXCEPT ![r] = Append(@, e)]
    /\ UNCHANGED inflight

\* RELAY_QUEUE_TTL_SECONDS passed since a list was last pushed or claimed, and
\* Redis dropped the key.
ExpireQueue(r) ==
    /\ queue' = [queue EXCEPT ![r] = <<>>]
    /\ UNCHANGED inflight

ExpireInflight(r) ==
    /\ inflight' = [inflight EXCEPT ![r] = <<>>]
    /\ UNCHANGED queue
=============================================================================
