-------------------------------- MODULE Outbox --------------------------------
(***************************************************************************)
(* Direct messages on their way out of the web client: sendMessage, the    *)
(* outbox flush, retries, receipts and deletion for everyone               *)
(* (apps/web/src/components/screens/Dashboard.tsx), over SocketClient.     *)
(***************************************************************************)
EXTENDS SocketClient, Wire

CONSTANT MaxRetries  \* bound: of retries, and of changes to the groups

ASSUME OutboxAssumption == MaxRetries \in Nat

VARIABLES
  rec,        \* the database record: [status, payload, deleted], or NoRecord
  task,       \* sendMessage or retryOutboundMessage at work on a message
  flush,      \* the flush: messages still to send, and those whose status is to save
  flushDue,   \* the status has just become "connected"
  receipt,    \* receipts whose status is being written
  retries,
  early,      \* history: messages written to a socket before it was registered
  naked,      \* history: messages sent without a ciphertext
  late        \* history: messages saved as queued after the flush had begun

outVars == <<rec, task, flush, flushDue, receipt, retries, early, naked, late>>

NoRecord == [status |-> "absent", payload |-> "none", deleted |-> FALSE]
NoTask == [stage |-> "none"]

OutboxInit ==
  /\ rec = [m \in Msg |-> NoRecord]
  /\ task = [m \in Msg |-> NoTask]
  /\ flush = [todo |-> {}, save |-> {}]
  /\ flushDue = FALSE /\ receipt = {} /\ retries = 0
  /\ early = {} /\ naked = {} /\ late = {}

deliveryStatusRank ==
  [local |-> 0, failed |-> 1, queued |-> 2, sent |-> 3, delivered |-> 4, read |-> 5]

\* The relay closes a socket that sends before it is registered: a failure, bounded
\* like the others.
CloseUnregistered ==
  /\ drops < MaxDrops
  /\ drops' = drops + 1
  /\ sock' = [sock EXCEPT ![current] = "closing"]

\* Writes m to the open socket: the relay takes it, unless it was too early.
Transmit(m, sealed) ==
  /\ IF current \in registered
     THEN relayed' = relayed \cup {m} /\ UNCHANGED <<early, sock, drops>>
     ELSE early' = early \cup {m} /\ CloseUnregistered /\ UNCHANGED relayed
  /\ naked' = IF sealed THEN naked ELSE naked \cup {m}
  /\ UNCHANGED <<registered, announced, current, status, shouldReconnect, timer, mounted,
                 mounts, orphaned>>

\* The bubble and its record appear before anything is encrypted.
Compose(m) ==
  /\ rec[m] = NoRecord
  /\ mounted
  /\ rec' = [rec EXCEPT ![m] = [status |-> "local", payload |-> "pending", deleted |-> FALSE]]
  /\ task' = [task EXCEPT ![m] = [stage |-> "encrypt", by |-> "send"]]
  /\ UNCHANGED <<receipt, flush, flushDue, retries, early, naked, late, wireVars, linkVars>>

\* retryOutboundMessage: "queued" is on record while the payload may be pending.
Retry(m) ==
  /\ task[m] = NoTask
  /\ rec[m].status \in {"local", "failed"}
  /\ ~rec[m].deleted
  /\ retries < MaxRetries
  /\ retries' = retries + 1
  /\ rec' = [rec EXCEPT ![m].status = "queued"]
  /\ task' = [task EXCEPT ![m] = [stage |-> "encrypt", by |-> "retry"]]
  /\ UNCHANGED <<receipt, flush, flushDue, early, naked, late, wireVars, linkVars>>

\* Encryption fails; only a retry marks the record.
FailEncrypt(m) ==
  /\ task[m].stage = "encrypt"
  /\ retries < MaxRetries
  /\ rec[m].payload = "pending"
  /\ rec' = [rec EXCEPT ![m].status = IF task[m].by = "retry" THEN "failed" ELSE @]
  /\ task' = [task EXCEPT ![m] = NoTask]
  /\ UNCHANGED <<receipt, flush, flushDue, retries, early, naked, late, wireVars, linkVars>>

\* Encrypted: a retry saves the payload first, then both try to send.
Encrypted(m) ==
  /\ task[m].stage = "encrypt"
  /\ rec' = IF task[m].by = "retry" THEN [rec EXCEPT ![m].payload = "sealed"] ELSE rec
  /\ task' = [task EXCEPT ![m] = [stage |-> "save", by |-> @.by, sent |-> CanSend]]
  /\ IF CanSend THEN Transmit(m, TRUE)
                ELSE UNCHANGED <<relayed, early, naked, linkVars>>
  /\ UNCHANGED <<receipt, flush, flushDue, retries, late, retracted>>

\* The whole record is put, or two fields of it are updated.
Save(m) ==
  /\ task[m].stage = "save"
  /\ LET outcome == IF task[m].sent THEN "sent" ELSE "queued"
     IN /\ rec' = [rec EXCEPT ![m] =
                  [status |-> outcome, payload |-> "sealed",
                   deleted |-> task[m].by = "retry" /\ @.deleted]]
        /\ late' = IF outcome = "queued" /\ status = "connected" /\ ~flushDue
                   THEN late \cup {m} ELSE late
  /\ task' = [task EXCEPT ![m] = NoTask]
  /\ UNCHANGED <<receipt, flush, flushDue, retries, early, naked, wireVars, linkVars>>

\* Every queued message, encrypted or not.
Sendable_Pending(m) == rec[m].status = "queued"

\* Failed messages are flushed in place of the queued ones.
Sendable_Failed(m) == rec[m].status = "failed" /\ rec[m].payload # "pending"

\* A queued message whose payload is ready.
Sendable(m) == rec[m].status = "queued" /\ rec[m].payload # "pending"

\* The flush reads its list once the status has become "connected".
StartFlush ==
  /\ flushDue
  /\ flushDue' = FALSE
  /\ flush' = [flush EXCEPT !.todo = IF status = "connected" THEN {m \in Msg : Sendable(m)}
                                     ELSE {}]
  /\ UNCHANGED <<receipt, rec, task, retries, early, naked, late, wireVars, linkVars>>

\* A group has changed: the flush is dropped half-way, and begins again.
ChatsChange ==
  /\ status = "connected" /\ ~flushDue
  /\ retries < MaxRetries
  /\ retries' = retries + 1
  /\ flushDue' = TRUE
  /\ flush' = [flush EXCEPT !.todo = {}]
  /\ UNCHANGED <<receipt, rec, task, early, naked, late, wireVars, linkVars>>

\* One message of the list: sent if the socket takes it, left alone if not; the list
\* is dropped when the status changes.
FlushOne(m) ==
  /\ m \in flush.todo
  /\ IF status = "connected" /\ CanSend
     THEN /\ flush' = [todo |-> flush.todo \ {m}, save |-> flush.save \cup {m}]
          /\ Transmit(m, rec[m].payload = "sealed")
     ELSE /\ flush' = [flush EXCEPT !.todo = IF status = "connected" THEN @ \ {m} ELSE {}]
          /\ UNCHANGED <<relayed, early, naked, linkVars>>
  /\ UNCHANGED <<receipt, rec, task, flushDue, retries, late, retracted>>

FlushSave(m) ==
  /\ m \in flush.save
  /\ flush' = [flush EXCEPT !.save = @ \ {m}]
  /\ rec' = [rec EXCEPT ![m].status = "sent"]
  /\ UNCHANGED <<receipt, task, flushDue, retries, early, naked, late, wireVars, linkVars>>

\* A receipt from the relay or the recipient: the status may only move up, but it is
\* written after an await.
Receipt(m, s) ==
  /\ m \in relayed
  /\ rec[m] # NoRecord
  /\ deliveryStatusRank[s] >= deliveryStatusRank[rec[m].status]
  /\ receipt' = receipt \cup {<<m, s>>}
  /\ UNCHANGED <<rec, task, flush, flushDue, retries, early, naked, late, wireVars, linkVars>>

SaveReceipt(m, s) ==
  /\ <<m, s>> \in receipt
  /\ receipt' = receipt \ {<<m, s>>}
  /\ rec' = [rec EXCEPT ![m].status = s]
  /\ UNCHANGED <<task, flush, flushDue, retries, early, naked, late, wireVars, linkVars>>

\* The record is blanked; the deletion is sent if the socket is open, and not kept
\* for later if it is not.
deleteMessageForEveryone(m) ==
  /\ rec[m] # NoRecord /\ ~rec[m].deleted
  /\ mounted
  /\ rec' = [rec EXCEPT ![m].deleted = TRUE, ![m].status = "local"]
  /\ IF ~CanSend THEN UNCHANGED <<retracted, linkVars>>
     ELSE IF current \in registered
     THEN retracted' = retracted \cup {m} /\ UNCHANGED linkVars
     ELSE /\ CloseUnregistered
          /\ UNCHANGED <<retracted, registered, announced, current, status, shouldReconnect,
                         timer, mounted, mounts, orphaned>>
  /\ UNCHANGED <<receipt, task, flush, flushDue, retries, relayed, early, naked, late>>

\* A step of the connection; the flush is an effect of the status.
Noticed(A) ==
  /\ A
  /\ flushDue' = IF status' = status THEN flushDue ELSE status' = "connected"
  /\ UNCHANGED <<rec, task, flush, receipt, retries, early, naked, late, wireVars>>

SocketEvent(s) == OnOpen(s) \/ Register(s) \/ OnRegistered(s) \/ OnClose(s)

OutboxNext ==
  \/ Noticed(Mount) \/ Noticed(Unmount) \/ Noticed(Reconnect) \/ StartFlush \/ ChatsChange
  \/ \E s \in Sockets : Noticed(SocketEvent(s)) \/ Noticed(ReportError(s)) \/ Noticed(Fail(s))
  \/ \E m \in Msg :
       \/ Compose(m) \/ Retry(m) \/ FailEncrypt(m) \/ Encrypted(m) \/ Save(m)
       \/ FlushOne(m) \/ FlushSave(m) \/ deleteMessageForEveryone(m)
       \/ \E s \in {"queued", "delivered", "read"} : Receipt(m, s) \/ SaveReceipt(m, s)

OutboxSpec ==
  /\ SocketInit /\ OutboxInit /\ WireInit
  /\ [][OutboxNext]_<<linkVars, outVars, wireVars>>

-------------------------------------------------------------------------------
(* Properties. *)

\* What goes on the wire is a ciphertext: a flush that overtakes a retry must leave
\* the pending message alone (Dashboard.tsx:2241).
OnlySealedIsSent == naked = {}

\* An error was reported over the socket and it stays open: no "connected" is to come, and
\* so no flush, although the relay would take what is sent (Dashboard.tsx:2230).
Muted == status = "error" /\ CanSend

\* A message shown as queued reaches the relay once it stays reachable, unless it is
\* deleted, was saved too late for the flush, a stale close event orphaned a connection,
\* or the connection remains muted for good: an error delays it until the next
\* connection and no longer.
QueuedIsRelayed ==
  \A m \in Msg :
    (rec[m].status = "queued") ~>
      \/ m \in relayed \cup early \cup late
      \/ rec[m].deleted \/ ~mounted \/ orphaned
      \/ []Muted
===============================================================================
