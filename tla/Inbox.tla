--------------------------------- MODULE Inbox ---------------------------------
(***************************************************************************)
(* Direct messages and deletions arriving at the recipient's page: the     *)
(* buffers of useSocketStore.ts, the effects of Dashboard.tsx that empty   *)
(* them and persistIncomingMessages (apps/web/src/utils/helpers.ts).       *)
(*                                                                         *)
(* The effect runs again whenever a value it depends on changes, so runs   *)
(* overlap.  A run's steps are separated by its awaits on the database.    *)
(***************************************************************************)
EXTENDS Naturals, FiniteSets, Wire

CONSTANTS
  Run,         \* overlapping runs of the effect
  Unreadable,  \* messages whose ciphertext this device cannot open
  MaxReloads   \* bound

ASSUME InboxAssumption == Unreadable \subseteq Msg /\ MaxReloads \in Nat

VARIABLES
  copies,     \* how often the relay has delivered each message
  informed,   \* messages whose deletion has been delivered
  buffer,     \* useSocketStore.incoming
  deletions,  \* useSocketStore.incomingDeletions
  processed,  \* processedIncoming
  run,        \* per run: its batch, what is left of it, the message it is at
  db,         \* the recipient's record of each message
  receipts,   \* messages a "delivered" receipt was sent for
  erased,     \* history: deletions applied to a record that was there
  overlapped, \* history: those applied while a run was at the message
  lost,       \* history: messages delivered and gone with the page
  reloads

inVars == <<copies, informed, buffer, deletions, processed, run, db, receipts, erased,
            overlapped, lost, reloads>>

Waiting == [stage |-> "none"]

InboxInit ==
  /\ copies = [m \in Msg |-> 0]
  /\ informed = {} /\ buffer = {} /\ deletions = {} /\ processed = {}
  /\ run = [r \in Run |-> Waiting]
  /\ db = [m \in Msg |-> "absent"]
  /\ receipts = {} /\ erased = {} /\ overlapped = {} /\ lost = {} /\ reloads = 0

\* appendBounded: live, or from the offline queue, or both.
Arrive(m) ==
  /\ m \in relayed
  /\ copies[m] < 2
  /\ copies' = [copies EXCEPT ![m] = @ + 1]
  /\ buffer' = buffer \cup {m}
  /\ UNCHANGED <<informed, deletions, processed, run, db, receipts, erased, overlapped,
                 lost, reloads>>

ArriveDeletion(m) ==
  /\ m \in retracted \ informed
  /\ informed' = informed \cup {m}
  /\ deletions' = deletions \cup {m}
  /\ UNCHANGED <<copies, buffer, processed, run, db, receipts, erased, overlapped, lost,
                 reloads>>

\* The effect takes what no finished run has processed.
StartRun(r) ==
  /\ run[r] = Waiting
  /\ buffer \ processed # {}
  /\ run' = [run EXCEPT ![r] = [stage |-> "check", batch |-> buffer \ processed,
                                todo |-> buffer \ processed]]
  /\ UNCHANGED <<copies, informed, buffer, deletions, processed, db, receipts, erased,
                 overlapped, lost, reloads>>

Skipped(r, m) == [run EXCEPT ![r].todo = @ \ {m}]
Taken(r, m) == [run EXCEPT ![r] = [stage |-> "put", batch |-> @.batch,
                                   todo |-> @.todo \ {m}, message |-> m]]

\* A record that is there is written again.
Check_Again(r, m) ==
  /\ run[r].stage = "check"
  /\ m \in run[r].todo
  /\ run' = IF m \in Unreadable THEN Skipped(r, m) ELSE Taken(r, m)
  /\ UNCHANGED <<copies, informed, buffer, deletions, processed, db, receipts, erased,
                 overlapped, lost, reloads>>

\* A record that is there, deleted or not, and a message that does not open are skipped.
Check(r, m) ==
  /\ run[r].stage = "check"
  /\ m \in run[r].todo
  /\ run' = IF db[m] # "absent" \/ m \in Unreadable THEN Skipped(r, m) ELSE Taken(r, m)
  /\ UNCHANGED <<copies, informed, buffer, deletions, processed, db, receipts, erased,
                 overlapped, lost, reloads>>

\* put replaces whatever has been stored since.
Put(r) ==
  /\ run[r].stage = "put"
  /\ db' = [db EXCEPT ![run[r].message] = "shown"]
  /\ run' = [run EXCEPT ![r] = [stage |-> "check", batch |-> @.batch, todo |-> @.todo]]
  /\ UNCHANGED <<copies, informed, buffer, deletions, processed, receipts, erased,
                 overlapped, lost, reloads>>

\* The receipts go out before the batch is through.
Finish_Early(r) ==
  /\ run[r].stage = "check"
  /\ buffer' = buffer \ run[r].batch
  /\ processed' = processed \cup run[r].batch
  /\ receipts' = receipts \cup run[r].batch
  /\ run' = [run EXCEPT ![r] = Waiting]
  /\ UNCHANGED <<copies, informed, deletions, db, erased, overlapped, lost, reloads>>

\* Persisted: out of the buffer, and a receipt for every message of the batch.
Finish(r) ==
  /\ run[r].stage = "check" /\ run[r].todo = {}
  /\ buffer' = buffer \ run[r].batch
  /\ processed' = processed \cup run[r].batch
  /\ receipts' = receipts \cup run[r].batch
  /\ run' = [run EXCEPT ![r] = Waiting]
  /\ UNCHANGED <<copies, informed, deletions, db, erased, overlapped, lost, reloads>>

\* update changes a record that is there and nothing else.
ApplyDeletion(m) ==
  /\ m \in deletions
  /\ deletions' = deletions \ {m}
  /\ IF db[m] = "absent" THEN UNCHANGED <<db, erased, overlapped>>
     ELSE /\ db' = [db EXCEPT ![m] = "deleted"]
          /\ erased' = erased \cup {m}
          /\ overlapped' = IF \E r \in Run : run[r].stage = "put" /\ run[r].message = m
                           THEN overlapped \cup {m} ELSE overlapped
  /\ UNCHANGED <<copies, informed, buffer, processed, run, receipts, lost, reloads>>

\* The page is reloaded: only the database survives.
ReloadPage ==
  /\ reloads < MaxReloads
  /\ reloads' = reloads + 1
  /\ lost' = lost \cup {m \in buffer : db[m] = "absent"}
  /\ buffer' = {} /\ deletions' = {} /\ processed' = {}
  /\ run' = [r \in Run |-> Waiting]
  /\ UNCHANGED <<copies, informed, db, receipts, erased, overlapped>>

InboxNext ==
  \/ ReloadPage
  \/ \E m \in Msg : Arrive(m) \/ ArriveDeletion(m) \/ ApplyDeletion(m)
  \/ \E r \in Run : \/ StartRun(r) \/ Put(r) \/ Finish(r)
                    \/ \E m \in Msg : Check(r, m)

\* Whatever the relay accepts meanwhile.
InboxSpec == InboxInit /\ [][InboxNext]_inVars

-------------------------------------------------------------------------------
(* Properties. *)

\* A deletion that was applied holds, whatever arrives again and after whichever
\* reload, unless it fell between a run's look-up and its put (helpers.ts:752).
DeletionHolds == \A m \in erased \ overlapped : db[m] = "deleted"

\* A receipt says "delivered" only of a message that is in the recipient's database,
\* or that this device cannot read (Dashboard.tsx:1832).
ReceiptIsStored == \A m \in receipts : db[m] # "absent" \/ m \in Unreadable

\* The recipient's database keeps both promises: to one who deletes, and to a sender.
InboxHolds == DeletionHolds /\ ReceiptIsStored

\* What the relay accepted reaches the recipient's database, unless the page was
\* reloaded with it or it cannot be read.
RelayedIsStored ==
  \A m \in Msg : (m \in relayed) ~> (db[m] # "absent" \/ m \in lost \/ m \in Unreadable)
===============================================================================
