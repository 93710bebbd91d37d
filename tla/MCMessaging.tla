------------------------------ MODULE MCMessaging ------------------------------
(***************************************************************************)
(* A sender's page and a recipient's page on either side of the relay.     *)
(***************************************************************************)
EXTENDS Outbox, Inbox

messagingVars == <<linkVars, outVars, wireVars, inVars>>

MessagingInit == SocketInit /\ OutboxInit /\ WireInit /\ InboxInit

\* A page that is opened again, with the socket of the first time still to close: nothing
\* is composed, and at most that socket's late close event takes another one's place.
OpenedAgain == mounts' > 1 => drops' = 0 /\ \A m \in Msg : rec'[m] = NoRecord

\* "delivered" and "read" come from the recipient.
SenderNext ==
  /\ OutboxNext /\ OpenedAgain
  /\ \A m \in Msg : <<m, "delivered">> \in receipt' \ receipt => m \in receipts
  /\ \A m \in Msg : <<m, "read">> \in receipt' \ receipt => m \in receipts
  /\ UNCHANGED inVars

RecipientNext == InboxNext /\ UNCHANGED <<linkVars, outVars, wireVars>>

Sender(A) == A /\ UNCHANGED inVars
Recipient(A) == A /\ UNCHANGED <<linkVars, outVars, wireVars>>

\* Events and timers that are due happen, and promises settle.  What people and the
\* network do, and what fails, need not.
Fairness ==
  /\ \A s \in Sockets : WF_messagingVars(Sender(Noticed(SocketEvent(s))))
  /\ WF_messagingVars(Sender(Noticed(Reconnect)))
  /\ WF_messagingVars(Sender(StartFlush))
  /\ \A m \in Msg : WF_messagingVars(Sender(Encrypted(m) \/ Save(m)))
  /\ \A m \in Msg : WF_messagingVars(Sender(FlushOne(m)))
  /\ \A m \in Msg : WF_messagingVars(Recipient(copies[m] = 0 /\ Arrive(m)))
  /\ \A r \in Run : WF_messagingVars(Recipient(\/ StartRun(r) \/ Put(r) \/ Finish(r)
                                               \/ \E m \in Msg : Check(r, m)))

MessagingSpec == MessagingInit /\ [][SenderNext \/ RecipientNext]_messagingVars /\ Fairness
===============================================================================
