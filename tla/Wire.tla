--------------------------------- MODULE Wire ---------------------------------
(***************************************************************************)
(* What the sender's page (Outbox) and the recipient's page (Inbox) share: *)
(* the relay, seen as the messages and deletions it has accepted.  How it  *)
(* stores and delivers them is the subject of RelayDelivery.               *)
(***************************************************************************)

CONSTANT Msg

VARIABLES
  relayed,   \* messages the relay has accepted
  retracted  \* messages whose deletion the relay has accepted

wireVars == <<relayed, retracted>>

WireInit == relayed = {} /\ retracted = {}
===============================================================================
