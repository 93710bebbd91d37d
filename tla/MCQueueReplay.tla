---------------------------- MODULE MCQueueReplay ----------------------------
(* Small instances of QueueReplay: one recipient, because recipients share  *)
(* nothing but the fault budget.                                            *)
EXTENDS QueueReplay, TLC

CONSTANTS r1, e1, e2, e3, s1, s2, i1, i2

\* The recipient's two sockets are on two relay instances.
OwnerR1 == s1 :> r1 @@ s2 :> r1
HostSplit == s1 :> i1 @@ s2 :> i2
=============================================================================
