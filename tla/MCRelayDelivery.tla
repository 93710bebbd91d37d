--------------------------- MODULE MCRelayDelivery ---------------------------
(* Small instances of RelayDelivery.                                        *)
EXTENDS RelayDelivery, TLC

CONSTANTS r1, r2, e1, e2, s1, s2, s3, i1, i2

\* A recipient with two devices on one instance and a third on another, and a
\* second recipient that never connects.  The two devices are alike.
OwnerThree == s1 :> r1 @@ s2 :> r1 @@ s3 :> r1
HostThree == s1 :> i1 @@ s2 :> i1 @@ s3 :> i2
SocketSymmetry == Permutations({s1, s2})

\* A recipient with two devices, on two instances or on one.
OwnerOne == s1 :> r1 @@ s2 :> r1
HostSplit == s1 :> i1 @@ s2 :> i2
HostSame == s1 :> i1 @@ s2 :> i1

\* A single device.
OwnerSingle == s1 :> r1
HostSingle == s1 :> i1

\* A group message to both recipients.
KindGroup == e1 :> "group-message"
ToGroup == e1 :> {r1, r2}

\* A message.
OneKind == e1 :> "message"
OneTo == e1 :> {r1}

\* A message and a call signal to the same recipient.
KindMixed == e1 :> "message" @@ e2 :> "call-signal"
ToOne == e1 :> {r1} @@ e2 :> {r1}
=============================================================================
