------------------------------ MODULE RelayTypes ------------------------------
(***************************************************************************)
(* The parties every relay module speaks of.                               *)
(***************************************************************************)
EXTENDS Naturals, Sequences

CONSTANTS
    Identity,   \* pubkey hashes
    Envelope,   \* serialized envelopes: model values, the relay never looks inside
    Instance,   \* relay processes
    Socket,     \* WebSocket connections
    Owner,      \* Owner[s]: the identity a socket registers as
    Host        \* Host[s]:  the instance that holds the socket

ASSUME PartiesAssumption ==
    /\ Owner \in [Socket -> Identity]
    /\ Host \in [Socket -> Instance]

SocketsOf(r) == {s \in Socket : Owner[s] = r}
=============================================================================
