-------------------------------- MODULE Mailbox --------------------------------
(***************************************************************************)
(* What the offline queue promises its recipients, without lists, sockets, *)
(* instances or failures: an accepted envelope is owed until it has been   *)
(* handed over, and only what has been handed over, or has outlived its    *)
(* time to live, is forgotten.  Handing over twice is allowed.             *)
(***************************************************************************)
CONSTANTS Identity, Envelope

VARIABLES
    owed,       \* owed[r]:   envelopes durably stored for r
    handed,     \* handed[r]: envelopes written to a socket of r
    lapsed      \* lapsed[r]: envelopes whose time to live ran out

mailboxVars == <<owed, handed, lapsed>>

Init ==
    /\ owed = [r \in Identity |-> {}]
    /\ handed = [r \in Identity |-> {}]
    /\ lapsed = [r \in Identity |-> {}]

Accept(r, e) ==
    /\ owed' = [owed EXCEPT ![r] = @ \cup {e}]
    /\ UNCHANGED <<handed, lapsed>>

\* Only what is owed is handed over; it stays owed until it is forgotten.
HandOver(r, S) ==
    /\ S \subseteq owed[r]
    /\ handed' = [handed EXCEPT ![r] = @ \cup S]
    /\ UNCHANGED <<owed, lapsed>>

Forget(r, S) ==
    /\ S \subseteq handed[r]
    /\ owed' = [owed EXCEPT ![r] = @ \ S]
    /\ UNCHANGED <<handed, lapsed>>

\* S outlived its time to live; another copy may still be stored.
Lapse(r, S) ==
    /\ \E T \in SUBSET S : owed' = [owed EXCEPT ![r] = @ \ T]
    /\ lapsed' = [lapsed EXCEPT ![r] = @ \cup S]
    /\ UNCHANGED handed

Next ==
    \E r \in Identity :
        \/ \E e \in Envelope : Accept(r, e)
        \/ \E S \in SUBSET Envelope : HandOver(r, S) \/ Forget(r, S) \/ Lapse(r, S)

Spec == Init /\ [][Next]_mailboxVars
=============================================================================
