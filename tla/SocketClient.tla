----------------------------- MODULE SocketClient -----------------------------
(***************************************************************************)
(* The web client's connection to the relay                                *)
(* (apps/web/src/stores/useSocketStore.ts, mounted by NadaApp.tsx).        *)
(*                                                                         *)
(* A socket is named by the order it was created in, 0 is none.  Its       *)
(* events are handled by listeners that outlive its place in the store.    *)
(***************************************************************************)
EXTENDS Naturals, FiniteSets

CONSTANTS MaxSockets, MaxDrops, MaxMounts  \* bounds: sockets, failures, mounts

ASSUME SocketAssumption == {MaxSockets, MaxDrops, MaxMounts} \subseteq Nat

VARIABLES
  sock,            \* readyState of each socket, "none" before it is created
  registered,      \* sockets the relay knows the identity of
  announced,       \* those whose "registered" envelope has been handled
  current,         \* socket
  status,
  shouldReconnect,
  timer,           \* a reconnect is scheduled
  mounted,         \* the effect of NadaApp that connects is active
  mounts, drops,
  orphaned         \* history: a close event took another socket's place in the store

linkVars == <<sock, registered, announced, current, status, shouldReconnect, timer,
              mounted, mounts, drops, orphaned>>

Sockets == 1..MaxSockets

SocketInit ==
  /\ sock = [s \in Sockets |-> "none"]
  /\ registered = {} /\ announced = {} /\ current = 0 /\ status = "idle"
  /\ shouldReconnect = FALSE /\ timer = FALSE /\ mounted = FALSE
  /\ mounts = 0 /\ drops = 0 /\ orphaned = FALSE

State(s) == IF s = 0 THEN "none" ELSE sock[s]

\* Nothing while a socket is connecting or open; otherwise a new one takes over.
connect ==
  IF State(current) \in {"connecting", "open"}
  THEN UNCHANGED <<sock, current, status, shouldReconnect>>
  ELSE \E s \in Sockets :
         /\ sock[s] = "none" /\ \A t \in Sockets : t < s => sock[t] # "none"
         /\ sock' = [sock EXCEPT ![s] = "connecting"]
         /\ current' = s
         /\ status' = "connecting"
         /\ shouldReconnect' = TRUE

Mount ==
  /\ ~mounted /\ mounts < MaxMounts
  /\ mounted' = TRUE
  /\ mounts' = mounts + 1
  /\ connect
  /\ UNCHANGED <<registered, announced, timer, drops, orphaned>>

\* disconnect, but the reconnect that is scheduled stays.
Unmount_TimerKept ==
  /\ mounted
  /\ mounted' = FALSE
  /\ shouldReconnect' = FALSE
  /\ current' = 0
  /\ status' = "idle"
  /\ sock' = IF State(current) \in {"connecting", "open"}
             THEN [sock EXCEPT ![current] = "closing"] ELSE sock
  /\ UNCHANGED <<registered, announced, timer, mounts, drops, orphaned>>

\* disconnect: the socket's close event is still to come.
Unmount ==
  /\ mounted
  /\ mounted' = FALSE
  /\ timer' = FALSE
  /\ shouldReconnect' = FALSE
  /\ current' = 0
  /\ status' = "idle"
  /\ sock' = IF State(current) \in {"connecting", "open"}
             THEN [sock EXCEPT ![current] = "closing"] ELSE sock
  /\ UNCHANGED <<registered, announced, mounts, drops, orphaned>>

OnOpen(s) ==
  /\ sock[s] = "connecting"
  /\ sock' = [sock EXCEPT ![s] = "open"]
  /\ UNCHANGED <<registered, announced, current, status, shouldReconnect, timer, mounted,
                 mounts, drops, orphaned>>

\* The challenge is answered and the relay accepts the answer.
Register(s) ==
  /\ sock[s] = "open"
  /\ s \notin registered
  /\ registered' = registered \cup {s}
  /\ UNCHANGED <<sock, announced, current, status, shouldReconnect, timer, mounted,
                 mounts, drops, orphaned>>

OnRegistered(s) ==
  /\ sock[s] = "open"
  /\ s \in registered \ announced
  /\ announced' = announced \cup {s}
  /\ status' = "connected"
  /\ UNCHANGED <<sock, registered, current, shouldReconnect, timer, mounted, mounts,
                 drops, orphaned>>

\* Something that cannot be read, or the relay's "error" envelope, such as its answer to
\* an envelope its schema refuses: the status alone changes, the socket stays open.
ReportError(s) ==
  /\ sock[s] = "open"
  /\ status' = "error"
  /\ UNCHANGED <<sock, registered, announced, current, shouldReconnect, timer, mounted,
                 mounts, drops, orphaned>>

\* The network, the relay or the signature fails; an error event may come first.
Fail(s) ==
  /\ sock[s] \in {"connecting", "open"}
  /\ drops < MaxDrops
  /\ drops' = drops + 1
  /\ sock' = [sock EXCEPT ![s] = "closing"]
  /\ status' \in {status, "error"}
  /\ UNCHANGED <<registered, announced, current, shouldReconnect, timer, mounted, mounts,
                 orphaned>>

\* A close schedules nothing.
Schedules_Never == FALSE

\* scheduleReconnect gives up when the store was told to disconnect.
Schedules == shouldReconnect

\* Only the close of the socket in the store leads to another attempt.
OnClose_OwnOnly(s) ==
  /\ sock[s] = "closing"
  /\ sock' = [sock EXCEPT ![s] = "closed"]
  /\ registered' = registered \ {s}
  /\ announced' = announced \ {s}
  /\ orphaned' = (orphaned \/ current \notin {0, s})
  /\ current' = 0
  /\ status' = "disconnected"
  /\ timer' = (timer \/ (Schedules /\ current = s))
  /\ UNCHANGED <<shouldReconnect, mounted, mounts, drops>>

\* The close listener clears the store whichever socket is in it.
OnClose(s) ==
  /\ sock[s] = "closing"
  /\ sock' = [sock EXCEPT ![s] = "closed"]
  /\ registered' = registered \ {s}
  /\ announced' = announced \ {s}
  /\ orphaned' = (orphaned \/ current \notin {0, s})
  /\ current' = 0
  /\ status' = "disconnected"
  /\ timer' = (timer \/ Schedules)
  /\ UNCHANGED <<shouldReconnect, mounted, mounts, drops>>

Reconnect ==
  /\ timer
  /\ timer' = FALSE
  /\ connect
  /\ UNCHANGED <<registered, announced, mounted, mounts, drops, orphaned>>

\* What sendEnvelope and its siblings ask: whether the socket is open, not whether
\* the relay knows the identity yet.
CanSend == State(current) = "open"

-------------------------------------------------------------------------------
(* Properties. *)

\* Once the application has disconnected, nothing connects again by itself, however
\* late the old socket's close event or a timer comes (useSocketStore.ts:360).
QuietAfterDisconnect == ~mounted => ~timer /\ current = 0 /\ ~shouldReconnect

\* As long as the application stays mounted and failures end, it is connected for
\* good: every close leads to another attempt (useSocketStore.ts:351).
StaysConnected == <>[](mounted => current \in registered)
===============================================================================
