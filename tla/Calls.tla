--------------------------------- MODULE Calls ---------------------------------
(***************************************************************************)
(* Voice and video calls between two people: the call store                *)
(* (apps/web/src/stores/useCallStore.ts), the signal handler, the ring     *)
(* timer and the call buttons of Dashboard.tsx, and the media sessions of  *)
(* apps/web/src/lib/webrtc.ts.                                             *)
(*                                                                         *)
(* A person shows at most one call; opening a microphone, storing a call   *)
(* and setting a description are awaited, and signals, timers and buttons  *)
(* come in between.  Signals reach a person in order or, when the relay    *)
(* does not find them, not at all.  Group calls, which signal nothing, and *)
(* ICE candidates are left out.                                            *)
(***************************************************************************)
EXTENDS Naturals, Sequences, SequencesExt

CONSTANTS
  Person, CallId, NoCall, Nobody,
  MaxLostSignals   \* bound: signals the relay cannot deliver

ASSUME CallsAssumption ==
  /\ NoCall \notin CallId /\ Nobody \notin Person
  /\ NoCall \notin [id : CallId, session : CallId \cup {NoCall},
                    phase : {"incoming", "outgoing", "connecting", "active", "failed"}]
  /\ MaxLostSignals \in Nat

VARIABLES
  ends,     \* whom a call is from and to
  onScreen, \* the store's call: [id, phase, session], or NoCall
  live,     \* sessions whose microphone is on
  answered, \* sessions whose remote description is set
  pending,  \* what awaits: [step, id]
  ringing,  \* the call the ring timer is about
  air,      \* signals on their way to a person: [type, id]
  muddled,  \* history: calls some step of which met another call, or none
  lostSignals

callVars == <<ends, onScreen, live, answered, pending, ringing, air, muddled, lostSignals>>

Unplaced == [from |-> Nobody, to |-> Nobody]

CallsInit ==
  /\ ends = [c \in CallId |-> Unplaced]
  /\ onScreen = [p \in Person |-> NoCall]
  /\ live = [p \in Person |-> {}]
  /\ answered = [p \in Person |-> {}]
  /\ pending = [p \in Person |-> {}]
  /\ ringing = [p \in Person |-> NoCall]
  /\ air = [p \in Person |-> <<>>]
  /\ muddled = {} /\ lostSignals = 0

Await(step, c) == [step |-> step, id |-> c]
Signal(type, c) == [type |-> type, id |-> c]
OtherEnd(p, c) == IF ends[c].from = p THEN ends[c].to ELSE ends[c].from
Shown(p) == IF onScreen[p] = NoCall THEN {} ELSE {onScreen[p].id}
Sending(p, c, type) == [air EXCEPT ![OtherEnd(p, c)] = Append(@, Signal(type, c))]

\* Calls that a step of p about c mixes up: the step is meant for a call p does not show.
Mixed(p, c) == IF Shown(p) = {c} THEN {} ELSE Shown(p) \cup {c}
\* Calls p is still opening media for.
OpeningMedia(p) == {a.id : a \in {b \in pending[p] : b.step \in {"dial", "accept", "answer"}}}

\* stopLocalCallSession of the call that is shown.
Stopped(p) == IF onScreen[p] = NoCall THEN live[p] ELSE live[p] \ {onScreen[p].session}

-------------------------------------------------------------------------------
(* The store. *)

\* The microphone stays on.
endCall_KeepSession(p) == /\ onScreen' = [onScreen EXCEPT ![p] = NoCall]
                          /\ UNCHANGED live

endCall(p) == /\ onScreen' = [onScreen EXCEPT ![p] = NoCall]
              /\ live' = [live EXCEPT ![p] = Stopped(p)]

failCall(p) ==
  /\ onScreen' = IF onScreen[p] = NoCall THEN onScreen
             ELSE [onScreen EXCEPT ![p].phase = "failed", ![p].session = NoCall]
  /\ live' = [live EXCEPT ![p] = Stopped(p)]

setPhase(p, phase) ==
  onScreen' = IF onScreen[p] = NoCall THEN onScreen ELSE [onScreen EXCEPT ![p].phase = phase]

\* A failed call that is still shown is not replaced.
receiveIncomingOffer(p, c) ==
  onScreen' = IF onScreen[p] # NoCall THEN onScreen
          ELSE [onScreen EXCEPT ![p] = [id |-> c, phase |-> "incoming", session |-> NoCall]]

setOutgoingCall(p, c) ==
  onScreen' = [onScreen EXCEPT ![p] = [id |-> c, phase |-> "outgoing", session |-> c]]

attachLocalSession(p, c) ==
  onScreen' = IF onScreen[p] = NoCall THEN onScreen
          ELSE [onScreen EXCEPT ![p].session = c, ![p].phase = "connecting"]

-------------------------------------------------------------------------------
(* Calling: startCall.  The screen of a call covers the button. *)

Dial(p, q, c) ==
  /\ p # q /\ ends[c] = Unplaced
  /\ onScreen[p] = NoCall
  /\ ends' = [ends EXCEPT ![c] = [from |-> p, to |-> q]]
  /\ ringing' = [ringing EXCEPT ![p] = NoCall]
  /\ pending' = [pending EXCEPT ![p] = @ \cup {Await("dial", c)}]
  /\ UNCHANGED <<onScreen, live, answered, air, muddled, lostSignals>>

\* The microphone is on and the offer made: the call replaces what is shown by now.
Place(p, c) ==
  /\ Await("dial", c) \in pending[p]
  /\ live' = [live EXCEPT ![p] = @ \cup {c}]
  /\ setOutgoingCall(p, c)
  /\ pending' = [pending EXCEPT ![p] = (@ \ {Await("dial", c)}) \cup {Await("store", c)}]
  /\ muddled' = IF onScreen[p] = NoCall THEN muddled ELSE muddled \cup Mixed(p, c)
  /\ UNCHANGED <<ends, answered, ringing, air, lostSignals>>

\* The call is stored: the offer is sent and the timer started, whatever is shown.
Offer(p, c) ==
  /\ Await("store", c) \in pending[p]
  /\ pending' = [pending EXCEPT ![p] = @ \ {Await("store", c)}]
  /\ air' = Sending(p, c, "offer")
  /\ ringing' = [ringing EXCEPT ![p] = c]
  /\ muddled' = muddled \cup Mixed(p, c)
  /\ UNCHANGED <<ends, onScreen, live, answered, lostSignals>>

\* No microphone: the call that is shown fails.
MediaFails(p, c) ==
  /\ \E step \in {"dial", "accept"} :
       /\ Await(step, c) \in pending[p]
       /\ pending' = [pending EXCEPT ![p] = @ \ {Await(step, c)}]
  /\ failCall(p)
  /\ muddled' = IF onScreen[p] = NoCall THEN muddled ELSE muddled \cup Mixed(p, c)
  /\ UNCHANGED <<ends, answered, ringing, air, lostSignals>>

-------------------------------------------------------------------------------
(* Answering: onAccept. *)

Accept(p) ==
  /\ onScreen[p] # NoCall /\ onScreen[p].phase = "incoming"
  /\ ringing' = [ringing EXCEPT ![p] = NoCall]
  /\ pending' = [pending EXCEPT ![p] = @ \cup {Await("accept", onScreen[p].id)}]
  /\ UNCHANGED <<ends, onScreen, live, answered, air, muddled, lostSignals>>

\* The microphone is on; setting the offer brings the caller's tracks.
OpenMedia(p, c) ==
  /\ Await("accept", c) \in pending[p]
  /\ live' = [live EXCEPT ![p] = @ \cup {c}]
  /\ answered' = [answered EXCEPT ![p] = @ \cup {c}]
  /\ setPhase(p, "active")
  /\ pending' = [pending EXCEPT ![p] = (@ \ {Await("accept", c)}) \cup {Await("answer", c)}]
  /\ muddled' = muddled \cup Mixed(p, c)
  /\ UNCHANGED <<ends, ringing, air, lostSignals>>

\* The answer is made: it is sent even if the call has ended meanwhile.
AnswerCall(p, c) ==
  /\ Await("answer", c) \in pending[p]
  /\ attachLocalSession(p, c)
  /\ air' = Sending(p, c, "answer")
  /\ pending' = [pending EXCEPT ![p] = @ \ {Await("answer", c)}]
  /\ muddled' = muddled \cup Mixed(p, c)
  /\ UNCHANGED <<ends, live, answered, ringing, lostSignals>>

-------------------------------------------------------------------------------
(* Ending: the buttons and the ring timer. *)

\* Nobody is told.
HangUp_Silent(p) ==
  /\ onScreen[p] # NoCall /\ onScreen[p].phase # "incoming"
  /\ ringing' = [ringing EXCEPT ![p] = NoCall]
  /\ endCall(p)
  /\ muddled' = muddled \cup OpeningMedia(p)
  /\ UNCHANGED <<ends, answered, pending, air, lostSignals>>

\* endCall, on the screen of any call that is not an incoming one.
HangUp(p) ==
  /\ onScreen[p] # NoCall /\ onScreen[p].phase # "incoming"
  /\ ringing' = [ringing EXCEPT ![p] = NoCall]
  /\ endCall(p)
  /\ air' = Sending(p, onScreen[p].id, "hangup")
  /\ muddled' = muddled \cup OpeningMedia(p)
  /\ UNCHANGED <<ends, answered, pending, lostSignals>>

rejectIncomingCall(p) ==
  /\ onScreen[p] # NoCall /\ onScreen[p].phase = "incoming"
  /\ ringing' = [ringing EXCEPT ![p] = NoCall]
  /\ endCall(p)
  /\ air' = Sending(p, onScreen[p].id, "reject")
  /\ muddled' = muddled \cup OpeningMedia(p)
  /\ UNCHANGED <<ends, answered, pending, lostSignals>>

\* The ring timer: only the one who is called tells the other.
RingTimeout(p) ==
  /\ ringing[p] # NoCall
  /\ ringing' = [ringing EXCEPT ![p] = NoCall]
  /\ IF Shown(p) = {ringing[p]} /\ onScreen[p].phase \in {"incoming", "outgoing"}
     THEN /\ endCall(p)
          /\ air' = IF ends[ringing[p]].to = p THEN Sending(p, ringing[p], "reject") ELSE air
          /\ muddled' = muddled \cup OpeningMedia(p)
     ELSE UNCHANGED <<onScreen, live, air, muddled>>
  /\ UNCHANGED <<ends, answered, pending, lostSignals>>

-------------------------------------------------------------------------------
(* Signals. *)

Arrives(p, type) == air[p] # <<>> /\ Head(air[p]).type = type
Received(p) == [air EXCEPT ![p] = Tail(@)]

\* Saying busy stops the ring of the call that is shown.
ReceiveOffer_StopsRing(p) ==
  /\ Arrives(p, "offer")
  /\ LET c == Head(air[p]).id
     IN IF onScreen[p] # NoCall /\ onScreen[p].phase # "failed"
        THEN /\ air' = [Received(p) EXCEPT ![OtherEnd(p, c)] = Append(@, Signal("reject", c))]
             /\ ringing' = [ringing EXCEPT ![p] = NoCall]
             /\ UNCHANGED <<onScreen, muddled>>
        ELSE /\ air' = Received(p)
             /\ receiveIncomingOffer(p, c)
             /\ ringing' = [ringing EXCEPT ![p] = c]
             /\ muddled' = IF onScreen[p] = NoCall THEN muddled ELSE muddled \cup Mixed(p, c)
  /\ UNCHANGED <<ends, live, answered, pending, lostSignals>>

\* Busy is answered at once; a failed call is not in the way, yet stays on the screen.
ReceiveOffer(p) ==
  /\ Arrives(p, "offer")
  /\ LET c == Head(air[p]).id
     IN IF onScreen[p] # NoCall /\ onScreen[p].phase # "failed"
        THEN /\ air' = [Received(p) EXCEPT ![OtherEnd(p, c)] = Append(@, Signal("reject", c))]
             /\ UNCHANGED <<onScreen, ringing, muddled>>
        ELSE /\ air' = Received(p)
             /\ receiveIncomingOffer(p, c)
             /\ ringing' = [ringing EXCEPT ![p] = c]
             /\ muddled' = IF onScreen[p] = NoCall THEN muddled ELSE muddled \cup Mixed(p, c)
  /\ UNCHANGED <<ends, live, answered, pending, lostSignals>>

\* The answer is set on the session of the call that is shown, whichever it is.
ReceiveAnswer(p) ==
  /\ Arrives(p, "answer")
  /\ air' = Received(p)
  /\ ringing' = [ringing EXCEPT ![p] = NoCall]
  /\ pending' = IF onScreen[p] = NoCall \/ onScreen[p].session = NoCall THEN pending
                ELSE [pending EXCEPT ![p] = @ \cup {Await("describe", onScreen[p].session)}]
  /\ muddled' = muddled \cup Mixed(p, Head(air[p]).id)
  /\ UNCHANGED <<ends, onScreen, live, answered, lostSignals>>

\* setRemoteDescription is done, or fails, as it does a second time; it never is for a
\* session that was closed meanwhile.
Described(p, c) ==
  /\ Await("describe", c) \in pending[p]
  /\ c \in live[p]
  /\ pending' = [pending EXCEPT ![p] = @ \ {Await("describe", c)}]
  /\ \/ /\ c \notin answered[p]
        /\ answered' = [answered EXCEPT ![p] = @ \cup {c}]
        /\ setPhase(p, "active")
        /\ UNCHANGED live
     \/ failCall(p) /\ UNCHANGED answered
  /\ muddled' = muddled \cup Mixed(p, c)
  /\ UNCHANGED <<ends, ringing, air, lostSignals>>

\* Handled, but the call goes on.
ReceiveEnd_Ignored(p) ==
  /\ Arrives(p, "hangup") \/ Arrives(p, "reject")
  /\ air' = Received(p)
  /\ ringing' = [ringing EXCEPT ![p] = NoCall]
  /\ UNCHANGED <<ends, onScreen, live, answered, pending, muddled, lostSignals>>

\* A hangup or a rejection ends the call that is shown, whichever it is about.
ReceiveEnd(p) ==
  /\ Arrives(p, "hangup") \/ Arrives(p, "reject")
  /\ air' = Received(p)
  /\ ringing' = [ringing EXCEPT ![p] = NoCall]
  /\ endCall(p)
  /\ muddled' = muddled \cup OpeningMedia(p) \cup
                (IF onScreen[p] = NoCall THEN {} ELSE Mixed(p, Head(air[p]).id))
  /\ UNCHANGED <<ends, answered, pending, lostSignals>>

\* The relay finds no socket of p.
LoseSignal(p) ==
  /\ lostSignals < MaxLostSignals
  /\ lostSignals' = lostSignals + 1
  /\ \E i \in 1..Len(air[p]) :
       /\ air' = [air EXCEPT ![p] = RemoveAt(@, i)]
       /\ muddled' = muddled \cup {air[p][i].id}
  /\ UNCHANGED <<ends, onScreen, live, answered, pending, ringing>>

CallsNext ==
  \E p \in Person :
    \/ Accept(p) \/ HangUp(p) \/ rejectIncomingCall(p) \/ RingTimeout(p)
    \/ ReceiveOffer(p) \/ ReceiveAnswer(p) \/ ReceiveEnd(p) \/ LoseSignal(p)
    \/ \E c \in CallId :
         \/ \E q \in Person : Dial(p, q, c)
         \/ Place(p, c) \/ Offer(p, c) \/ MediaFails(p, c)
         \/ OpenMedia(p, c) \/ AnswerCall(p, c) \/ Described(p, c)

CallsSpec == CallsInit /\ [][CallsNext]_callVars

-------------------------------------------------------------------------------
(* Properties.  Each is about calls none of whose steps met another call or   *)
(* none: what becomes of the others is said in the README.                    *)

Talking(p, c) == Shown(p) = {c} /\ onScreen[p].phase \in {"connecting", "active"}

\* Steps that will be taken: describing a session is not once it is closed.
Outstanding(p) == {a \in pending[p] : a.step = "describe" => a.id \in live[p]}

\* Once no signal and no step is on its way, a person who talks has the other one there:
\* talking, or looking at a failed call (useCallStore.ts:12).
NobodyTalksAlone ==
  (\A p \in Person : air[p] = <<>> /\ Outstanding(p) = {}) =>
    \A p \in Person, c \in CallId \ muddled :
      Talking(p, c) => \/ Talking(OtherEnd(p, c), c)
                       \/ /\ Shown(OtherEnd(p, c)) = {c}
                          /\ onScreen[OtherEnd(p, c)].phase = "failed"

\* A microphone is on only for the call that is shown (useCallStore.ts:165).
MicrophoneFollowsCall ==
  \A p \in Person : \A c \in live[p] \ muddled : Shown(p) = {c}

\* Nobody's phone rings for ever: a ringing call has its timer, or is being answered or
\* stored (Dashboard.tsx:2045).
RingingIsTimed ==
  \A p \in Person, c \in CallId \ muddled :
    Shown(p) = {c} /\ onScreen[p].phase \in {"incoming", "outgoing"} =>
      ringing[p] = c \/ c \in {a.id : a \in pending[p]}

\* A call that is over is over for the other end and for its device: nobody goes on
\* talking, the microphone is off and nothing rings, at whatever moment of placing or
\* answering it ended.
CallEndsCleanly == NobodyTalksAlone /\ MicrophoneFollowsCall /\ RingingIsTimed
===============================================================================
