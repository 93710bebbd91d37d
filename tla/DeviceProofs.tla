--------------------------------- MODULE DeviceProofs ---------------------------------
(*****************************************************************************)
(* Theorems about Calls, for any people, calls and lost signals, and about   *)
(* LocalDatabase, for any tabs, group keys, attempts and deletions.          *)
(*****************************************************************************)
EXTENDS Calls, LocalDatabase, TLAPS

-----------------------------------------------------------------------------
(* Queues: of signals to a person, of requests to the browser's database.    *)

Holds(s, e) == \E i \in 1..Len(s) : s[i] = e
HoldsOnce(s, e) == \A i, j \in 1..Len(s) : s[i] = e /\ s[j] = e => i = j

\* What a queue holds when something is put at its end,
LEMMA AppendHolds ==
    ASSUME NEW S, NEW s \in Seq(S), NEW x \in S, NEW e
    PROVE  /\ Append(s, x) \in Seq(S)
           /\ Holds(Append(s, x), e) <=> Holds(s, e) \/ x = e
           /\ HoldsOnce(s, e) /\ (x # e \/ ~Holds(s, e)) => HoldsOnce(Append(s, x), e)
<1> DEFINE t == Append(s, x)
<1>1. /\ t \in Seq(S) /\ Len(s) \in Nat /\ Len(t) = Len(s) + 1 /\ t[Len(s) + 1] = x
      /\ \A i \in 1..Len(s) : t[i] = s[i]
    OBVIOUS
<1>2. 1..Len(t) = 1..Len(s) \cup {Len(s) + 1}
    BY <1>1
<1> HIDE DEF t
<1> QED
    BY <1>1, <1>2 DEF Holds, HoldsOnce, t

\* when its head is served,
LEMMA TailHolds ==
    ASSUME NEW S, NEW s \in Seq(S), s # <<>>, NEW e
    PROVE  /\ Tail(s) \in Seq(S) /\ Head(s) \in S
           /\ Holds(s, e) <=> Holds(Tail(s), e) \/ Head(s) = e
           /\ HoldsOnce(s, e) => HoldsOnce(Tail(s), e) /\ (Head(s) = e => ~Holds(Tail(s), e))
<1> DEFINE t == Tail(s)
<1>1. /\ t \in Seq(S) /\ Len(s) \in Nat /\ Len(s) >= 1 /\ Len(t) = Len(s) - 1
      /\ Head(s) = s[1] /\ s[1] \in S
      /\ \A i \in 1..Len(t) : t[i] = s[i + 1]
    OBVIOUS
<1>2. /\ \A i \in 1..Len(t) : i + 1 \in 1..Len(s) /\ i + 1 # 1
      /\ 1 \in 1..Len(s) /\ \A j \in 1..Len(s) : j = 1 \/ (j - 1 \in 1..Len(t) /\ t[j - 1] = s[j])
    BY <1>1
<1>3. Holds(s, e) <=> Holds(t, e) \/ Head(s) = e
    <2> HIDE DEF t
    <2>1. ASSUME Holds(s, e) PROVE Holds(t, e) \/ Head(s) = e
        BY <1>1, <1>2, <2>1 DEF Holds
    <2>2. ASSUME Holds(t, e) PROVE Holds(s, e)
        BY <1>1, <1>2, <2>2 DEF Holds
    <2>3. ASSUME Head(s) = e PROVE Holds(s, e)
        BY <1>1, <1>2, <2>3 DEF Holds
    <2> QED
        BY <2>1, <2>2, <2>3
<1>4. ASSUME HoldsOnce(s, e) PROVE HoldsOnce(t, e) /\ (Head(s) = e => ~Holds(t, e))
    <2> HIDE DEF t
    <2>1. HoldsOnce(t, e)
        <3> SUFFICES ASSUME NEW i \in 1..Len(t), NEW j \in 1..Len(t), t[i] = e, t[j] = e PROVE i = j
            BY DEF HoldsOnce
        <3>1. i + 1 = j + 1
            BY <1>1, <1>2, <1>4 DEF HoldsOnce
        <3> QED
            BY <1>1, <3>1
    <2>2. ASSUME Head(s) = e, NEW i \in 1..Len(t), t[i] = e PROVE FALSE
        BY <1>1, <1>2, <1>4, <2>2 DEF HoldsOnce
    <2> QED
        BY <2>1, <2>2 DEF Holds
<1> QED
    BY <1>1, <1>3, <1>4

\* The elements of two queues put together.
LEMMA ConcatElements ==
    ASSUME NEW S, NEW u \in Seq(S), NEW v \in Seq(S)
    PROVE  /\ u \o v \in Seq(S) /\ Len(u \o v) = Len(u) + Len(v)
           /\ \A i \in 1..Len(u \o v) : (u \o v)[i] = IF i <= Len(u) THEN u[i] ELSE v[i - Len(u)]
    OBVIOUS

\* and when something else is taken out of it.
LEMMA RemoveHolds ==
    ASSUME NEW S, NEW s \in Seq(S), NEW k \in 1..Len(s), NEW e, s[k] # e
    PROVE  /\ RemoveAt(s, k) \in Seq(S)
           /\ Holds(RemoveAt(s, k), e) <=> Holds(s, e)
           /\ HoldsOnce(s, e) => HoldsOnce(RemoveAt(s, k), e)
<1> DEFINE t == RemoveAt(s, k)
           Old(i) == IF i < k THEN i ELSE i + 1
<1>1. /\ t \in Seq(S) /\ Len(t) = Len(s) - 1 /\ Len(s) \in Nat
      /\ \A i \in 1..Len(t) : t[i] = s[Old(i)]
    <2> DEFINE u == SubSeq(s, 1, k - 1)
               v == SubSeq(s, k + 1, Len(s))
    <2>1. u \in Seq(S) /\ Len(u) = k - 1 /\ \A i \in 1..(k - 1) : u[i] = s[i]
        OBVIOUS
    <2>2. v \in Seq(S) /\ Len(v) = Len(s) - k /\ \A i \in 1..(Len(s) - k) : v[i] = s[k + i]
        OBVIOUS
    <2>3. t = u \o v /\ Len(s) \in Nat
        BY DEF RemoveAt
    <2> HIDE DEF u, v, t
    <2>4. /\ t \in Seq(S) /\ Len(t) = Len(u) + Len(v)
          /\ \A i \in 1..Len(t) : t[i] = IF i <= Len(u) THEN u[i] ELSE v[i - Len(u)]
        BY <2>1, <2>2, <2>3, ConcatElements
    <2>5. ASSUME NEW i \in 1..Len(t) PROVE t[i] = s[Old(i)]
        <3>1. CASE i < k
            BY <2>1, <2>2, <2>3, <2>4, <3>1
        <3>2. CASE ~(i < k)
            <4>1. i - Len(u) \in 1..(Len(s) - k) /\ k + (i - Len(u)) = i + 1 /\ ~(i <= Len(u))
                BY <2>1, <2>2, <2>3, <2>4, <3>2
            <4> QED
                BY <2>2, <2>4, <3>2, <4>1
        <3> QED
            BY <3>1, <3>2
    <2> QED
        BY <2>1, <2>2, <2>3, <2>4, <2>5
<1>2. /\ \A i \in 1..Len(t) : Old(i) \in 1..Len(s)
      /\ \A i, j \in 1..Len(t) : Old(i) = Old(j) => i = j
      /\ \A j \in 1..Len(s) : j = k \/ \E i \in 1..Len(t) : Old(i) = j
    <2> HIDE DEF t
    <2>1. /\ \A i \in 1..Len(t) : Old(i) \in 1..Len(s)
          /\ \A i, j \in 1..Len(t) : Old(i) = Old(j) => i = j
        BY <1>1
    <2>2. ASSUME NEW j \in 1..Len(s), j # k PROVE \E i \in 1..Len(t) : Old(i) = j
        <3>1. CASE j < k
            BY <1>1, <2>2, <3>1
        <3>2. CASE j > k
            <4>1. j - 1 \in 1..Len(t) /\ Old(j - 1) = j
                BY <1>1, <2>2, <3>2
            <4> QED
                BY <4>1
        <3> QED
            BY <2>2, <3>1, <3>2
    <2> QED
        BY <2>1, <2>2
<1> HIDE DEF t, Old
<1>3. ASSUME Holds(s, e) PROVE Holds(t, e)
    BY <1>1, <1>2, <1>3 DEF Holds
<1>4. ASSUME Holds(t, e) PROVE Holds(s, e)
    BY <1>1, <1>2, <1>4 DEF Holds
<1>5. ASSUME HoldsOnce(s, e) PROVE HoldsOnce(t, e)
    BY <1>1, <1>2, <1>5 DEF HoldsOnce
<1> QED
    BY <1>1, <1>3, <1>4, <1>5 DEF t

-----------------------------------------------------------------------------
(* Calls.                                                                    *)

Phases == {"incoming", "outgoing", "connecting", "active", "failed"}
Steps == {"dial", "store", "accept", "answer", "describe"}
SignalTypes == {"offer", "answer", "hangup", "reject"}
CallShape ==
    /\ ends \in [CallId -> [from : Person \cup {Nobody}, to : Person \cup {Nobody}]]
    /\ \A c \in CallId : ends[c] = Unplaced \/ /\ ends[c].from \in Person /\ ends[c].to \in Person
                                               /\ ends[c].from # ends[c].to
    /\ onScreen \in [Person -> {NoCall} \cup
                               [id : CallId, session : CallId \cup {NoCall}, phase : Phases]]
    /\ live \in [Person -> SUBSET CallId]
    /\ pending \in [Person -> SUBSET [step : Steps, id : CallId]]
    /\ ringing \in [Person -> CallId \cup {NoCall}]
    /\ air \in [Person -> Seq([type : SignalTypes, id : CallId])]

(* A call as its two ends see it. *)

Shows(p, c) == onScreen[p] # NoCall /\ onScreen[p].id = c
Session(p, c) == onScreen[p] # NoCall /\ onScreen[p].session = c
Phase(p, c) == IF Shows(p, c) THEN onScreen[p].phase ELSE "away"
Speaks(p, c) == Phase(p, c) \in {"connecting", "active"}
Waits(p, step, c) == Await(step, c) \in pending[p]
Comes(p, type, c) == Holds(air[p], Signal(type, c))
Ends(p, c) == Comes(p, "hangup", c) \/ Comes(p, "reject", c)
Timed(p, c) == ringing[p] = c
OneOffer(p, c) == HoldsOnce(air[p], Signal("offer", c))

\* Who has to do with a call is one of its ends.
Party(p, c) == p = ends[c].from \/ p = ends[c].to
Roles == \A p \in Person, c \in CallId :
    /\ Shows(p, c) \/ Session(p, c) \/ c \in live[p] \/ Waits(p, "describe", c) \/ Ends(p, c)
          => Party(p, c)
    /\ Waits(p, "dial", c) \/ Waits(p, "store", c) \/ Comes(p, "answer", c) => p = ends[c].from
    /\ Phase(p, c) = "incoming" \/ Waits(p, "accept", c) \/ Waits(p, "answer", c) \/ Comes(p, "offer", c)
          => p = ends[c].to

\* The callee has heard nothing of the call, and the caller nothing back.
Unheard(a, b, c) ==
    /\ Phase(b, c) = "away" /\ c \notin live[b]
    /\ ~Waits(b, "accept", c) /\ ~Waits(b, "answer", c) /\ ~Waits(a, "describe", c)
    /\ ~Comes(a, "answer", c) /\ ~Ends(a, c)

\* A call c, from a to b, that nothing muddled.
CallerSound(a, b, c) ==
    /\ Phase(a, c) \in {"away", "outgoing", "active", "failed"}
    /\ Phase(a, c) \in {"outgoing", "active"} => Session(a, c)
    /\ Phase(a, c) \in {"outgoing", "active"} <=> c \in live[a]
    /\ Phase(a, c) = "failed" => onScreen[a].session = NoCall
    /\ Waits(a, "dial", c) => ~Waits(a, "store", c) /\ Phase(a, c) = "away" /\ ~Ends(b, c)
    /\ Waits(a, "dial", c) \/ Waits(a, "store", c) => Unheard(a, b, c) /\ ~Comes(b, "offer", c)
    /\ Waits(a, "describe", c) => ~Timed(a, c)
    /\ Phase(a, c) = "outgoing" =>
          Timed(a, c) \/ Waits(a, "store", c) \/ Waits(a, "describe", c)

CalleeSound(a, b, c) ==
    /\ ~Waits(b, "describe", c)
    /\ Comes(b, "offer", c) => Unheard(a, b, c)
    /\ OneOffer(b, c)
    /\ Waits(b, "accept", c) => Phase(b, c) = "incoming"
    /\ Phase(b, c) = "incoming" => (Timed(b, c) \/ Waits(b, "accept", c))
    /\ Phase(b, c) # "outgoing"
    /\ Waits(b, "answer", c) => Phase(b, c) = "active"
    /\ c \in live[b] => Speaks(b, c) /\ (Session(b, c) \/ Waits(b, "answer", c))

\* The caller speaks, or has an answer before it.
Expects(a, c) ==
    \/ Phase(a, c) = "active"
    \/ Phase(a, c) # "away" /\ (Comes(a, "answer", c) \/ Waits(a, "describe", c))

\* An end that was told of is over, and who speaks is heard, or will be, or be told.
EndsSound(a, b, c) ==
    /\ Ends(b, c) => Phase(a, c) = "away"
    /\ Ends(a, c) => Phase(b, c) = "away"
    /\ Expects(a, c) => Speaks(b, c) \/ Ends(a, c)
    /\ Speaks(b, c) =>
          \/ Waits(b, "answer", c) \/ Comes(a, "answer", c) \/ Ends(b, c)
          \/ Waits(a, "describe", c) /\ Phase(a, c) # "away"
          \/ Phase(a, c) \in {"active", "failed"}

Sound(c) ==
    /\ \A p \in Person : Session(p, c) => Shows(p, c)
    /\ ends[c] # Unplaced => /\ CallerSound(ends[c].from, ends[c].to, c)
                             /\ CalleeSound(ends[c].from, ends[c].to, c)
                             /\ EndsSound(ends[c].from, ends[c].to, c)

CallInv == CallShape /\ Roles /\ \A c \in CallId \ muddled : Sound(c)

(* What the store's terms mean. *)

\* What the store shows, and what is to be opened for a call.
LEMMA ShownShows ==
    ASSUME NEW p, NEW c
    PROVE  /\ Shown(p) = {c} <=> Shows(p, c)
           /\ \A d : c \notin Mixed(p, d) => (Shows(p, c) <=> c = d)
           /\ onScreen[p] = NoCall => ~Shows(p, c)
           /\ c \notin OpeningMedia(p) =>
                 ~Waits(p, "dial", c) /\ ~Waits(p, "accept", c) /\ ~Waits(p, "answer", c)
<1>1. Shown(p) = {c} <=> Shows(p, c)
    BY DEF Shown, Shows
<1>2. ASSUME NEW d, c \notin Mixed(p, d) PROVE Shows(p, c) <=> c = d
    BY <1>2 DEF Mixed, Shown, Shows
<1>3. ASSUME c \notin OpeningMedia(p)
      PROVE ~Waits(p, "dial", c) /\ ~Waits(p, "accept", c) /\ ~Waits(p, "answer", c)
    <2>1. \A step : Await(step, c).step = step /\ Await(step, c).id = c
        BY DEF Await
    <2> QED
        BY <1>3, <2>1 DEF OpeningMedia, Waits
<1> QED
    BY <1>1, <1>2, <1>3 DEF Shows

(* A step that does not change what anyone sees of a call keeps it sound. *)

SameScreen(p, c) ==
    /\ Shows(p, c)' <=> Shows(p, c)
    /\ Shows(p, c) => onScreen'[p] = onScreen[p]
    /\ Session(p, c)' => Session(p, c)
    /\ c \in live'[p] <=> c \in live[p]
    /\ \A step \in Steps : Waits(p, step, c)' <=> Waits(p, step, c)
    /\ Shows(p, c) /\ Timed(p, c) => Timed(p, c)'
    /\ Timed(p, c)' => Timed(p, c)

SameAir(p, c) ==
    /\ \A type \in SignalTypes : Comes(p, type, c)' <=> Comes(p, type, c)
    /\ OneOffer(p, c) => OneOffer(p, c)'

\* A call of which nobody sees or hears anything new stays as it is.
LEMMA Elsewhere ==
    ASSUME CallShape, NEW c \in CallId, Sound(c), ends'[c] = ends[c],
           \A p \in Person : SameScreen(p, c) /\ SameAir(p, c)
    PROVE  Sound(c)'
<1>1. \A p \in Person : Session(p, c)' => Shows(p, c)'
    BY DEF Sound, SameScreen
<1> SUFFICES ASSUME ends[c] # Unplaced
             PROVE  /\ CallerSound(ends[c].from, ends[c].to, c)'
                    /\ CalleeSound(ends[c].from, ends[c].to, c)'
                    /\ EndsSound(ends[c].from, ends[c].to, c)'
    BY <1>1 DEF Sound, Unplaced
<1> DEFINE a == ends[c].from
           b == ends[c].to
<1>2. a \in Person /\ b \in Person /\ a' = a /\ b' = b
    BY DEF CallShape
<1>3. CallerSound(a, b, c) /\ CalleeSound(a, b, c) /\ EndsSound(a, b, c)
    BY DEF Sound
<1>4. \A p \in {a, b} :
         /\ Phase(p, c)' = Phase(p, c)
         /\ Phase(p, c) # "away" => onScreen'[p] = onScreen[p]
         /\ Session(p, c) /\ Shows(p, c) => Session(p, c)'
    BY <1>2 DEF Phase, SameScreen, Session, Shows
<1>5. \A p \in {a, b} : Session(p, c) => Shows(p, c)
    BY <1>2 DEF Sound
<1>6. \A p \in {a, b} : Phase(p, c) = "away" \/ Shows(p, c)
    BY DEF Phase
<1>7. \A p \in {a, b} :
         /\ Comes(p, "offer", c)' <=> Comes(p, "offer", c)
         /\ Comes(p, "answer", c)' <=> Comes(p, "answer", c)
         /\ Ends(p, c)' <=> Ends(p, c)
         /\ OneOffer(p, c) => OneOffer(p, c)'
    BY <1>2 DEF SameAir, SignalTypes, Ends
<1>8. \A p \in {a, b} :
         /\ Waits(p, "dial", c)' <=> Waits(p, "dial", c)
         /\ Waits(p, "store", c)' <=> Waits(p, "store", c)
         /\ Waits(p, "accept", c)' <=> Waits(p, "accept", c)
         /\ Waits(p, "answer", c)' <=> Waits(p, "answer", c)
         /\ Waits(p, "describe", c)' <=> Waits(p, "describe", c)
         /\ c \in live'[p] <=> c \in live[p]
         /\ Shows(p, c) /\ Timed(p, c) => Timed(p, c)'
         /\ Timed(p, c)' => Timed(p, c)
    BY <1>2 DEF SameScreen, Steps
<1> HIDE DEF a, b
<1>9. Unheard(a, b, c)' <=> Unheard(a, b, c)
    BY <1>2, <1>4, <1>7, <1>8 DEF Unheard
<1>10. CallerSound(a, b, c)'
    BY <1>2, <1>3, <1>4, <1>5, <1>6, <1>7, <1>8, <1>9 DEF CallerSound
<1>11. CalleeSound(a, b, c)'
    BY <1>2, <1>3, <1>4, <1>5, <1>6, <1>7, <1>8, <1>9 DEF CalleeSound, Speaks
<1>12. EndsSound(a, b, c)'
    BY <1>2, <1>3, <1>4, <1>5, <1>6, <1>7, <1>8 DEF EndsSound, Speaks, Expects
<1> QED
    BY <1>2, <1>10, <1>11, <1>12 DEF a, b

\* What is on screen after the call that was shown is over.
LEMMA EndScreens ==
    ASSUME CallInv, NEW p \in Person, onScreen[p] # NoCall, endCall(p),
           ringing' = [ringing EXCEPT ![p] = NoCall], UNCHANGED <<ends, pending>>,
           NEW c \in CallId \ muddled, c \notin OpeningMedia(p)
    PROVE  /\ \A q \in Person \ {p} : SameScreen(q, c)
           /\ ~Shows(p, c) => SameScreen(p, c)
           /\ Phase(p, c)' = "away" /\ c \notin live'[p] /\ ~Shows(p, c)' /\ ~Session(p, c)'
           /\ ~Timed(p, c)'
           /\ \A q \in Person : \A step \in Steps : Waits(q, step, c)' <=> Waits(q, step, c)
<1>1. /\ onScreen' = [onScreen EXCEPT ![p] = NoCall]
      /\ live' = [live EXCEPT ![p] = live[p] \ {onScreen[p].session}]
      /\ onScreen \in [Person -> {NoCall} \cup
                                 [id : CallId, session : CallId \cup {NoCall}, phase : Phases]]
      /\ live \in [Person -> SUBSET CallId] /\ ringing \in [Person -> CallId \cup {NoCall}]
    BY DEF endCall, Stopped, CallInv, CallShape
<1>2. \A q \in Person \ {p} : /\ onScreen'[q] = onScreen[q] /\ live'[q] = live[q]
                              /\ ringing'[q] = ringing[q]
    BY <1>1
<1>3. onScreen'[p] = NoCall /\ live'[p] = live[p] \ {onScreen[p].session} /\ ringing'[p] = NoCall
    BY <1>1
<1>4. \A q : \A step \in Steps : Waits(q, step, c)' <=> Waits(q, step, c)
    BY DEF Waits
<1>5. \A q \in Person \ {p} : SameScreen(q, c)
    BY <1>2, <1>4 DEF SameScreen, Shows, Session, Timed
<1>6. ~Shows(p, c)' /\ ~Session(p, c)' /\ Phase(p, c)' = "away" /\ ~Timed(p, c)'
    BY <1>3, CallsAssumption DEF Shows, Session, Phase, Timed
<1>7. c \in live[p] => Shows(p, c) /\ Session(p, c)
    <2> SUFFICES ASSUME c \in live[p] PROVE Shows(p, c) /\ Session(p, c)
        OBVIOUS
    <2> DEFINE a == ends[c].from
               b == ends[c].to
    <2>1. p = a \/ p = b
        BY DEF CallInv, Roles, Party
    <2>2. ends[c] # Unplaced
        BY <2>1, CallsAssumption DEF Unplaced
    <2>3. CallerSound(a, b, c) /\ CalleeSound(a, b, c)
        BY <2>2 DEF CallInv, Sound
    <2>4. ~Waits(p, "answer", c)
        BY ShownShows
    <2>5. Phase(p, c) # "away" /\ Session(p, c)
        BY <2>1, <2>3, <2>4 DEF CallerSound, CalleeSound, Speaks
    <2> QED
        BY <2>5 DEF Phase
<1>8. c \notin live'[p]
    BY <1>3, <1>7 DEF Session
<1>9. ~Shows(p, c) => SameScreen(p, c)
    BY <1>4, <1>6, <1>7, <1>8 DEF SameScreen
<1> QED
    BY <1>4, <1>5, <1>6, <1>8, <1>9

\* The ends of a call.
LEMMA EndsOf ==
    ASSUME CallInv, NEW c \in CallId \ muddled, ends[c] # Unplaced
    PROVE  /\ ends[c].from \in Person /\ ends[c].to \in Person /\ ends[c].from # ends[c].to
           /\ CallerSound(ends[c].from, ends[c].to, c)
           /\ CalleeSound(ends[c].from, ends[c].to, c)
           /\ EndsSound(ends[c].from, ends[c].to, c)
    BY DEF CallInv, CallShape, Sound

\* The screen of p is clear of c, while the rest of the call stays.
Cleared(p, c) ==
    /\ \A q \in Person \ {p} : SameScreen(q, c)
    /\ Phase(p, c)' = "away" /\ c \notin live'[p] /\ ~Shows(p, c)' /\ ~Session(p, c)' /\ ~Timed(p, c)'
    /\ \A q \in Person : \A step \in Steps : Waits(q, step, c)' <=> Waits(q, step, c)

\* What the frames say, step by step and signal by signal.
LEMMA ScreenMeans ==
    ASSUME CallShape, NEW p \in Person, NEW c \in CallId, SameScreen(p, c),
           Session(p, c) => Shows(p, c)
    PROVE  /\ Phase(p, c)' = Phase(p, c) /\ (Shows(p, c) <=> Phase(p, c) # "away")
           /\ Session(p, c)' <=> Session(p, c)
           /\ Phase(p, c) = "failed" => onScreen'[p] = onScreen[p]
           /\ Phase(p, c) # "away" /\ Timed(p, c) => Timed(p, c)'
           /\ Timed(p, c)' => Timed(p, c)
           /\ c \in live'[p] <=> c \in live[p]
<1>1. Shows(p, c) => onScreen[p].phase # "away"
    BY DEF CallShape, Shows, Phases
<1> QED
    BY <1>1 DEF SameScreen, Phase, Session, Shows

\* The steps one by one.
LEMMA StepsStay ==
    ASSUME NEW p, NEW c, \A step \in Steps : Waits(p, step, c)' <=> Waits(p, step, c)
    PROVE  /\ Waits(p, "dial", c)' <=> Waits(p, "dial", c)
           /\ Waits(p, "store", c)' <=> Waits(p, "store", c)
           /\ Waits(p, "accept", c)' <=> Waits(p, "accept", c)
           /\ Waits(p, "answer", c)' <=> Waits(p, "answer", c)
           /\ Waits(p, "describe", c)' <=> Waits(p, "describe", c)
    BY DEF Steps

\* The caller is done with the call, and the other end is or will be told.
LEMMA CallerEnds ==
    ASSUME CallInv, NEW c \in CallId \ muddled, NEW a, NEW b, ends[c] # Unplaced,
           a = ends[c].from, b = ends[c].to, UNCHANGED ends,
           Cleared(a, c), Shows(a, c),
           Comes(a, "answer", c)' <=> Comes(a, "answer", c), Ends(a, c)' => Ends(a, c),
           Comes(b, "offer", c)' => Comes(b, "offer", c), OneOffer(b, c)',
           \/ Ends(b, c)'
           \/ ~Speaks(b, c) \/ Waits(b, "answer", c) \/ Comes(a, "answer", c)
    PROVE  Sound(c)'
<1>1. /\ a \in Person /\ b \in Person /\ a # b /\ ends'[c] = ends[c]
      /\ CallerSound(a, b, c) /\ CalleeSound(a, b, c) /\ EndsSound(a, b, c)
    BY EndsOf
<1>2. \A p \in Person : Session(p, c) => Shows(p, c)
    BY DEF CallInv, Sound
<1>3. \A p \in Person : Session(p, c)' => Shows(p, c)'
    BY <1>2 DEF Cleared, SameScreen
<1>4. /\ Phase(b, c)' = Phase(b, c) /\ (Session(b, c)' <=> Session(b, c))
      /\ Phase(b, c) # "away" /\ Timed(b, c) => Timed(b, c)'
      /\ c \in live'[b] <=> c \in live[b]
    BY <1>1, <1>2, ScreenMeans DEF Cleared, CallInv
<1>5. Phase(a, c) # "away"
    BY <1>1 DEF CallInv, CallShape, Phase, Phases, Shows
<1>6. \A p \in {a, b} :
         /\ Waits(p, "dial", c)' <=> Waits(p, "dial", c)
         /\ Waits(p, "store", c)' <=> Waits(p, "store", c)
         /\ Waits(p, "accept", c)' <=> Waits(p, "accept", c)
         /\ Waits(p, "answer", c)' <=> Waits(p, "answer", c)
         /\ Waits(p, "describe", c)' <=> Waits(p, "describe", c)
    BY <1>1, StepsStay DEF Cleared
<1>7. Phase(a, c)' = "away" /\ c \notin live'[a] /\ ~Timed(a, c)'
    BY DEF Cleared
<1>8. Unheard(a, b, c) => Unheard(a, b, c)'
    BY <1>4, <1>6 DEF Unheard
<1> PICK x, y : x = a /\ y = b
    OBVIOUS
<1>9. CallerSound(x, y, c)' /\ CalleeSound(x, y, c)' /\ EndsSound(x, y, c)'
    BY <1>1, <1>4, <1>5, <1>6, <1>7, <1>8 DEF CallerSound, CalleeSound, EndsSound, Expects, Speaks
<1> QED
    BY <1>1, <1>3, <1>9 DEF Sound

\* So is the callee.
LEMMA CalleeEnds ==
    ASSUME CallInv, NEW c \in CallId \ muddled, NEW a, NEW b, ends[c] # Unplaced,
           a = ends[c].from, b = ends[c].to, UNCHANGED ends,
           Cleared(b, c), Shows(b, c), ~Waits(b, "accept", c), ~Waits(b, "answer", c),
           Comes(a, "answer", c)' => Comes(a, "answer", c), Ends(b, c)' => Ends(b, c),
           Comes(b, "offer", c)' => Comes(b, "offer", c), OneOffer(b, c)',
           Ends(a, c)' \/ ~Expects(a, c)
    PROVE  Sound(c)'
<1>1. /\ a \in Person /\ b \in Person /\ a # b /\ ends'[c] = ends[c]
      /\ CallerSound(a, b, c) /\ CalleeSound(a, b, c) /\ EndsSound(a, b, c)
    BY EndsOf
<1>2. \A p \in Person : Session(p, c) => Shows(p, c)
    BY DEF CallInv, Sound
<1>3. \A p \in Person : Session(p, c)' => Shows(p, c)'
    BY <1>2 DEF Cleared, SameScreen
<1>4. /\ Phase(a, c)' = Phase(a, c) /\ (Session(a, c)' <=> Session(a, c))
      /\ Phase(a, c) = "failed" => onScreen'[a] = onScreen[a]
      /\ Phase(a, c) # "away" /\ Timed(a, c) => Timed(a, c)'
      /\ Timed(a, c)' => Timed(a, c)
      /\ c \in live'[a] <=> c \in live[a]
    BY <1>1, <1>2, ScreenMeans DEF Cleared, CallInv
<1>5. Phase(b, c) # "away"
    BY <1>1 DEF CallInv, CallShape, Phase, Phases, Shows
<1>6. \A p \in {a, b} :
         /\ Waits(p, "dial", c)' <=> Waits(p, "dial", c)
         /\ Waits(p, "store", c)' <=> Waits(p, "store", c)
         /\ Waits(p, "accept", c)' <=> Waits(p, "accept", c)
         /\ Waits(p, "answer", c)' <=> Waits(p, "answer", c)
         /\ Waits(p, "describe", c)' <=> Waits(p, "describe", c)
    BY <1>1, StepsStay DEF Cleared
<1>7. Phase(b, c)' = "away" /\ c \notin live'[b] /\ ~Timed(b, c)'
    BY DEF Cleared
<1>8. ~Unheard(a, b, c)
    BY <1>5 DEF Unheard
<1> PICK x, y : x = a /\ y = b
    OBVIOUS
<1>9. CallerSound(x, y, c)' /\ CalleeSound(x, y, c)' /\ EndsSound(x, y, c)'
    BY <1>1, <1>4, <1>5, <1>6, <1>7, <1>8 DEF CallerSound, CalleeSound, EndsSound, Expects, Speaks
<1> QED
    BY <1>1, <1>3, <1>9 DEF Sound

(* Signals that are sent, and received. *)

\* A signal is what it says and of which call.
LEMMA SignalIs ==
    ASSUME NEW t, NEW c, NEW u, NEW d
    PROVE  Signal(t, c) = Signal(u, d) <=> t = u /\ c = d
    BY DEF Signal

\* The other end of a call is the other of the two.
LEMMA OtherIs ==
    ASSUME CallShape, NEW p \in Person, NEW d \in CallId, Party(p, d)
    PROVE  /\ OtherEnd(p, d) \in Person /\ OtherEnd(p, d) # p /\ Party(OtherEnd(p, d), d)
           /\ ends[d] # Unplaced
           /\ (p = ends[d].from /\ OtherEnd(p, d) = ends[d].to)
              \/ (p = ends[d].to /\ OtherEnd(p, d) = ends[d].from)
    BY CallsAssumption DEF CallShape, Party, OtherEnd, Unplaced

\* What is under way when an end has sent something,
LEMMA SendAir ==
    ASSUME CallShape, NEW p \in Person, NEW d \in CallId, NEW type \in SignalTypes,
           Party(p, d), air' = Sending(p, d, type)
    PROVE  /\ air' \in [Person -> Seq([type : SignalTypes, id : CallId])]
           /\ \A q \in Person, t \in SignalTypes, c \in CallId :
                 Comes(q, t, c)' <=> Comes(q, t, c) \/ (q = OtherEnd(p, d) /\ t = type /\ c = d)
           /\ \A q \in Person, c \in CallId :
                 OneOffer(q, c) /\ (type = "offer" /\ c = d => ~Comes(q, "offer", c)) => OneOffer(q, c)'
<1> DEFINE o == OtherEnd(p, d)
           S == [type : SignalTypes, id : CallId]
<1>1. o \in Person
    BY OtherIs
<1>2. Signal(type, d) \in S
    BY DEF Signal
<1>3. air \in [Person -> Seq(S)] /\ air' = [air EXCEPT ![o] = Append(air[o], Signal(type, d))]
    BY DEF CallShape, Sending
<1> HIDE DEF o, S
<1>4. \A q \in Person : air'[q] = IF q = o THEN Append(air[q], Signal(type, d)) ELSE air[q]
    BY <1>3
<1>5. \A q \in Person : air[q] \in Seq(S) /\ Append(air[q], Signal(type, d)) \in Seq(S)
    BY <1>2, <1>3, AppendHolds
<1>6. air' \in [Person -> Seq(S)]
    BY <1>1, <1>3, <1>5
<1>7. ASSUME NEW q \in Person, NEW t, NEW c
      PROVE  Comes(q, t, c)' <=> Comes(q, t, c) \/ (q = o /\ t = type /\ c = d)
    BY <1>2, <1>4, <1>5, AppendHolds, SignalIs DEF Comes
<1>8. ASSUME NEW q \in Person, NEW c, OneOffer(q, c), type = "offer" /\ c = d => ~Comes(q, "offer", c)
      PROVE  OneOffer(q, c)'
    <2>1. Signal(type, d) = Signal("offer", c) => ~Holds(air[q], Signal("offer", c))
        BY <1>8, SignalIs DEF Comes
    <2> QED
        BY <1>2, <1>4, <1>5, <1>8, <2>1, AppendHolds DEF OneOffer
<1> QED
    BY <1>1, <1>6, <1>7, <1>8 DEF o, S

\* and when one takes in what comes first.
LEMMA ReceiveAir ==
    ASSUME CallShape, NEW p \in Person, air[p] # <<>>, air' = Received(p)
    PROVE  /\ Head(air[p]) \in [type : SignalTypes, id : CallId]
           /\ Comes(p, Head(air[p]).type, Head(air[p]).id)
           /\ air' \in [Person -> Seq([type : SignalTypes, id : CallId])]
           /\ \A q \in Person, t \in SignalTypes, c \in CallId :
                 /\ Comes(q, t, c)' => Comes(q, t, c)
                 /\ Comes(q, t, c) =>
                       Comes(q, t, c)' \/ (q = p /\ t = Head(air[p]).type /\ c = Head(air[p]).id)
           /\ \A q \in Person, c \in CallId : OneOffer(q, c) =>
                 /\ OneOffer(q, c)'
                 /\ q = p /\ Head(air[p]) = Signal("offer", c) => ~Comes(p, "offer", c)'
<1> DEFINE S == [type : SignalTypes, id : CallId]
           h == Head(air[p])
<1>1. air \in [Person -> Seq(S)] /\ air' = [air EXCEPT ![p] = Tail(air[p])]
    BY DEF CallShape, Received
<1>2. h \in S /\ h = Signal(h.type, h.id)
    <2>1. h \in S
        BY <1>1, TailHolds
    <2> QED
        BY <2>1 DEF Signal
<1> HIDE DEF S, h
<1>3. \A q \in Person : air'[q] = IF q = p THEN Tail(air[p]) ELSE air[q]
    BY <1>1
<1>4. Tail(air[p]) \in Seq(S) /\ air[p] \in Seq(S)
    BY <1>1, TailHolds
<1>5. air' \in [Person -> Seq(S)]
    BY <1>1, <1>4
<1>6. \A e : /\ Holds(air[p], e) <=> Holds(Tail(air[p]), e) \/ h = e
             /\ HoldsOnce(air[p], e) =>
                   HoldsOnce(Tail(air[p]), e) /\ (h = e => ~Holds(Tail(air[p]), e))
    BY <1>4, TailHolds DEF h
<1>7. Comes(p, h.type, h.id)
    BY <1>2, <1>6 DEF Comes
<1>8. ASSUME NEW q \in Person, NEW t, NEW c
      PROVE  /\ Comes(q, t, c)' => Comes(q, t, c)
             /\ Comes(q, t, c) => Comes(q, t, c)' \/ (q = p /\ t = h.type /\ c = h.id)
    BY <1>2, <1>3, <1>6, SignalIs DEF Comes
<1>9. ASSUME NEW q \in Person, NEW c, OneOffer(q, c)
      PROVE  /\ OneOffer(q, c)'
             /\ q = p /\ h = Signal("offer", c) => ~Comes(p, "offer", c)'
    BY <1>3, <1>6, <1>9 DEF OneOffer, Comes
<1> QED
    BY <1>2, <1>5, <1>7, <1>8, <1>9 DEF S, h

(* The steps that end a call. *)

\* Fewer calls are shown, and no step is added.
LEMMA RolesStay ==
    ASSUME CallShape, Roles, UNCHANGED ends,
           \A q \in Person, c \in CallId :
              /\ Shows(q, c)' => Shows(q, c)
              /\ Phase(q, c)' = "incoming" => Phase(q, c) = "incoming"
              /\ Session(q, c)' => Session(q, c)
              /\ c \in live'[q] => c \in live[q]
              /\ \A step \in Steps : Waits(q, step, c)' => Waits(q, step, c)
              /\ Ends(q, c)' => Ends(q, c) \/ Party(q, c)
              /\ Comes(q, "answer", c)' => Comes(q, "answer", c) \/ q = ends[c].from
              /\ Comes(q, "offer", c)' => Comes(q, "offer", c) \/ q = ends[c].to
    PROVE  Roles'
<1>1. \A q, c : Party(q, c)' <=> Party(q, c)
    BY DEF Party
<1> QED
    BY <1>1 DEF Roles, Steps

\* The end of a call keeps the types.
LEMMA EndShape ==
    ASSUME CallShape, NEW p \in Person, endCall(p), ringing' = [ringing EXCEPT ![p] = NoCall],
           UNCHANGED <<ends, pending>>,
           air' \in [Person -> Seq([type : SignalTypes, id : CallId])]
    PROVE  /\ CallShape'
           /\ \A q \in Person, c \in CallId :
                 /\ Shows(q, c)' => Shows(q, c)
                 /\ Phase(q, c)' = "incoming" => Phase(q, c) = "incoming"
                 /\ Session(q, c)' => Session(q, c)
                 /\ c \in live'[q] => c \in live[q]
                 /\ \A step \in Steps : Waits(q, step, c)' => Waits(q, step, c)
<1>1. /\ onScreen' = [onScreen EXCEPT ![p] = NoCall]
      /\ live' = [live EXCEPT ![p] = Stopped(p)]
      /\ Stopped(p) \subseteq live[p]
    BY DEF endCall, Stopped
<1>2. CallShape'
    BY <1>1 DEF CallShape, Unplaced
<1>3. \A q \in Person : onScreen'[q] \in {NoCall, onScreen[q]} /\ live'[q] \subseteq live[q]
    BY <1>1 DEF CallShape
<1> QED
    BY <1>2, <1>3 DEF Shows, Session, Waits, Phase

\* An end that hangs up or rejects tells the other.
LEMMA EndingKeeps ==
    ASSUME CallInv, NEW p \in Person, onScreen[p] # NoCall, endCall(p),
           ringing' = [ringing EXCEPT ![p] = NoCall], UNCHANGED <<ends, pending>>,
           muddled \cup OpeningMedia(p) \subseteq muddled',
           NEW type \in {"hangup", "reject"}, air' = Sending(p, onScreen[p].id, type)
    PROVE  CallInv'
<1> DEFINE d == onScreen[p].id
           o == OtherEnd(p, d)
<1>1. CallShape /\ Roles /\ d \in CallId /\ type \in SignalTypes /\ Shows(p, d)
    BY DEF CallInv, CallShape, SignalTypes, Shows
<1>2. Party(p, d)
    BY <1>1 DEF Roles
<1>3. air' = Sending(p, d, type)
    OBVIOUS
<1>4. \A c : Shows(p, c) <=> c = d
    BY DEF Shows
<1> HIDE DEF d
<1>0. /\ o \in Person /\ o # p /\ Party(o, d) /\ ends[d] # Unplaced
      /\ (p = ends[d].from /\ o = ends[d].to) \/ (p = ends[d].to /\ o = ends[d].from)
    BY <1>1, <1>2, OtherIs
<1>5. /\ air' \in [Person -> Seq([type : SignalTypes, id : CallId])]
      /\ \A q \in Person, t \in SignalTypes, c \in CallId :
            Comes(q, t, c)' <=> Comes(q, t, c) \/ (q = o /\ t = type /\ c = d)
      /\ \A q \in Person, c \in CallId : OneOffer(q, c) => OneOffer(q, c)'
    <2>1. type # "offer"
        OBVIOUS
    <2>2. \A q \in Person, c \in CallId :
             OneOffer(q, c) /\ (type = "offer" /\ c = d => ~Comes(q, "offer", c)) => OneOffer(q, c)'
        BY <1>1, <1>2, <1>3, SendAir
    <2>3. \A q \in Person, c \in CallId : OneOffer(q, c) => OneOffer(q, c)'
        BY <2>1, <2>2
    <2> QED
        BY <1>1, <1>2, <1>3, <2>3, SendAir
<1> HIDE DEF o
<1>6. \A q \in Person, c \in CallId :
         /\ Comes(q, "answer", c)' <=> Comes(q, "answer", c)
         /\ Comes(q, "offer", c)' <=> Comes(q, "offer", c)
         /\ Ends(q, c)' <=> Ends(q, c) \/ (q = o /\ c = d)
    BY <1>5 DEF Ends, SignalTypes
<1>7. CallShape' /\ Roles'
    <2>1. /\ CallShape'
          /\ \A q \in Person, c \in CallId :
                /\ Shows(q, c)' => Shows(q, c)
                /\ Phase(q, c)' = "incoming" => Phase(q, c) = "incoming"
                /\ Session(q, c)' => Session(q, c)
                /\ c \in live'[q] => c \in live[q]
                /\ \A step \in Steps : Waits(q, step, c)' => Waits(q, step, c)
        BY <1>1, <1>5, EndShape
    <2>2. \A q \in Person, c \in CallId : Ends(q, c)' => Ends(q, c) \/ Party(q, c)
        BY <1>0, <1>6
    <2> QED
        BY <1>1, <1>6, <2>1, <2>2, RolesStay
<1>8. ASSUME NEW c \in CallId \ muddled' PROVE Sound(c)'
    <2>1. c \in CallId \ muddled /\ c \notin OpeningMedia(p) /\ Sound(c)
        BY DEF CallInv
    <2>2. /\ \A q \in Person \ {p} : SameScreen(q, c)
          /\ ~Shows(p, c) => SameScreen(p, c)
          /\ Cleared(p, c)
        BY <2>1, EndScreens DEF Cleared
    <2>3. CASE c # d
        <3>1. \A q \in Person : SameAir(q, c)
            BY <1>5, <2>3 DEF SameAir
        <3> QED
            BY <1>1, <1>4, <2>1, <2>2, <2>3, <3>1, Elsewhere
    <2>4. CASE c = d
        <3> DEFINE a == ends[c].from
                   b == ends[c].to
        <3>1. ends[c] # Unplaced
            BY <1>0, <2>4
        <3>2. /\ a \in Person /\ b \in Person /\ a # b
              /\ CallerSound(a, b, c) /\ CalleeSound(a, b, c) /\ EndsSound(a, b, c)
            BY <2>1, <3>1, EndsOf
        <3>3. Shows(p, c) /\ ~Waits(p, "accept", c) /\ ~Waits(p, "answer", c)
            BY <1>4, <2>1, <2>4, ShownShows
        <3>4. OneOffer(b, c)'
            BY <1>5, <3>2 DEF CalleeSound
        <3>5. CASE p = a
            <4>1. o = b /\ Ends(b, c)' /\ (Ends(a, c)' => Ends(a, c))
                BY <1>0, <1>6, <2>4, <3>2, <3>5
            <4> QED
                BY <1>6, <2>1, <2>2, <3>1, <3>2, <3>3, <3>4, <3>5, <4>1, CallerEnds
        <3>6. CASE p = b
            <4>1. o = a /\ Ends(a, c)' /\ (Ends(b, c)' => Ends(b, c))
                BY <1>0, <1>6, <2>4, <3>2, <3>6
            <4> QED
                BY <1>6, <2>1, <2>2, <3>1, <3>2, <3>3, <3>4, <3>6, <4>1, CalleeEnds
        <3> QED
            BY <1>2, <2>4, <3>5, <3>6 DEF Party
    <2> QED
        BY <2>3, <2>4
<1> QED
    BY <1>7, <1>8 DEF CallInv

LEMMA HangUpStep ==
    ASSUME CallInv, NEW p \in Person, HangUp(p) \/ rejectIncomingCall(p)
    PROVE  CallInv'
<1>1. CASE HangUp(p)
    BY <1>1, EndingKeeps DEF HangUp
<1>2. CASE rejectIncomingCall(p)
    BY <1>2, EndingKeeps DEF rejectIncomingCall
<1> QED
    BY <1>1, <1>2

\* A timer stops, of a call that is not ringing, or not shown.
LEMMA TimerStops ==
    ASSUME CallInv, NEW p \in Person, NEW c \in CallId \ muddled,
           UNCHANGED <<ends, onScreen, live, pending, air>>,
           ringing' = [ringing EXCEPT ![p] = NoCall],
           ~(Timed(p, c) /\ Phase(p, c) \in {"incoming", "outgoing"})
    PROVE  Sound(c)'
<1>1. /\ \A q : Shows(q, c)' <=> Shows(q, c)
      /\ \A q : Session(q, c)' <=> Session(q, c)
      /\ \A q : Phase(q, c)' = Phase(q, c) /\ (Speaks(q, c)' <=> Speaks(q, c))
      /\ \A q, step : Waits(q, step, c)' <=> Waits(q, step, c)
      /\ \A q, type : Comes(q, type, c)' <=> Comes(q, type, c)
      /\ \A q : OneOffer(q, c)' <=> OneOffer(q, c)
    BY DEF Shows, Session, Phase, Speaks, Waits, Comes, OneOffer
<1>2. \A q : Ends(q, c)' <=> Ends(q, c)
    BY <1>1 DEF Ends
<1>3. \A q \in Person : /\ Timed(q, c)' => Timed(q, c)
                        /\ Timed(q, c) /\ Phase(q, c) \in {"incoming", "outgoing"} => Timed(q, c)'
    BY CallsAssumption DEF Timed, CallInv, CallShape
<1>4. \A a, b : Unheard(a, b, c)' <=> Unheard(a, b, c)
    BY <1>1, <1>2 DEF Unheard
<1>5. \A q \in Person : Session(q, c)' => Shows(q, c)'
    BY <1>1 DEF CallInv, Sound
<1> SUFFICES ASSUME ends[c] # Unplaced
             PROVE  /\ CallerSound(ends[c].from, ends[c].to, c)'
                    /\ CalleeSound(ends[c].from, ends[c].to, c)'
                    /\ EndsSound(ends[c].from, ends[c].to, c)'
    BY <1>5 DEF Sound, Unplaced
<1> PICK a, b : a = ends[c].from /\ b = ends[c].to
    OBVIOUS
<1>6. /\ a \in Person /\ b \in Person
      /\ CallerSound(a, b, c) /\ CalleeSound(a, b, c) /\ EndsSound(a, b, c)
    BY EndsOf
<1>7. CallerSound(a, b, c)'
    BY <1>1, <1>2, <1>3, <1>4, <1>6 DEF CallerSound
<1>8. CalleeSound(a, b, c)'
    BY <1>1, <1>2, <1>3, <1>4, <1>6 DEF CalleeSound
<1>9. EndsSound(a, b, c)'
    BY <1>1, <1>2, <1>6 DEF EndsSound, Expects
<1> QED
    BY <1>7, <1>8, <1>9

LEMMA RingTimeoutStep ==
    ASSUME CallInv, NEW p \in Person, RingTimeout(p)
    PROVE  CallInv'
<1> DEFINE d == ringing[p]
           Over == Shown(p) = {ringing[p]} /\ onScreen[p].phase \in {"incoming", "outgoing"}
<1>1. /\ ringing[p] # NoCall /\ ringing' = [ringing EXCEPT ![p] = NoCall]
      /\ UNCHANGED <<ends, pending>>
      /\ CallShape /\ Roles /\ d \in CallId
    BY DEF RingTimeout, CallInv, CallShape
<1>2. CASE Over /\ ends[d].to = p
    <2>1. onScreen[p] # NoCall /\ onScreen[p].id = d
        BY <1>2, ShownShows DEF Shows
    <2> QED
        BY <1>1, <1>2, <2>1, EndingKeeps DEF RingTimeout
<1>3. CASE Over /\ ends[d].to # p
    <2>1. /\ Shows(p, d) /\ onScreen[p] # NoCall /\ onScreen[p].id = d
          /\ endCall(p) /\ air' = air /\ muddled' = muddled \cup OpeningMedia(p)
          /\ Phase(p, d) \in {"incoming", "outgoing"} /\ Timed(p, d)
        BY <1>3, ShownShows DEF Shows, RingTimeout, Phase, Timed
    <2>2. p = ends[d].from /\ ends[d] # Unplaced
        BY <1>1, <1>3, <2>1, CallsAssumption DEF Roles, Party, Unplaced
    <2>3. \A q, t, c : Comes(q, t, c)' <=> Comes(q, t, c)
        BY <2>1 DEF Comes
    <2>4. \A q, c : (Ends(q, c)' <=> Ends(q, c)) /\ (OneOffer(q, c)' <=> OneOffer(q, c))
        BY <2>1, <2>3 DEF Ends, OneOffer
    <2>5. CallShape' /\ Roles'
        <3>1. air' \in [Person -> Seq([type : SignalTypes, id : CallId])]
            BY <1>1, <2>1 DEF CallShape
        <3> QED
            BY <1>1, <2>1, <2>3, <2>4, <3>1, EndShape, RolesStay
    <2>6. ASSUME NEW c \in CallId \ muddled' PROVE Sound(c)'
        <3>1. c \in CallId \ muddled /\ c \notin OpeningMedia(p) /\ Sound(c)
            BY <2>1 DEF CallInv
        <3>2. /\ \A q \in Person \ {p} : SameScreen(q, c)
              /\ ~Shows(p, c) => SameScreen(p, c)
              /\ Cleared(p, c)
            BY <1>1, <2>1, <3>1, EndScreens DEF Cleared
        <3>3. CASE c # d
            <4>1. ~Shows(p, c)
                BY <2>1, <3>3 DEF Shows
            <4>2. \A q \in Person : SameAir(q, c)
                BY <2>3, <2>4 DEF SameAir
            <4> QED
                BY <1>1, <3>1, <3>2, <4>1, <4>2, Elsewhere
        <3>4. CASE c = d
            <4> PICK b : b = ends[c].to
                OBVIOUS
            <4>1. /\ CallerSound(p, b, c) /\ CalleeSound(p, b, c) /\ EndsSound(p, b, c)
                BY <2>2, <3>1, <3>4, EndsOf
            <4>2. ~Speaks(b, c) \/ Waits(b, "answer", c) \/ Comes(p, "answer", c)
                BY <2>1, <3>4, <4>1 DEF CallerSound, EndsSound
            <4>3. OneOffer(b, c)'
                BY <2>4, <4>1 DEF CalleeSound
            <4>4. /\ UNCHANGED ends /\ ends[c] # Unplaced /\ p = ends[c].from
                  /\ Cleared(p, c) /\ Shows(p, c)
                BY <1>1, <2>1, <2>2, <3>2, <3>4
            <4>5. /\ Comes(p, "answer", c)' <=> Comes(p, "answer", c)
                  /\ Ends(p, c)' => Ends(p, c)
                  /\ Comes(b, "offer", c)' => Comes(b, "offer", c)
                BY <2>3, <2>4
            <4> HIDE DEF d, Over
            <4> QED
                BY <3>1, <4>2, <4>3, <4>4, <4>5, CallerEnds
        <3> QED
            BY <3>3, <3>4
    <2> QED
        BY <2>5, <2>6 DEF CallInv
<1>4. CASE ~Over
    <2>1. UNCHANGED <<onScreen, live, air, muddled>>
        BY <1>4 DEF RingTimeout
    <2>2. CallShape'
        BY <1>1, <2>1 DEF CallShape, Unplaced
    <2>3. Roles'
        <3>1. \A q, c : /\ Shows(q, c)' <=> Shows(q, c)
                        /\ Phase(q, c)' = Phase(q, c)
                        /\ Session(q, c)' <=> Session(q, c)
                        /\ \A step : Waits(q, step, c)' <=> Waits(q, step, c)
                        /\ \A type : Comes(q, type, c)' <=> Comes(q, type, c)
            BY <1>1, <2>1 DEF Shows, Session, Waits, Comes, Phase
        <3>2. \A q, c : Ends(q, c)' <=> Ends(q, c)
            BY <3>1 DEF Ends
        <3> QED
            BY <1>1, <2>1, <3>1, <3>2, RolesStay
    <2>4. ASSUME NEW c \in CallId \ muddled' PROVE Sound(c)'
        <3>1. ~(Timed(p, c) /\ Phase(p, c) \in {"incoming", "outgoing"})
            BY <1>4, ShownShows DEF Timed, Phase
        <3> QED
            BY <1>1, <2>1, <3>1, TimerStops
    <2> QED
        BY <2>2, <2>3, <2>4 DEF CallInv
<1> QED
    BY <1>2, <1>3, <1>4

\* What is not touched looks the same.
LEMMA Untouched ==
    ASSUME NEW q, NEW c, onScreen'[q] = onScreen[q], live'[q] = live[q],
           pending'[q] = pending[q], ringing'[q] = ringing[q]
    PROVE  /\ SameScreen(q, c)
           /\ Phase(q, c)' = Phase(q, c) /\ (Session(q, c)' <=> Session(q, c))
           /\ (Shows(q, c)' <=> Shows(q, c)) /\ (Timed(q, c)' <=> Timed(q, c))
           /\ \A step : Waits(q, step, c)' <=> Waits(q, step, c)
    BY DEF SameScreen, Phase, Session, Shows, Timed, Waits

\* A call that is shown has a phase.
LEMMA PhaseOf ==
    ASSUME CallShape, NEW p \in Person, NEW c \in CallId
    PROVE  /\ Shows(p, c) <=> Phase(p, c) # "away"
           /\ Shows(p, c) => Phase(p, c) = onScreen[p].phase
           /\ Phase(p, c) \in Phases \cup {"away"}
    BY DEF CallShape, Phase, Phases, Shows

\* A call that is not shown any more stays so.
LEMMA EndHeard ==
    ASSUME CallInv, NEW c \in CallId \ muddled, NEW p \in Person, UNCHANGED ends,
           ends[c] # Unplaced, Party(p, c), Cleared(p, c), ~Shows(p, c), Ends(p, c),
           \A q \in Person :
              /\ Comes(q, "offer", c)' <=> Comes(q, "offer", c)
              /\ Comes(q, "answer", c)' <=> Comes(q, "answer", c)
              /\ Ends(q, c)' => Ends(q, c)
              /\ OneOffer(q, c) => OneOffer(q, c)'
    PROVE  Sound(c)'
<1> PICK a, b : a = ends[c].from /\ b = ends[c].to
    OBVIOUS
<1>1. /\ a \in Person /\ b \in Person /\ a # b /\ ends'[c] = ends[c]
      /\ CallerSound(a, b, c) /\ CalleeSound(a, b, c) /\ EndsSound(a, b, c)
    BY EndsOf
<1>2. \A q \in Person : Session(q, c) => Shows(q, c)
    BY DEF CallInv, Sound
<1>3. \A q \in Person : Session(q, c)' => Shows(q, c)'
    BY <1>2 DEF Cleared, SameScreen
<1>4. \A q \in {a, b} \ {p} :
         /\ Phase(q, c)' = Phase(q, c) /\ (Session(q, c)' <=> Session(q, c))
         /\ Phase(q, c) = "failed" => onScreen'[q] = onScreen[q]
         /\ Phase(q, c) # "away" /\ Timed(q, c) => Timed(q, c)'
         /\ Timed(q, c)' => Timed(q, c)
         /\ c \in live'[q] <=> c \in live[q]
    BY <1>1, <1>2, ScreenMeans DEF Cleared, CallInv
<1>5. Phase(p, c) = "away" /\ Phase(p, c)' = "away" /\ c \notin live'[p] /\ ~Timed(p, c)'
    BY DEF Cleared, Phase
<1>6. \A q \in {a, b} :
         /\ Waits(q, "dial", c)' <=> Waits(q, "dial", c)
         /\ Waits(q, "store", c)' <=> Waits(q, "store", c)
         /\ Waits(q, "accept", c)' <=> Waits(q, "accept", c)
         /\ Waits(q, "answer", c)' <=> Waits(q, "answer", c)
         /\ Waits(q, "describe", c)' <=> Waits(q, "describe", c)
    BY <1>1, StepsStay DEF Cleared
<1>7. p = a \/ p = b
    BY DEF Party
<1>8. Phase(a, c) = "away" /\ Phase(b, c) = "away" /\ Phase(a, c)' = "away" /\ Phase(b, c)' = "away"
    BY <1>1, <1>4, <1>5, <1>7 DEF EndsSound
<1>9. CallerSound(a, b, c)'
    BY <1>1, <1>4, <1>5, <1>6, <1>7, <1>8 DEF CallerSound, Unheard
<1>10. CalleeSound(a, b, c)'
    BY <1>1, <1>4, <1>5, <1>6, <1>7, <1>8 DEF CalleeSound, Unheard, Speaks
<1>11. EndsSound(a, b, c)'
    BY <1>1, <1>8 DEF EndsSound, Expects, Speaks
<1> QED
    BY <1>1, <1>3, <1>9, <1>10, <1>11 DEF Sound

\* Signals that are received, kind by kind.
LEMMA HeadAir ==
    ASSUME CallShape, NEW p \in Person, air[p] # <<>>, air' = Received(p),
           NEW type \in SignalTypes, Head(air[p]).type = type
    PROVE  /\ Head(air[p]).id \in CallId /\ Comes(p, type, Head(air[p]).id)
           /\ air' \in [Person -> Seq([type : SignalTypes, id : CallId])]
           /\ \A q \in Person, t \in SignalTypes \ {type}, c \in CallId :
                 Comes(q, t, c)' <=> Comes(q, t, c)
           /\ \A q \in Person, t \in SignalTypes, c \in CallId : Comes(q, t, c)' => Comes(q, t, c)
           /\ \A q \in Person, t \in SignalTypes, c \in CallId :
                 q # p \/ c # Head(air[p]).id => (Comes(q, t, c)' <=> Comes(q, t, c))
           /\ \A q \in Person, c \in CallId : OneOffer(q, c) => OneOffer(q, c)'
    BY ReceiveAir

LEMMA ReceiveEndStep ==
    ASSUME CallInv, NEW p \in Person, ReceiveEnd(p)
    PROVE  CallInv'
<1> PICK d, type : d = Head(air[p]).id /\ type = Head(air[p]).type
    OBVIOUS
<1>1. /\ type \in {"hangup", "reject"} /\ type \in SignalTypes /\ air[p] # <<>> /\ air' = Received(p)
      /\ ringing' = [ringing EXCEPT ![p] = NoCall] /\ endCall(p)
      /\ UNCHANGED <<ends, pending>> /\ CallShape /\ Roles
      /\ muddled' = muddled \cup OpeningMedia(p) \cup
                (IF onScreen[p] = NoCall THEN {} ELSE Mixed(p, d))
    BY DEF ReceiveEnd, Arrives, SignalTypes, CallInv
<1>2. /\ d \in CallId /\ Comes(p, type, d)
      /\ air' \in [Person -> Seq([type : SignalTypes, id : CallId])]
    BY <1>1, HeadAir
<1>3. \A q \in Person, c \in CallId :
         /\ Comes(q, "offer", c)' <=> Comes(q, "offer", c)
         /\ Comes(q, "answer", c)' <=> Comes(q, "answer", c)
    <2>1. "offer" \in SignalTypes \ {type} /\ "answer" \in SignalTypes \ {type}
        BY <1>1 DEF SignalTypes
    <2>2. \A q \in Person, t \in SignalTypes \ {type}, c \in CallId :
             Comes(q, t, c)' <=> Comes(q, t, c)
        BY <1>1, HeadAir
    <2> QED
        BY <2>1, <2>2
<1>4. /\ \A q \in Person, t \in SignalTypes, c \in CallId :
            q # p \/ c # d => (Comes(q, t, c)' <=> Comes(q, t, c))
      /\ \A q \in Person, t \in SignalTypes, c \in CallId : Comes(q, t, c)' => Comes(q, t, c)
    BY <1>1, HeadAir
<1>5. \A q \in Person, c \in CallId : OneOffer(q, c) => OneOffer(q, c)'
    BY <1>1, HeadAir
<1>6. /\ \A q \in Person, c \in CallId : Ends(q, c)' => Ends(q, c)
      /\ \A q \in Person, c \in CallId : q # p \/ c # d => (Ends(q, c)' <=> Ends(q, c))
      /\ Ends(p, d)
    <2>1. "hangup" \in SignalTypes /\ "reject" \in SignalTypes
        BY DEF SignalTypes
    <2> QED
        BY <1>1, <1>2, <1>4, <2>1 DEF Ends
<1>7. CallShape' /\ Roles'
    <2>1. /\ CallShape'
          /\ \A q \in Person, c \in CallId :
                /\ Shows(q, c)' => Shows(q, c)
                /\ Phase(q, c)' = "incoming" => Phase(q, c) = "incoming"
                /\ Session(q, c)' => Session(q, c)
                /\ c \in live'[q] => c \in live[q]
                /\ \A step \in Steps : Waits(q, step, c)' => Waits(q, step, c)
        BY <1>1, <1>2, EndShape
    <2> QED
        BY <1>1, <1>3, <1>6, <2>1, RolesStay
<1>8. ASSUME NEW c \in CallId \ muddled' PROVE Sound(c)'
    <2>1. c \in CallId \ muddled /\ c \notin OpeningMedia(p) /\ Sound(c)
        BY <1>1 DEF CallInv
    <2>2. Party(p, d) /\ ends[d] # Unplaced
        <3>1. Party(p, d)
            BY <1>1, <1>2, <1>6 DEF Roles
        <3> QED
            BY <1>1, <1>2, <3>1, OtherIs
    <2>3. CASE onScreen[p] = NoCall
        <3>1. onScreen' = onScreen /\ live' = live
            BY <1>1, <2>3 DEF endCall, Stopped, CallShape
        <3>2. /\ \A q \in Person \ {p} : SameScreen(q, c)
              /\ \A q \in Person : \A step \in Steps : Waits(q, step, c)' <=> Waits(q, step, c)
            <4>1. \A q \in Person \ {p} : ringing'[q] = ringing[q]
                BY <1>1 DEF CallShape
            <4>2. \A q : \A step : Waits(q, step, c)' <=> Waits(q, step, c)
                BY <1>1 DEF Waits
            <4> QED
                BY <1>1, <3>1, <4>1, <4>2, Untouched
        <3>3. ~Shows(p, c) /\ ~Shows(p, c)' /\ ~Session(p, c)' /\ Phase(p, c)' = "away" /\ ~Timed(p, c)'
            BY <1>1, <2>3, <3>1, CallsAssumption DEF Shows, Session, Phase, Timed, CallShape
        <3>4. SameScreen(p, c)
            BY <3>1, <3>2, <3>3 DEF SameScreen
        <3>5. CASE c # d
            <4>1. \A q \in Person : SameAir(q, c)
                BY <1>4, <1>5, <2>1, <3>5 DEF SameAir
            <4>2. \A q \in Person : SameScreen(q, c)
                BY <3>2, <3>4
            <4> QED
                BY <1>1, <2>1, <4>1, <4>2, Elsewhere
        <3>6. CASE c = d
            <4>1. c \notin live[p]
                <5>1. /\ CallerSound(ends[c].from, ends[c].to, c)
                      /\ CalleeSound(ends[c].from, ends[c].to, c)
                    BY <2>1, <2>2, <3>6, EndsOf
                <5>2. Phase(p, c) = "away"
                    BY <3>3 DEF Phase
                <5> QED
                    BY <2>2, <3>6, <5>1, <5>2 DEF CallerSound, CalleeSound, Speaks, Party
            <4>2. Cleared(p, c)
                BY <3>1, <3>2, <3>3, <4>1 DEF Cleared
            <4>3. ends[c] # Unplaced /\ Party(p, c) /\ Ends(p, c) /\ ~Shows(p, c)
                BY <1>6, <2>2, <3>3, <3>6
            <4>4. \A q \in Person :
                    /\ Comes(q, "offer", c)' <=> Comes(q, "offer", c)
                    /\ Comes(q, "answer", c)' <=> Comes(q, "answer", c)
                    /\ Ends(q, c)' => Ends(q, c)
                    /\ OneOffer(q, c) => OneOffer(q, c)'
                BY <1>3, <1>5, <1>6, <2>1
            <4> QED
                BY <1>1, <2>1, <4>2, <4>3, <4>4, EndHeard
        <3> QED
            BY <3>5, <3>6
    <2>4. CASE onScreen[p] # NoCall
        <3>1. Shows(p, c) <=> c = d
            BY <1>1, <2>4, ShownShows
        <3>2. /\ \A q \in Person \ {p} : SameScreen(q, c)
              /\ ~Shows(p, c) => SameScreen(p, c)
              /\ Cleared(p, c)
            BY <1>1, <2>1, <2>4, EndScreens DEF Cleared
        <3>3. CASE c # d
            <4>1. \A q \in Person : SameAir(q, c)
                BY <1>4, <1>5, <2>1, <3>3 DEF SameAir
            <4>2. \A q \in Person : SameScreen(q, c)
                BY <3>1, <3>2, <3>3
            <4> QED
                BY <1>1, <2>1, <4>1, <4>2, Elsewhere
        <3>4. CASE c = d
            <4> PICK a, b : a = ends[c].from /\ b = ends[c].to
                OBVIOUS
            <4>1. /\ a \in Person /\ b \in Person /\ ends[c] # Unplaced
                  /\ CallerSound(a, b, c) /\ CalleeSound(a, b, c) /\ EndsSound(a, b, c)
                BY <2>1, <2>2, <3>4, EndsOf
            <4>2. Shows(p, c) /\ Phase(p, c) # "away" /\ Ends(p, c)
                BY <1>1, <1>6, <2>1, <3>1, <3>4, PhaseOf
            <4>3. ~Waits(p, "accept", c) /\ ~Waits(p, "answer", c)
                BY <2>1, ShownShows
            <4>4. OneOffer(b, c)'
                BY <1>5, <2>1, <4>1 DEF CalleeSound
            <4>5. CASE p = a
                <5>1. ~Speaks(b, c)
                    BY <4>1, <4>2, <4>5 DEF EndsSound, Speaks
                <5> QED
                    BY <1>1, <1>3, <1>6, <2>1, <3>2, <4>1, <4>2, <4>4, <4>5, <5>1, CallerEnds
            <4>6. CASE p = b
                <5>1. ~Expects(a, c)
                    BY <4>1, <4>2, <4>6 DEF EndsSound, Expects
                <5> QED
                    BY <1>1, <1>3, <1>6, <2>1, <3>2, <4>1, <4>2, <4>3, <4>4, <4>6, <5>1, CalleeEnds
            <4> QED
                BY <2>2, <3>4, <4>5, <4>6 DEF Party
        <3> QED
            BY <3>3, <3>4
    <2> QED
        BY <2>3, <2>4
<1> QED
    BY <1>7, <1>8 DEF CallInv

(* Calling. *)

\* What is said of a call by one who is no end of it: nothing.
LEMMA Unplaced_Unknown ==
    ASSUME CallShape, Roles, NEW q \in Person, NEW c \in CallId, ends[c] = Unplaced
    PROVE  /\ ~Shows(q, c) /\ ~Session(q, c) /\ c \notin live[q] /\ Phase(q, c) = "away"
           /\ \A step \in Steps : ~Waits(q, step, c)
           /\ ~Ends(q, c) /\ ~Comes(q, "answer", c) /\ ~Comes(q, "offer", c)
<1>1. ~Party(q, c) /\ q # ends[c].from /\ q # ends[c].to
    BY CallsAssumption DEF Party, Unplaced
<1> QED
    BY <1>1 DEF Roles, Phase, Steps

LEMMA DialStep ==
    ASSUME CallInv, NEW p \in Person, NEW o \in Person, NEW d \in CallId, Dial(p, o, d)
    PROVE  CallInv'
<1>1. /\ p # o /\ ends[d] = Unplaced /\ onScreen[p] = NoCall
      /\ ends' = [ends EXCEPT ![d] = [from |-> p, to |-> o]]
      /\ ringing' = [ringing EXCEPT ![p] = NoCall]
      /\ pending' = [pending EXCEPT ![p] = @ \cup {Await("dial", d)}]
      /\ UNCHANGED <<onScreen, live, answered, air, muddled, lostSignals>>
      /\ CallShape /\ Roles
    BY DEF Dial, CallInv
<1>2. Await("dial", d) \in [step : Steps, id : CallId]
    BY DEF Await, Steps
<1>3. /\ ends'[d] = [from |-> p, to |-> o] /\ ends'[d].from = p /\ ends'[d].to = o
      /\ \A c \in CallId \ {d} : ends'[c] = ends[c]
    BY <1>1 DEF CallShape
<1>4. CallShape'
    <2>1. \A c \in CallId : ends'[c] = Unplaced' \/ /\ ends'[c].from \in Person
                                                    /\ ends'[c].to \in Person
                                                    /\ ends'[c].from # ends'[c].to
        BY <1>1, <1>3 DEF CallShape, Unplaced
    <2> QED
        BY <1>1, <1>2, <2>1 DEF CallShape
<1>5. /\ \A q, c : (Shows(q, c)' <=> Shows(q, c)) /\ (Session(q, c)' <=> Session(q, c))
      /\ \A q, c : Phase(q, c)' = Phase(q, c)
      /\ \A q, t, c : Comes(q, t, c)' <=> Comes(q, t, c)
      /\ \A q, c : OneOffer(q, c)' <=> OneOffer(q, c)
    BY <1>1 DEF Shows, Session, Phase, Comes, OneOffer
<1>6. \A q, c : Ends(q, c)' <=> Ends(q, c)
    BY <1>5 DEF Ends
<1>7. \A q \in Person, step \in Steps, c \in CallId :
         Waits(q, step, c)' <=> Waits(q, step, c) \/ (q = p /\ step = "dial" /\ c = d)
    BY <1>1 DEF Waits, Await, CallShape
<1>8. \A q \in Person : /\ \A c \in CallId : Timed(q, c)' => Timed(q, c)
                        /\ \A c : q # p /\ Timed(q, c) => Timed(q, c)'
    BY <1>1, CallsAssumption DEF Timed, CallShape
<1>9. \A q \in Person : /\ ~Shows(q, d) /\ ~Session(q, d) /\ d \notin live[q] /\ Phase(q, d) = "away"
                        /\ \A step \in Steps : ~Waits(q, step, d)
                        /\ ~Ends(q, d) /\ ~Comes(q, "answer", d) /\ ~Comes(q, "offer", d)
    BY <1>1, Unplaced_Unknown
<1>10. Roles'
    <2>1. \A q, c : c \in CallId \ {d} => (Party(q, c)' <=> Party(q, c))
        BY <1>3 DEF Party
    <2>2. \A q \in Person, c \in CallId :
            /\ Waits(q, "dial", c)' <=> Waits(q, "dial", c) \/ (q = p /\ c = d)
            /\ Waits(q, "store", c)' <=> Waits(q, "store", c)
            /\ Waits(q, "accept", c)' <=> Waits(q, "accept", c)
            /\ Waits(q, "answer", c)' <=> Waits(q, "answer", c)
            /\ Waits(q, "describe", c)' <=> Waits(q, "describe", c)
        BY <1>7 DEF Steps
    <2>3. ASSUME NEW q \in Person
          PROVE  /\ ~Shows(q, d)' /\ ~Session(q, d)' /\ d \notin live'[q] /\ ~Waits(q, "describe", d)'
                 /\ ~Ends(q, d)' /\ ~Waits(q, "store", d)' /\ ~Comes(q, "answer", d)'
                 /\ ~Waits(q, "accept", d)' /\ ~Waits(q, "answer", d)' /\ ~Comes(q, "offer", d)'
                 /\ Waits(q, "dial", d)' => q = p
                 /\ Phase(q, d)' # "incoming"
        BY <1>1, <1>5, <1>6, <1>9, <2>2 DEF Steps
    <2> SUFFICES ASSUME NEW q \in Person, NEW c \in CallId
                 PROVE
            /\ Shows(q, c)' \/ Session(q, c)' \/ c \in live'[q] \/ Waits(q, "describe", c)' \/ Ends(q, c)'
                  => Party(q, c)'
            /\ Waits(q, "dial", c)' \/ Waits(q, "store", c)' \/ Comes(q, "answer", c)'
                  => q = ends'[c].from
            /\ Phase(q, c)' = "incoming" \/ Waits(q, "accept", c)' \/ Waits(q, "answer", c)'
                  \/ Comes(q, "offer", c)' => q = ends'[c].to
        BY DEF Roles
    <2>4. CASE c = d
        BY <1>3, <2>3, <2>4
    <2>5. CASE c # d
        <3>1. /\ Shows(q, c) \/ Session(q, c) \/ c \in live[q] \/ Waits(q, "describe", c) \/ Ends(q, c)
                    => Party(q, c)
              /\ Waits(q, "dial", c) \/ Waits(q, "store", c) \/ Comes(q, "answer", c) => q = ends[c].from
              /\ Phase(q, c) = "incoming" \/ Waits(q, "accept", c) \/ Waits(q, "answer", c)
                    \/ Comes(q, "offer", c) => q = ends[c].to
            BY <1>1 DEF Roles
        <3>2. ends'[c] = ends[c] /\ live' = live
            BY <1>1, <1>3, <2>5
        <3> QED
            BY <1>5, <1>6, <2>1, <2>2, <2>5, <3>1, <3>2
    <2> QED
        BY <2>4, <2>5
<1>11. ASSUME NEW c \in CallId \ muddled' PROVE Sound(c)'
    <2>1. c \in CallId \ muddled /\ Sound(c)
        BY <1>1 DEF CallInv
    <2>2. CASE c # d
        <3>1. \A q \in Person : SameAir(q, c)
            BY <1>5 DEF SameAir
        <3>2. ~Shows(p, c)
            BY <1>1, ShownShows
        <3>3. \A q \in Person : \A step \in Steps : Waits(q, step, c)' <=> Waits(q, step, c)
            BY <1>7, <2>1, <2>2
        <3>4. \A q \in Person : SameScreen(q, c)
            BY <1>1, <1>5, <1>8, <2>1, <3>2, <3>3 DEF SameScreen
        <3> QED
            BY <1>1, <1>3, <2>1, <2>2, <3>1, <3>4, Elsewhere
    <2>3. CASE c = d
        <3>1. \A q \in Person :
                 /\ Phase(q, c)' = "away" /\ ~Session(q, c)' /\ c \notin live'[q]
                 /\ ~Waits(q, "store", c)' /\ ~Waits(q, "accept", c)' /\ ~Waits(q, "answer", c)'
                 /\ ~Waits(q, "describe", c)'
                 /\ ~Ends(q, c)' /\ ~Comes(q, "answer", c)' /\ ~Comes(q, "offer", c)'
            <4>1. \A q \in Person : /\ ~Waits(q, "store", c) /\ ~Waits(q, "accept", c)
                                    /\ ~Waits(q, "answer", c) /\ ~Waits(q, "describe", c)
                BY <1>9, <2>3 DEF Steps
            <4>2. \A q \in Person : /\ ~Waits(q, "store", c)' /\ ~Waits(q, "accept", c)'
                                    /\ ~Waits(q, "answer", c)' /\ ~Waits(q, "describe", c)'
                BY <1>7, <2>1, <4>1 DEF Steps
            <4> QED
                BY <1>1, <1>5, <1>6, <1>9, <2>3, <4>2
        <3>2. OneOffer(o, c)'
            BY <3>1 DEF OneOffer, Comes, Holds, HoldsOnce
        <3>3. CallerSound(p, o, c)' /\ CalleeSound(p, o, c)' /\ EndsSound(p, o, c)'
            BY <3>1, <3>2 DEF CallerSound, CalleeSound, EndsSound, Expects, Speaks, Unheard
        <3>4. \A q \in Person : Session(q, c)' => Shows(q, c)'
            BY <3>1
        <3> QED
            BY <1>3, <2>3, <3>3, <3>4 DEF Sound
    <2> QED
        BY <2>2, <2>3
<1> QED
    BY <1>4, <1>10, <1>11 DEF CallInv

(* Steps that touch one person's screen. *)

\* Everyone else's screen, timer and steps stay.
OnlyAt(p) ==
    \A q \in Person \ {p} : /\ onScreen'[q] = onScreen[q] /\ live'[q] = live[q]
                            /\ pending'[q] = pending[q] /\ ringing'[q] = ringing[q]

\* What others see of any call is what they saw.
LEMMA OthersSee ==
    ASSUME NEW p, OnlyAt(p), NEW q \in Person \ {p}, NEW c
    PROVE  /\ SameScreen(q, c)
           /\ Phase(q, c)' = Phase(q, c) /\ (Session(q, c)' <=> Session(q, c))
           /\ (Shows(q, c)' <=> Shows(q, c)) /\ (Timed(q, c)' <=> Timed(q, c))
           /\ \A step : Waits(q, step, c)' <=> Waits(q, step, c)
           /\ c \in live'[q] <=> c \in live[q]
    BY Untouched DEF OnlyAt

\* A call that changes at nobody and of which nothing is sent stays as it is.
LEMMA ElsewhereThan ==
    ASSUME CallShape, NEW p \in Person, OnlyAt(p), NEW c \in CallId, Sound(c), UNCHANGED ends,
           SameScreen(p, c), \A q \in Person : SameAir(q, c)
    PROVE  Sound(c)'
<1>1. \A q \in Person : SameScreen(q, c)
    BY OthersSee
<1> QED
    BY <1>1, Elsewhere

\* The ends see what they saw, or what is right for them to see.
RolesAt(q, c) ==
    /\ Shows(q, c)' => Shows(q, c) \/ Party(q, c)
    /\ Session(q, c)' => Session(q, c) \/ Party(q, c)
    /\ c \in live'[q] => c \in live[q] \/ Party(q, c)
    /\ Waits(q, "describe", c)' => Waits(q, "describe", c) \/ Party(q, c)
    /\ Ends(q, c)' => Ends(q, c) \/ Party(q, c)
    /\ Waits(q, "dial", c)' => Waits(q, "dial", c) \/ q = ends[c].from
    /\ Waits(q, "store", c)' => Waits(q, "store", c) \/ q = ends[c].from
    /\ Comes(q, "answer", c)' => Comes(q, "answer", c) \/ q = ends[c].from
    /\ Phase(q, c)' = "incoming" => Phase(q, c) = "incoming" \/ q = ends[c].to
    /\ Waits(q, "accept", c)' => Waits(q, "accept", c) \/ q = ends[c].to
    /\ Waits(q, "answer", c)' => Waits(q, "answer", c) \/ q = ends[c].to
    /\ Comes(q, "offer", c)' => Comes(q, "offer", c) \/ q = ends[c].to

\* Who does nothing keeps the part it has in a call,
LEMMA OthersRoles ==
    ASSUME NEW p, OnlyAt(p), NEW q \in Person \ {p}, NEW c,
           Ends(q, c)' => Ends(q, c) \/ Party(q, c),
           Comes(q, "answer", c)' => Comes(q, "answer", c) \/ q = ends[c].from,
           Comes(q, "offer", c)' => Comes(q, "offer", c) \/ q = ends[c].to
    PROVE  RolesAt(q, c)
<1>1. /\ Phase(q, c)' = Phase(q, c) /\ (Session(q, c)' <=> Session(q, c))
      /\ Shows(q, c)' <=> Shows(q, c)
      /\ \A step : Waits(q, step, c)' <=> Waits(q, step, c)
      /\ c \in live'[q] <=> c \in live[q]
    BY OthersSee
<1> QED
    BY <1>1 DEF RolesAt

\* and when everybody does, the parts are as they were.
LEMMA RolesGrow ==
    ASSUME Roles, UNCHANGED ends, \A q \in Person, c \in CallId : RolesAt(q, c)
    PROVE  Roles'
<1>1. \A q, c : Party(q, c)' <=> Party(q, c)
    BY DEF Party
<1>2. ASSUME NEW q \in Person, NEW c \in CallId
      PROVE
        /\ Shows(q, c)' \/ Session(q, c)' \/ c \in live'[q] \/ Waits(q, "describe", c)' \/ Ends(q, c)'
              => Party(q, c)'
        /\ Waits(q, "dial", c)' \/ Waits(q, "store", c)' \/ Comes(q, "answer", c)' => q = ends'[c].from
        /\ Phase(q, c)' = "incoming" \/ Waits(q, "accept", c)' \/ Waits(q, "answer", c)'
              \/ Comes(q, "offer", c)' => q = ends'[c].to
    <2>1. /\ Shows(q, c) \/ Session(q, c) \/ c \in live[q] \/ Waits(q, "describe", c) \/ Ends(q, c)
                => Party(q, c)
          /\ Waits(q, "dial", c) \/ Waits(q, "store", c) \/ Comes(q, "answer", c) => q = ends[c].from
          /\ Phase(q, c) = "incoming" \/ Waits(q, "accept", c) \/ Waits(q, "answer", c)
                \/ Comes(q, "offer", c) => q = ends[c].to
        BY DEF Roles
    <2>2. RolesAt(q, c)
        OBVIOUS
    <2> QED
        BY <1>1, <2>1, <2>2 DEF RolesAt
<1> QED
    BY <1>2 DEF Roles

\* The shape of the state is kept piece by piece.
LEMMA ShapeStays ==
    ASSUME CallShape, UNCHANGED ends,
           onScreen' \in [Person -> {NoCall} \cup
                                    [id : CallId, session : CallId \cup {NoCall}, phase : Phases]],
           live' \in [Person -> SUBSET CallId],
           pending' \in [Person -> SUBSET [step : Steps, id : CallId]],
           ringing' \in [Person -> CallId \cup {NoCall}],
           air' \in [Person -> Seq([type : SignalTypes, id : CallId])]
    PROVE  CallShape'
<1>1. \A c \in CallId : ends'[c] = Unplaced' \/ /\ ends'[c].from \in Person
                                                /\ ends'[c].to \in Person
                                                /\ ends'[c].from # ends'[c].to
    BY DEF CallShape, Unplaced
<1>2. ends' \in [CallId -> [from : Person \cup {Nobody}, to : Person \cup {Nobody}]]
    BY DEF CallShape
<1> QED
    BY <1>1, <1>2 DEF CallShape

\* No signal is sent or received.
LEMMA Silence ==
    ASSUME UNCHANGED air
    PROVE  /\ \A q, t, c : Comes(q, t, c)' <=> Comes(q, t, c)
           /\ \A q, c : Ends(q, c)' <=> Ends(q, c)
           /\ \A q, c : OneOffer(q, c)' <=> OneOffer(q, c)
           /\ \A q, c : SameAir(q, c)
<1>1. \A q, t, c : Comes(q, t, c)' <=> Comes(q, t, c)
    BY DEF Comes
<1>2. \A q, c : Ends(q, c)' <=> Ends(q, c)
    BY <1>1 DEF Ends
<1>3. \A q, c : OneOffer(q, c)' <=> OneOffer(q, c)
    BY DEF OneOffer
<1> QED
    BY <1>1, <1>2, <1>3 DEF SameAir

\* A step is one of the steps.
LEMMA AwaitShape ==
    ASSUME NEW step \in Steps, NEW c \in CallId
    PROVE  Await(step, c) \in [step : Steps, id : CallId]
    BY DEF Await

LEMMA PlaceStep ==
    ASSUME CallInv, NEW p \in Person, NEW d \in CallId, Place(p, d)
    PROVE  CallInv'
<1>1. /\ Waits(p, "dial", d) /\ CallShape /\ Roles /\ p = ends[d].from
      /\ live' = [live EXCEPT ![p] = @ \cup {d}]
      /\ onScreen' = [onScreen EXCEPT ![p] = [id |-> d, phase |-> "outgoing", session |-> d]]
      /\ pending' = [pending EXCEPT ![p] = (@ \ {Await("dial", d)}) \cup {Await("store", d)}]
      /\ muddled' = IF onScreen[p] = NoCall THEN muddled ELSE muddled \cup Mixed(p, d)
      /\ UNCHANGED <<ends, answered, ringing, air, lostSignals>>
    BY DEF Place, CallInv, Waits, setOutgoingCall, Roles
<1>2. Await("store", d) \in [step : Steps, id : CallId]
    BY AwaitShape DEF Steps
<1>3. OnlyAt(p)
    BY <1>1 DEF OnlyAt, CallShape
<1>4. CallShape'
    <2>1. [id |-> d, phase |-> "outgoing", session |-> d]
             \in [id : CallId, session : CallId \cup {NoCall}, phase : Phases]
        BY DEF Phases
    <2>2. onScreen' \in [Person -> {NoCall} \cup
                                   [id : CallId, session : CallId \cup {NoCall}, phase : Phases]]
        BY <1>1, <2>1 DEF CallShape
    <2>3. /\ live' \in [Person -> SUBSET CallId]
          /\ pending' \in [Person -> SUBSET [step : Steps, id : CallId]]
        BY <1>1, <1>2 DEF CallShape
    <2>4. /\ ringing' \in [Person -> CallId \cup {NoCall}]
          /\ air' \in [Person -> Seq([type : SignalTypes, id : CallId])]
        BY <1>1 DEF CallShape
    <2> QED
        BY <1>1, <2>2, <2>3, <2>4, ShapeStays
<1>5. /\ onScreen'[p] = [id |-> d, phase |-> "outgoing", session |-> d] /\ onScreen'[p] # NoCall
      /\ live'[p] = live[p] \cup {d} /\ ringing'[p] = ringing[p]
      /\ pending'[p] = (pending[p] \ {Await("dial", d)}) \cup {Await("store", d)}
    <2>1. [id |-> d, phase |-> "outgoing", session |-> d] # NoCall
        BY CallsAssumption
    <2> QED
        BY <1>1, <2>1 DEF CallShape
<1>6. \A step, c : Waits(p, step, c)' <=>
              (Waits(p, step, c) /\ ~(step = "dial" /\ c = d)) \/ (step = "store" /\ c = d)
    <2>1. pending'[p] = (pending[p] \ {Await("dial", d)}) \cup {Await("store", d)}
        BY <1>5
    <2> QED
        BY <2>1 DEF Waits, Await
<1>7. /\ \A c : Shows(p, c)' <=> c = d
      /\ \A c : Session(p, c)' <=> c = d
      /\ Phase(p, d)' = "outgoing" /\ \A c : Phase(p, c)' # "incoming"
    BY <1>5 DEF Shows, Session, Phase
<1>8. /\ \A q, t, c : Comes(q, t, c)' <=> Comes(q, t, c)
      /\ \A q, c : Ends(q, c)' <=> Ends(q, c)
      /\ \A q, c : OneOffer(q, c)' <=> OneOffer(q, c)
      /\ \A q, c : SameAir(q, c)
    BY <1>1, Silence
<1>9. Roles'
    <2>1. ASSUME NEW q \in Person, NEW c \in CallId PROVE RolesAt(q, c)
        <3>1. CASE q # p
            BY <1>3, <1>8, <3>1, OthersRoles
        <3>2. CASE q = p
            BY <1>1, <1>5, <1>6, <1>7, <1>8, <3>2 DEF RolesAt, Party
        <3> QED
            BY <3>1, <3>2
    <2> QED
        BY <1>1, <2>1, RolesGrow
<1>10. ASSUME NEW c \in CallId \ muddled' PROVE Sound(c)'
    <2>1. c \in CallId \ muddled /\ Sound(c)
        BY <1>1 DEF CallInv
    <2>2. Shows(p, c) => c = d
        BY <1>1, ShownShows
    <2>3. CASE c # d
        <3>1. SameScreen(p, c)
            BY <1>5, <1>6, <1>7, <2>2, <2>3 DEF SameScreen, Timed
        <3> QED
            BY <1>1, <1>3, <1>8, <2>1, <3>1, ElsewhereThan
    <2>4. CASE c = d
        <3> PICK b : b = ends[c].to
            OBVIOUS
        <3>1. ends[c] # Unplaced /\ ends'[c] = ends[c]
            BY <1>1, <2>4, CallsAssumption DEF Unplaced
        <3>2. /\ b \in Person /\ b # p
              /\ CallerSound(p, b, c) /\ CalleeSound(p, b, c) /\ EndsSound(p, b, c)
            BY <1>1, <2>1, <2>4, <3>1, EndsOf
        <3>3. /\ Phase(b, c)' = Phase(b, c) /\ (Session(b, c)' <=> Session(b, c))
              /\ Timed(b, c)' <=> Timed(b, c)
              /\ \A step : Waits(b, step, c)' <=> Waits(b, step, c)
              /\ c \in live'[b] <=> c \in live[b]
            BY <1>3, <3>2, OthersSee
        <3>4. /\ Phase(p, c)' = "outgoing" /\ Session(p, c)' /\ c \in live'[p]
              /\ Waits(p, "store", c)' /\ ~Waits(p, "dial", c)'
              /\ Waits(p, "describe", c)' <=> Waits(p, "describe", c)
            BY <1>5, <1>6, <1>7, <2>4
        <3>5. Unheard(p, b, c) /\ ~Comes(b, "offer", c) /\ ~Ends(b, c) /\ Phase(p, c) = "away"
            BY <1>1, <2>4, <3>2 DEF CallerSound
        <3>6. CallerSound(p, b, c)'
            BY <1>8, <3>2, <3>3, <3>4, <3>5 DEF CallerSound, Unheard
        <3>7. CalleeSound(p, b, c)'
            BY <1>8, <3>2, <3>3, <3>4, <3>5 DEF CalleeSound, Unheard
        <3>8. EndsSound(p, b, c)'
            BY <1>8, <3>2, <3>3, <3>4, <3>5 DEF EndsSound, Unheard, Speaks, Expects
        <3>9. \A q \in Person : Session(q, c)' => Shows(q, c)'
            <4>1. \A q \in Person \ {p} : Session(q, c)' => Shows(q, c)'
                BY <1>3, <2>1, OthersSee DEF Sound
            <4> QED
                BY <1>7, <4>1
        <3> QED
            BY <1>1, <2>4, <3>6, <3>7, <3>8, <3>9 DEF Sound
    <2> QED
        BY <2>3, <2>4
<1> QED
    BY <1>4, <1>9, <1>10 DEF CallInv

\* A call that is placed or stored, or whose offer is on its way, has been answered by nobody.
LEMMA Fresh ==
    ASSUME CallInv, NEW c \in CallId \ muddled, ends[c] # Unplaced, NEW a, NEW b,
           a = ends[c].from, b = ends[c].to,
           Waits(a, "dial", c) \/ Waits(a, "store", c) \/ Comes(b, "offer", c)
    PROVE  Unheard(a, b, c) /\ ~Speaks(b, c) /\ ~Expects(a, c)
<1>1. CallerSound(a, b, c) /\ CalleeSound(a, b, c) /\ EndsSound(a, b, c)
    BY EndsOf
<1>2. Unheard(a, b, c)
    BY <1>1 DEF CallerSound, CalleeSound
<1>3. ~Speaks(b, c)
    BY <1>2 DEF Unheard, Speaks
<1>4. ~Expects(a, c)
    BY <1>1, <1>2, <1>3 DEF EndsSound, Unheard
<1> QED
    BY <1>2, <1>3, <1>4

LEMMA OfferStep ==
    ASSUME CallInv, NEW p \in Person, NEW d \in CallId, Offer(p, d)
    PROVE  CallInv'
<1>1. /\ Waits(p, "store", d) /\ CallShape /\ Roles /\ p = ends[d].from
      /\ pending' = [pending EXCEPT ![p] = @ \ {Await("store", d)}]
      /\ ringing' = [ringing EXCEPT ![p] = d]
      /\ air' = Sending(p, d, "offer")
      /\ muddled' = muddled \cup Mixed(p, d)
      /\ UNCHANGED <<ends, onScreen, live, answered, lostSignals>>
    BY DEF Offer, CallInv, Waits, Roles
<1> PICK b : b = OtherEnd(p, d)
    OBVIOUS
<1>2. /\ b \in Person /\ b # p /\ ends[d] # Unplaced /\ b = ends[d].to
    <2>1. Party(p, d)
        BY <1>1 DEF Party
    <2> QED
        BY <1>1, <2>1, OtherIs DEF OtherEnd
<1>3. OnlyAt(p)
    BY <1>1 DEF OnlyAt, CallShape
<1>4. /\ air' \in [Person -> Seq([type : SignalTypes, id : CallId])]
      /\ \A q \in Person, t \in SignalTypes, c \in CallId :
            Comes(q, t, c)' <=> Comes(q, t, c) \/ (q = b /\ t = "offer" /\ c = d)
      /\ \A q \in Person, c \in CallId :
            OneOffer(q, c) /\ (c = d => ~Comes(q, "offer", c)) => OneOffer(q, c)'
    <2>1. Party(p, d) /\ "offer" \in SignalTypes
        BY <1>1 DEF Party, SignalTypes
    <2> DEFINE type == "offer"
    <2>2. type \in SignalTypes /\ type = "offer" /\ air' = Sending(p, d, type) /\ CallShape
        BY <1>1, <2>1
    <2> HIDE DEF type
    <2>5. air' \in [Person -> Seq([type : SignalTypes, id : CallId])]
        BY <2>1, <2>2, SendAir
    <2>6. \A q \in Person, t \in SignalTypes, c \in CallId :
             Comes(q, t, c)' <=> Comes(q, t, c) \/ (q = OtherEnd(p, d) /\ t = type /\ c = d)
        BY <2>1, <2>2, SendAir
    <2>7. \A q \in Person, c \in CallId :
             OneOffer(q, c) /\ (type = "offer" /\ c = d => ~Comes(q, "offer", c))
                => OneOffer(q, c)'
        BY <2>1, <2>2, SendAir
    <2>3. \A q \in Person, c \in CallId :
            OneOffer(q, c) /\ (c = d => ~Comes(q, "offer", c)) => OneOffer(q, c)'
        BY <2>2, <2>7
    <2>4. /\ air' \in [Person -> Seq([type : SignalTypes, id : CallId])]
          /\ \A q \in Person, t \in SignalTypes, c \in CallId :
                Comes(q, t, c)' <=> Comes(q, t, c) \/ (q = OtherEnd(p, d) /\ t = "offer" /\ c = d)
        BY <2>2, <2>5, <2>6
    <2> QED
        BY <2>3, <2>4
<1>5. \A q \in Person, c \in CallId :
         /\ Comes(q, "answer", c)' <=> Comes(q, "answer", c)
         /\ Ends(q, c)' <=> Ends(q, c)
         /\ Comes(q, "offer", c)' <=> Comes(q, "offer", c) \/ (q = b /\ c = d)
    BY <1>4 DEF Ends, SignalTypes
<1>6. CallShape'
    <2>1. /\ onScreen' \in [Person -> {NoCall} \cup
                                      [id : CallId, session : CallId \cup {NoCall}, phase : Phases]]
          /\ live' \in [Person -> SUBSET CallId] /\ ringing' \in [Person -> CallId \cup {NoCall}]
          /\ pending' \in [Person -> SUBSET [step : Steps, id : CallId]]
        BY <1>1 DEF CallShape
    <2> QED
        BY <1>1, <1>4, <2>1, ShapeStays
<1>7. /\ pending'[p] = pending[p] \ {Await("store", d)} /\ ringing'[p] = d
      /\ onScreen' = onScreen /\ live' = live
    BY <1>1 DEF CallShape
<1>8. \A step, c : Waits(p, step, c)' <=> Waits(p, step, c) /\ ~(step = "store" /\ c = d)
    <2>1. pending'[p] = pending[p] \ {Await("store", d)}
        BY <1>7
    <2> QED
        BY <2>1 DEF Waits, Await
<1>9. \A c : /\ Shows(p, c)' <=> Shows(p, c)
             /\ Session(p, c)' <=> Session(p, c)
             /\ Phase(p, c)' = Phase(p, c)
             /\ Timed(p, c)' <=> c = d
    BY <1>7 DEF Shows, Session, Phase, Timed
<1>10. Roles'
    <2>1. ASSUME NEW q \in Person, NEW c \in CallId PROVE RolesAt(q, c)
        <3>1. CASE q # p
            BY <1>2, <1>3, <1>5, <3>1, OthersRoles
        <3>2. CASE q = p
            BY <1>1, <1>2, <1>5, <1>7, <1>8, <1>9, <3>2 DEF RolesAt
        <3> QED
            BY <3>1, <3>2
    <2> QED
        BY <1>1, <2>1, RolesGrow
<1>11. ASSUME NEW c \in CallId \ muddled' PROVE Sound(c)'
    <2>1. c \in CallId \ muddled /\ Sound(c)
        BY <1>1 DEF CallInv
    <2>2. Shows(p, c) <=> c = d
        BY <1>1, ShownShows
    <2>3. CASE c # d
        <3>1. SameScreen(p, c)
            BY <1>7, <1>8, <1>9, <2>2, <2>3 DEF SameScreen
        <3>2. \A q \in Person : SameAir(q, c)
            BY <1>4, <2>1, <2>3 DEF SameAir
        <3> QED
            BY <1>1, <1>3, <2>1, <3>1, <3>2, ElsewhereThan
    <2>4. CASE c = d
        <3>1. /\ ends[c] # Unplaced /\ ends'[c] = ends[c] /\ p = ends[c].from /\ b = ends[c].to
            BY <1>1, <1>2, <2>4
        <3>2. /\ CallerSound(p, b, c) /\ CalleeSound(p, b, c) /\ EndsSound(p, b, c)
            BY <2>1, <3>1, EndsOf
        <3>3. /\ Phase(b, c)' = Phase(b, c) /\ (Session(b, c)' <=> Session(b, c))
              /\ Timed(b, c)' <=> Timed(b, c)
              /\ \A step : Waits(b, step, c)' <=> Waits(b, step, c)
              /\ c \in live'[b] <=> c \in live[b]
            BY <1>2, <1>3, OthersSee
        <3>4. /\ Phase(p, c)' = Phase(p, c) /\ (Session(p, c)' <=> Session(p, c))
              /\ (c \in live'[p] <=> c \in live[p]) /\ Timed(p, c)'
              /\ ~Waits(p, "store", c)' /\ onScreen'[p] = onScreen[p]
              /\ \A step \in Steps \ {"store"} : Waits(p, step, c)' <=> Waits(p, step, c)
            BY <1>7, <1>8, <1>9, <2>4
        <3>5. /\ Waits(p, "dial", c)' <=> Waits(p, "dial", c)
              /\ Waits(p, "describe", c)' <=> Waits(p, "describe", c)
            BY <3>4 DEF Steps
        <3>6. /\ Comes(b, "offer", c)' /\ (Ends(b, c)' <=> Ends(b, c)) /\ (Ends(p, c)' <=> Ends(p, c))
              /\ (Comes(p, "answer", c)' <=> Comes(p, "answer", c))
            BY <1>2, <1>5, <2>1, <2>4
        <3>7. /\ Unheard(p, b, c) /\ ~Comes(b, "offer", c) /\ ~Waits(p, "dial", c)
              /\ ~Speaks(b, c) /\ ~Expects(p, c)
            <4>1. Waits(p, "store", c)
                BY <1>1, <2>4
            <4>2. ~Comes(b, "offer", c) /\ ~Waits(p, "dial", c)
                BY <3>2, <4>1 DEF CallerSound
            <4>3. Unheard(p, b, c) /\ ~Speaks(b, c) /\ ~Expects(p, c)
                BY <2>1, <3>1, <4>1, Fresh
            <4> QED
                BY <4>2, <4>3
        <3>8. OneOffer(b, c)'
            BY <1>2, <1>4, <2>1, <3>2, <3>7 DEF CalleeSound
        <3>9. CallerSound(p, b, c)'
            BY <3>2, <3>3, <3>4, <3>5, <3>6, <3>7 DEF CallerSound, Unheard
        <3>10. CalleeSound(p, b, c)'
            BY <3>2, <3>3, <3>4, <3>5, <3>6, <3>7, <3>8 DEF CalleeSound, Unheard
        <3>11. EndsSound(p, b, c)'
            BY <3>2, <3>3, <3>4, <3>5, <3>6, <3>7 DEF EndsSound, Unheard, Speaks, Expects
        <3>12. \A q \in Person : Session(q, c)' => Shows(q, c)'
            BY <1>3, <1>9, <2>1, OthersSee DEF Sound
        <3> QED
            BY <3>1, <3>9, <3>10, <3>11, <3>12 DEF Sound
    <2> QED
        BY <2>3, <2>4
<1> QED
    BY <1>6, <1>10, <1>11 DEF CallInv

\* A call fails that is shown.
LEMMA FailedCall ==
    ASSUME CallInv, NEW p \in Person, failCall(p)
    PROVE  /\ onScreen' \in [Person -> {NoCall} \cup
                                       [id : CallId, session : CallId \cup {NoCall}, phase : Phases]]
           /\ live' \in [Person -> SUBSET CallId]
           /\ \A q \in Person \ {p} : onScreen'[q] = onScreen[q] /\ live'[q] = live[q]
           /\ \A c \in CallId : /\ Shows(p, c)' <=> Shows(p, c)
                                /\ ~Session(p, c)'
                                /\ Phase(p, c)' = IF Shows(p, c) THEN "failed" ELSE "away"
                                /\ Shows(p, c) => onScreen'[p].session = NoCall
           /\ \A c \in CallId : /\ c \in live'[p] => c \in live[p]
                                /\ ~Session(p, c) => (c \in live'[p] <=> c \in live[p])
                                /\ Session(p, c) => c \notin live'[p]
<1>0. CallShape
    BY DEF CallInv
<1>1. CASE onScreen[p] = NoCall
    <2>1. onScreen' = onScreen /\ live' = live
        BY <1>0, <1>1 DEF failCall, Stopped, CallShape
    <2> QED
        BY <1>0, <1>1, <2>1 DEF Shows, Session, Phase, CallShape
<1>2. CASE onScreen[p] # NoCall
    <2>1. PICK r : r = [onScreen[p] EXCEPT !.phase = "failed", !.session = NoCall]
        OBVIOUS
    <2>2. onScreen[p] \in [id : CallId, session : CallId \cup {NoCall}, phase : Phases]
        BY <1>0, <1>2 DEF CallShape
    <2>3. /\ r \in [id : CallId, session : CallId \cup {NoCall}, phase : Phases]
          /\ r.id = onScreen[p].id /\ r.session = NoCall /\ r.phase = "failed"
        BY <2>1, <2>2 DEF Phases
    <2>4. r # NoCall
        BY <2>3, CallsAssumption DEF Phases
    <2>5. onScreen' = [onScreen EXCEPT ![p] = r]
        BY <1>2, <2>1 DEF failCall
    <2>6. live' = [live EXCEPT ![p] = live[p] \ {onScreen[p].session}]
        BY <1>2 DEF failCall, Stopped
    <2>7. /\ onScreen'[p] = r /\ live'[p] = live[p] \ {onScreen[p].session}
          /\ \A q \in Person \ {p} : onScreen'[q] = onScreen[q] /\ live'[q] = live[q]
        BY <1>0, <2>5, <2>6 DEF CallShape
    <2>8. /\ onScreen' \in [Person -> {NoCall} \cup
                                      [id : CallId, session : CallId \cup {NoCall}, phase : Phases]]
          /\ live' \in [Person -> SUBSET CallId]
        BY <1>0, <2>3, <2>5, <2>6 DEF CallShape
    <2>9. \A c \in CallId : /\ Shows(p, c)' <=> Shows(p, c)
                            /\ ~Session(p, c)'
                            /\ Phase(p, c)' = IF Shows(p, c) THEN "failed" ELSE "away"
                            /\ Shows(p, c) => onScreen'[p].session = NoCall
        BY <1>2, <2>3, <2>4, <2>7, CallsAssumption DEF Shows, Session, Phase
    <2>10. \A c \in CallId : /\ c \in live'[p] => c \in live[p]
                             /\ ~Session(p, c) => (c \in live'[p] <=> c \in live[p])
                             /\ Session(p, c) => c \notin live'[p]
        BY <1>2, <2>7 DEF Session
    <2> QED
        BY <2>7, <2>8, <2>9, <2>10
<1> QED
    BY <1>1, <1>2

LEMMA MediaFailsStep ==
    ASSUME CallInv, NEW p \in Person, NEW d \in CallId, MediaFails(p, d)
    PROVE  CallInv'
<1> PICK over \in {"dial", "accept"} :
            /\ Await(over, d) \in pending[p]
            /\ pending' = [pending EXCEPT ![p] = @ \ {Await(over, d)}]
    BY DEF MediaFails
<1>1. /\ Waits(p, over, d) /\ CallShape /\ Roles
      /\ muddled' = IF onScreen[p] = NoCall THEN muddled ELSE muddled \cup Mixed(p, d)
      /\ UNCHANGED <<ends, answered, ringing, air, lostSignals>>
    BY DEF MediaFails, CallInv, Waits
<1>2. /\ over = "dial" => p = ends[d].from
      /\ over = "accept" => p = ends[d].to
    BY <1>1 DEF Roles
<1>3. /\ onScreen' \in [Person -> {NoCall} \cup
                                  [id : CallId, session : CallId \cup {NoCall}, phase : Phases]]
      /\ live' \in [Person -> SUBSET CallId]
      /\ \A q \in Person \ {p} : onScreen'[q] = onScreen[q] /\ live'[q] = live[q]
    <2>1. failCall(p)
        BY DEF MediaFails
    <2> QED
        BY <2>1, FailedCall
<1>4. /\ \A c \in CallId : /\ Shows(p, c)' <=> Shows(p, c)
                           /\ ~Session(p, c)'
                           /\ Phase(p, c)' = IF Shows(p, c) THEN "failed" ELSE "away"
                           /\ Shows(p, c) => onScreen'[p].session = NoCall
      /\ \A c \in CallId : /\ c \in live'[p] => c \in live[p]
                           /\ ~Session(p, c) => (c \in live'[p] <=> c \in live[p])
                           /\ Session(p, c) => c \notin live'[p]
    <2>1. failCall(p)
        BY DEF MediaFails
    <2> QED
        BY <2>1, FailedCall
<1>5. OnlyAt(p)
    BY <1>1, <1>3 DEF OnlyAt, CallShape
<1>6. CallShape'
    <2>1. /\ pending' \in [Person -> SUBSET [step : Steps, id : CallId]]
          /\ ringing' \in [Person -> CallId \cup {NoCall}]
          /\ air' \in [Person -> Seq([type : SignalTypes, id : CallId])]
        BY <1>1 DEF CallShape
    <2> QED
        BY <1>1, <1>3, <2>1, ShapeStays
<1>7. \A step, c : Waits(p, step, c)' <=> Waits(p, step, c) /\ ~(step = over /\ c = d)
    <2>1. pending'[p] = pending[p] \ {Await(over, d)}
        BY <1>1 DEF CallShape
    <2> QED
        BY <2>1 DEF Waits, Await
<1>8. /\ \A q, t, c : Comes(q, t, c)' <=> Comes(q, t, c)
      /\ \A q, c : Ends(q, c)' <=> Ends(q, c)
      /\ \A q, c : OneOffer(q, c)' <=> OneOffer(q, c)
      /\ \A q, c : SameAir(q, c)
    BY <1>1, Silence
<1>9. Roles'
    <2>1. ASSUME NEW q \in Person, NEW c \in CallId PROVE RolesAt(q, c)
        <3>1. CASE q # p
            BY <1>5, <1>8, <3>1, OthersRoles
        <3>2. CASE q = p
            BY <1>4, <1>7, <1>8, <3>2 DEF RolesAt
        <3> QED
            BY <3>1, <3>2
    <2> QED
        BY <1>1, <2>1, RolesGrow
<1>10. ASSUME NEW c \in CallId \ muddled' PROVE Sound(c)'
    <2>1. c \in CallId \ muddled /\ Sound(c)
        BY <1>1 DEF CallInv
    <2>2. Shows(p, c) => c = d
        BY <1>1, ShownShows
    <2>3. Session(p, c) => Shows(p, c)
        BY <2>1 DEF Sound
    <2>4. CASE c # d
        <3>1. SameScreen(p, c)
            BY <1>1, <1>4, <1>7, <2>1, <2>2, <2>3, <2>4 DEF SameScreen, Timed
        <3> QED
            BY <1>1, <1>5, <1>8, <2>1, <3>1, ElsewhereThan
    <2>5. CASE c = d
        <3> PICK a, b : a = ends[c].from /\ b = ends[c].to
            OBVIOUS
        <3>1. ends[c] # Unplaced /\ ends'[c] = ends[c] /\ p \in {a, b}
            BY <1>1, <1>2, <2>5, CallsAssumption DEF Unplaced
        <3>2. /\ a \in Person /\ b \in Person /\ a # b
              /\ CallerSound(a, b, c) /\ CalleeSound(a, b, c) /\ EndsSound(a, b, c)
            BY <2>1, <3>1, EndsOf
        <3>3. \A q \in {a, b} \ {p} :
                 /\ Phase(q, c)' = Phase(q, c) /\ (Session(q, c)' <=> Session(q, c))
                 /\ onScreen'[q] = onScreen[q] /\ (Timed(q, c)' <=> Timed(q, c))
                 /\ \A step : Waits(q, step, c)' <=> Waits(q, step, c)
                 /\ c \in live'[q] <=> c \in live[q]
            BY <1>5, <3>2, OthersSee DEF OnlyAt
        <3>4. Timed(p, c)' <=> Timed(p, c)
            BY <1>1 DEF Timed
        <3>5. \A q \in Person : Session(q, c)' => Shows(q, c)'
            <4>1. \A q \in Person \ {p} : Session(q, c)' => Shows(q, c)'
                BY <1>5, <2>1, OthersSee DEF Sound
            <4> QED
                BY <1>4, <2>1, <4>1
        <3>6. /\ Shows(p, c) <=> Phase(p, c) # "away"
              /\ Phase(p, c)' = IF Shows(p, c) THEN "failed" ELSE "away"
              /\ ~Session(p, c)' /\ (c \in live'[p] => c \in live[p])
              /\ ~Session(p, c) => (c \in live'[p] <=> c \in live[p])
            BY <1>1, <1>4, <2>1, PhaseOf
        <3>7. CASE over = "dial"
            <4>1. p = a /\ Waits(a, "dial", c)
                BY <1>1, <1>2, <2>5, <3>7
            <4>2. /\ Waits(a, "dial", c)' => FALSE
                  /\ Waits(a, "store", c)' <=> Waits(a, "store", c)
                  /\ Waits(a, "describe", c)' <=> Waits(a, "describe", c)
                BY <1>7, <2>5, <3>7, <4>1
            <4>3. Phase(a, c) = "away" /\ Phase(a, c)' = "away" /\ ~Session(a, c)
                BY <2>3, <3>2, <3>6, <4>1 DEF CallerSound
            <4>4. c \notin live'[a]
                BY <3>2, <3>6, <4>1, <4>3 DEF CallerSound
            <4>5. /\ Phase(b, c)' = Phase(b, c) /\ (Session(b, c)' <=> Session(b, c))
                  /\ (Timed(b, c)' <=> Timed(b, c)) /\ (c \in live'[b] <=> c \in live[b])
                  /\ \A step : Waits(b, step, c)' <=> Waits(b, step, c)
                BY <3>2, <3>3, <4>1
            <4>6. Unheard(a, b, c)' <=> Unheard(a, b, c)
                BY <1>8, <4>2, <4>5 DEF Unheard
            <4>7. CallerSound(a, b, c)'
                BY <1>8, <3>2, <3>4, <4>1, <4>2, <4>3, <4>4, <4>5, <4>6 DEF CallerSound
            <4>8. CalleeSound(a, b, c)'
                BY <1>8, <3>2, <4>5, <4>6 DEF CalleeSound, Speaks
            <4>9. EndsSound(a, b, c)'
                BY <1>8, <3>2, <4>2, <4>3, <4>5 DEF EndsSound, Speaks, Expects
            <4> QED
                BY <3>1, <3>5, <4>7, <4>8, <4>9 DEF Sound
        <3>8. CASE over = "accept"
            <4>1. p = b /\ Waits(b, "accept", c) /\ Phase(b, c) = "incoming"
                BY <1>1, <1>2, <2>5, <3>2, <3>8 DEF CalleeSound
            <4>2. /\ ~Waits(b, "accept", c)'
                  /\ Waits(b, "answer", c)' <=> Waits(b, "answer", c)
                  /\ Waits(b, "describe", c)' <=> Waits(b, "describe", c)
                BY <1>7, <2>5, <3>8, <4>1
            <4>3. Phase(b, c)' = "failed" /\ c \notin live'[b] /\ ~Waits(b, "answer", c)
                BY <3>2, <3>6, <4>1 DEF CalleeSound, Speaks
            <4>4. /\ Phase(a, c)' = Phase(a, c) /\ (Session(a, c)' <=> Session(a, c))
                  /\ onScreen'[a] = onScreen[a]
                  /\ (Timed(a, c)' <=> Timed(a, c)) /\ (c \in live'[a] <=> c \in live[a])
                  /\ \A step : Waits(a, step, c)' <=> Waits(a, step, c)
                BY <3>2, <3>3, <4>1
            <4>5. ~Unheard(a, b, c) /\ ~Speaks(b, c)
                BY <4>1 DEF Unheard, Speaks
            <4>6. CallerSound(a, b, c)'
                BY <1>8, <3>2, <4>4, <4>5 DEF CallerSound
            <4>7. CalleeSound(a, b, c)'
                BY <1>8, <3>2, <4>2, <4>3, <4>5 DEF CalleeSound
            <4>8. EndsSound(a, b, c)'
                BY <1>8, <3>2, <4>1, <4>2, <4>3, <4>4, <4>5 DEF EndsSound, Speaks, Expects
            <4> QED
                BY <3>1, <3>5, <4>6, <4>7, <4>8 DEF Sound
        <3> QED
            BY <3>7, <3>8
    <2> QED
        BY <2>4, <2>5
<1> QED
    BY <1>6, <1>9, <1>10 DEF CallInv

\* The call that is shown gets another phase.
LEMMA PhaseSet ==
    ASSUME CallInv, NEW p \in Person, NEW phase \in Phases, setPhase(p, phase)
    PROVE  /\ onScreen' \in [Person -> {NoCall} \cup
                                       [id : CallId, session : CallId \cup {NoCall}, phase : Phases]]
           /\ \A q \in Person \ {p} : onScreen'[q] = onScreen[q]
           /\ \A c \in CallId : /\ Shows(p, c)' <=> Shows(p, c)
                                /\ Session(p, c)' <=> Session(p, c)
                                /\ Phase(p, c)' = IF Shows(p, c) THEN phase ELSE "away"
<1>0. CallShape
    BY DEF CallInv
<1>1. CASE onScreen[p] = NoCall
    <2>1. onScreen' = onScreen
        BY <1>0, <1>1 DEF setPhase
    <2> QED
        BY <1>0, <1>1, <2>1 DEF Shows, Session, Phase, CallShape
<1>2. CASE onScreen[p] # NoCall
    <2>1. PICK r : r = [onScreen[p] EXCEPT !.phase = phase]
        OBVIOUS
    <2>2. onScreen[p] \in [id : CallId, session : CallId \cup {NoCall}, phase : Phases]
        BY <1>0, <1>2 DEF CallShape
    <2>3. /\ r \in [id : CallId, session : CallId \cup {NoCall}, phase : Phases]
          /\ r.id = onScreen[p].id /\ r.session = onScreen[p].session /\ r.phase = phase
        BY <2>1, <2>2
    <2>4. r # NoCall
        BY <2>3, CallsAssumption DEF Phases
    <2>5. onScreen' = [onScreen EXCEPT ![p] = r]
        BY <1>2, <2>1 DEF setPhase
    <2>6. onScreen'[p] = r /\ \A q \in Person \ {p} : onScreen'[q] = onScreen[q]
        BY <1>0, <2>5 DEF CallShape
    <2>7. onScreen' \in [Person -> {NoCall} \cup
                                   [id : CallId, session : CallId \cup {NoCall}, phase : Phases]]
        BY <1>0, <2>3, <2>5 DEF CallShape
    <2>8. \A c \in CallId : /\ Shows(p, c)' <=> Shows(p, c)
                            /\ Session(p, c)' <=> Session(p, c)
                            /\ Phase(p, c)' = IF Shows(p, c) THEN phase ELSE "away"
        BY <1>2, <2>3, <2>4, <2>6 DEF Shows, Session, Phase
    <2> QED
        BY <2>6, <2>7, <2>8
<1> QED
    BY <1>1, <1>2

LEMMA AcceptStep ==
    ASSUME CallInv, NEW p \in Person, Accept(p)
    PROVE  CallInv'
<1> PICK d : d = onScreen[p].id
    OBVIOUS
<1>1. /\ onScreen[p] # NoCall /\ onScreen[p].phase = "incoming" /\ CallShape /\ Roles
      /\ ringing' = [ringing EXCEPT ![p] = NoCall]
      /\ pending' = [pending EXCEPT ![p] = @ \cup {Await("accept", d)}]
      /\ UNCHANGED <<ends, onScreen, live, answered, air, muddled, lostSignals>>
    BY DEF Accept, CallInv
<1>2. d \in CallId /\ Shows(p, d) /\ Phase(p, d) = "incoming" /\ \A c : Shows(p, c) <=> c = d
    BY <1>1 DEF CallShape, Shows, Phase
<1>3. p = ends[d].to /\ ends[d] # Unplaced
    BY <1>1, <1>2, CallsAssumption DEF Roles, Unplaced
<1>4. Await("accept", d) \in [step : Steps, id : CallId]
    BY <1>2, AwaitShape DEF Steps
<1>5. OnlyAt(p)
    BY <1>1 DEF OnlyAt, CallShape
<1>6. CallShape'
    <2>1. /\ onScreen' \in [Person -> {NoCall} \cup
                                      [id : CallId, session : CallId \cup {NoCall}, phase : Phases]]
          /\ live' \in [Person -> SUBSET CallId]
          /\ air' \in [Person -> Seq([type : SignalTypes, id : CallId])]
        BY <1>1 DEF CallShape
    <2>2. ringing' \in [Person -> CallId \cup {NoCall}]
        BY <1>1 DEF CallShape
    <2>3. pending' \in [Person -> SUBSET [step : Steps, id : CallId]]
        BY <1>1, <1>4 DEF CallShape
    <2> QED
        BY <1>1, <2>1, <2>2, <2>3, ShapeStays
<1>7. /\ \A step, c : Waits(p, step, c)' <=> Waits(p, step, c) \/ (step = "accept" /\ c = d)
      /\ \A c \in CallId : ~Timed(p, c)'
    <2>1. pending'[p] = pending[p] \cup {Await("accept", d)} /\ ringing'[p] = NoCall
        BY <1>1 DEF CallShape
    <2>2. \A c \in CallId : ~Timed(p, c)'
        BY <2>1, CallsAssumption DEF Timed
    <2>3. \A step, c : Waits(p, step, c)' <=> Waits(p, step, c) \/ (step = "accept" /\ c = d)
        BY <2>1 DEF Waits, Await
    <2> QED
        BY <2>2, <2>3
<1>8. /\ \A q, t, c : Comes(q, t, c)' <=> Comes(q, t, c)
      /\ \A q, c : Ends(q, c)' <=> Ends(q, c)
      /\ \A q, c : OneOffer(q, c)' <=> OneOffer(q, c)
      /\ \A q, c : SameAir(q, c)
    BY <1>1, Silence
<1>9. /\ \A q, c : Shows(q, c)' <=> Shows(q, c)
      /\ \A q, c : Session(q, c)' <=> Session(q, c)
      /\ \A q, c : Phase(q, c)' = Phase(q, c)
      /\ live' = live /\ onScreen' = onScreen
    BY <1>1 DEF Shows, Session, Phase
<1>10. Roles'
    <2>1. ASSUME NEW q \in Person, NEW c \in CallId PROVE RolesAt(q, c)
        <3>1. CASE q # p
            BY <1>5, <1>8, <3>1, OthersRoles
        <3>2. CASE q = p
            <4>1. \A step : Waits(p, step, c)' => Waits(p, step, c) \/ (step = "accept" /\ c = d)
                BY <1>7
            <4>2. c = d => p = ends[c].to
                BY <1>3
            <4>3. /\ Waits(p, "describe", c)' => Waits(p, "describe", c)
                  /\ Waits(p, "dial", c)' => Waits(p, "dial", c)
                  /\ Waits(p, "store", c)' => Waits(p, "store", c)
                  /\ Waits(p, "accept", c)' => Waits(p, "accept", c) \/ p = ends[c].to
                  /\ Waits(p, "answer", c)' => Waits(p, "answer", c)
                BY <4>1, <4>2
            <4>4. QED
                BY <1>8, <1>9, <3>2, <4>3 DEF RolesAt
        <3> QED
            BY <3>1, <3>2
    <2> QED
        BY <1>1, <2>1, RolesGrow
<1>11. ASSUME NEW c \in CallId \ muddled' PROVE Sound(c)'
    <2>1. c \in CallId \ muddled /\ Sound(c)
        BY <1>1 DEF CallInv
    <2>2. CASE c # d
        <3>1. SameScreen(p, c)
            BY <1>2, <1>7, <1>9, <2>1, <2>2 DEF SameScreen
        <3> QED
            BY <1>1, <1>5, <1>8, <2>1, <3>1, ElsewhereThan
    <2>3. CASE c = d
        <3> PICK a : a = ends[c].from
            OBVIOUS
        <3>1. /\ ends[c] # Unplaced /\ ends'[c] = ends[c] /\ p = ends[c].to
              /\ Phase(p, c) = "incoming" /\ Phase(p, c)' = "incoming"
            BY <1>1, <1>2, <1>3, <1>9, <2>3
        <3>2. /\ a \in Person /\ a # p
              /\ CallerSound(a, p, c) /\ CalleeSound(a, p, c) /\ EndsSound(a, p, c)
            BY <2>1, <3>1, EndsOf
        <3>3. /\ Phase(a, c)' = Phase(a, c) /\ (Session(a, c)' <=> Session(a, c))
              /\ onScreen'[a] = onScreen[a]
              /\ Timed(a, c)' <=> Timed(a, c)
              /\ \A step : Waits(a, step, c)' <=> Waits(a, step, c)
              /\ c \in live'[a] <=> c \in live[a]
            BY <1>5, <1>9, <3>2, OthersSee
        <3>4. ~Unheard(a, p, c) /\ ~Speaks(p, c)
            BY <3>1 DEF Unheard, Speaks
        <3>5. /\ Waits(p, "accept", c)' /\ (Waits(p, "answer", c)' <=> Waits(p, "answer", c))
              /\ Waits(p, "describe", c)' <=> Waits(p, "describe", c)
            BY <1>7, <2>3
        <3>6. (c \in live'[p] <=> c \in live[p])
            BY <1>9
        <3>7. CallerSound(a, p, c)'
            BY <1>8, <3>2, <3>3, <3>4 DEF CallerSound
        <3>8. CalleeSound(a, p, c)'
            BY <1>8, <3>1, <3>2, <3>4, <3>5, <3>6 DEF CalleeSound
        <3>9. EndsSound(a, p, c)'
            BY <1>8, <3>1, <3>2, <3>3, <3>4 DEF EndsSound, Speaks, Expects
        <3>10. \A q \in Person : Session(q, c)' => Shows(q, c)'
            BY <1>9, <2>1 DEF Sound
        <3> QED
            BY <3>1, <3>7, <3>8, <3>9, <3>10 DEF Sound
    <2> QED
        BY <2>2, <2>3
<1> QED
    BY <1>6, <1>10, <1>11 DEF CallInv

LEMMA OpenMediaStep ==
    ASSUME CallInv, NEW p \in Person, NEW d \in CallId, OpenMedia(p, d)
    PROVE  CallInv'
<1>1. /\ Waits(p, "accept", d) /\ CallShape /\ Roles /\ p = ends[d].to
      /\ live' = [live EXCEPT ![p] = @ \cup {d}]
      /\ setPhase(p, "active") /\ "active" \in Phases
      /\ pending' = [pending EXCEPT ![p] = (@ \ {Await("accept", d)}) \cup {Await("answer", d)}]
      /\ muddled' = muddled \cup Mixed(p, d)
      /\ UNCHANGED <<ends, ringing, air, lostSignals>>
    BY DEF OpenMedia, CallInv, Waits, Roles, Phases
<1>2. ends[d] # Unplaced
    BY <1>1, CallsAssumption DEF Unplaced
<1>3. /\ onScreen' \in [Person -> {NoCall} \cup
                                  [id : CallId, session : CallId \cup {NoCall}, phase : Phases]]
      /\ \A q \in Person \ {p} : onScreen'[q] = onScreen[q]
      /\ \A c \in CallId : /\ Shows(p, c)' <=> Shows(p, c)
                           /\ Session(p, c)' <=> Session(p, c)
                           /\ Phase(p, c)' = IF Shows(p, c) THEN "active" ELSE "away"
    BY <1>1, PhaseSet
<1>4. Await("answer", d) \in [step : Steps, id : CallId]
    BY AwaitShape DEF Steps
<1>5. OnlyAt(p)
    BY <1>1, <1>3 DEF OnlyAt, CallShape
<1>6. CallShape'
    <2>1. live' \in [Person -> SUBSET CallId]
        BY <1>1 DEF CallShape
    <2>2. /\ ringing' \in [Person -> CallId \cup {NoCall}]
          /\ air' \in [Person -> Seq([type : SignalTypes, id : CallId])]
        BY <1>1 DEF CallShape
    <2>3. pending' \in [Person -> SUBSET [step : Steps, id : CallId]]
        BY <1>1, <1>4 DEF CallShape
    <2> QED
        BY <1>1, <1>3, <2>1, <2>2, <2>3, ShapeStays
<1>7. /\ \A step, c : Waits(p, step, c)' <=>
              (Waits(p, step, c) /\ ~(step = "accept" /\ c = d)) \/ (step = "answer" /\ c = d)
      /\ \A c : Timed(p, c)' <=> Timed(p, c)
      /\ live'[p] = live[p] \cup {d}
    <2>1. /\ pending'[p] = (pending[p] \ {Await("accept", d)}) \cup {Await("answer", d)}
          /\ ringing' = ringing /\ live'[p] = live[p] \cup {d}
        BY <1>1 DEF CallShape
    <2>2. \A step, c : Waits(p, step, c)' <=>
              (Waits(p, step, c) /\ ~(step = "accept" /\ c = d)) \/ (step = "answer" /\ c = d)
        BY <2>1 DEF Waits, Await
    <2>3. \A c : Timed(p, c)' <=> Timed(p, c)
        BY <2>1 DEF Timed
    <2> QED
        BY <2>1, <2>2, <2>3
<1>8. /\ \A q, t, c : Comes(q, t, c)' <=> Comes(q, t, c)
      /\ \A q, c : Ends(q, c)' <=> Ends(q, c)
      /\ \A q, c : OneOffer(q, c)' <=> OneOffer(q, c)
      /\ \A q, c : SameAir(q, c)
    BY <1>1, Silence
<1>9. Roles'
    <2>1. ASSUME NEW q \in Person, NEW c \in CallId PROVE RolesAt(q, c)
        <3>1. CASE q # p
            BY <1>5, <1>8, <3>1, OthersRoles
        <3>2. CASE q = p
            BY <1>1, <1>3, <1>7, <1>8, <3>2 DEF RolesAt, Party
        <3> QED
            BY <3>1, <3>2
    <2> QED
        BY <1>1, <2>1, RolesGrow
<1>10. ASSUME NEW c \in CallId \ muddled' PROVE Sound(c)'
    <2>1. c \in CallId \ muddled /\ Sound(c)
        BY <1>1 DEF CallInv
    <2>2. Shows(p, c) <=> c = d
        BY <1>1, ShownShows
    <2>3. \A q \in Person : Session(q, c)' => Shows(q, c)'
        <3>1. \A q \in Person \ {p} : Session(q, c)' => Shows(q, c)'
            BY <1>5, <2>1, OthersSee DEF Sound
        <3> QED
            BY <1>3, <2>1, <3>1 DEF Sound
    <2>4. CASE c # d
        <3>1. SameScreen(p, c)
            BY <1>3, <1>7, <2>1, <2>2, <2>4 DEF SameScreen
        <3> QED
            BY <1>1, <1>5, <1>8, <2>1, <3>1, ElsewhereThan
    <2>5. CASE c = d
        <3> PICK a : a = ends[c].from
            OBVIOUS
        <3>1. /\ ends[c] # Unplaced /\ ends'[c] = ends[c] /\ p = ends[c].to
              /\ Phase(p, c)' = "active" /\ c \in live'[p]
            BY <1>1, <1>2, <1>3, <1>7, <2>1, <2>2, <2>5
        <3>2. /\ a \in Person /\ a # p
              /\ CallerSound(a, p, c) /\ CalleeSound(a, p, c) /\ EndsSound(a, p, c)
            BY <2>1, <3>1, EndsOf
        <3>3. /\ Phase(a, c)' = Phase(a, c) /\ (Session(a, c)' <=> Session(a, c))
              /\ onScreen'[a] = onScreen[a]
              /\ Timed(a, c)' <=> Timed(a, c)
              /\ \A step : Waits(a, step, c)' <=> Waits(a, step, c)
              /\ c \in live'[a] <=> c \in live[a]
            BY <1>3, <1>5, <3>2, OthersSee
        <3>4. ~Unheard(a, p, c) /\ Phase(p, c) = "incoming" /\ ~Ends(a, c)
            BY <1>1, <2>5, <3>2 DEF Unheard, CalleeSound, EndsSound
        <3>5. /\ ~Waits(p, "accept", c)' /\ Waits(p, "answer", c)'
              /\ Waits(p, "describe", c)' <=> Waits(p, "describe", c)
            BY <1>7, <2>5
        <3>6. CallerSound(a, p, c)'
            BY <1>8, <3>2, <3>3, <3>4 DEF CallerSound
        <3>7. CalleeSound(a, p, c)'
            BY <1>8, <3>1, <3>2, <3>4, <3>5 DEF CalleeSound, Speaks
        <3>8. EndsSound(a, p, c)'
            BY <1>8, <3>1, <3>2, <3>3, <3>4, <3>5 DEF EndsSound, Speaks, Expects
        <3> QED
            BY <2>3, <3>1, <3>6, <3>7, <3>8 DEF Sound
    <2> QED
        BY <2>4, <2>5
<1> QED
    BY <1>6, <1>9, <1>10 DEF CallInv

\* The call that is shown gets the session of another, or of its own.
LEMMA SessionAttached ==
    ASSUME CallInv, NEW p \in Person, NEW d \in CallId, attachLocalSession(p, d)
    PROVE  /\ onScreen' \in [Person -> {NoCall} \cup
                                       [id : CallId, session : CallId \cup {NoCall}, phase : Phases]]
           /\ \A q \in Person \ {p} : onScreen'[q] = onScreen[q]
           /\ \A c \in CallId : /\ Shows(p, c)' <=> Shows(p, c)
                                /\ Session(p, c)' => c = d
                                /\ Shows(p, d) => Session(p, d)'
                                /\ Phase(p, c)' = IF Shows(p, c) THEN "connecting" ELSE "away"
<1>0. CallShape
    BY DEF CallInv
<1>1. CASE onScreen[p] = NoCall
    <2>1. onScreen' = onScreen
        BY <1>0, <1>1 DEF attachLocalSession
    <2> QED
        BY <1>0, <1>1, <2>1 DEF Shows, Session, Phase, CallShape
<1>2. CASE onScreen[p] # NoCall
    <2>1. PICK r : r = [onScreen[p] EXCEPT !.session = d, !.phase = "connecting"]
        OBVIOUS
    <2>2. onScreen[p] \in [id : CallId, session : CallId \cup {NoCall}, phase : Phases]
        BY <1>0, <1>2 DEF CallShape
    <2>3. /\ r \in [id : CallId, session : CallId \cup {NoCall}, phase : Phases]
          /\ r.id = onScreen[p].id /\ r.session = d /\ r.phase = "connecting"
        BY <2>1, <2>2 DEF Phases
    <2>4. r # NoCall
        BY <2>3, CallsAssumption DEF Phases
    <2>5. onScreen' = [onScreen EXCEPT ![p] = r]
        BY <1>2, <2>1 DEF attachLocalSession
    <2>6. onScreen'[p] = r /\ \A q \in Person \ {p} : onScreen'[q] = onScreen[q]
        BY <1>0, <2>5 DEF CallShape
    <2>7. onScreen' \in [Person -> {NoCall} \cup
                                   [id : CallId, session : CallId \cup {NoCall}, phase : Phases]]
        BY <1>0, <2>3, <2>5 DEF CallShape
    <2>8. \A c \in CallId : /\ Shows(p, c)' <=> Shows(p, c)
                            /\ Session(p, c)' => c = d
                            /\ Shows(p, d) => Session(p, d)'
                            /\ Phase(p, c)' = IF Shows(p, c) THEN "connecting" ELSE "away"
        BY <1>2, <2>3, <2>4, <2>6 DEF Shows, Session, Phase
    <2> QED
        BY <2>6, <2>7, <2>8
<1> QED
    BY <1>1, <1>2

LEMMA AnswerCallStep ==
    ASSUME CallInv, NEW p \in Person, NEW d \in CallId, AnswerCall(p, d)
    PROVE  CallInv'
<1>1. /\ Waits(p, "answer", d) /\ CallShape /\ Roles /\ p = ends[d].to
      /\ attachLocalSession(p, d)
      /\ air' = Sending(p, d, "answer")
      /\ pending' = [pending EXCEPT ![p] = @ \ {Await("answer", d)}]
      /\ muddled' = muddled \cup Mixed(p, d)
      /\ UNCHANGED <<ends, live, answered, ringing, lostSignals>>
    BY DEF AnswerCall, CallInv, Waits, Roles
<1> PICK a : a = OtherEnd(p, d)
    OBVIOUS
<1>2. /\ Party(p, d) /\ a \in Person /\ a # p /\ ends[d] # Unplaced /\ a = ends[d].from
    <2>1. Party(p, d)
        BY <1>1 DEF Party
    <2> QED
        BY <1>1, <2>1, OtherIs DEF OtherEnd
<1>3. /\ onScreen' \in [Person -> {NoCall} \cup
                                  [id : CallId, session : CallId \cup {NoCall}, phase : Phases]]
      /\ \A q \in Person \ {p} : onScreen'[q] = onScreen[q]
      /\ \A c \in CallId : /\ Shows(p, c)' <=> Shows(p, c)
                           /\ Session(p, c)' => c = d
                           /\ Shows(p, d) => Session(p, d)'
                           /\ Phase(p, c)' = IF Shows(p, c) THEN "connecting" ELSE "away"
    BY <1>1, SessionAttached
<1>4. /\ air' \in [Person -> Seq([type : SignalTypes, id : CallId])]
      /\ \A q \in Person, t \in SignalTypes, c \in CallId :
            Comes(q, t, c)' <=> Comes(q, t, c) \/ (q = a /\ t = "answer" /\ c = d)
      /\ \A q \in Person, c \in CallId : OneOffer(q, c) => OneOffer(q, c)'
    <2>1. "answer" \in SignalTypes /\ "answer" # "offer"
        BY DEF SignalTypes
    <2>2. \A q \in Person, c \in CallId :
             OneOffer(q, c) /\ ("answer" = "offer" /\ c = d => ~Comes(q, "offer", c)) => OneOffer(q, c)'
        BY <1>1, <1>2, <2>1, SendAir
    <2>3. \A q \in Person, c \in CallId : OneOffer(q, c) => OneOffer(q, c)'
        BY <2>1, <2>2
    <2>4. /\ air' \in [Person -> Seq([type : SignalTypes, id : CallId])]
          /\ \A q \in Person, t \in SignalTypes, c \in CallId :
                Comes(q, t, c)' <=> Comes(q, t, c) \/ (q = OtherEnd(p, d) /\ t = "answer" /\ c = d)
        BY <1>1, <1>2, <2>1, SendAir
    <2> QED
        BY <2>3, <2>4
<1>5. \A q \in Person, c \in CallId :
         /\ Comes(q, "answer", c)' <=> Comes(q, "answer", c) \/ (q = a /\ c = d)
         /\ Ends(q, c)' <=> Ends(q, c)
         /\ Comes(q, "offer", c)' <=> Comes(q, "offer", c)
    BY <1>4 DEF Ends, SignalTypes
<1>6. OnlyAt(p)
    BY <1>1, <1>3 DEF OnlyAt, CallShape
<1>7. CallShape'
    <2>1. live' \in [Person -> SUBSET CallId] /\ ringing' \in [Person -> CallId \cup {NoCall}]
        BY <1>1 DEF CallShape
    <2>2. pending' \in [Person -> SUBSET [step : Steps, id : CallId]]
        BY <1>1 DEF CallShape
    <2> QED
        BY <1>1, <1>3, <1>4, <2>1, <2>2, ShapeStays
<1>8. /\ \A step, c : Waits(p, step, c)' <=> Waits(p, step, c) /\ ~(step = "answer" /\ c = d)
      /\ \A c : Timed(p, c)' <=> Timed(p, c)
      /\ live' = live
    <2>1. pending'[p] = pending[p] \ {Await("answer", d)} /\ ringing' = ringing /\ live' = live
        BY <1>1 DEF CallShape
    <2>2. \A step, c : Waits(p, step, c)' <=> Waits(p, step, c) /\ ~(step = "answer" /\ c = d)
        BY <2>1 DEF Waits, Await
    <2>3. \A c : Timed(p, c)' <=> Timed(p, c)
        BY <2>1 DEF Timed
    <2> QED
        BY <2>1, <2>2, <2>3
<1>9. Roles'
    <2>1. ASSUME NEW q \in Person, NEW c \in CallId PROVE RolesAt(q, c)
        <3>1. CASE q # p
            BY <1>2, <1>5, <1>6, <3>1, OthersRoles
        <3>2. CASE q = p
            BY <1>1, <1>2, <1>3, <1>5, <1>8, <3>2 DEF RolesAt
        <3> QED
            BY <3>1, <3>2
    <2> QED
        BY <1>1, <2>1, RolesGrow
<1>10. ASSUME NEW c \in CallId \ muddled' PROVE Sound(c)'
    <2>1. c \in CallId \ muddled /\ Sound(c)
        BY <1>1 DEF CallInv
    <2>2. Shows(p, c) <=> c = d
        BY <1>1, ShownShows
    <2>3. \A q \in Person : Session(q, c)' => Shows(q, c)'
        <3>1. \A q \in Person \ {p} : Session(q, c)' => Shows(q, c)'
            BY <1>6, <2>1, OthersSee DEF Sound
        <3> QED
            BY <1>3, <2>1, <2>2, <3>1
    <2>4. CASE c # d
        <3>1. SameScreen(p, c)
            BY <1>3, <1>8, <2>1, <2>2, <2>4 DEF SameScreen
        <3>2. \A q \in Person : SameAir(q, c)
            BY <1>4, <2>1, <2>4 DEF SameAir
        <3> QED
            BY <1>1, <1>6, <2>1, <3>1, <3>2, ElsewhereThan
    <2>5. CASE c = d
        <3>1. /\ ends[c] # Unplaced /\ ends'[c] = ends[c] /\ p = ends[c].to /\ a = ends[c].from
              /\ Phase(p, c)' = "connecting" /\ Session(p, c)'
            BY <1>1, <1>2, <1>3, <2>1, <2>2, <2>5
        <3>2. /\ CallerSound(a, p, c) /\ CalleeSound(a, p, c) /\ EndsSound(a, p, c)
            BY <2>1, <3>1, EndsOf
        <3>3. /\ Phase(a, c)' = Phase(a, c) /\ (Session(a, c)' <=> Session(a, c))
              /\ onScreen'[a] = onScreen[a]
              /\ Timed(a, c)' <=> Timed(a, c)
              /\ \A step : Waits(a, step, c)' <=> Waits(a, step, c)
              /\ c \in live'[a] <=> c \in live[a]
            BY <1>2, <1>3, <1>6, OthersSee
        <3>4. ~Unheard(a, p, c) /\ Phase(p, c) = "active" /\ ~Ends(a, c) /\ Waits(p, "answer", c)
            BY <1>1, <2>5, <3>2 DEF Unheard, CalleeSound, EndsSound
        <3>5. /\ ~Waits(p, "answer", c)' /\ (Waits(p, "accept", c)' <=> Waits(p, "accept", c))
              /\ Waits(p, "describe", c)' <=> Waits(p, "describe", c)
              /\ ~Waits(p, "accept", c)
            BY <1>8, <2>5, <3>2, <3>4 DEF CalleeSound
        <3>6. /\ Comes(a, "answer", c)' /\ (Ends(a, c)' <=> Ends(a, c)) /\ (Ends(p, c)' <=> Ends(p, c))
              /\ (Comes(p, "offer", c)' <=> Comes(p, "offer", c)) /\ OneOffer(p, c)'
            BY <1>2, <1>4, <1>5, <2>1, <2>5, <3>2 DEF CalleeSound
        <3>7. CallerSound(a, p, c)'
            BY <3>2, <3>3, <3>4, <3>6 DEF CallerSound
        <3>8. CalleeSound(a, p, c)'
            BY <3>1, <3>2, <3>4, <3>5, <3>6 DEF CalleeSound, Speaks
        <3>9. EndsSound(a, p, c)'
            BY <3>1, <3>2, <3>3, <3>4, <3>5, <3>6 DEF EndsSound, Speaks, Expects
        <3> QED
            BY <2>3, <3>1, <3>7, <3>8, <3>9 DEF Sound
    <2> QED
        BY <2>4, <2>5
<1> QED
    BY <1>7, <1>9, <1>10 DEF CallInv

LEMMA ReceiveAnswerStep ==
    ASSUME CallInv, NEW p \in Person, ReceiveAnswer(p)
    PROVE  CallInv'
<1> PICK d : d = Head(air[p]).id
    OBVIOUS
<1>1. /\ "answer" \in SignalTypes /\ air[p] # <<>> /\ Head(air[p]).type = "answer"
      /\ air' = Received(p) /\ CallShape /\ Roles
      /\ ringing' = [ringing EXCEPT ![p] = NoCall]
      /\ pending' = IF onScreen[p] = NoCall \/ onScreen[p].session = NoCall THEN pending
                    ELSE [pending EXCEPT ![p] = @ \cup {Await("describe", onScreen[p].session)}]
      /\ muddled' = muddled \cup Mixed(p, d)
      /\ UNCHANGED <<ends, onScreen, live, answered, lostSignals>>
    BY DEF ReceiveAnswer, Arrives, SignalTypes, CallInv
<1>2. /\ d \in CallId /\ Comes(p, "answer", d)
      /\ air' \in [Person -> Seq([type : SignalTypes, id : CallId])]
      /\ \A q \in Person, t \in SignalTypes \ {"answer"}, c \in CallId :
            Comes(q, t, c)' <=> Comes(q, t, c)
      /\ \A q \in Person, c \in CallId : OneOffer(q, c) => OneOffer(q, c)'
    BY <1>1, HeadAir
<1>3. /\ \A q \in Person, t \in SignalTypes, c \in CallId :
            q # p \/ c # d => (Comes(q, t, c)' <=> Comes(q, t, c))
      /\ \A q \in Person, t \in SignalTypes, c \in CallId : Comes(q, t, c)' => Comes(q, t, c)
    BY <1>1, HeadAir
<1>4. \A q \in Person, c \in CallId :
         /\ Comes(q, "answer", c)' => Comes(q, "answer", c)
         /\ Ends(q, c)' <=> Ends(q, c)
         /\ Comes(q, "offer", c)' <=> Comes(q, "offer", c)
    BY <1>1, <1>2, <1>3 DEF Ends, SignalTypes
<1>5. p = ends[d].from /\ ends[d] # Unplaced
    BY <1>1, <1>2, CallsAssumption DEF Roles, Unplaced
<1>6. OnlyAt(p)
    BY <1>1 DEF OnlyAt, CallShape
<1>7. \A step, c : c \in CallId => (Waits(p, step, c)' <=>
              Waits(p, step, c) \/ (step = "describe" /\ Session(p, c)))
    <2>1. CASE onScreen[p] = NoCall \/ onScreen[p].session = NoCall
        BY <1>1, <2>1, CallsAssumption DEF Waits, Session
    <2>2. CASE ~(onScreen[p] = NoCall \/ onScreen[p].session = NoCall)
        <3>1. pending'[p] = pending[p] \cup {Await("describe", onScreen[p].session)}
            BY <1>1, <2>2 DEF CallShape
        <3> QED
            BY <2>2, <3>1 DEF Waits, Session, Await
    <2> QED
        BY <2>1, <2>2
<1>8. CallShape'
    <2>1. /\ live' \in [Person -> SUBSET CallId]
          /\ onScreen' \in [Person -> {NoCall} \cup
                                      [id : CallId, session : CallId \cup {NoCall}, phase : Phases]]
        BY <1>1 DEF CallShape
    <2>2. ringing' \in [Person -> CallId \cup {NoCall}]
        BY <1>1 DEF CallShape
    <2>3. pending' \in [Person -> SUBSET [step : Steps, id : CallId]]
        <3>1. CASE onScreen[p] = NoCall \/ onScreen[p].session = NoCall
            BY <1>1, <3>1 DEF CallShape
        <3>2. CASE ~(onScreen[p] = NoCall \/ onScreen[p].session = NoCall)
            <4>1. onScreen[p].session \in CallId
                BY <1>1, <3>2 DEF CallShape
            <4>2. Await("describe", onScreen[p].session) \in [step : Steps, id : CallId]
                BY <4>1, AwaitShape DEF Steps
            <4> QED
                BY <1>1, <3>2, <4>2 DEF CallShape
        <3> QED
            BY <3>1, <3>2
    <2> QED
        BY <1>1, <1>2, <2>1, <2>2, <2>3, ShapeStays
<1>9. /\ \A q, c : Shows(q, c)' <=> Shows(q, c)
      /\ \A q, c : Session(q, c)' <=> Session(q, c)
      /\ \A q, c : Phase(q, c)' = Phase(q, c)
      /\ live' = live /\ onScreen' = onScreen
    BY <1>1 DEF Shows, Session, Phase
<1>10. \A c \in CallId : ~Timed(p, c)'
    BY <1>1, CallsAssumption DEF Timed, CallShape
<1>11. Roles'
    <2>1. ASSUME NEW q \in Person, NEW c \in CallId PROVE RolesAt(q, c)
        <3>1. CASE q # p
            BY <1>4, <1>6, <3>1, OthersRoles
        <3>2. CASE q = p
            <4>1. Session(p, c) => Party(p, c)
                BY <1>1 DEF Roles
            <4> QED
                BY <1>4, <1>7, <1>9, <3>2, <4>1 DEF RolesAt
        <3> QED
            BY <3>1, <3>2
    <2> QED
        BY <1>1, <2>1, RolesGrow
<1>12. ASSUME NEW c \in CallId \ muddled' PROVE Sound(c)'
    <2>1. c \in CallId \ muddled /\ Sound(c)
        BY <1>1 DEF CallInv
    <2>2. Shows(p, c) <=> c = d
        BY <1>1, ShownShows
    <2>3. \A q \in Person : (Session(q, c)' => Shows(q, c)') /\ (Session(q, c) => Shows(q, c))
        BY <1>9, <2>1 DEF Sound
    <2>4. CASE c # d
        <3>1. SameScreen(p, c)
            BY <1>7, <1>9, <1>10, <2>1, <2>2, <2>3, <2>4 DEF SameScreen
        <3>2. \A q \in Person : SameAir(q, c)
            BY <1>2, <1>3, <2>1, <2>4 DEF SameAir
        <3> QED
            BY <1>1, <1>6, <2>1, <3>1, <3>2, ElsewhereThan
    <2>5. CASE c = d
        <3> PICK b : b = ends[c].to
            OBVIOUS
        <3>1. /\ ends[c] # Unplaced /\ ends'[c] = ends[c] /\ p = ends[c].from
              /\ Phase(p, c) # "away" /\ Comes(p, "answer", c)
            BY <1>1, <1>2, <1>5, <2>1, <2>2, <2>5, PhaseOf
        <3>2. /\ b \in Person /\ b # p
              /\ CallerSound(p, b, c) /\ CalleeSound(p, b, c) /\ EndsSound(p, b, c)
            BY <2>1, <3>1, EndsOf
        <3>3. /\ Phase(b, c)' = Phase(b, c) /\ (Session(b, c)' <=> Session(b, c))
              /\ Timed(b, c)' <=> Timed(b, c)
              /\ \A step : Waits(b, step, c)' <=> Waits(b, step, c)
              /\ c \in live'[b] <=> c \in live[b]
            <4>1. b \in Person \ {p}
                BY <3>2
            <4> QED
                BY <1>6, <4>1, OthersSee
        <3>4. ~Unheard(p, b, c)
            BY <3>1 DEF Unheard
        <3>5. /\ Phase(p, c)' = Phase(p, c) /\ (Session(p, c)' <=> Session(p, c))
              /\ onScreen'[p] = onScreen[p] /\ (c \in live'[p] <=> c \in live[p]) /\ ~Timed(p, c)'
              /\ Waits(p, "dial", c)' <=> Waits(p, "dial", c)
              /\ Waits(p, "store", c)' <=> Waits(p, "store", c)
              /\ Waits(p, "describe", c)' <=> Waits(p, "describe", c) \/ Session(p, c)
            BY <1>7, <1>9, <1>10, <2>1
        <3>6. /\ Comes(p, "answer", c)' => Comes(p, "answer", c)
              /\ Ends(p, c)' <=> Ends(p, c)
              /\ Ends(b, c)' <=> Ends(b, c)
              /\ Comes(b, "offer", c)' <=> Comes(b, "offer", c)
              /\ OneOffer(b, c)'
            BY <1>2, <1>4, <2>1, <3>2 DEF CalleeSound
        <3>7. Expects(p, c) /\ (Session(p, c) \/ Phase(p, c) = "failed")
            BY <3>1, <3>2 DEF Expects, CallerSound
        <3>8. CallerSound(p, b, c)'
            BY <3>2, <3>4, <3>5, <3>6, <3>7 DEF CallerSound
        <3>9. CalleeSound(p, b, c)'
            BY <3>2, <3>3, <3>4, <3>6 DEF CalleeSound, Speaks
        <3>10. EndsSound(p, b, c)'
            BY <3>1, <3>2, <3>3, <3>5, <3>6, <3>7 DEF EndsSound, Speaks, Expects
        <3> QED
            BY <2>3, <3>1, <3>8, <3>9, <3>10 DEF Sound
    <2> QED
        BY <2>4, <2>5
<1> QED
    BY <1>8, <1>11, <1>12 DEF CallInv

LEMMA DescribedStep ==
    ASSUME CallInv, NEW p \in Person, NEW d \in CallId, Described(p, d)
    PROVE  CallInv'
<1> DEFINE Well == setPhase(p, "active") /\ UNCHANGED live
           Badly == failCall(p)
<1>1. /\ Waits(p, "describe", d) /\ d \in live[p] /\ CallShape /\ Roles
      /\ pending' = [pending EXCEPT ![p] = @ \ {Await("describe", d)}]
      /\ Well \/ Badly
      /\ muddled' = muddled \cup Mixed(p, d)
      /\ UNCHANGED <<ends, ringing, air, lostSignals>>
    BY DEF Described, CallInv, Waits
<1>2. Party(p, d) /\ ends[d] # Unplaced
    BY <1>1, CallsAssumption DEF Roles, Party, Unplaced
<1>3. /\ onScreen' \in [Person -> {NoCall} \cup
                                  [id : CallId, session : CallId \cup {NoCall}, phase : Phases]]
      /\ live' \in [Person -> SUBSET CallId]
      /\ \A q \in Person \ {p} : onScreen'[q] = onScreen[q] /\ live'[q] = live[q]
    <2>1. CASE Well
        <3>1. "active" \in Phases
            BY DEF Phases
        <3> QED
            BY <1>1, <2>1, <3>1, PhaseSet DEF CallShape
    <2>2. CASE Badly
        BY <2>2, FailedCall
    <2> QED
        BY <1>1, <2>1, <2>2
<1>4. /\ \A c \in CallId : /\ Shows(p, c)' <=> Shows(p, c)
                           /\ Session(p, c)' => Session(p, c)
                           /\ Phase(p, c)' # "incoming"
                           /\ c \in live'[p] => c \in live[p]
                           /\ ~Session(p, c) => (c \in live'[p] <=> c \in live[p])
      /\ \/ \A c \in CallId : /\ Session(p, c)' <=> Session(p, c)
                              /\ c \in live'[p] <=> c \in live[p]
                              /\ Phase(p, c)' = IF Shows(p, c) THEN "active" ELSE "away"
         \/ \A c \in CallId : /\ ~Session(p, c)' /\ (Session(p, c) => c \notin live'[p])
                              /\ Phase(p, c)' = IF Shows(p, c) THEN "failed" ELSE "away"
                              /\ Shows(p, c) => onScreen'[p].session = NoCall
    <2>1. CASE Well
        <3>1. "active" \in Phases
            BY DEF Phases
        <3>2. \A c \in CallId : /\ Shows(p, c)' <=> Shows(p, c)
                                /\ Session(p, c)' <=> Session(p, c)
                                /\ Phase(p, c)' = IF Shows(p, c) THEN "active" ELSE "away"
            BY <2>1, <3>1, PhaseSet
        <3> QED
            BY <2>1, <3>2
    <2>2. CASE Badly
        <3>1. /\ \A c \in CallId : /\ Shows(p, c)' <=> Shows(p, c)
                                   /\ ~Session(p, c)'
                                   /\ Phase(p, c)' = IF Shows(p, c) THEN "failed" ELSE "away"
                                   /\ Shows(p, c) => onScreen'[p].session = NoCall
              /\ \A c \in CallId : /\ c \in live'[p] => c \in live[p]
                                   /\ ~Session(p, c) => (c \in live'[p] <=> c \in live[p])
                                   /\ Session(p, c) => c \notin live'[p]
            BY <2>2, FailedCall
        <3>2. \A c \in CallId : Phase(p, c)' # "incoming"
            BY <3>1
        <3> QED
            BY <3>1, <3>2
    <2> QED
        BY <1>1, <2>1, <2>2
<1> HIDE DEF Well, Badly
<1>5. OnlyAt(p)
    BY <1>1, <1>3 DEF OnlyAt, CallShape
<1>6. CallShape'
    <2>1. /\ pending' \in [Person -> SUBSET [step : Steps, id : CallId]]
          /\ ringing' \in [Person -> CallId \cup {NoCall}]
          /\ air' \in [Person -> Seq([type : SignalTypes, id : CallId])]
        BY <1>1 DEF CallShape
    <2> QED
        BY <1>1, <1>3, <2>1, ShapeStays
<1>7. /\ \A step, c : Waits(p, step, c)' <=> Waits(p, step, c) /\ ~(step = "describe" /\ c = d)
      /\ \A c : Timed(p, c)' <=> Timed(p, c)
    <2>1. pending'[p] = pending[p] \ {Await("describe", d)} /\ ringing' = ringing
        BY <1>1 DEF CallShape
    <2>2. \A step, c : Waits(p, step, c)' <=> Waits(p, step, c) /\ ~(step = "describe" /\ c = d)
        BY <2>1 DEF Waits, Await
    <2> QED
        BY <2>1, <2>2 DEF Timed
<1>8. /\ \A q, t, c : Comes(q, t, c)' <=> Comes(q, t, c)
      /\ \A q, c : Ends(q, c)' <=> Ends(q, c)
      /\ \A q, c : OneOffer(q, c)' <=> OneOffer(q, c)
      /\ \A q, c : SameAir(q, c)
    BY <1>1, Silence
<1>9. Roles'
    <2>1. ASSUME NEW q \in Person, NEW c \in CallId PROVE RolesAt(q, c)
        <3>1. CASE q # p
            BY <1>5, <1>8, <3>1, OthersRoles
        <3>2. CASE q = p
            BY <1>4, <1>7, <1>8, <3>2 DEF RolesAt
        <3> QED
            BY <3>1, <3>2
    <2> QED
        BY <1>1, <2>1, RolesGrow
<1>10. ASSUME NEW c \in CallId \ muddled' PROVE Sound(c)'
    <2>1. c \in CallId \ muddled /\ Sound(c)
        BY <1>1 DEF CallInv
    <2>2. Shows(p, c) <=> c = d
        BY <1>1, ShownShows
    <2>3. Session(p, c) => Shows(p, c)
        BY <2>1 DEF Sound
    <2>4. \A q \in Person : Session(q, c)' => Shows(q, c)'
        <3>1. \A q \in Person \ {p} : Session(q, c)' => Shows(q, c)'
            BY <1>5, <2>1, OthersSee DEF Sound
        <3> QED
            BY <1>4, <2>1, <2>3, <3>1
    <2>5. CASE c # d
        <3>1. SameScreen(p, c)
            BY <1>4, <1>7, <2>1, <2>2, <2>3, <2>5 DEF SameScreen
        <3> QED
            BY <1>1, <1>5, <1>8, <2>1, <3>1, ElsewhereThan
    <2>6. CASE c = d
        <3> PICK a, b : a = ends[c].from /\ b = ends[c].to
            OBVIOUS
        <3>1. ends[c] # Unplaced /\ ends'[c] = ends[c] /\ Waits(p, "describe", c) /\ c \in live[p]
            BY <1>1, <1>2, <2>6
        <3>2. /\ a \in Person /\ b \in Person /\ a # b
              /\ CallerSound(a, b, c) /\ CalleeSound(a, b, c) /\ EndsSound(a, b, c)
            BY <2>1, <3>1, EndsOf
        <3>3. p = a
            BY <1>2, <2>6, <3>1, <3>2 DEF Party, CalleeSound
        <3>4. /\ Phase(b, c)' = Phase(b, c) /\ (Session(b, c)' <=> Session(b, c))
              /\ (Timed(b, c)' <=> Timed(b, c)) /\ (c \in live'[b] <=> c \in live[b])
              /\ \A step : Waits(b, step, c)' <=> Waits(b, step, c)
            <4>1. b \in Person \ {p}
                BY <3>2, <3>3
            <4> QED
                BY <1>5, <4>1, OthersSee
        <3>5. ~Unheard(a, b, c)
            BY <3>1, <3>3 DEF Unheard
        <3>6. /\ ~Waits(a, "describe", c)'
              /\ Waits(a, "dial", c)' <=> Waits(a, "dial", c)
              /\ Waits(a, "store", c)' <=> Waits(a, "store", c)
            BY <1>7, <2>6, <3>3
        <3>7. /\ Phase(a, c) \in {"outgoing", "active"} /\ Session(a, c) /\ Shows(a, c)
              /\ Expects(a, c)
            BY <2>3, <3>1, <3>2, <3>3 DEF CallerSound, Expects
        <3>8. \/ Phase(a, c)' = "active" /\ Session(a, c)' /\ c \in live'[a]
              \/ /\ Phase(a, c)' = "failed" /\ c \notin live'[a]
                 /\ onScreen'[a].session = NoCall
            BY <1>4, <2>1, <3>1, <3>3, <3>7
        <3>9. CallerSound(a, b, c)'
            BY <1>8, <3>2, <3>5, <3>6, <3>7, <3>8 DEF CallerSound
        <3>10. CalleeSound(a, b, c)'
            BY <1>8, <3>2, <3>4, <3>5 DEF CalleeSound, Speaks
        <3>11. EndsSound(a, b, c)'
            BY <1>8, <3>2, <3>4, <3>6, <3>7, <3>8 DEF EndsSound, Speaks, Expects
        <3> QED
            BY <2>4, <3>1, <3>9, <3>10, <3>11 DEF Sound
    <2> QED
        BY <2>5, <2>6
<1> QED
    BY <1>6, <1>9, <1>10 DEF CallInv

\* Losing a signal takes it from the sequence, and leaves the others.
LEMMA LoseSignalStep ==
    ASSUME CallInv, NEW p \in Person, LoseSignal(p)
    PROVE  CallInv'
<1> PICK i \in 1..Len(air[p]) :
            /\ air' = [air EXCEPT ![p] = RemoveAt(@, i)]
            /\ muddled' = muddled \cup {air[p][i].id}
    BY DEF LoseSignal
<1> DEFINE S == [type : SignalTypes, id : CallId]
<1>1. /\ UNCHANGED <<ends, onScreen, live, answered, pending, ringing>>
      /\ CallShape /\ Roles /\ air \in [Person -> Seq(S)]
    BY DEF LoseSignal, CallInv, CallShape
<1> HIDE DEF S
<1>2. air[p] \in Seq(S) /\ air[p][i] \in S
    <2>1. air[p] \in Seq(S)
        BY <1>1
    <2> QED
        BY <2>1
<1> PICK e : e = air[p][i]
    OBVIOUS
<1>3. /\ RemoveAt(air[p], i) \in Seq(S)
      /\ \A x : Holds(RemoveAt(air[p], i), x) => Holds(air[p], x)
      /\ \A x : x # e => /\ Holds(RemoveAt(air[p], i), x) <=> Holds(air[p], x)
                         /\ HoldsOnce(air[p], x) => HoldsOnce(RemoveAt(air[p], i), x)
    <2>1. ASSUME NEW x, x # e
          PROVE  /\ Holds(RemoveAt(air[p], i), x) <=> Holds(air[p], x)
                 /\ HoldsOnce(air[p], x) => HoldsOnce(RemoveAt(air[p], i), x)
        BY <1>2, <2>1, RemoveHolds
    <2>2. Holds(air[p], e)
        BY DEF Holds
    <2>3. 0 # e \/ 1 # e
        OBVIOUS
    <2>4. PICK y : y # e
        BY <2>3
    <2>5. RemoveAt(air[p], i) \in Seq(S)
        BY <1>2, <2>4, RemoveHolds
    <2> QED
        BY <2>1, <2>2, <2>5
<1>4. \A q \in Person : air'[q] = IF q = p THEN RemoveAt(air[q], i) ELSE air[q]
    BY <1>1
<1>5. air' \in [Person -> Seq(S)]
    BY <1>1, <1>3
<1>6. \A q \in Person : \A t, c : Comes(q, t, c)' => Comes(q, t, c)
    BY <1>3, <1>4 DEF Comes
<1>7. \A q \in Person : \A c : Ends(q, c)' => Ends(q, c)
    BY <1>6 DEF Ends
<1>8. \A q, c : /\ Shows(q, c)' <=> Shows(q, c)
                /\ Session(q, c)' <=> Session(q, c)
                /\ Phase(q, c)' = Phase(q, c)
                /\ \A step : Waits(q, step, c)' <=> Waits(q, step, c)
                /\ Timed(q, c)' <=> Timed(q, c)
    BY <1>1 DEF Shows, Session, Phase, Waits, Timed
<1>9. CallShape'
    <2>1. /\ live' \in [Person -> SUBSET CallId]
          /\ onScreen' \in [Person -> {NoCall} \cup
                                      [id : CallId, session : CallId \cup {NoCall}, phase : Phases]]
          /\ pending' \in [Person -> SUBSET [step : Steps, id : CallId]]
          /\ ringing' \in [Person -> CallId \cup {NoCall}]
        BY <1>1 DEF CallShape
    <2> QED
        BY <1>1, <1>5, <2>1, ShapeStays DEF S
<1>10. Roles'
    BY <1>1, <1>6, <1>7, <1>8, RolesStay
<1>11. ASSUME NEW c \in CallId \ muddled' PROVE Sound(c)'
    <2>1. c \in CallId \ muddled /\ Sound(c) /\ c # e.id
        BY DEF CallInv
    <2>2. \A t : Signal(t, c) # e
        BY <2>1 DEF Signal
    <2>3. \A q \in Person : SameAir(q, c)
        BY <1>3, <1>4, <2>2 DEF SameAir, Comes, OneOffer
    <2>4. \A q \in Person : SameScreen(q, c)
        BY <1>1, Untouched
    <2> QED
        BY <1>1, <2>1, <2>3, <2>4, Elsewhere
<1> QED
    BY <1>9, <1>10, <1>11 DEF CallInv

\* An offer is answered by a busy tone, from one who shows another call.
BusyAir(p, d) ==
    /\ \A q \in Person, c \in CallId :
          /\ Comes(q, "answer", c)' <=> Comes(q, "answer", c)
          /\ Ends(q, c)' <=> Ends(q, c) \/ (q = OtherEnd(p, d) /\ c = d)
          /\ Comes(q, "offer", c)' => Comes(q, "offer", c)
          /\ OneOffer(q, c) => OneOffer(q, c)'
          /\ c # d => SameAir(q, c)
    /\ OneOffer(p, d) => ~Comes(p, "offer", d)'
    /\ air' \in [Person -> Seq([type : SignalTypes, id : CallId])]

\* An offer that finds its callee busy is answered with a rejection.
LEMMA BusyTone ==
    ASSUME CallShape, NEW p \in Person, NEW d \in CallId, Party(p, d), air[p] # <<>>,
           Head(air[p]) = Signal("offer", d),
           air' = [Received(p) EXCEPT ![OtherEnd(p, d)] = Append(@, Signal("reject", d))]
    PROVE  BusyAir(p, d)
<1> PICK o : o = OtherEnd(p, d)
    OBVIOUS
<1> DEFINE S == [type : SignalTypes, id : CallId]
<1>1. /\ o \in Person /\ o # p /\ air \in [Person -> Seq(S)]
      /\ air' = [[air EXCEPT ![p] = Tail(air[p])] EXCEPT ![o] = Append(@, Signal("reject", d))]
    BY OtherIs DEF CallShape, Received
<1>2. Signal("reject", d) \in S
    BY DEF Signal, SignalTypes
<1> HIDE DEF S
<1>3. /\ air'[p] = Tail(air[p]) /\ air'[o] = Append(air[o], Signal("reject", d))
      /\ \A q \in Person \ {p, o} : air'[q] = air[q]
    BY <1>1
<1>4. /\ air[p] \in Seq(S) /\ air[o] \in Seq(S) /\ Tail(air[p]) \in Seq(S)
      /\ Append(air[o], Signal("reject", d)) \in Seq(S)
    BY <1>1, <1>2, TailHolds
<1>5. air' \in [Person -> Seq(S)]
    BY <1>1, <1>4
<1>6. \A x : /\ Holds(air[p], x) <=> Holds(air'[p], x) \/ Signal("offer", d) = x
             /\ HoldsOnce(air[p], x) =>
                   HoldsOnce(air'[p], x) /\ (Signal("offer", d) = x => ~Holds(air'[p], x))
    BY <1>3, <1>4, TailHolds
<1>7. \A x : /\ Holds(air'[o], x) <=> Holds(air[o], x) \/ Signal("reject", d) = x
             /\ HoldsOnce(air[o], x) /\ Signal("reject", d) # x => HoldsOnce(air'[o], x)
    <2>1. ASSUME NEW x
          PROVE  /\ Holds(Append(air[o], Signal("reject", d)), x) <=>
                    Holds(air[o], x) \/ Signal("reject", d) = x
                 /\ HoldsOnce(air[o], x) /\ (Signal("reject", d) # x \/ ~Holds(air[o], x))
                       => HoldsOnce(Append(air[o], Signal("reject", d)), x)
        BY <1>2, <1>4, AppendHolds
    <2> QED
        BY <1>3, <2>1
<1>8. ASSUME NEW q \in Person, NEW t, NEW c
      PROVE  /\ Comes(q, t, c)' => Comes(q, t, c) \/ (q = o /\ t = "reject" /\ c = d)
             /\ Comes(q, t, c) => Comes(q, t, c)' \/ (q = p /\ t = "offer" /\ c = d)
             /\ q = o /\ t = "reject" /\ c = d => Comes(q, t, c)'
    <2>1. Comes(q, t, c)' => Comes(q, t, c) \/ (q = o /\ t = "reject" /\ c = d)
        BY <1>6, <1>7, <1>3, SignalIs DEF Comes
    <2>2. Comes(q, t, c) => Comes(q, t, c)' \/ (q = p /\ t = "offer" /\ c = d)
        BY <1>6, <1>7, <1>3, SignalIs DEF Comes
    <2>3. q = o /\ t = "reject" /\ c = d => Comes(q, t, c)'
        BY <1>7, SignalIs DEF Comes
    <2> QED
        BY <2>1, <2>2, <2>3
<1>9. ASSUME NEW q \in Person, NEW c, OneOffer(q, c) PROVE OneOffer(q, c)'
    <2>1. Signal("reject", d) # Signal("offer", c)
        BY SignalIs
    <2> QED
        BY <1>3, <1>6, <1>7, <1>9, <2>1 DEF OneOffer
<1>10. OneOffer(p, d) => ~Comes(p, "offer", d)'
    BY <1>6 DEF OneOffer, Comes
<1>11. "answer" # "reject" /\ "offer" # "reject" /\ "hangup" # "reject" /\ "answer" # "offer"
       /\ "hangup" # "offer" /\ "reject" # "offer"
    OBVIOUS
<1>12. \A q \in Person, c \in CallId :
          /\ Comes(q, "answer", c)' <=> Comes(q, "answer", c)
          /\ Ends(q, c)' <=> Ends(q, c) \/ (q = o /\ c = d)
          /\ Comes(q, "offer", c)' => Comes(q, "offer", c)
    BY <1>8, <1>11 DEF Ends
<1>13. \A q \in Person, c \in CallId : c # d => SameAir(q, c)
    BY <1>8, <1>9 DEF SameAir
<1> QED
    BY <1>5, <1>9, <1>10, <1>12, <1>13 DEF BusyAir, S

LEMMA BusyStep ==
    ASSUME CallInv, NEW p \in Person, ReceiveOffer(p), onScreen[p] # NoCall,
           onScreen[p].phase # "failed"
    PROVE  CallInv'
<1> PICK d : d = Head(air[p]).id
    OBVIOUS
<1>1. /\ air[p] # <<>> /\ Head(air[p]).type = "offer" /\ CallShape /\ Roles
      /\ air' = [Received(p) EXCEPT ![OtherEnd(p, d)] = Append(@, Signal("reject", d))]
      /\ UNCHANGED <<ends, onScreen, live, pending, ringing, muddled>>
    BY DEF ReceiveOffer, Arrives, CallInv
<1>2. d \in CallId /\ Head(air[p]) = Signal("offer", d) /\ Comes(p, "offer", d)
    <2>1. air[p] \in Seq([type : SignalTypes, id : CallId])
        BY <1>1 DEF CallShape
    <2>2. Head(air[p]) \in [type : SignalTypes, id : CallId]
        BY <1>1, <2>1, TailHolds
    <2>3. Head(air[p]) = Signal("offer", d)
        BY <1>1, <2>2 DEF Signal
    <2>4. Comes(p, "offer", d)
        BY <1>1, <2>1, <2>3, TailHolds DEF Comes
    <2> QED
        BY <2>2, <2>3, <2>4
<1>3. p = ends[d].to /\ Party(p, d)
    BY <1>1, <1>2 DEF Roles, Party
<1> PICK a : a = OtherEnd(p, d)
    OBVIOUS
<1>4. a \in Person /\ a # p /\ ends[d] # Unplaced /\ a = ends[d].from
    BY <1>1, <1>2, <1>3, OtherIs
<1>5. BusyAir(p, d)
    BY <1>1, <1>2, <1>3, BusyTone
<1>6. \A q \in Person, c \in CallId :
         /\ Comes(q, "answer", c)' <=> Comes(q, "answer", c)
         /\ Ends(q, c)' <=> Ends(q, c) \/ (q = a /\ c = d)
         /\ Comes(q, "offer", c)' => Comes(q, "offer", c)
         /\ OneOffer(q, c) => OneOffer(q, c)'
    BY <1>5 DEF BusyAir
<1>7. \A q, c : /\ Shows(q, c)' <=> Shows(q, c)
                /\ Session(q, c)' <=> Session(q, c)
                /\ Phase(q, c)' = Phase(q, c)
                /\ \A step : Waits(q, step, c)' <=> Waits(q, step, c)
                /\ Timed(q, c)' <=> Timed(q, c)
    BY <1>1 DEF Shows, Session, Phase, Waits, Timed
<1>8. CallShape'
    <2>1. /\ live' \in [Person -> SUBSET CallId]
          /\ onScreen' \in [Person -> {NoCall} \cup
                                      [id : CallId, session : CallId \cup {NoCall}, phase : Phases]]
          /\ pending' \in [Person -> SUBSET [step : Steps, id : CallId]]
          /\ ringing' \in [Person -> CallId \cup {NoCall}]
        BY <1>1 DEF CallShape
    <2> QED
        BY <1>1, <1>5, <2>1, ShapeStays DEF BusyAir
<1>9. Roles'
    <2>1. Party(a, d)
        BY <1>4 DEF Party
    <2>2. \A q \in Person, c \in CallId : Ends(q, c)' => Ends(q, c) \/ Party(q, c)
        BY <1>6, <2>1
    <2> QED
        BY <1>1, <1>6, <1>7, <2>2, RolesStay
<1>10. ASSUME NEW c \in CallId \ muddled' PROVE Sound(c)'
    <2>1. c \in CallId \ muddled /\ Sound(c)
        BY <1>1 DEF CallInv
    <2>2. CASE c # d
        <3>1. \A q \in Person : SameAir(q, c)
            BY <1>5, <2>1, <2>2 DEF BusyAir
        <3>2. \A q \in Person : SameScreen(q, c)
            BY <1>1, Untouched
        <3> QED
            BY <1>1, <2>1, <3>1, <3>2, Elsewhere
    <2>3. CASE c = d
        <3>1. /\ ends[c] # Unplaced /\ ends'[c] = ends[c] /\ p = ends[c].to /\ a = ends[c].from
              /\ Comes(p, "offer", c) /\ live' = live /\ onScreen' = onScreen
            BY <1>1, <1>2, <1>3, <1>4, <2>3
        <3>2. /\ CallerSound(a, p, c) /\ CalleeSound(a, p, c) /\ EndsSound(a, p, c)
            BY <2>1, <3>1, EndsOf
        <3>3. Unheard(a, p, c) /\ ~Speaks(p, c) /\ ~Expects(a, c)
            BY <2>1, <3>1, Fresh
        <3>4. ~Waits(a, "dial", c) /\ ~Waits(a, "store", c)
            BY <3>1, <3>2 DEF CallerSound
        <3>5. /\ ~Comes(p, "offer", c)' /\ OneOffer(p, c)'
              /\ Ends(a, c)' /\ (Ends(p, c)' <=> Ends(p, c))
              /\ (Comes(a, "answer", c)' <=> Comes(a, "answer", c))
            BY <1>4, <1>5, <1>6, <2>1, <2>3, <3>2 DEF BusyAir, CalleeSound
        <3>6. CallerSound(a, p, c)'
            BY <1>7, <3>1, <3>2, <3>4, <3>5 DEF CallerSound
        <3>7. CalleeSound(a, p, c)'
            BY <1>7, <3>1, <3>2, <3>5 DEF CalleeSound, Speaks
        <3>8. EndsSound(a, p, c)'
            BY <1>7, <3>2, <3>3, <3>5 DEF EndsSound, Speaks, Expects, Unheard
        <3>9. \A q \in Person : Session(q, c)' => Shows(q, c)'
            BY <1>7, <2>1 DEF Sound
        <3> QED
            BY <3>1, <3>6, <3>7, <3>8, <3>9 DEF Sound
    <2> QED
        BY <2>2, <2>3
<1> QED
    BY <1>8, <1>9, <1>10 DEF CallInv

LEMMA OfferShownStep ==
    ASSUME CallInv, NEW p \in Person, ReceiveOffer(p),
           onScreen[p] = NoCall \/ onScreen[p].phase = "failed"
    PROVE  CallInv'
<1> PICK d : d = Head(air[p]).id
    OBVIOUS
<1>1. /\ air[p] # <<>> /\ Head(air[p]).type = "offer" /\ CallShape /\ Roles
      /\ "offer" \in SignalTypes /\ air' = Received(p)
      /\ receiveIncomingOffer(p, d)
      /\ ringing' = [ringing EXCEPT ![p] = d]
      /\ muddled' = IF onScreen[p] = NoCall THEN muddled ELSE muddled \cup Mixed(p, d)
      /\ UNCHANGED <<ends, live, answered, pending, lostSignals>>
    BY DEF ReceiveOffer, Arrives, CallInv, SignalTypes
<1>2. /\ d \in CallId /\ Comes(p, "offer", d)
      /\ air' \in [Person -> Seq([type : SignalTypes, id : CallId])]
      /\ \A q \in Person, t \in SignalTypes \ {"offer"}, c \in CallId :
            Comes(q, t, c)' <=> Comes(q, t, c)
      /\ \A q \in Person, c \in CallId : OneOffer(q, c) => OneOffer(q, c)'
    BY <1>1, HeadAir
<1>3. /\ \A q \in Person, t \in SignalTypes, c \in CallId :
            q # p \/ c # d => (Comes(q, t, c)' <=> Comes(q, t, c))
      /\ \A q \in Person, t \in SignalTypes, c \in CallId : Comes(q, t, c)' => Comes(q, t, c)
    BY <1>1, HeadAir
<1>4. OneOffer(p, d) => ~Comes(p, "offer", d)'
    <2>1. Head(air[p]) \in [type : SignalTypes, id : CallId]
        BY <1>1, ReceiveAir
    <2>2. Head(air[p]) = Signal("offer", d)
        BY <1>1, <2>1 DEF Signal
    <2>3. \A q \in Person, c \in CallId : OneOffer(q, c) =>
             /\ OneOffer(q, c)'
             /\ q = p /\ Head(air[p]) = Signal("offer", c) => ~Comes(p, "offer", c)'
        BY <1>1, ReceiveAir
    <2> QED
        BY <1>2, <2>2, <2>3
<1>5. \A q \in Person, c \in CallId :
         /\ Comes(q, "answer", c)' <=> Comes(q, "answer", c)
         /\ Ends(q, c)' <=> Ends(q, c)
         /\ Comes(q, "offer", c)' => Comes(q, "offer", c)
    BY <1>1, <1>2, <1>3 DEF Ends, SignalTypes
<1>6. p = ends[d].to /\ ends[d] # Unplaced
    BY <1>1, <1>2, CallsAssumption DEF Roles, Unplaced
<1> PICK r : r = [id |-> d, phase |-> "incoming", session |-> NoCall]
    OBVIOUS
<1>7. /\ r \in [id : CallId, session : CallId \cup {NoCall}, phase : Phases] /\ r # NoCall
      /\ r.id = d /\ r.phase = "incoming" /\ r.session = NoCall
    <2>1. /\ r \in [id : CallId, session : CallId \cup {NoCall}, phase : Phases]
          /\ r.id = d /\ r.phase = "incoming" /\ r.session = NoCall
        BY <1>2 DEF Phases
    <2> QED
        BY <2>1, CallsAssumption DEF Phases
<1>8. onScreen' = IF onScreen[p] # NoCall THEN onScreen ELSE [onScreen EXCEPT ![p] = r]
    BY <1>1 DEF receiveIncomingOffer
<1>9. /\ onScreen'[p] = IF onScreen[p] # NoCall THEN onScreen[p] ELSE r
      /\ \A q \in Person \ {p} : onScreen'[q] = onScreen[q]
      /\ onScreen' \in [Person -> {NoCall} \cup
                                  [id : CallId, session : CallId \cup {NoCall}, phase : Phases]]
    BY <1>1, <1>7, <1>8 DEF CallShape
<1>10. OnlyAt(p)
    BY <1>1, <1>9 DEF OnlyAt, CallShape
<1>11. CallShape'
    <2>1. /\ live' \in [Person -> SUBSET CallId]
          /\ pending' \in [Person -> SUBSET [step : Steps, id : CallId]]
        BY <1>1 DEF CallShape
    <2>2. ringing' \in [Person -> CallId \cup {NoCall}]
        BY <1>1, <1>2 DEF CallShape
    <2> QED
        BY <1>1, <1>2, <1>9, <2>1, <2>2, ShapeStays
<1>12. \A c \in CallId :
         /\ Session(p, c)' => Session(p, c)
         /\ \A step : Waits(p, step, c)' <=> Waits(p, step, c)
         /\ Timed(p, c)' <=> c = d
         /\ Phase(p, c)' = "incoming" => Phase(p, c) = "incoming" \/ c = d
         /\ c \in live'[p] <=> c \in live[p]
    <2>1. \A c \in CallId : Session(p, c)' => Session(p, c)
        BY <1>7, <1>9, CallsAssumption DEF Session
    <2>2. \A c \in CallId : Phase(p, c)' = "incoming" => Phase(p, c) = "incoming" \/ c = d
        BY <1>7, <1>9 DEF Phase, Shows
    <2>3. ringing'[p] = d /\ live' = live /\ pending' = pending
        BY <1>1 DEF CallShape
    <2>4. \A c \in CallId : /\ \A step : Waits(p, step, c)' <=> Waits(p, step, c)
                            /\ Timed(p, c)' <=> c = d
        BY <2>3 DEF Waits, Timed
    <2> QED
        BY <2>1, <2>2, <2>3, <2>4
<1>13. \A c \in CallId : IF onScreen[p] # NoCall THEN Shows(p, c)' <=> Shows(p, c)
                                                ELSE Shows(p, c)' <=> c = d
    BY <1>7, <1>9 DEF Shows
<1>14. Roles'
    <2>1. ASSUME NEW q \in Person, NEW c \in CallId PROVE RolesAt(q, c)
        <3>1. CASE q # p
            BY <1>5, <1>10, <3>1, OthersRoles
        <3>2. CASE q = p
            <4>1. Party(p, d)
                BY <1>6 DEF Party
            <4>2. Shows(p, c)' => Shows(p, c) \/ c = d
                BY <1>13
            <4> QED
                BY <1>5, <1>6, <1>12, <3>2, <4>1, <4>2 DEF RolesAt
        <3> QED
            BY <3>1, <3>2
    <2> QED
        BY <1>1, <2>1, RolesGrow
<1>15. ASSUME NEW c \in CallId \ muddled' PROVE Sound(c)'
    <2>1. c \in CallId \ muddled /\ Sound(c)
        BY <1>1 DEF CallInv
    <2>2. Shows(p, c) => c = d
        BY <1>1, ShownShows
    <2>3. Session(p, c) => Shows(p, c)
        BY <2>1 DEF Sound
    <2>4. CASE c # d
        <3>1. ~Shows(p, c) /\ ~Shows(p, c)'
            BY <1>13, <2>1, <2>2, <2>4
        <3>2. SameScreen(p, c)
            BY <1>12, <2>1, <2>4, <3>1 DEF SameScreen
        <3>3. \A q \in Person : SameAir(q, c)
            BY <1>2, <1>3, <2>1, <2>4 DEF SameAir
        <3> QED
            BY <1>1, <1>10, <2>1, <3>2, <3>3, ElsewhereThan
    <2>5. CASE c = d
        <3> PICK a : a = ends[c].from
            OBVIOUS
        <3>1. /\ ends[c] # Unplaced /\ ends'[c] = ends[c] /\ p = ends[c].to
              /\ Comes(p, "offer", c)
            BY <1>1, <1>2, <1>6, <2>5
        <3>2. /\ a \in Person /\ a # p
              /\ CallerSound(a, p, c) /\ CalleeSound(a, p, c) /\ EndsSound(a, p, c)
            BY <2>1, <3>1, EndsOf
        <3>3. Unheard(a, p, c) /\ ~Speaks(p, c) /\ ~Expects(a, c)
            BY <2>1, <3>1, Fresh
        <3>4. ~Waits(a, "dial", c) /\ ~Waits(a, "store", c)
            BY <3>1, <3>2 DEF CallerSound
        <3>5. onScreen[p] = NoCall
            <4>1. ~Shows(p, c)
                BY <1>1, <2>1, <3>3, PhaseOf DEF Unheard
            <4>2. CASE onScreen[p] # NoCall
                <5>1. c \notin Mixed(p, d)
                    BY <1>1, <4>2
                <5> QED
                    BY <2>5, <4>1, <5>1, ShownShows
            <4> QED
                BY <4>2
        <3>6. /\ Phase(p, c)' = "incoming" /\ Shows(p, c)' /\ ~Session(p, c)'
            BY <1>7, <1>9, <1>12, <2>1, <2>5, <3>5, CallsAssumption DEF Phase, Shows, Session
        <3>7. /\ Phase(a, c)' = Phase(a, c) /\ (Session(a, c)' <=> Session(a, c))
              /\ onScreen'[a] = onScreen[a]
              /\ (Timed(a, c)' <=> Timed(a, c)) /\ (c \in live'[a] <=> c \in live[a])
              /\ \A step : Waits(a, step, c)' <=> Waits(a, step, c)
            <4>1. a \in Person \ {p}
                BY <3>2
            <4> QED
                BY <1>9, <1>10, <4>1, OthersSee
        <3>8. /\ ~Comes(p, "offer", c)' /\ OneOffer(p, c)'
              /\ (Ends(a, c)' <=> Ends(a, c)) /\ (Ends(p, c)' <=> Ends(p, c))
              /\ (Comes(a, "answer", c)' <=> Comes(a, "answer", c))
            BY <1>2, <1>4, <1>5, <2>1, <2>5, <3>2 DEF CalleeSound
        <3>9. CallerSound(a, p, c)'
            BY <3>2, <3>4, <3>7 DEF CallerSound
        <3>10. CalleeSound(a, p, c)'
            BY <1>12, <2>1, <2>5, <3>2, <3>3, <3>6, <3>8 DEF CalleeSound, Unheard
        <3>11. EndsSound(a, p, c)'
            BY <3>2, <3>3, <3>6, <3>7, <3>8 DEF EndsSound, Speaks, Expects, Unheard
        <3>12. \A q \in Person : Session(q, c)' => Shows(q, c)'
            <4>1. \A q \in Person \ {p} : Session(q, c)' => Shows(q, c)'
                BY <1>10, <2>1, OthersSee DEF Sound
            <4> QED
                BY <3>6, <4>1
        <3> QED
            BY <3>1, <3>9, <3>10, <3>11, <3>12 DEF Sound
    <2> QED
        BY <2>4, <2>5
<1> QED
    BY <1>11, <1>14, <1>15 DEF CallInv

LEMMA ReceiveOfferStep ==
    ASSUME CallInv, NEW p \in Person, ReceiveOffer(p)
    PROVE  CallInv'
    BY BusyStep, OfferShownStep

\* It holds before the first call.
LEMMA CallsStart ==
    ASSUME CallsInit
    PROVE  CallInv
<1>1. \A p \in Person : /\ onScreen[p] = NoCall /\ live[p] = {} /\ pending[p] = {}
                        /\ ringing[p] = NoCall /\ air[p] = <<>>
    BY DEF CallsInit
<1>2. \A c \in CallId : ends[c] = Unplaced
    BY DEF CallsInit
<1>3. CallShape
    <2>1. <<>> \in Seq([type : SignalTypes, id : CallId])
        OBVIOUS
    <2> QED
        BY <2>1 DEF CallsInit, CallShape, Unplaced
<1>4. \A p \in Person : \A c :
                           /\ ~Shows(p, c) /\ ~Session(p, c) /\ c \notin live[p]
                           /\ \A step : ~Waits(p, step, c)
                           /\ \A type : ~Comes(p, type, c)
    BY <1>1 DEF Shows, Session, Waits, Comes, Holds
<1>5. Roles
    BY <1>4 DEF Roles, Ends, Phase
<1>6. \A c \in CallId : Sound(c)
    BY <1>2, <1>4 DEF Sound
<1> QED
    BY <1>3, <1>5, <1>6 DEF CallInv

\* The calls stay sound, whatever step is taken.
LEMMA CallsStay ==
    ASSUME CallInv, [CallsNext]_callVars
    PROVE  CallInv'
<1>1. CASE CallsNext
    <2> PICK p \in Person :
            \/ Accept(p) \/ HangUp(p) \/ rejectIncomingCall(p) \/ RingTimeout(p)
            \/ ReceiveOffer(p) \/ ReceiveAnswer(p) \/ ReceiveEnd(p) \/ LoseSignal(p)
            \/ \E c \in CallId :
                 \/ \E q \in Person : Dial(p, q, c)
                 \/ Place(p, c) \/ Offer(p, c) \/ MediaFails(p, c)
                 \/ OpenMedia(p, c) \/ AnswerCall(p, c) \/ Described(p, c)
        BY <1>1 DEF CallsNext
    <2>1. CASE \/ Accept(p) \/ HangUp(p) \/ rejectIncomingCall(p) \/ RingTimeout(p)
               \/ ReceiveOffer(p) \/ ReceiveAnswer(p) \/ ReceiveEnd(p) \/ LoseSignal(p)
        BY <2>1, AcceptStep, HangUpStep, RingTimeoutStep, ReceiveOfferStep, ReceiveAnswerStep,
           ReceiveEndStep, LoseSignalStep
    <2>2. ASSUME NEW c \in CallId, \E q \in Person : Dial(p, q, c)
          PROVE  CallInv'
        BY <2>2, DialStep
    <2>3. ASSUME NEW c \in CallId,
                 \/ Place(p, c) \/ Offer(p, c) \/ MediaFails(p, c)
                 \/ OpenMedia(p, c) \/ AnswerCall(p, c) \/ Described(p, c)
          PROVE  CallInv'
        BY <2>3, PlaceStep, OfferStep, MediaFailsStep, OpenMediaStep, AnswerCallStep, DescribedStep
    <2> QED
        BY <2>1, <2>2, <2>3
<1>2. CASE UNCHANGED callVars
    <2>1. UNCHANGED <<ends, onScreen, live, pending, ringing, air, muddled>>
        BY <1>2 DEF callVars
    <2>2. CallShape'
        BY <2>1, ShapeStays DEF CallInv, CallShape
    <2>3. \A q, c : /\ Shows(q, c)' <=> Shows(q, c)
                    /\ Session(q, c)' <=> Session(q, c)
                    /\ Phase(q, c)' = Phase(q, c)
                    /\ \A step : Waits(q, step, c)' <=> Waits(q, step, c)
        BY <2>1 DEF Shows, Session, Phase, Waits
    <2>4. /\ \A q, t, c : Comes(q, t, c)' <=> Comes(q, t, c)
          /\ \A q, c : Ends(q, c)' <=> Ends(q, c)
          /\ \A q, c : SameAir(q, c)
        BY <2>1, Silence
    <2>5. Roles'
        BY <2>1, <2>3, <2>4, RolesStay DEF CallInv
    <2>6. ASSUME NEW c \in CallId \ muddled' PROVE Sound(c)'
        <3>1. \A q \in Person : SameScreen(q, c)
            BY <2>1, Untouched
        <3> QED
            BY <2>1, <2>4, <3>1, Elsewhere DEF CallInv
    <2> QED
        BY <2>2, <2>5, <2>6 DEF CallInv
<1> QED
    BY <1>1, <1>2

\* A sound call ends cleanly.
LEMMA SoundCallsEndCleanly ==
    ASSUME CallInv
    PROVE  CallEndsCleanly
<1>1. ASSUME NEW p \in Person, NEW c \in CallId \ muddled, Shows(p, c) \/ c \in live[p]
      PROVE  /\ ends[c] # Unplaced /\ Party(p, c)
    BY <1>1, CallsAssumption DEF CallInv, Roles, Party, Unplaced
<1>2. NobodyTalksAlone
    <2> SUFFICES ASSUME \A q \in Person : air[q] = <<>> /\ Outstanding(q) = {},
                        NEW p \in Person, NEW c \in CallId \ muddled, Talking(p, c)
                 PROVE  \/ Talking(OtherEnd(p, c), c)
                        \/ /\ Shown(OtherEnd(p, c)) = {c}
                           /\ onScreen[OtherEnd(p, c)].phase = "failed"
        BY DEF NobodyTalksAlone
    <2> PICK a, b : a = ends[c].from /\ b = ends[c].to
        OBVIOUS
    <2>1. Shows(p, c) /\ Speaks(p, c)
        BY ShownShows DEF Talking, Speaks, Phase
    <2>2. ends[c] # Unplaced /\ (p = a \/ p = b)
        BY <1>1, <2>1 DEF Party
    <2>3. /\ a \in Person /\ b \in Person /\ a # b
          /\ CallerSound(a, b, c) /\ CalleeSound(a, b, c) /\ EndsSound(a, b, c)
        BY <2>2, EndsOf
    <2>4. \A q \in Person : \A type : ~Comes(q, type, c)
        BY DEF Comes, Holds
    <2>5. ~Ends(a, c) /\ ~Ends(b, c) /\ ~Comes(a, "answer", c)
        BY <2>3, <2>4 DEF Ends
    <2>6. \A q \in Person : \A step : Waits(q, step, c) => step = "describe" /\ c \notin live[q]
        BY DEF Outstanding, Waits, Await
    <2>7. ~Waits(b, "answer", c) /\ (Waits(a, "describe", c) => c \notin live[a])
        BY <2>3, <2>6
    <2>8. \A q \in Person : Speaks(q, c) => Talking(q, c)
        BY ShownShows DEF Speaks, Talking, Phase
    <2>9. \A q \in Person : Phase(q, c) = "failed" => Shown(q) = {c} /\ onScreen[q].phase = "failed"
        BY ShownShows DEF Phase
    <2>10. CASE p = a
        <3>1. OtherEnd(p, c) = b
            BY <2>10 DEF OtherEnd
        <3>2. Phase(a, c) = "active"
            BY <2>1, <2>3, <2>10 DEF CallerSound, Speaks
        <3>3. Speaks(b, c)
            BY <2>3, <2>5, <3>2 DEF EndsSound, Expects
        <3> QED
            BY <2>3, <2>8, <3>1, <3>3
    <2>11. CASE p = b
        <3>1. OtherEnd(p, c) = a
            BY <2>3, <2>11 DEF OtherEnd
        <3>2. \/ Waits(a, "describe", c) /\ Phase(a, c) # "away"
              \/ Phase(a, c) \in {"active", "failed"}
            BY <2>1, <2>3, <2>5, <2>7, <2>11 DEF EndsSound
        <3>3. Phase(a, c) \in {"active", "failed"}
            BY <2>3, <2>7, <3>2 DEF CallerSound
        <3> QED
            BY <2>3, <2>8, <2>9, <3>1, <3>3 DEF Speaks
    <2> QED
        BY <2>2, <2>10, <2>11
<1>3. MicrophoneFollowsCall
    <2> SUFFICES ASSUME NEW p \in Person, NEW c \in live[p] \ muddled
                 PROVE  Shown(p) = {c}
        BY DEF MicrophoneFollowsCall
    <2>1. c \in CallId \ muddled
        BY DEF CallInv, CallShape
    <2>2. ends[c] # Unplaced /\ Party(p, c)
        BY <1>1, <2>1
    <2>3. /\ CallerSound(ends[c].from, ends[c].to, c) /\ CalleeSound(ends[c].from, ends[c].to, c)
        BY <2>1, <2>2, EndsOf
    <2>4. Phase(p, c) # "away"
        BY <2>2, <2>3 DEF CallerSound, CalleeSound, Speaks, Party
    <2> QED
        BY <2>4, ShownShows DEF Phase
<1>4. RingingIsTimed
    <2> SUFFICES ASSUME NEW p \in Person, NEW c \in CallId \ muddled, Shown(p) = {c},
                        onScreen[p].phase \in {"incoming", "outgoing"}
                 PROVE  ringing[p] = c \/ c \in {a.id : a \in pending[p]}
        BY DEF RingingIsTimed
    <2>1. Shows(p, c) /\ Phase(p, c) \in {"incoming", "outgoing"}
        BY ShownShows DEF Phase
    <2>2. ends[c] # Unplaced /\ Party(p, c)
        BY <1>1, <2>1
    <2>3. /\ CallerSound(ends[c].from, ends[c].to, c) /\ CalleeSound(ends[c].from, ends[c].to, c)
        BY <2>2, EndsOf
    <2>4. Timed(p, c) \/ \E step \in Steps : Waits(p, step, c)
        <3>1. "store" \in Steps /\ "describe" \in Steps /\ "accept" \in Steps
            BY DEF Steps
        <3>2. CASE p = ends[c].from
            BY <2>1, <2>3, <3>1, <3>2 DEF CallerSound
        <3>3. CASE p = ends[c].to
            BY <2>1, <2>3, <3>1, <3>3 DEF CalleeSound
        <3> QED
            BY <2>2, <3>2, <3>3 DEF Party
    <2>5. ASSUME NEW step \in Steps, Waits(p, step, c) PROVE c \in {a.id : a \in pending[p]}
        <3>1. Await(step, c).id = c
            BY DEF Await
        <3> QED
            BY <2>5, <3>1 DEF Waits
    <2> QED
        BY <2>4, <2>5 DEF Timed
<1> QED
    BY <1>2, <1>3, <1>4 DEF CallEndsCleanly

\* Calls end cleanly, between however many people and however many calls.
THEOREM CallEndsCleanlyHolds == CallsSpec => []CallEndsCleanly
<1>1. CallsInit => CallInv
    BY CallsStart
<1>2. CallInv /\ [CallsNext]_callVars => CallInv'
    BY CallsStay
<1>3. CallInv => CallEndsCleanly
    BY SoundCallsEndCleanly
<1> QED
    BY <1>1, <1>2, <1>3, PTL DEF CallsSpec

-----------------------------------------------------------------------------
(* The local database. *)

Requests == [op : {"probe", "bridge", "dexie", "rescue", "delete"}, tab : Tab, try : Nat]
Stands == {"start", "failed", "repairing", "opening", "open", "rescuing", "deleting"}
Conversion == [stage : {"converting", "rejected", "done"}, rows : SUBSET Row, target : {Bridge}]

DatabaseShape ==
    /\ idb \in [version : 0..Current, keyed : {"none", "group", "epoch"}, rows : SUBSET Row,
                identity : BOOLEAN]
    /\ requests \in Seq(Requests)
    /\ \A i \in 1..Len(requests) :
          requests[i].op \in {"probe", "bridge"} => requests[i].try \in 1..MaxTries
    /\ main \in [Tab -> Stands] /\ tries \in [Tab -> Nat]
    /\ repair \in [Tab -> [1..MaxTries ->
                             [stage : {"none", "probing", "reading", "done"}] \cup Conversion]]
    /\ saved \subseteq Row /\ inHand \subseteq Tab

\* An empty database holds nothing, and only the oldest keeps its group keys by group.
\* Dexie's connections are to the current one.
VersionsTell ==
    /\ idb.version = 0 => idb = NoDatabase
    /\ NeedsRepair => idb.version = Legacy
    /\ \A t \in Tab : Conn(t, "dexie") \in conns => idb.version = Current

\* What an attempt has asked for, once, tells how far it has got.  A conversion that can
\* still change the database holds the rows that are to survive it.
RepairsTell ==
    \A t \in Tab, n \in 1..MaxTries :
       /\ HoldsOnce(requests, Ask("probe", t, n)) /\ HoldsOnce(requests, Ask("bridge", t, n))
       /\ Holds(requests, Ask("probe", t, n)) => repair[t][n].stage = "probing"
       /\ Holds(requests, Ask("bridge", t, n)) =>
             /\ repair[t][n].stage \in {"converting", "rejected"}
             /\ idb.version < Bridge => saved \ lateRows \subseteq repair[t][n].rows
       /\ n > tries[t] => repair[t][n].stage = "none"

\* Who asks for a deletion holds the identity and waits, unless it was given up.
DeletionsTell ==
    ~forfeited /\ ~mislaid =>
       \A t \in Tab, n \in Nat :
          /\ HoldsOnce(requests, Ask("delete", t, n))
          /\ Holds(requests, Ask("delete", t, n)) =>
                n = tries[t] /\ main[t] = "deleting" /\ t \in inHand

DatabaseInv ==
    DatabaseShape /\ VersionsTell /\ RepairsTell /\ DeletionsTell /\ DataSurvives

\* s has the requests of q but for opens.
Keeps(s, q) ==
    \A e \in Requests : e.op # "dexie" =>
       (Holds(s, e) <=> Holds(q, e)) /\ (HoldsOnce(q, e) => HoldsOnce(s, e))

\* Repairs ask with the number of the attempt.
Numbered(s) ==
    \A i \in 1..Len(s) : s[i].op \in {"probe", "bridge"} => s[i].try \in 1..MaxTries

\* Taking an open back leaves the rest of the queue as it is.
LEMMA TakenBackKeeps ==
    ASSUME NEW q \in Seq(Requests), NEW t \in Tab, Numbered(q)
    PROVE  /\ TakenBack(q, Ask("dexie", t, 0)) \in Seq(Requests)
           /\ Keeps(TakenBack(q, Ask("dexie", t, 0)), q) /\ Numbered(TakenBack(q, Ask("dexie", t, 0)))
<1> DEFINE r == Ask("dexie", t, 0)
           at == {i \in 1..Len(q) : q[i] = r}
<1>1. CASE at = {}
    <2>1. TakenBack(q, r) = q
        BY <1>1 DEF TakenBack
    <2>2. Keeps(q, q)
        BY DEF Keeps
    <2> QED
        BY <2>1, <2>2
<1>2. CASE at # {}
    <2> DEFINE k == CHOOSE i \in at : TRUE
    <2>1. k \in 1..Len(q) /\ q[k] = r
        BY <1>2
    <2>2. TakenBack(q, r) = RemoveAt(q, k)
        BY <1>2 DEF TakenBack
    <2>3. ASSUME NEW e \in Requests, e.op # "dexie"
          PROVE  /\ RemoveAt(q, k) \in Seq(Requests)
                 /\ Holds(RemoveAt(q, k), e) <=> Holds(q, e)
                 /\ HoldsOnce(q, e) => HoldsOnce(RemoveAt(q, k), e)
        <3>1. q[k] # e
            BY <2>1, <2>3 DEF Ask
        <3> HIDE DEF k
        <3> QED
            BY <2>1, <3>1, RemoveHolds
    <2>4. Ask("rescue", t, 0) \in Requests /\ Ask("rescue", t, 0).op # "dexie"
        BY DEF Requests, Ask
    <2>5. RemoveAt(q, k) \in Seq(Requests)
        BY <2>3, <2>4
    <2>6. Numbered(RemoveAt(q, k))
        <3> DEFINE w == RemoveAt(q, k)
        <3> HIDE DEF k, r, at
        <3>5. w \in Seq(Requests)
            BY <2>5
        <3> SUFFICES ASSUME NEW i \in 1..Len(w), w[i].op \in {"probe", "bridge"}
                     PROVE  w[i].try \in 1..MaxTries
            BY DEF Numbered
        <3> DEFINE e == w[i]
        <3>6. w[i] \in Requests /\ w[i].op # "dexie"
            <4> HIDE DEF w
            <4> QED
                BY <3>5
        <3>1. e \in Requests /\ e.op # "dexie" /\ Holds(w, e)
            BY <3>6 DEF Holds
        <3>2. Holds(q, e)
            BY <2>3, <3>1
        <3>3. PICK j \in 1..Len(q) : q[j] = e
            BY <3>2 DEF Holds
        <3>4. q[j].op \in {"probe", "bridge"}
            BY <3>3
        <3> QED
            BY <3>3, <3>4 DEF Numbered
    <2> QED
        BY <2>2, <2>3, <2>5, <2>6 DEF Keeps
<1> QED
    BY <1>1, <1>2

\* One request more, and what was asked before.
LEMMA Appended ==
    ASSUME NEW q \in Seq(Requests), NEW r \in Requests, Numbered(q),
           r.op \in {"probe", "bridge"} => r.try \in 1..MaxTries
    PROVE  /\ Append(q, r) \in Seq(Requests) /\ Numbered(Append(q, r))
           /\ \A e : /\ Holds(Append(q, r), e) <=> Holds(q, e) \/ r = e
                     /\ HoldsOnce(q, e) /\ (r # e \/ ~Holds(q, e)) => HoldsOnce(Append(q, r), e)
<1>1. \A e : /\ Append(q, r) \in Seq(Requests)
             /\ Holds(Append(q, r), e) <=> Holds(q, e) \/ r = e
             /\ HoldsOnce(q, e) /\ (r # e \/ ~Holds(q, e)) => HoldsOnce(Append(q, r), e)
    BY AppendHolds
<1>2. Numbered(Append(q, r))
    BY DEF Numbered
<1> QED
    BY <1>1, <1>2

\* The head of the queue, and what is left.
LEMMA Served ==
    ASSUME DatabaseShape, requests # <<>>
    PROVE  /\ Tail(requests) \in Seq(Requests) /\ Numbered(Tail(requests))
           /\ Head(requests) \in Requests
           /\ Head(requests) = Ask(Head(requests).op, Head(requests).tab, Head(requests).try)
           /\ Head(requests).op \in {"probe", "bridge"} => Head(requests).try \in 1..MaxTries
           /\ \A e : /\ Holds(requests, e) <=> Holds(Tail(requests), e) \/ Head(requests) = e
                     /\ HoldsOnce(requests, e) =>
                           /\ HoldsOnce(Tail(requests), e)
                           /\ Head(requests) = e => ~Holds(Tail(requests), e)
<1>1. requests \in Seq(Requests) /\ Numbered(requests)
    BY DEF DatabaseShape, Numbered
<1>2. \A e : /\ Tail(requests) \in Seq(Requests) /\ Head(requests) \in Requests
             /\ Holds(requests, e) <=> Holds(Tail(requests), e) \/ Head(requests) = e
             /\ HoldsOnce(requests, e) =>
                   HoldsOnce(Tail(requests), e) /\ (Head(requests) = e => ~Holds(Tail(requests), e))
    BY <1>1, TailHolds
<1>3. Numbered(Tail(requests))
    BY <1>1 DEF Numbered
<1>4. Head(requests).op \in {"probe", "bridge"} => Head(requests).try \in 1..MaxTries
    BY <1>1 DEF Numbered
<1>5. Head(requests) = Ask(Head(requests).op, Head(requests).tab, Head(requests).try)
    BY <1>2 DEF Requests, Ask
<1> QED
    BY <1>2, <1>3, <1>4, <1>5

\* Opening Dexie asks for an open at most.
LEMMA Opens ==
    ASSUME NEW t \in Tab, NEW q \in Seq(Requests), Numbered(q), OpenDexie(t, q)
    PROVE  requests' \in Seq(Requests) /\ Numbered(requests') /\ Keeps(requests', q)
<1> DEFINE r == Ask("dexie", t, 0)
<1>1. r \in Requests /\ r.op = "dexie"
    BY DEF Ask, Requests
<1>2. CASE requests' = q
    BY <1>2 DEF Keeps
<1>3. CASE requests' = Append(q, r)
    <2> HIDE DEF r
    <2>1. /\ Append(q, r) \in Seq(Requests) /\ Numbered(Append(q, r))
          /\ \A e : /\ Holds(Append(q, r), e) <=> Holds(q, e) \/ r = e
                    /\ HoldsOnce(q, e) /\ (r # e \/ ~Holds(q, e)) => HoldsOnce(Append(q, r), e)
        BY <1>1, Appended
    <2>2. \A e : e.op # "dexie" => r # e
        BY <1>1
    <2> QED
        BY <1>3, <2>1, <2>2 DEF Keeps
<1> QED
    BY <1>2, <1>3 DEF OpenDexie

-----------------------------------------------------------------------------
(* What a step leaves as it is. *)

\* What s asks for of these kinds, q asks for, and once if q does.
Less(s, q, kinds) ==
    \A e \in Requests : e.op \in kinds =>
       (Holds(s, e) => Holds(q, e)) /\ (HoldsOnce(q, e) => HoldsOnce(s, e))

\* What a tab asks for is a request, and of its kind.
LEMMA AskTypes ==
    \A t \in Tab, n \in Nat :
       /\ Ask("probe", t, n) \in Requests /\ Ask("probe", t, n).op = "probe"
       /\ Ask("bridge", t, n) \in Requests /\ Ask("bridge", t, n).op = "bridge"
       /\ Ask("rescue", t, n) \in Requests /\ Ask("rescue", t, n).op = "rescue"
       /\ Ask("delete", t, n) \in Requests /\ Ask("delete", t, n).op = "delete"
       /\ Ask("dexie", t, n) \in Requests /\ Ask("dexie", t, n).op = "dexie"
BY DEF Ask, Requests

\* Attempts are numbered.
LEMMA TriesAreNumbers == 1..MaxTries \subseteq Nat
BY LocalDatabaseAssumption

\* What keeps all but the opens asks for no more of anything else.
LEMMA KeepsLess ==
    ASSUME NEW s, NEW q, Keeps(s, q), NEW kinds, "dexie" \notin kinds
    PROVE  Less(s, q, kinds)
BY DEF Keeps, Less

\* A queue whose head is served asks for no more,
LEMMA TailLess ==
    ASSUME DatabaseShape, requests # <<>>, NEW kinds
    PROVE  Less(Tail(requests), requests, kinds)
BY Served DEF Less

\* nor does what asks for no more than that.
LEMMA LessTwice ==
    ASSUME NEW a, NEW b, NEW c, NEW kinds, Less(a, b, kinds), Less(b, c, kinds)
    PROVE  Less(a, c, kinds)
BY DEF Less

\* A request more adds none of another kind.
LEMMA AppendLess ==
    ASSUME NEW q \in Seq(Requests), NEW r \in Requests, NEW kinds, r.op \notin kinds
    PROVE  Less(Append(q, r), q, kinds)
<1>1. \A e : /\ Holds(Append(q, r), e) <=> Holds(q, e) \/ r = e
             /\ HoldsOnce(q, e) /\ (r # e \/ ~Holds(q, e)) => HoldsOnce(Append(q, r), e)
    BY AppendHolds
<1> QED
    BY <1>1 DEF Less

\* Attempts go on, ask for no more, and have what they ask for next.
LEMMA RepairsGoOn ==
    ASSUME DatabaseInv, Less(requests', requests, {"probe", "bridge"}),
           \A t \in Tab, n \in 1..MaxTries :
              \/ repair'[t][n] = repair[t][n]
              \/ /\ repair[t][n].stage # "none" /\ ~Holds(requests', Ask("probe", t, n))
                 /\ Holds(requests', Ask("bridge", t, n)) =>
                       repair'[t][n].stage = "rejected" /\ repair'[t][n].rows = repair[t][n].rows,
           \A t \in Tab : tries'[t] >= tries[t] /\ tries'[t] \in Nat,
           saved' \ lateRows' \subseteq saved \ lateRows,
           idb'.version < Bridge => idb.version < Bridge
    PROVE  RepairsTell'
<1> SUFFICES ASSUME NEW t \in Tab, NEW n \in 1..MaxTries
    PROVE  /\ HoldsOnce(requests', Ask("probe", t, n)) /\ HoldsOnce(requests', Ask("bridge", t, n))
           /\ Holds(requests', Ask("probe", t, n)) => repair'[t][n].stage = "probing"
           /\ Holds(requests', Ask("bridge", t, n)) =>
                 /\ repair'[t][n].stage \in {"converting", "rejected"}
                 /\ idb'.version < Bridge => saved' \ lateRows' \subseteq repair'[t][n].rows
           /\ n > tries'[t] => repair'[t][n].stage = "none"
    BY DEF RepairsTell, Ask
<1>1. n \in Nat /\ Ask("probe", t, n) \in Requests /\ Ask("bridge", t, n) \in Requests
      /\ Ask("probe", t, n).op = "probe" /\ Ask("bridge", t, n).op = "bridge"
    BY TriesAreNumbers, AskTypes
<1>2. /\ HoldsOnce(requests, Ask("probe", t, n)) /\ HoldsOnce(requests, Ask("bridge", t, n))
      /\ Holds(requests, Ask("probe", t, n)) => repair[t][n].stage = "probing"
      /\ Holds(requests, Ask("bridge", t, n)) =>
            /\ repair[t][n].stage \in {"converting", "rejected"}
            /\ idb.version < Bridge => saved \ lateRows \subseteq repair[t][n].rows
      /\ n > tries[t] => repair[t][n].stage = "none"
    BY DEF DatabaseInv, RepairsTell
<1>3. n > tries'[t] => n > tries[t]
    BY <1>1 DEF DatabaseInv, DatabaseShape
<1>4. \A e \in {Ask("probe", t, n), Ask("bridge", t, n)} :
          (Holds(requests', e) => Holds(requests, e))
          /\ (HoldsOnce(requests, e) => HoldsOnce(requests', e))
    BY <1>1 DEF Less
<1>5. CASE repair'[t][n] = repair[t][n]
    BY <1>2, <1>3, <1>4, <1>5
<1>6. CASE repair'[t][n] # repair[t][n]
    BY <1>2, <1>3, <1>4, <1>6
<1> QED
    BY <1>5, <1>6

\* Attempts stay as they are.
LEMMA RepairsStay ==
    ASSUME DatabaseInv, Less(requests', requests, {"probe", "bridge"}), repair' = repair,
           \A t \in Tab : tries'[t] >= tries[t] /\ tries'[t] \in Nat,
           saved' \ lateRows' \subseteq saved \ lateRows,
           idb'.version < Bridge => idb.version < Bridge
    PROVE  RepairsTell'
<1>1. \A t \in Tab, n \in 1..MaxTries :
              \/ repair'[t][n] = repair[t][n]
              \/ /\ repair[t][n].stage # "none" /\ ~Holds(requests', Ask("probe", t, n))
                 /\ Holds(requests', Ask("bridge", t, n)) =>
                       repair'[t][n].stage = "rejected" /\ repair'[t][n].rows = repair[t][n].rows
    OBVIOUS
<1> QED
    BY <1>1, RepairsGoOn

\* Deletions are waited for as before, unless the identity was given up.
LEMMA DeletionsStay ==
    ASSUME DatabaseInv, Less(requests', requests, {"delete"}),
           forfeited => forfeited', mislaid => mislaid',
           ~forfeited' => \A t \in Tab : main[t] = "deleting" /\ t \in inHand =>
                             main'[t] = "deleting" /\ tries'[t] = tries[t] /\ t \in inHand'
    PROVE  DeletionsTell'
<1> SUFFICES ASSUME ~forfeited', ~mislaid', NEW t \in Tab, NEW n \in Nat
    PROVE  /\ HoldsOnce(requests', Ask("delete", t, n))
           /\ Holds(requests', Ask("delete", t, n)) =>
                 n = tries'[t] /\ main'[t] = "deleting" /\ t \in inHand'
    BY DEF DeletionsTell, Ask
<1>1. Ask("delete", t, n) \in Requests /\ Ask("delete", t, n).op = "delete"
    BY AskTypes
<1>2. /\ HoldsOnce(requests, Ask("delete", t, n))
      /\ Holds(requests, Ask("delete", t, n)) =>
            n = tries[t] /\ main[t] = "deleting" /\ t \in inHand
    BY DEF DatabaseInv, DeletionsTell
<1>3. /\ Holds(requests', Ask("delete", t, n)) => Holds(requests, Ask("delete", t, n))
      /\ HoldsOnce(requests, Ask("delete", t, n)) => HoldsOnce(requests', Ask("delete", t, n))
    BY <1>1 DEF Less
<1> QED
    BY <1>2, <1>3

\* What does not touch the database or what was saved disturbs neither versions nor data.
LEMMA DataStay ==
    ASSUME DatabaseInv, idb' = idb, saved' = saved, lateRows' = lateRows,
           \A t \in Tab : Conn(t, "dexie") \in conns' => Conn(t, "dexie") \in conns,
           forfeited => forfeited', mislaid => mislaid',
           ~forfeited' /\ ~mislaid' /\ ~idb.identity => inHand \subseteq inHand'
    PROVE  VersionsTell' /\ DataSurvives'
<1>1. VersionsTell'
    BY DEF DatabaseInv, VersionsTell, NeedsRepair, Conn, NoDatabase
<1>2. DataSurvives'
    BY DEF DatabaseInv, DataSurvives, RowsSurvive, IdentitySurvives, RepairKeepsAccount
<1> QED
    BY <1>1, <1>2

-----------------------------------------------------------------------------
(* Every action. *)

\* Types are kept while the database stays.
LEMMA ShapeOf ==
    ASSUME /\ idb' = idb /\ requests' \in Seq(Requests) /\ Numbered(requests')
           /\ main' \in [Tab -> Stands] /\ tries' \in [Tab -> Nat]
           /\ repair' \in [Tab -> [1..MaxTries ->
                             [stage : {"none", "probing", "reading", "done"}] \cup Conversion]]
           /\ saved' = saved /\ inHand' \subseteq Tab,
           DatabaseShape
    PROVE  DatabaseShape'
BY DEF DatabaseShape, Numbered, Requests, Conversion, Stands

LEMMA StartStep ==
    ASSUME DatabaseInv, NEW t \in Tab, Start(t)
    PROVE  DatabaseInv'
<1> DEFINE n == tries[t] + 1
<1>1. /\ requests \in Seq(Requests) /\ Numbered(requests) /\ main \in [Tab -> Stands]
      /\ tries \in [Tab -> Nat] /\ inHand \subseteq Tab
      /\ repair \in [Tab -> [1..MaxTries ->
                             [stage : {"none", "probing", "reading", "done"}] \cup Conversion]]
    BY DEF DatabaseInv, DatabaseShape, Numbered
<1>2. /\ idb' = idb /\ conns' = conns /\ inHand' = inHand /\ saved' = saved /\ lateRows' = lateRows
      /\ forfeited' = forfeited /\ mislaid' = mislaid
      /\ tries' = [tries EXCEPT ![t] = @ + 1] /\ main[t] \in {"start", "failed"}
      /\ tries[t] < MaxTries
    BY DEF Start, Attempt
<1>3. /\ tries' \in [Tab -> Nat] /\ \A s \in Tab : tries'[s] >= tries[s]
      /\ \A s \in Tab : s # t => tries'[s] = tries[s]
      /\ n \in 1..MaxTries /\ n \in Nat /\ tries'[t] = n
    BY <1>1, <1>2, LocalDatabaseAssumption
<1>4. VersionsTell' /\ DataSurvives'
    BY <1>2, DataStay
<1>5. CASE idb.version > 0
    <2> DEFINE r == Ask("probe", t, n)
    <2>1. /\ repair' = [repair EXCEPT ![t][n] = [stage |-> "probing"]]
          /\ main' = [main EXCEPT ![t] = "repairing"] /\ requests' = Append(requests, r)
        BY <1>5 DEF Start, Attempt
    <2>2. r \in Requests /\ r.op = "probe" /\ r.try \in 1..MaxTries
        BY <1>3 DEF Requests, Ask
    <2> HIDE DEF r
    <2>3. /\ requests' \in Seq(Requests) /\ Numbered(requests')
          /\ \A e : /\ Holds(requests', e) <=> Holds(requests, e) \/ r = e
                    /\ HoldsOnce(requests, e) /\ (r # e \/ ~Holds(requests, e)) =>
                          HoldsOnce(requests', e)
        BY <1>1, <2>1, <2>2, Appended
    <2>4. /\ main' \in [Tab -> Stands]
          /\ repair' \in [Tab -> [1..MaxTries ->
                             [stage : {"none", "probing", "reading", "done"}] \cup Conversion]]
          /\ repair'[t][n].stage = "probing"
          /\ \A s \in Tab, k \in 1..MaxTries : <<s, k>> # <<t, n>> => repair'[s][k] = repair[s][k]
          /\ \A s \in Tab : s # t => main'[s] = main[s]
        BY <1>1, <1>3, <2>1 DEF Stands
    <2>5. DatabaseShape'
        BY <1>1, <1>2, <1>3, <2>3, <2>4, ShapeOf DEF DatabaseInv
    <2>6. ~Holds(requests, r) /\ ~Holds(requests, Ask("bridge", t, n))
        <3>1. repair[t][n].stage = "none"
            BY <1>1, <1>3 DEF DatabaseInv, RepairsTell
        <3> QED
            BY <1>3, <3>1 DEF DatabaseInv, RepairsTell, r
    <2>7. RepairsTell'
        <3> SUFFICES ASSUME NEW s \in Tab, NEW k \in 1..MaxTries
            PROVE  /\ HoldsOnce(requests', Ask("probe", s, k))
                   /\ HoldsOnce(requests', Ask("bridge", s, k))
                   /\ Holds(requests', Ask("probe", s, k)) => repair'[s][k].stage = "probing"
                   /\ Holds(requests', Ask("bridge", s, k)) =>
                         /\ repair'[s][k].stage \in {"converting", "rejected"}
                         /\ idb'.version < Bridge => saved' \ lateRows' \subseteq repair'[s][k].rows
                   /\ k > tries'[s] => repair'[s][k].stage = "none"
            BY DEF RepairsTell, Ask
        <3>1. /\ HoldsOnce(requests, Ask("probe", s, k)) /\ HoldsOnce(requests, Ask("bridge", s, k))
              /\ Holds(requests, Ask("probe", s, k)) => repair[s][k].stage = "probing"
              /\ Holds(requests, Ask("bridge", s, k)) =>
                    /\ repair[s][k].stage \in {"converting", "rejected"}
                    /\ idb.version < Bridge => saved \ lateRows \subseteq repair[s][k].rows
              /\ k > tries[s] => repair[s][k].stage = "none"
            BY DEF DatabaseInv, RepairsTell
        <3>2. r # Ask("bridge", s, k) /\ (r = Ask("probe", s, k) <=> s = t /\ k = n)
            BY DEF r, Ask
        <3>3. k > tries'[s] => k > tries[s] /\ <<s, k>> # <<t, n>>
            BY <1>1, <1>3
        <3>4. HoldsOnce(requests', Ask("probe", s, k))
            BY <2>3, <2>6, <3>1, <3>2
        <3>5. HoldsOnce(requests', Ask("bridge", s, k))
            BY <2>3, <3>1, <3>2
        <3>6. CASE s = t /\ k = n
            BY <1>2, <2>3, <2>4, <2>6, <3>1, <3>2, <3>3, <3>4, <3>5, <3>6
        <3>7. CASE ~(s = t /\ k = n)
            <4>1. repair'[s][k] = repair[s][k]
                BY <2>4, <3>7
            <4>2. /\ Holds(requests', Ask("probe", s, k)) <=> Holds(requests, Ask("probe", s, k))
                  /\ Holds(requests', Ask("bridge", s, k)) <=> Holds(requests, Ask("bridge", s, k))
                BY <2>3, <3>2, <3>7
            <4> QED
                BY <1>2, <3>1, <3>3, <3>4, <3>5, <4>1, <4>2
        <3> QED
            BY <3>6, <3>7
    <2>8. DeletionsTell'
        <3> SUFFICES ASSUME ~forfeited', ~mislaid', NEW s \in Tab, NEW k \in Nat
            PROVE  /\ HoldsOnce(requests', Ask("delete", s, k))
                   /\ Holds(requests', Ask("delete", s, k)) =>
                         k = tries'[s] /\ main'[s] = "deleting" /\ s \in inHand'
            BY DEF DeletionsTell, Ask
        <3>1. /\ HoldsOnce(requests, Ask("delete", s, k))
              /\ Holds(requests, Ask("delete", s, k)) =>
                    k = tries[s] /\ main[s] = "deleting" /\ s \in inHand
            BY <1>2 DEF DatabaseInv, DeletionsTell
        <3>2. r # Ask("delete", s, k)
            BY DEF r, Ask
        <3> QED
            BY <1>2, <1>3, <2>3, <2>4, <3>1, <3>2
    <2> QED
        BY <1>4, <2>5, <2>7, <2>8 DEF DatabaseInv
<1>6. CASE ~(idb.version > 0)
    <2>1. OpenDexie(t, requests) /\ repair' = repair
        BY <1>6 DEF Start, Attempt
    <2>2. /\ requests' \in Seq(Requests) /\ Numbered(requests')
          /\ Less(requests', requests, {"probe", "bridge"}) /\ Less(requests', requests, {"delete"})
        BY <1>1, <2>1, Opens, KeepsLess
    <2>3. /\ main' \in [Tab -> Stands] /\ main' = [main EXCEPT ![t] = "opening"]
        BY <1>1, <2>1 DEF OpenDexie, Stands
    <2>4. DatabaseShape'
        BY <1>1, <1>2, <1>3, <2>1, <2>2, <2>3, ShapeOf DEF DatabaseInv
    <2>5. RepairsTell'
        BY <1>2, <1>3, <2>1, <2>2, RepairsStay
    <2>6. \A s \in Tab : main[s] = "deleting" =>
             main'[s] = "deleting" /\ tries'[s] = tries[s]
        BY <1>1, <1>2, <1>3, <2>3
    <2>7. DeletionsTell'
        BY <1>2, <2>2, <2>6, DeletionsStay
    <2> QED
        BY <1>4, <2>4, <2>5, <2>7 DEF DatabaseInv
<1> QED
    BY <1>5, <1>6

\* What the invariant says of the types.
LEMMA Parts ==
    ASSUME DatabaseInv
    PROVE  /\ DatabaseShape
           /\ requests \in Seq(Requests) /\ Numbered(requests) /\ main \in [Tab -> Stands]
           /\ tries \in [Tab -> Nat] /\ inHand \subseteq Tab
           /\ repair \in [Tab -> [1..MaxTries ->
                             [stage : {"none", "probing", "reading", "done"}] \cup Conversion]]
           /\ \A t \in Tab : tries[t] >= tries[t] /\ tries[t] \in Nat
BY DEF DatabaseInv, DatabaseShape, Numbered

\* Nothing but where a tab stands, and what it asks of Dexie, changes.
LEMMA ProceedStep ==
    ASSUME DatabaseInv, NEW t \in Tab, Proceed(t)
    PROVE  DatabaseInv'
<1>1. /\ OpenDexie(t, requests) /\ main[t] = "repairing"
      /\ idb' = idb /\ conns' = conns /\ tries' = tries /\ repair' = repair /\ inHand' = inHand
      /\ saved' = saved /\ lateRows' = lateRows /\ forfeited' = forfeited /\ mislaid' = mislaid
      /\ main' = [main EXCEPT ![t] = "opening"]
    BY DEF Proceed, OpenDexie
<1>2. /\ requests' \in Seq(Requests) /\ Numbered(requests')
      /\ Less(requests', requests, {"probe", "bridge"}) /\ Less(requests', requests, {"delete"})
    BY <1>1, Parts, Opens, KeepsLess
<1>3. main' \in [Tab -> Stands] /\ \A s \in Tab : main[s] = "deleting" => main'[s] = main[s]
    BY <1>1, Parts DEF Stands
<1>4. VersionsTell' /\ DataSurvives'
    BY <1>1, DataStay
<1>5. DatabaseShape'
    BY <1>1, <1>2, <1>3, Parts, ShapeOf
<1>6. RepairsTell'
    BY <1>1, <1>2, Parts, RepairsStay
<1>7. DeletionsTell'
    BY <1>1, <1>2, <1>3, DeletionsStay
<1> QED
    BY <1>4, <1>5, <1>6, <1>7 DEF DatabaseInv

\* A queue asks for no more than itself.
LEMMA SameLess ==
    ASSUME NEW q, NEW kinds
    PROVE  Less(q, q, kinds)
BY DEF Less

\* A tab that gives up what it waits for, its hands empty or the identity forfeited.
LEMMA GivesUp ==
    ASSUME DatabaseInv, NEW t \in Tab, main[t] # "deleting" \/ t \notin inHand \/ forfeited',
           main' = [main EXCEPT ![t] = "failed"], inHand' = inHand \ {t},
           t \in inHand => forfeited', forfeited => forfeited',
           requests' \in Seq(Requests), Numbered(requests'),
           Less(requests', requests, {"probe", "bridge"}), Less(requests', requests, {"delete"}),
           idb' = idb, conns' = conns, tries' = tries, repair' = repair,
           saved' = saved, lateRows' = lateRows, mislaid' = mislaid
    PROVE  DatabaseInv'
<1>1. /\ main' \in [Tab -> Stands] /\ inHand' \subseteq Tab
      /\ \A s \in Tab : s # t => main'[s] = main[s]
      /\ ~forfeited' => inHand' = inHand
    BY Parts DEF Stands
<1>2. VersionsTell' /\ DataSurvives'
    BY <1>1, DataStay
<1>3. DatabaseShape'
    BY <1>1, Parts, ShapeOf
<1>4. RepairsTell'
    BY Parts, RepairsStay
<1>5. DeletionsTell'
    BY <1>1, DeletionsStay
<1> QED
    BY <1>2, <1>3, <1>4, <1>5 DEF DatabaseInv

LEMMA OpenTimeoutStep ==
    ASSUME DatabaseInv, NEW t \in Tab, OpenTimeout(t)
    PROVE  DatabaseInv'
<1>1. /\ main[t] = "opening" /\ main' = [main EXCEPT ![t] = "failed"] /\ inHand' = inHand \ {t}
      /\ forfeited' = (forfeited \/ t \in inHand) /\ requests' = requests
      /\ idb' = idb /\ conns' = conns /\ tries' = tries /\ repair' = repair
      /\ saved' = saved /\ lateRows' = lateRows /\ mislaid' = mislaid
    BY DEF OpenTimeout
<1>2. /\ requests' \in Seq(Requests) /\ Numbered(requests')
      /\ Less(requests', requests, {"probe", "bridge"}) /\ Less(requests', requests, {"delete"})
    BY <1>1, Parts, SameLess
<1> QED
    BY <1>1, <1>2, GivesUp

LEMMA RefuseDeleteStep ==
    ASSUME DatabaseInv, NEW t \in Tab, RefuseDelete(t)
    PROVE  DatabaseInv'
<1>1. /\ main' = [main EXCEPT ![t] = "failed"] /\ inHand' = inHand \ {t}
      /\ forfeited' = (forfeited \/ t \in inHand) /\ requests' = requests
      /\ idb' = idb /\ conns' = conns /\ tries' = tries /\ repair' = repair
      /\ saved' = saved /\ lateRows' = lateRows /\ mislaid' = mislaid
    BY DEF RefuseDelete
<1>2. /\ requests' \in Seq(Requests) /\ Numbered(requests')
      /\ Less(requests', requests, {"probe", "bridge"}) /\ Less(requests', requests, {"delete"})
    BY <1>1, Parts, SameLess
<1> QED
    BY <1>1, <1>2, GivesUp

LEMMA runRepairStep ==
    ASSUME DatabaseInv, NEW t \in Tab, runRepair(t)
    PROVE  DatabaseInv'
<1> DEFINE r == Ask("rescue", t, tries[t])
<1>1. /\ main[t] = "failed" /\ main' = [main EXCEPT ![t] = "rescuing"]
      /\ requests' = Append(requests, r) /\ inHand' = inHand
      /\ idb' = idb /\ conns' = conns /\ tries' = tries /\ repair' = repair /\ forfeited' = forfeited
      /\ saved' = saved /\ lateRows' = lateRows /\ mislaid' = mislaid
    BY DEF runRepair
<1>2. r \in Requests /\ r.op = "rescue"
    BY Parts, AskTypes
<1> HIDE DEF r
<1>3. /\ requests' \in Seq(Requests) /\ Numbered(requests')
      /\ Less(requests', requests, {"probe", "bridge"}) /\ Less(requests', requests, {"delete"})
    BY <1>1, <1>2, Parts, Appended, AppendLess
<1>4. main' \in [Tab -> Stands] /\ \A s \in Tab : main[s] = "deleting" => main'[s] = main[s]
    BY <1>1, Parts DEF Stands
<1>5. VersionsTell' /\ DataSurvives'
    BY <1>1, DataStay
<1>6. DatabaseShape'
    BY <1>1, <1>3, <1>4, Parts, ShapeOf
<1>7. RepairsTell'
    BY <1>1, <1>3, Parts, RepairsStay
<1>8. DeletionsTell'
    BY <1>1, <1>3, <1>4, DeletionsStay
<1> QED
    BY <1>5, <1>6, <1>7, <1>8 DEF DatabaseInv

LEMMA ReopenStep ==
    ASSUME DatabaseInv, NEW t \in Tab, Reopen(t)
    PROVE  DatabaseInv'
<1> DEFINE r == Ask("dexie", t, 0)
<1>1. /\ requests' = Append(requests, r) /\ main' = main /\ inHand' = inHand
      /\ idb' = idb /\ conns' = conns /\ tries' = tries /\ repair' = repair /\ forfeited' = forfeited
      /\ saved' = saved /\ lateRows' = lateRows /\ mislaid' = mislaid
    BY DEF Reopen
<1>2. r \in Requests /\ r.op = "dexie"
    BY AskTypes
<1> HIDE DEF r
<1>3. /\ requests' \in Seq(Requests) /\ Numbered(requests')
      /\ Less(requests', requests, {"probe", "bridge"}) /\ Less(requests', requests, {"delete"})
    BY <1>1, <1>2, Parts, Appended, AppendLess
<1>5. VersionsTell' /\ DataSurvives'
    BY <1>1, DataStay
<1>6. DatabaseShape'
    BY <1>1, <1>3, Parts, ShapeOf
<1>7. RepairsTell'
    BY <1>1, <1>3, Parts, RepairsStay
<1>8. DeletionsTell'
    BY <1>1, <1>3, DeletionsStay
<1> QED
    BY <1>5, <1>6, <1>7, <1>8 DEF DatabaseInv

LEMMA LoseConnectionStep ==
    ASSUME DatabaseInv, LoseConnection
    PROVE  DatabaseInv'
<1>1. /\ requests' = requests /\ main' = main /\ inHand' = inHand
      /\ idb' = idb /\ tries' = tries /\ repair' = repair /\ forfeited' = forfeited
      /\ saved' = saved /\ lateRows' = lateRows /\ mislaid' = mislaid
      /\ \A c \in conns' : c \in conns
    BY DEF LoseConnection, Yield
<1>3. /\ requests' \in Seq(Requests) /\ Numbered(requests')
      /\ Less(requests', requests, {"probe", "bridge"}) /\ Less(requests', requests, {"delete"})
    BY <1>1, Parts, SameLess
<1>5. VersionsTell' /\ DataSurvives'
    BY <1>1, DataStay
<1>6. DatabaseShape'
    BY <1>1, <1>3, Parts, ShapeOf
<1>7. RepairsTell'
    BY <1>1, <1>3, Parts, RepairsStay
<1>8. DeletionsTell'
    BY <1>1, <1>3, DeletionsStay
<1> QED
    BY <1>5, <1>6, <1>7, <1>8 DEF DatabaseInv

\* The database may have been opened for the first time, which loses nothing.
LEMMA OpenedLess ==
    ASSUME DatabaseInv
    PROVE  /\ Opened \in [version : 0..Current, keyed : {"none", "group", "epoch"},
                          rows : SUBSET Row, identity : BOOLEAN]
           /\ Opened.version < Bridge => idb.version < Bridge
           /\ Opened.rows = idb.rows /\ Opened.identity = idb.identity
           /\ Opened.version # 0
           /\ Opened.keyed = "group" => Opened.version = Legacy
           /\ idb.version = Current => Opened.version = Current
<1>1. CASE idb.version = 0
    <2>1. idb = NoDatabase /\ Opened = [NoDatabase EXCEPT !.version = Legacy]
        BY <1>1 DEF DatabaseInv, VersionsTell, Opened
    <2>2. Opened = [version |-> 1, keyed |-> "none", rows |-> {}, identity |-> FALSE]
        BY <2>1 DEF NoDatabase, Legacy
    <2>3. idb = [version |-> 0, keyed |-> "none", rows |-> {}, identity |-> FALSE]
        BY <2>1 DEF NoDatabase
    <2> QED
        BY <2>2, <2>3 DEF Legacy, Bridge, Current
<1>2. CASE idb.version # 0
    BY <1>2 DEF DatabaseInv, DatabaseShape, VersionsTell, Opened, NeedsRepair
<1> QED
    BY <1>1, <1>2

\* So versions and data stay when it is,
LEMMA OpenedData ==
    ASSUME DatabaseInv, idb' = Opened, saved' = saved, lateRows' = lateRows,
           \A t \in Tab : Conn(t, "dexie") \in conns' => Conn(t, "dexie") \in conns,
           forfeited => forfeited', mislaid => mislaid',
           ~forfeited' /\ ~mislaid' /\ ~idb.identity => inHand \subseteq inHand'
    PROVE  VersionsTell' /\ DataSurvives'
<1>1. idb'.version # 0 /\ idb'.rows = idb.rows /\ idb'.identity = idb.identity
      /\ (idb'.keyed = "group" => idb'.version = Legacy)
      /\ (idb.version = Current => idb'.version = Current)
    BY OpenedLess
<1>2. VersionsTell'
    BY <1>1 DEF DatabaseInv, VersionsTell, NeedsRepair, Conn, NoDatabase
<1>3. DataSurvives'
    BY <1>1 DEF DatabaseInv, DataSurvives, RowsSurvive, IdentitySurvives, RepairKeepsAccount
<1> QED
    BY <1>2, <1>3

\* and the types.
LEMMA OpenedShape ==
    ASSUME /\ idb' = Opened /\ requests' \in Seq(Requests) /\ Numbered(requests')
           /\ main' \in [Tab -> Stands] /\ tries' \in [Tab -> Nat]
           /\ repair' \in [Tab -> [1..MaxTries ->
                             [stage : {"none", "probing", "reading", "done"}] \cup Conversion]]
           /\ saved' = saved /\ inHand' \subseteq Tab,
           DatabaseInv
    PROVE  DatabaseShape'
<1>1. idb' \in [version : 0..Current, keyed : {"none", "group", "epoch"}, rows : SUBSET Row,
                identity : BOOLEAN]
    BY OpenedLess
<1> QED
    BY <1>1 DEF DatabaseInv, DatabaseShape, Numbered, Requests, Conversion, Stands

LEMMA GrantProbeStep ==
    ASSUME DatabaseInv, GrantProbe
    PROVE  DatabaseInv'
<1> DEFINE r == Head(requests)
<1>1. PICK t \in Tab, n \in 1..MaxTries :
        /\ requests # <<>> /\ Head(requests) = Ask("probe", t, n)
        /\ Head(requests).tab = t /\ Head(requests).try = n
    <2>1. requests # <<>> /\ r.op = "probe"
        BY DEF GrantProbe, Head1
    <2>2. r \in Requests /\ r = Ask(r.op, r.tab, r.try) /\ r.try \in 1..MaxTries
        BY <2>1, Parts, Served
    <2>3. r.tab \in Tab
        BY <2>2 DEF Requests
    <2> QED
        BY <2>1, <2>2, <2>3
<1>2. /\ conns' = conns \cup {Probe(t, n)} /\ idb' = Opened /\ requests' = Tail(requests)
      /\ repair' = [repair EXCEPT ![t][n] = [stage |-> "reading"]]
      /\ main' = main /\ inHand' = inHand /\ tries' = tries /\ forfeited' = forfeited
      /\ saved' = saved /\ lateRows' = lateRows /\ mislaid' = mislaid
    BY <1>1 DEF GrantProbe
<1>3. /\ requests' \in Seq(Requests) /\ Numbered(requests')
      /\ Less(requests', requests, {"probe", "bridge"}) /\ Less(requests', requests, {"delete"})
    BY <1>1, <1>2, Parts, Served, TailLess
<1>4. Holds(requests, Ask("probe", t, n)) /\ ~Holds(requests', Ask("probe", t, n))
    <2>1. HoldsOnce(requests, Ask("probe", t, n))
        BY DEF DatabaseInv, RepairsTell
    <2> QED
        BY <1>1, <1>2, <2>1, Parts, Served
<1>5. repair[t][n].stage = "probing" /\ ~Holds(requests', Ask("bridge", t, n))
    <2>1. repair[t][n].stage = "probing" /\ ~Holds(requests, Ask("bridge", t, n))
        BY <1>4 DEF DatabaseInv, RepairsTell
    <2> QED
        BY <1>1, <1>2, <2>1, Parts, Served
<1>6. /\ repair' \in [Tab -> [1..MaxTries ->
                             [stage : {"none", "probing", "reading", "done"}] \cup Conversion]]
      /\ \A s \in Tab, k \in 1..MaxTries : <<s, k>> # <<t, n>> => repair'[s][k] = repair[s][k]
    BY <1>2, Parts
<1>7. \A s \in Tab, k \in 1..MaxTries :
              \/ repair'[s][k] = repair[s][k]
              \/ /\ repair[s][k].stage # "none" /\ ~Holds(requests', Ask("probe", s, k))
                 /\ Holds(requests', Ask("bridge", s, k)) =>
                       repair'[s][k].stage = "rejected" /\ repair'[s][k].rows = repair[s][k].rows
    BY <1>4, <1>5, <1>6
<1>8. \A s \in Tab : Conn(s, "dexie") \in conns' => Conn(s, "dexie") \in conns
    BY <1>2 DEF Conn, Probe
<1>9. VersionsTell' /\ DataSurvives'
    BY <1>2, <1>8, OpenedData
<1>10. DatabaseShape'
    BY <1>2, <1>3, <1>6, Parts, OpenedShape
<1>11. RepairsTell'
    BY <1>2, <1>3, <1>7, Parts, OpenedLess, RepairsGoOn
<1>12. DeletionsTell'
    BY <1>2, <1>3, DeletionsStay
<1> QED
    BY <1>9, <1>10, <1>11, <1>12 DEF DatabaseInv

LEMMA OpenDoneStep ==
    ASSUME DatabaseInv, NEW t \in Tab, OpenDone(t)
    PROVE  DatabaseInv'
<1>1. /\ main[t] = "opening" /\ Conn(t, "dexie") \in conns
      /\ main' = [main EXCEPT ![t] = "open"] /\ inHand' = inHand \ {t}
      /\ idb' = IF t \in inHand THEN [idb EXCEPT !.identity = TRUE] ELSE idb
      /\ conns' = conns /\ tries' = tries /\ repair' = repair /\ forfeited' = forfeited
      /\ saved' = saved /\ lateRows' = lateRows /\ mislaid' = mislaid /\ requests' = requests
    BY DEF OpenDone
<1>2. /\ requests' \in Seq(Requests) /\ Numbered(requests')
      /\ Less(requests', requests, {"probe", "bridge"}) /\ Less(requests', requests, {"delete"})
    BY <1>1, Parts, SameLess
<1>3. /\ main' \in [Tab -> Stands] /\ \A s \in Tab : s # t => main'[s] = main[s]
      /\ inHand' \subseteq Tab /\ \A s \in Tab : s # t /\ s \in inHand => s \in inHand'
    BY <1>1, Parts DEF Stands
<1>4. /\ idb' \in [version : 0..Current, keyed : {"none", "group", "epoch"}, rows : SUBSET Row,
                   identity : BOOLEAN]
      /\ idb'.version = Current /\ idb.version = Current /\ idb'.rows = idb.rows
      /\ idb'.keyed = idb.keyed /\ (t \in inHand => idb'.identity)
      /\ (idb.identity => idb'.identity)
    <2>1. idb.version = Current
        BY <1>1 DEF DatabaseInv, VersionsTell
    <2> QED
        BY <1>1, <2>1 DEF DatabaseInv, DatabaseShape
<1>5. VersionsTell'
    BY <1>1, <1>4 DEF DatabaseInv, VersionsTell, NeedsRepair, Conn, Current
<1>6. DataSurvives'
    <2>1. RowsSurvive'
        BY <1>1, <1>4 DEF DatabaseInv, DataSurvives, RowsSurvive
    <2>2. IdentitySurvives'
        BY <1>1, <1>4 DEF DatabaseInv, DataSurvives, IdentitySurvives, RepairKeepsAccount
    <2> QED
        BY <2>1, <2>2 DEF DataSurvives
<1>7. DatabaseShape'
    BY <1>1, <1>2, <1>3, <1>4, Parts DEF DatabaseShape, Numbered, Requests, Conversion, Stands
<1>8. RepairsTell'
    BY <1>1, <1>2, <1>4, Parts, RepairsStay
<1>9. DeletionsTell'
    BY <1>1, <1>2, <1>3, DeletionsStay
<1> QED
    BY <1>5, <1>6, <1>7, <1>8, <1>9 DEF DatabaseInv

LEMMA BlockedBridgeStep ==
    ASSUME DatabaseInv, BlockedBridge
    PROVE  DatabaseInv'
<1> DEFINE r == Head(requests)
<1>1. PICK t \in Tab, n \in 1..MaxTries :
        /\ requests # <<>> /\ Head(requests) = Ask("bridge", t, n)
        /\ Head(requests).tab = t /\ Head(requests).try = n
    <2>1. requests # <<>> /\ r.op = "bridge"
        BY DEF BlockedBridge, Head1
    <2>2. r \in Requests /\ r = Ask(r.op, r.tab, r.try) /\ r.try \in 1..MaxTries
        BY <2>1, Parts, Served
    <2>3. r.tab \in Tab
        BY <2>2 DEF Requests
    <2> QED
        BY <2>1, <2>2, <2>3
<1>2. /\ idb' = idb /\ conns' = conns /\ requests' = requests /\ repair[t][n].stage = "converting"
      /\ repair' = [repair EXCEPT ![t][n].stage = "rejected"] /\ tries' = tries
      /\ main' = IF main[t] = "repairing" /\ tries[t] = n
                 THEN [main EXCEPT ![t] = "failed"] ELSE main
      /\ forfeited' = (forfeited \/ (main'[t] # main[t] /\ t \in inHand))
      /\ inHand' = (IF main'[t] # main[t] THEN inHand \ {t} ELSE inHand)
      /\ saved' = saved /\ lateRows' = lateRows /\ mislaid' = mislaid
    BY <1>1 DEF BlockedBridge
<1>3. /\ requests' \in Seq(Requests) /\ Numbered(requests')
      /\ Less(requests', requests, {"probe", "bridge"}) /\ Less(requests', requests, {"delete"})
    BY <1>2, Parts, SameLess
<1>4. /\ main' \in [Tab -> Stands] /\ inHand' \subseteq Tab
      /\ \A s \in Tab : main[s] = "deleting" => main'[s] = main[s]
      /\ ~forfeited' => inHand' = inHand
    BY <1>2, Parts DEF Stands
<1>5. ~Holds(requests', Ask("probe", t, n))
    BY <1>2 DEF DatabaseInv, RepairsTell
<1>6. repair[t][n] \in Conversion
    BY <1>2, Parts
<1>7. /\ repair' \in [Tab -> [1..MaxTries ->
                             [stage : {"none", "probing", "reading", "done"}] \cup Conversion]]
      /\ \A s \in Tab, k \in 1..MaxTries : <<s, k>> # <<t, n>> => repair'[s][k] = repair[s][k]
      /\ repair'[t][n].stage = "rejected" /\ repair'[t][n].rows = repair[t][n].rows
    <2>1. [repair[t][n] EXCEPT !.stage = "rejected"] \in Conversion
        BY <1>6 DEF Conversion
    <2>2. /\ [repair[t][n] EXCEPT !.stage = "rejected"].stage = "rejected"
          /\ [repair[t][n] EXCEPT !.stage = "rejected"].rows = repair[t][n].rows
        BY <1>6 DEF Conversion
    <2> DEFINE x == [repair[t][n] EXCEPT !.stage = "rejected"]
    <2>3. repair' = [repair EXCEPT ![t] = [repair[t] EXCEPT ![n] = x]]
        BY <1>2
    <2> HIDE DEF x
    <2>4. x \in Conversion /\ x.stage = "rejected" /\ x.rows = repair[t][n].rows
        BY <2>1, <2>2 DEF x
    <2> QED
        BY <2>3, <2>4, Parts
<1>8. \A s \in Tab, k \in 1..MaxTries :
              \/ repair'[s][k] = repair[s][k]
              \/ /\ repair[s][k].stage # "none" /\ ~Holds(requests', Ask("probe", s, k))
                 /\ Holds(requests', Ask("bridge", s, k)) =>
                       repair'[s][k].stage = "rejected" /\ repair'[s][k].rows = repair[s][k].rows
    BY <1>2, <1>5, <1>7
<1>9. VersionsTell' /\ DataSurvives'
    BY <1>2, <1>4, DataStay
<1>10. DatabaseShape'
    BY <1>2, <1>3, <1>4, <1>7, Parts, ShapeOf
<1>11. RepairsTell'
    BY <1>2, <1>3, <1>8, Parts, RepairsGoOn
<1>12. DeletionsTell'
    BY <1>2, <1>3, <1>4, DeletionsStay
<1> QED
    BY <1>9, <1>10, <1>11, <1>12 DEF DatabaseInv

\* A conversion is asked for with the rows of now; the attempt had nothing else to wait for.
LEMMA Converts ==
    ASSUME DatabaseInv, NEW t \in Tab, NEW n \in 1..MaxTries, repair[t][n].stage = "reading",
           NeedsRepair, requests' = Append(requests, Ask("bridge", t, n)),
           repair' = [repair EXCEPT ![t][n] =
                         [stage |-> "converting", rows |-> idb.rows, target |-> Bridge]],
           idb' = idb, tries' = tries, saved' = saved, lateRows' = lateRows
    PROVE  RepairsTell'
<1> DEFINE r == Ask("bridge", t, n)
<1>1. n \in Nat /\ r \in Requests /\ r.op = "bridge"
    BY TriesAreNumbers, AskTypes
<1> HIDE DEF r
<1>2. \A e : /\ Holds(requests', e) <=> Holds(requests, e) \/ r = e
             /\ HoldsOnce(requests, e) /\ (r # e \/ ~Holds(requests, e)) => HoldsOnce(requests', e)
    <2>1. /\ \A e : /\ Holds(Append(requests, r), e) <=> Holds(requests, e) \/ r = e
                    /\ HoldsOnce(requests, e) /\ (r # e \/ ~Holds(requests, e)) =>
                          HoldsOnce(Append(requests, r), e)
        BY <1>1, Parts, AppendHolds
    <2> QED
        BY <2>1 DEF r
<1>3. /\ repair'[t][n].stage = "converting" /\ repair'[t][n].rows = idb.rows
      /\ \A s \in Tab, k \in 1..MaxTries : <<s, k>> # <<t, n>> => repair'[s][k] = repair[s][k]
    BY Parts
<1>4. saved \ lateRows \subseteq idb.rows
    BY DEF DatabaseInv, DataSurvives, RowsSurvive
<1> SUFFICES ASSUME NEW s \in Tab, NEW k \in 1..MaxTries
    PROVE  /\ HoldsOnce(requests', Ask("probe", s, k)) /\ HoldsOnce(requests', Ask("bridge", s, k))
           /\ Holds(requests', Ask("probe", s, k)) => repair'[s][k].stage = "probing"
           /\ Holds(requests', Ask("bridge", s, k)) =>
                 /\ repair'[s][k].stage \in {"converting", "rejected"}
                 /\ idb'.version < Bridge => saved' \ lateRows' \subseteq repair'[s][k].rows
           /\ k > tries'[s] => repair'[s][k].stage = "none"
    BY DEF RepairsTell, Ask
<1>5. /\ HoldsOnce(requests, Ask("probe", s, k)) /\ HoldsOnce(requests, Ask("bridge", s, k))
      /\ Holds(requests, Ask("probe", s, k)) => repair[s][k].stage = "probing"
      /\ Holds(requests, Ask("bridge", s, k)) =>
            /\ repair[s][k].stage \in {"converting", "rejected"}
            /\ idb.version < Bridge => saved \ lateRows \subseteq repair[s][k].rows
      /\ k > tries[s] => repair[s][k].stage = "none"
    BY DEF DatabaseInv, RepairsTell
<1>6. r # Ask("probe", s, k) /\ (r = Ask("bridge", s, k) <=> s = t /\ k = n)
    BY DEF r, Ask
<1>7. CASE s = t /\ k = n
    BY <1>2, <1>3, <1>4, <1>5, <1>6, <1>7
<1>8. CASE ~(s = t /\ k = n)
    <2>1. repair'[s][k] = repair[s][k]
        BY <1>3, <1>8
    <2>2. /\ Holds(requests', Ask("probe", s, k)) <=> Holds(requests, Ask("probe", s, k))
          /\ Holds(requests', Ask("bridge", s, k)) <=> Holds(requests, Ask("bridge", s, k))
          /\ HoldsOnce(requests', Ask("probe", s, k)) /\ HoldsOnce(requests', Ask("bridge", s, k))
        BY <1>2, <1>5, <1>6, <1>8
    <2> QED
        BY <1>5, <2>1, <2>2
<1> QED
    BY <1>7, <1>8

LEMMA ReadRowsStep ==
    ASSUME DatabaseInv, NEW t \in Tab, NEW n \in 1..MaxTries, ReadRows(t, n)
    PROVE  DatabaseInv'
<1>1. /\ repair[t][n].stage = "reading" /\ conns' = conns \ {Probe(t, n)} /\ main' = main
      /\ idb' = idb /\ inHand' = inHand /\ tries' = tries /\ forfeited' = forfeited
      /\ saved' = saved /\ lateRows' = lateRows /\ mislaid' = mislaid
    BY DEF ReadRows
<1>2. VersionsTell' /\ DataSurvives'
    <2>1. \A s \in Tab : Conn(s, "dexie") \in conns' => Conn(s, "dexie") \in conns
        BY <1>1
    <2> QED
        BY <1>1, <2>1, DataStay
<1>3. CASE NeedsRepair
    <2> DEFINE r == Ask("bridge", t, n)
               x == [stage |-> "converting", rows |-> idb.rows, target |-> Bridge]
    <2>1. idb.version = Legacy
        BY <1>3 DEF DatabaseInv, VersionsTell
    <2>2. repair' = [repair EXCEPT ![t][n] = x] /\ requests' = Append(requests, r)
        BY <1>3, <2>1 DEF ReadRows, Legacy, Bridge
    <2>3. r \in Requests /\ r.op = "bridge" /\ r.try = n
        BY TriesAreNumbers DEF Ask, Requests
    <2>4. x \in Conversion
        BY DEF Conversion, DatabaseInv, DatabaseShape
    <2>5. RepairsTell'
        BY <1>1, <1>3, <2>2, Converts
    <2> HIDE DEF r, x
    <2>6. requests' \in Seq(Requests) /\ Numbered(requests') /\ Less(requests', requests, {"delete"})
        BY <2>2, <2>3, Parts, Appended, AppendLess
    <2>7. repair' \in [Tab -> [1..MaxTries ->
                             [stage : {"none", "probing", "reading", "done"}] \cup Conversion]]
        BY <2>2, <2>4, Parts
    <2>8. DatabaseShape'
        BY <1>1, <2>6, <2>7, Parts, ShapeOf
    <2>9. DeletionsTell'
        BY <1>1, <2>6, DeletionsStay
    <2> QED
        BY <1>2, <2>5, <2>8, <2>9 DEF DatabaseInv
<1>4. CASE ~NeedsRepair
    <2>1. repair' = [repair EXCEPT ![t][n] = [stage |-> "done"]] /\ requests' = requests
        BY <1>4 DEF ReadRows
    <2>2. /\ requests' \in Seq(Requests) /\ Numbered(requests')
          /\ Less(requests', requests, {"probe", "bridge"}) /\ Less(requests', requests, {"delete"})
        BY <2>1, Parts, SameLess
    <2>3. /\ repair' \in [Tab -> [1..MaxTries ->
                             [stage : {"none", "probing", "reading", "done"}] \cup Conversion]]
          /\ \A s \in Tab, k \in 1..MaxTries : <<s, k>> # <<t, n>> => repair'[s][k] = repair[s][k]
        BY <2>1, Parts
    <2>4. ~Holds(requests', Ask("probe", t, n)) /\ ~Holds(requests', Ask("bridge", t, n))
        BY <1>1, <2>1 DEF DatabaseInv, RepairsTell
    <2>5. \A s \in Tab, k \in 1..MaxTries :
              \/ repair'[s][k] = repair[s][k]
              \/ /\ repair[s][k].stage # "none" /\ ~Holds(requests', Ask("probe", s, k))
                 /\ Holds(requests', Ask("bridge", s, k)) =>
                       repair'[s][k].stage = "rejected" /\ repair'[s][k].rows = repair[s][k].rows
        BY <1>1, <2>3, <2>4
    <2>6. RepairsTell'
        BY <1>1, <2>2, <2>5, Parts, RepairsGoOn
    <2>7. DatabaseShape'
        BY <1>1, <2>2, <2>3, Parts, ShapeOf
    <2>8. DeletionsTell'
        BY <1>1, <2>2, DeletionsStay
    <2> QED
        BY <1>2, <2>6, <2>7, <2>8 DEF DatabaseInv
<1> QED
    BY <1>3, <1>4

LEMMA GrantBridgeStep ==
    ASSUME DatabaseInv, GrantBridge
    PROVE  DatabaseInv'
<1> DEFINE r == Head(requests)
<1>1. PICK t \in Tab, n \in 1..MaxTries :
        /\ requests # <<>> /\ Head(requests) = Ask("bridge", t, n)
        /\ Head(requests).tab = t /\ Head(requests).try = n
    <2>1. requests # <<>> /\ r.op = "bridge"
        BY DEF GrantBridge, Head1
    <2>2. r \in Requests /\ r = Ask(r.op, r.tab, r.try) /\ r.try \in 1..MaxTries
        BY <2>1, Parts, Served
    <2>3. r.tab \in Tab
        BY <2>2 DEF Requests
    <2> QED
        BY <2>1, <2>2, <2>3
<1> DEFINE p == repair[t][n]
<1>2. /\ idb.version < p.target => Unheld
      /\ idb' = IF idb.version < p.target
                THEN [idb EXCEPT !.version = p.target, !.keyed = "epoch", !.rows = p.rows] ELSE idb
      /\ conns' = IF p.stage = "rejected" /\ idb.version <= p.target
                  THEN conns \cup {Conn(t, "leaked")} ELSE conns
      /\ repair' = [repair EXCEPT ![t][n].stage = IF @ = "rejected" THEN @ ELSE "done"]
      /\ requests' = Tail(requests)
      /\ main' = main /\ inHand' = inHand /\ tries' = tries /\ forfeited' = forfeited
      /\ saved' = saved /\ lateRows' = lateRows /\ mislaid' = mislaid
    BY <1>1 DEF GrantBridge
<1>3. /\ requests' \in Seq(Requests) /\ Numbered(requests')
      /\ Less(requests', requests, {"probe", "bridge"}) /\ Less(requests', requests, {"delete"})
    BY <1>1, <1>2, Parts, Served, TailLess
<1>4. Holds(requests, Ask("bridge", t, n)) /\ ~Holds(requests', Ask("bridge", t, n))
    <2>1. HoldsOnce(requests, Ask("bridge", t, n))
        BY DEF DatabaseInv, RepairsTell
    <2> QED
        BY <1>1, <1>2, <2>1, Parts, Served
<1>5. /\ p.stage \in {"converting", "rejected"} /\ ~Holds(requests', Ask("probe", t, n))
      /\ idb.version < Bridge => saved \ lateRows \subseteq p.rows
    <2>1. /\ p.stage \in {"converting", "rejected"} /\ ~Holds(requests, Ask("probe", t, n))
          /\ idb.version < Bridge => saved \ lateRows \subseteq p.rows
        BY <1>4 DEF DatabaseInv, RepairsTell
    <2> QED
        BY <1>1, <1>2, <2>1, Parts, Served
<1>6. p \in Conversion /\ p.target = Bridge /\ p.rows \subseteq Row
    <2>1. p \in Conversion
        BY <1>5, Parts
    <2> QED
        BY <2>1 DEF Conversion
<1>7. /\ repair' \in [Tab -> [1..MaxTries ->
                             [stage : {"none", "probing", "reading", "done"}] \cup Conversion]]
      /\ \A s \in Tab, k \in 1..MaxTries : <<s, k>> # <<t, n>> => repair'[s][k] = repair[s][k]
    <2> DEFINE x == [p EXCEPT !.stage = IF @ = "rejected" THEN @ ELSE "done"]
    <2>1. x \in Conversion
        BY <1>6 DEF Conversion
    <2>2. repair' = [repair EXCEPT ![t] = [repair[t] EXCEPT ![n] = x]]
        BY <1>2
    <2> HIDE DEF x
    <2> QED
        BY <2>1, <2>2, Parts
<1>8. \A s \in Tab, k \in 1..MaxTries :
              \/ repair'[s][k] = repair[s][k]
              \/ /\ repair[s][k].stage # "none" /\ ~Holds(requests', Ask("probe", s, k))
                 /\ Holds(requests', Ask("bridge", s, k)) =>
                       repair'[s][k].stage = "rejected" /\ repair'[s][k].rows = repair[s][k].rows
    BY <1>4, <1>5, <1>7
<1>9. DeletionsTell'
    BY <1>2, <1>3, DeletionsStay
<1>10. /\ idb' \in [version : 0..Current, keyed : {"none", "group", "epoch"}, rows : SUBSET Row,
                   identity : BOOLEAN]
       /\ idb'.identity = idb.identity
       /\ idb'.version < Bridge => idb.version < Bridge
       /\ idb'.version = 0 => FALSE
       /\ idb'.keyed = "group" => idb'.version = Legacy
       /\ saved \ lateRows \subseteq idb'.rows
    <2>1. /\ idb \in [version : 0..Current, keyed : {"none", "group", "epoch"}, rows : SUBSET Row,
                       identity : BOOLEAN]
          /\ idb.keyed = "group" => idb.version = Legacy /\ saved \ lateRows \subseteq idb.rows
        BY DEF DatabaseInv, DatabaseShape, VersionsTell, NeedsRepair, DataSurvives, RowsSurvive
    <2>2. saved \ lateRows \subseteq idb.rows
        BY DEF DatabaseInv, DataSurvives, RowsSurvive
    <2>3. CASE idb.version < Bridge
        <3>1. idb' = [idb EXCEPT !.version = Bridge, !.keyed = "epoch", !.rows = p.rows]
            BY <1>2, <1>6, <2>3
        <3> HIDE DEF p
        <3>2. idb' = [version |-> Bridge, keyed |-> "epoch", rows |-> p.rows,
                      identity |-> idb.identity]
            BY <2>1, <3>1
        <3> QED
            BY <1>5, <1>6, <2>1, <2>3, <3>2 DEF Bridge, Current
    <2>4. CASE ~(idb.version < Bridge)
        <3>1. idb' = idb
            BY <1>2, <1>6, <2>4
        <3> QED
            BY <2>1, <2>2, <2>4, <3>1 DEF Bridge, Current
    <2> QED
        BY <2>3, <2>4
<1>11. \A s \in Tab : Conn(s, "dexie") \in conns' => idb'.version = Current
    <2> SUFFICES ASSUME NEW s \in Tab, Conn(s, "dexie") \in conns'
                 PROVE  idb'.version = Current
        OBVIOUS
    <2>1. Conn(s, "dexie") \in conns
        BY <1>2 DEF Conn
    <2>2. idb.version = Current /\ conns # {}
        BY <2>1 DEF DatabaseInv, VersionsTell
    <2>3. ~(idb.version < p.target)
        BY <1>2, <2>2 DEF Unheld
    <2> QED
        BY <1>2, <2>2, <2>3
<1>12. VersionsTell'
    BY <1>10, <1>11 DEF VersionsTell, NeedsRepair, Conn
<1>13. DataSurvives'
    BY <1>2, <1>10 DEF DatabaseInv, DataSurvives, RowsSurvive, IdentitySurvives, RepairKeepsAccount
<1>14. DatabaseShape'
    BY <1>2, <1>3, <1>7, <1>10, Parts DEF DatabaseShape, Numbered, Requests, Conversion, Stands
<1>15. RepairsTell'
    BY <1>2, <1>3, <1>8, <1>10, Parts, RepairsGoOn
<1> QED
    BY <1>9, <1>12, <1>13, <1>14, <1>15 DEF DatabaseInv

LEMMA GrantDexieStep ==
    ASSUME DatabaseInv, GrantDexie
    PROVE  DatabaseInv'
<1>1. PICK t \in Tab : requests # <<>> /\ Head(requests).tab = t
    <2>1. requests # <<>>
        BY DEF GrantDexie, Head1
    <2>2. Head(requests) \in Requests
        BY <2>1, Parts, Served
    <2> QED
        BY <2>1, <2>2 DEF Requests
<1>2. /\ requests' = Tail(requests) /\ tries' = tries /\ repair' = repair
      /\ saved' = saved /\ lateRows' = lateRows /\ mislaid' = mislaid
    BY DEF GrantDexie
<1>3. /\ requests' \in Seq(Requests) /\ Numbered(requests')
      /\ Less(requests', requests, {"probe", "bridge"}) /\ Less(requests', requests, {"delete"})
    BY <1>1, <1>2, Parts, Served, TailLess
<1>4. CASE idb.keyed = "group" /\ idb.version < Current
    <2>1. /\ main' = [main EXCEPT ![t] = IF @ = "opening" THEN "failed" ELSE @]
          /\ forfeited' = (forfeited \/ t \in inHand) /\ inHand' = inHand \ {t}
          /\ idb' = idb /\ conns' = conns
        BY <1>1, <1>4 DEF GrantDexie
    <2>2. /\ main' \in [Tab -> Stands] /\ inHand' \subseteq Tab
          /\ \A s \in Tab : main[s] = "deleting" => main'[s] = main[s]
          /\ ~forfeited' => inHand' = inHand
        BY <2>1, Parts DEF Stands
    <2>3. VersionsTell' /\ DataSurvives'
        BY <1>2, <2>1, <2>2, DataStay
    <2>4. DatabaseShape'
        BY <1>2, <1>3, <2>1, <2>2, Parts, ShapeOf
    <2>5. RepairsTell'
        BY <1>2, <1>3, <2>1, Parts, RepairsStay
    <2>6. DeletionsTell'
        BY <1>2, <1>3, <2>1, <2>2, DeletionsStay
    <2> QED
        BY <2>3, <2>4, <2>5, <2>6 DEF DatabaseInv
<1>5. CASE ~(idb.keyed = "group" /\ idb.version < Current)
    <2>1. /\ NeedsAll => Unheld
          /\ idb' = IF idb.version < Current
                    THEN [idb EXCEPT !.version = Current, !.keyed = "epoch"] ELSE idb
          /\ conns' = conns \cup {Conn(t, "dexie")}
          /\ main' = main /\ inHand' = inHand /\ forfeited' = forfeited
        BY <1>1, <1>5 DEF GrantDexie
    <2>2. /\ idb' \in [version : 0..Current, keyed : {"none", "group", "epoch"}, rows : SUBSET Row,
                       identity : BOOLEAN]
          /\ idb'.version = Current /\ idb'.rows = idb.rows /\ idb'.identity = idb.identity
          /\ idb'.keyed # "group"
        <3>1. idb \in [version : 0..Current, keyed : {"none", "group", "epoch"}, rows : SUBSET Row,
                       identity : BOOLEAN]
            BY DEF DatabaseInv, DatabaseShape
        <3>2. idb.keyed = "group" => idb.version = Legacy
            BY DEF DatabaseInv, VersionsTell, NeedsRepair
        <3>3. CASE idb.version < Current
            <4>1. idb' = [version |-> Current, keyed |-> "epoch", rows |-> idb.rows,
                          identity |-> idb.identity]
                BY <2>1, <3>1, <3>3
            <4> QED
                BY <3>1, <4>1 DEF Current
        <3>4. CASE ~(idb.version < Current)
            BY <2>1, <3>1, <3>2, <3>4 DEF Current, Legacy
        <3> QED
            BY <3>3, <3>4
    <2>3. VersionsTell'
        BY <2>2 DEF VersionsTell, NeedsRepair, Conn, Current
    <2>4. DataSurvives'
        BY <1>2, <2>1, <2>2
        DEF DatabaseInv, DataSurvives, RowsSurvive, IdentitySurvives, RepairKeepsAccount
    <2>5. DatabaseShape'
        BY <1>2, <1>3, <2>1, <2>2, Parts DEF DatabaseShape, Numbered, Requests, Conversion, Stands
    <2>6. RepairsTell'
        <3>1. ~(idb'.version < Bridge)
            BY <2>2 DEF Current, Bridge
        <3> QED
            BY <1>2, <1>3, <3>1, Parts, RepairsStay
    <2>7. DeletionsTell'
        BY <1>2, <1>3, <2>1, DeletionsStay
    <2> QED
        BY <2>3, <2>4, <2>5, <2>6, <2>7 DEF DatabaseInv
<1> QED
    BY <1>4, <1>5

\* A tab that closes Dexie and asks for the deletion, what it rescued in its hands.
LEMMA DeletingAsks ==
    ASSUME DatabaseInv, NEW t \in Tab, NEW q \in Seq(Requests), Numbered(q),
           Less(q, requests, {"probe", "bridge"}), Less(q, requests, {"delete"}),
           Deleting(t, q), tries' = tries, inHand \subseteq inHand',
           forfeited => forfeited', mislaid => mislaid',
           ~forfeited' /\ ~mislaid' => t \in inHand' /\ main[t] # "deleting"
    PROVE  /\ requests' \in Seq(Requests) /\ Numbered(requests') /\ main' \in [Tab -> Stands]
           /\ Less(requests', requests, {"probe", "bridge"})
           /\ DeletionsTell' /\ \A c \in conns' : c \in conns
<1> DEFINE w == TakenBack(q, Ask("dexie", t, 0))
           r == Ask("delete", t, tries[t])
<1>1. /\ main' = [main EXCEPT ![t] = "deleting"] /\ \A c \in conns' : c \in conns
      /\ requests' = Append(w, r)
    BY DEF Deleting
<1>2. r \in Requests /\ r.op = "delete" /\ tries[t] \in Nat
    BY Parts, AskTypes
<1>3. /\ w \in Seq(Requests) /\ Numbered(w)
      /\ Less(w, q, {"probe", "bridge"}) /\ Less(w, q, {"delete"})
    <2>1. w \in Seq(Requests) /\ Numbered(w) /\ Keeps(w, q)
        BY TakenBackKeeps
    <2> HIDE DEF w
    <2> QED
        BY <2>1, KeepsLess
<1>4. Less(w, requests, {"probe", "bridge"}) /\ Less(w, requests, {"delete"})
    <2> HIDE DEF w
    <2> QED
        BY <1>3, LessTwice
<1> HIDE DEF w, r
<1>5. /\ requests' \in Seq(Requests) /\ Numbered(requests')
      /\ Less(requests', w, {"probe", "bridge"})
      /\ \A e : /\ Holds(requests', e) <=> Holds(w, e) \/ r = e
                /\ HoldsOnce(w, e) /\ (r # e \/ ~Holds(w, e)) => HoldsOnce(requests', e)
    BY <1>1, <1>2, <1>3, Appended, AppendLess
<1>6. Less(requests', requests, {"probe", "bridge"})
    BY <1>4, <1>5, LessTwice
<1>7. main' \in [Tab -> Stands] /\ main'[t] = "deleting" /\ \A s \in Tab : s # t => main'[s] = main[s]
    BY <1>1, Parts DEF Stands
<1>8. DeletionsTell'
    <2> SUFFICES ASSUME ~forfeited', ~mislaid', NEW s \in Tab, NEW k \in Nat
        PROVE  /\ HoldsOnce(requests', Ask("delete", s, k))
               /\ Holds(requests', Ask("delete", s, k)) =>
                     k = tries'[s] /\ main'[s] = "deleting" /\ s \in inHand'
        BY DEF DeletionsTell, Ask
    <2>1. /\ HoldsOnce(requests, Ask("delete", s, k))
          /\ Holds(requests, Ask("delete", s, k)) =>
                k = tries[s] /\ main[s] = "deleting" /\ s \in inHand
        BY DEF DatabaseInv, DeletionsTell
    <2>2. Ask("delete", s, k) \in Requests /\ Ask("delete", s, k).op = "delete"
        BY AskTypes
    <2>3. /\ Holds(w, Ask("delete", s, k)) => Holds(requests, Ask("delete", s, k))
          /\ HoldsOnce(w, Ask("delete", s, k))
        BY <1>4, <2>1, <2>2 DEF Less
    <2>4. t \in inHand' /\ main[t] # "deleting"
        OBVIOUS
    <2>5. r = Ask("delete", s, k) => s = t /\ k = tries[t]
        BY DEF r, Ask
    <2>6. s = t => ~Holds(w, Ask("delete", s, k))
        BY <2>1, <2>3, <2>4
    <2>7. HoldsOnce(requests', Ask("delete", s, k))
        BY <1>5, <2>3, <2>5, <2>6
    <2>8. CASE Holds(w, Ask("delete", s, k))
        BY <1>7, <2>1, <2>3, <2>7, <2>8
    <2>9. CASE ~Holds(w, Ask("delete", s, k))
        BY <1>5, <1>7, <2>4, <2>5, <2>7, <2>9
    <2> QED
        BY <2>8, <2>9
<1> QED
    BY <1>1, <1>5, <1>6, <1>7, <1>8

LEMMA RescueTimeoutStep ==
    ASSUME DatabaseInv, NEW t \in Tab, RescueTimeout(t)
    PROVE  DatabaseInv'
<1>1. /\ forfeited' = TRUE /\ Deleting(t, requests)
      /\ idb' = idb /\ tries' = tries /\ repair' = repair /\ inHand' = inHand
      /\ saved' = saved /\ lateRows' = lateRows /\ mislaid' = mislaid
    BY DEF RescueTimeout
<1>2. /\ requests' \in Seq(Requests) /\ Numbered(requests') /\ main' \in [Tab -> Stands]
      /\ Less(requests', requests, {"probe", "bridge"})
      /\ DeletionsTell' /\ \A c \in conns' : c \in conns
    BY <1>1, Parts, SameLess, DeletingAsks
<1>3. VersionsTell' /\ DataSurvives'
    BY <1>1, <1>2, DataStay
<1>4. DatabaseShape'
    BY <1>1, <1>2, Parts, ShapeOf
<1>5. RepairsTell'
    BY <1>1, <1>2, Parts, RepairsStay
<1> QED
    BY <1>2, <1>3, <1>4, <1>5 DEF DatabaseInv

LEMMA eraseIdentityStep ==
    ASSUME DatabaseInv, NEW t \in Tab, eraseIdentity(t)
    PROVE  DatabaseInv'
<1>1. /\ forfeited' = TRUE /\ Deleting(t, requests)
      /\ idb' = idb /\ tries' = tries /\ repair' = repair /\ inHand' = inHand
      /\ saved' = saved /\ lateRows' = lateRows /\ mislaid' = mislaid
    BY DEF eraseIdentity
<1>2. /\ requests' \in Seq(Requests) /\ Numbered(requests') /\ main' \in [Tab -> Stands]
      /\ Less(requests', requests, {"probe", "bridge"})
      /\ DeletionsTell' /\ \A c \in conns' : c \in conns
    BY <1>1, Parts, SameLess, DeletingAsks
<1>3. VersionsTell' /\ DataSurvives'
    BY <1>1, <1>2, DataStay
<1>4. DatabaseShape'
    BY <1>1, <1>2, Parts, ShapeOf
<1>5. RepairsTell'
    BY <1>1, <1>2, Parts, RepairsStay
<1> QED
    BY <1>2, <1>3, <1>4, <1>5 DEF DatabaseInv

LEMMA GrantRescueStep ==
    ASSUME DatabaseInv, GrantRescue
    PROVE  DatabaseInv'
<1>1. PICK t \in Tab : requests # <<>> /\ Head(requests).tab = t
    <2>1. requests # <<>>
        BY DEF GrantRescue, Head1
    <2>2. Head(requests) \in Requests
        BY <2>1, Parts, Served
    <2> QED
        BY <2>1, <2>2 DEF Requests
<1>2. /\ idb' = Opened /\ tries' = tries /\ repair' = repair
      /\ saved' = saved /\ lateRows' = lateRows /\ forfeited' = forfeited
    BY DEF GrantRescue
<1>3. /\ Tail(requests) \in Seq(Requests) /\ Numbered(Tail(requests))
      /\ Less(Tail(requests), requests, {"probe", "bridge"})
      /\ Less(Tail(requests), requests, {"delete"})
    BY <1>1, Parts, Served, TailLess
<1>4. CASE main[t] = "rescuing"
    <2>1. /\ inHand' = IF idb.identity THEN inHand \cup {t} ELSE inHand
          /\ mislaid' = (mislaid \/ ~idb.identity) /\ Deleting(t, Tail(requests))
        BY <1>1, <1>4 DEF GrantRescue
    <2>2. inHand \subseteq inHand' /\ inHand' \subseteq Tab
        BY <2>1, Parts
    <2>3. ~forfeited' /\ ~mislaid' => t \in inHand' /\ main[t] # "deleting"
        BY <1>4, <2>1
    <2>4. /\ requests' \in Seq(Requests) /\ Numbered(requests') /\ main' \in [Tab -> Stands]
          /\ Less(requests', requests, {"probe", "bridge"})
          /\ DeletionsTell' /\ \A c \in conns' : c \in conns
        BY <1>2, <1>3, <2>1, <2>2, <2>3, DeletingAsks
    <2>5. VersionsTell' /\ DataSurvives'
        BY <1>2, <2>1, <2>2, <2>4, OpenedData
    <2>6. DatabaseShape'
        BY <1>2, <2>2, <2>4, Parts, OpenedShape
    <2>7. RepairsTell'
        BY <1>2, <2>4, Parts, OpenedLess, RepairsStay
    <2> QED
        BY <2>4, <2>5, <2>6, <2>7 DEF DatabaseInv
<1>5. CASE main[t] # "rescuing"
    <2>1. /\ conns' = conns \cup {Conn(t, "leaked")} /\ requests' = Tail(requests)
          /\ inHand' = inHand /\ main' = main /\ mislaid' = mislaid
        BY <1>1, <1>5 DEF GrantRescue
    <2>2. \A s \in Tab : Conn(s, "dexie") \in conns' => Conn(s, "dexie") \in conns
        BY <2>1 DEF Conn
    <2>3. VersionsTell' /\ DataSurvives'
        BY <1>2, <2>1, <2>2, OpenedData
    <2>4. DatabaseShape'
        BY <1>2, <1>3, <2>1, Parts, OpenedShape
    <2>5. RepairsTell'
        BY <1>2, <1>3, <2>1, Parts, OpenedLess, RepairsStay
    <2>6. DeletionsTell'
        BY <1>2, <1>3, <2>1, DeletionsStay
    <2> QED
        BY <2>3, <2>4, <2>5, <2>6 DEF DatabaseInv
<1> QED
    BY <1>4, <1>5

\* The database goes, and with it what was saved; who asked holds the identity.
LEMMA GrantDeleteStep ==
    ASSUME DatabaseInv, GrantDelete
    PROVE  DatabaseInv'
<1> DEFINE r == Head(requests)
<1>1. PICK t \in Tab, n \in Nat :
        /\ requests # <<>> /\ Head(requests) = Ask("delete", t, n)
        /\ Head(requests).tab = t /\ Head(requests).op = "delete"
    <2>1. requests # <<>> /\ r.op = "delete"
        BY DEF GrantDelete, Head1
    <2>2. r \in Requests /\ r = Ask(r.op, r.tab, r.try)
        BY <2>1, Parts, Served
    <2>3. r.tab \in Tab /\ r.try \in Nat
        BY <2>2 DEF Requests
    <2> QED
        BY <2>1, <2>2, <2>3
<1>2. /\ NeedsAll => Unheld
      /\ idb' = NoDatabase /\ saved' = {} /\ lateRows' = {} /\ conns' = conns /\ inHand' = inHand
      /\ forfeited' = forfeited /\ mislaid' = mislaid
      /\ IF main[t] = "deleting" THEN Attempt(t, Tail(requests), FALSE)
         ELSE requests' = Tail(requests) /\ main' = main /\ tries' = tries /\ repair' = repair
    BY <1>1 DEF GrantDelete
<1>3. /\ Tail(requests) \in Seq(Requests) /\ Numbered(Tail(requests))
      /\ Less(Tail(requests), requests, {"probe", "bridge"})
      /\ Less(Tail(requests), requests, {"delete"})
    BY <1>1, Parts, Served, TailLess
<1>4. /\ requests' \in Seq(Requests) /\ Numbered(requests')
      /\ Less(requests', Tail(requests), {"probe", "bridge"})
      /\ Less(requests', Tail(requests), {"delete"})
      /\ repair' = repair /\ main' \in [Tab -> Stands] /\ tries' \in [Tab -> Nat]
      /\ \A s \in Tab : tries'[s] >= tries[s] /\ tries'[s] \in Nat
      /\ \A s \in Tab : s # t => main'[s] = main[s] /\ tries'[s] = tries[s]
    <2>1. CASE main[t] = "deleting"
        <3>1. /\ OpenDexie(t, Tail(requests)) /\ repair' = repair
              /\ tries' = [tries EXCEPT ![t] = @ + 1]
            BY <1>2, <2>1 DEF Attempt
        <3>2. requests' \in Seq(Requests) /\ Numbered(requests') /\ Keeps(requests', Tail(requests))
            BY <1>3, <3>1, Opens
        <3>3. main' = [main EXCEPT ![t] = "opening"]
            BY <3>1 DEF OpenDexie
        <3>4. main' \in [Tab -> Stands] /\ \A s \in Tab : s # t => main'[s] = main[s]
            BY <3>3, Parts DEF Stands
        <3>5. /\ Less(requests', Tail(requests), {"probe", "bridge"})
              /\ Less(requests', Tail(requests), {"delete"})
            BY <3>2, KeepsLess
        <3> QED
            BY <3>1, <3>2, <3>4, <3>5, Parts
    <2>2. CASE main[t] # "deleting"
        BY <1>2, <1>3, <2>2, Parts, SameLess
    <2> QED
        BY <2>1, <2>2
<1>5. /\ Less(requests', requests, {"probe", "bridge"}) /\ Less(requests', requests, {"delete"})
    BY <1>3, <1>4, LessTwice
<1>6. \A s \in Tab : Conn(s, "dexie") \notin conns'
    <2> SUFFICES ASSUME NEW s \in Tab, Conn(s, "dexie") \in conns PROVE FALSE
        BY <1>2
    <2>1. idb.version = Current
        BY DEF DatabaseInv, VersionsTell
    <2>2. NeedsAll
        BY <1>1, <2>1 DEF NeedsAll, Current
    <2> QED
        BY <1>2, <2>2 DEF Unheld
<1>7. VersionsTell'
    BY <1>2, <1>6 DEF VersionsTell, NeedsRepair, NoDatabase, Conn
<1>8. Holds(requests, Ask("delete", t, n))
    BY <1>1, Parts, Served
<1>9. DataSurvives'
    <2>1. RowsSurvive'
        BY <1>2 DEF RowsSurvive
    <2>2. IdentitySurvives'
        BY <1>2, <1>8
        DEF DatabaseInv, DeletionsTell, IdentitySurvives, RepairKeepsAccount
    <2> QED
        BY <2>1, <2>2 DEF DataSurvives
<1>10. DatabaseShape'
    <2>1. idb' \in [version : 0..Current, keyed : {"none", "group", "epoch"}, rows : SUBSET Row,
                    identity : BOOLEAN]
        BY <1>2 DEF NoDatabase, Current
    <2> QED
        BY <1>2, <1>4, <2>1, Parts DEF DatabaseShape, Numbered, Requests, Conversion, Stands
<1>11. RepairsTell'
    <2> SUFFICES ASSUME NEW s \in Tab, NEW k \in 1..MaxTries
        PROVE  /\ HoldsOnce(requests', Ask("probe", s, k))
               /\ HoldsOnce(requests', Ask("bridge", s, k))
               /\ Holds(requests', Ask("probe", s, k)) => repair'[s][k].stage = "probing"
               /\ Holds(requests', Ask("bridge", s, k)) =>
                     /\ repair'[s][k].stage \in {"converting", "rejected"}
                     /\ idb'.version < Bridge => saved' \ lateRows' \subseteq repair'[s][k].rows
               /\ k > tries'[s] => repair'[s][k].stage = "none"
        BY DEF RepairsTell, Ask
    <2>1. k \in Nat /\ Ask("probe", s, k) \in Requests /\ Ask("bridge", s, k) \in Requests
          /\ Ask("probe", s, k).op = "probe" /\ Ask("bridge", s, k).op = "bridge"
        BY TriesAreNumbers, AskTypes
    <2>2. /\ HoldsOnce(requests, Ask("probe", s, k)) /\ HoldsOnce(requests, Ask("bridge", s, k))
          /\ Holds(requests, Ask("probe", s, k)) => repair[s][k].stage = "probing"
          /\ Holds(requests, Ask("bridge", s, k)) =>
                repair[s][k].stage \in {"converting", "rejected"}
          /\ k > tries[s] => repair[s][k].stage = "none"
        BY DEF DatabaseInv, RepairsTell
    <2>3. k > tries'[s] => k > tries[s]
        BY <1>4, <2>1, Parts
    <2>4. \A e \in {Ask("probe", s, k), Ask("bridge", s, k)} :
              (Holds(requests', e) => Holds(requests, e))
              /\ (HoldsOnce(requests, e) => HoldsOnce(requests', e))
        BY <1>5, <2>1 DEF Less
    <2>5. saved' \ lateRows' = {}
        BY <1>2
    <2> QED
        BY <1>4, <2>2, <2>3, <2>4, <2>5
<1>12. DeletionsTell'
    <2> SUFFICES ASSUME ~forfeited', ~mislaid', NEW s \in Tab, NEW k \in Nat
        PROVE  /\ HoldsOnce(requests', Ask("delete", s, k))
               /\ Holds(requests', Ask("delete", s, k)) =>
                     k = tries'[s] /\ main'[s] = "deleting" /\ s \in inHand'
        BY DEF DeletionsTell, Ask
    <2>1. \A u \in Tab, j \in Nat :
             /\ HoldsOnce(requests, Ask("delete", u, j))
             /\ Holds(requests, Ask("delete", u, j)) =>
                   j = tries[u] /\ main[u] = "deleting" /\ u \in inHand
        BY <1>2 DEF DatabaseInv, DeletionsTell
    <2>2. Ask("delete", s, k) \in Requests /\ Ask("delete", s, k).op = "delete"
        BY AskTypes
    <2>3. /\ Holds(requests', Ask("delete", s, k)) => Holds(Tail(requests), Ask("delete", s, k))
          /\ Holds(requests', Ask("delete", s, k)) => Holds(requests, Ask("delete", s, k))
          /\ HoldsOnce(requests', Ask("delete", s, k))
        BY <1>4, <1>5, <2>1, <2>2 DEF Less
    <2>4. CASE s # t
        BY <1>2, <1>4, <2>1, <2>3, <2>4
    <2>5. CASE s = t
        <3>1. n = tries[t]
            BY <1>8, <2>1
        <3>2. Holds(requests', Ask("delete", s, k)) => k = n
            BY <2>1, <2>3, <2>5, <3>1
        <3>3. ~Holds(Tail(requests), Ask("delete", t, n))
            <4>1. HoldsOnce(requests, Ask("delete", t, n))
                BY <2>1
            <4> QED
                BY <1>1, <4>1, Parts, Served
        <3> QED
            BY <2>3, <2>5, <3>2, <3>3
    <2> QED
        BY <2>4, <2>5
<1> QED
    BY <1>7, <1>9, <1>10, <1>11, <1>12 DEF DatabaseInv

\* A row the old page saves beneath a conversion is late; Dexie's tabs save to the current
\* database, which no conversion changes any more.
LEMMA SaveRowStep ==
    ASSUME DatabaseInv, NEW row \in Row, SaveRow(row)
    PROVE  DatabaseInv'
<1>1. /\ idb' = [idb EXCEPT !.rows = @ \cup {row}] /\ saved' = saved \cup {row}
      /\ conns' = conns /\ requests' = requests /\ main' = main /\ tries' = tries
      /\ repair' = repair /\ inHand' = inHand /\ forfeited' = forfeited /\ mislaid' = mislaid
    BY DEF SaveRow
<1>2. \/ lateRows' = IF \E t \in Tab, n \in 1..MaxTries :
                           repair[t][n].stage \in {"converting", "rejected"}
                     THEN lateRows \cup {row} ELSE lateRows
      \/ lateRows' = lateRows /\ \E t \in Tab : Conn(t, "dexie") \in conns
    BY DEF SaveRow
<1>3. /\ requests' \in Seq(Requests) /\ Numbered(requests')
      /\ Less(requests', requests, {"delete"})
    BY <1>1, Parts, SameLess
<1>4. idb \in [version : 0..Current, keyed : {"none", "group", "epoch"}, rows : SUBSET Row,
               identity : BOOLEAN]
    BY DEF DatabaseInv, DatabaseShape
<1>5. /\ idb' \in [version : 0..Current, keyed : {"none", "group", "epoch"}, rows : SUBSET Row,
                   identity : BOOLEAN]
      /\ idb'.version = idb.version /\ idb'.keyed = idb.keyed /\ idb'.identity = idb.identity
      /\ idb'.rows = idb.rows \cup {row}
    BY <1>1, <1>4
<1>6. lateRows \subseteq lateRows'
    BY <1>2
<1>7. idb.version # 0
    <2>1. idb.keyed = "group" => idb.version = Legacy
        BY DEF DatabaseInv, VersionsTell, NeedsRepair
    <2>2. idb.keyed = "group" \/ \E t \in Tab : Conn(t, "dexie") \in conns
        BY DEF SaveRow
    <2> QED
        BY <2>1, <2>2 DEF DatabaseInv, VersionsTell, Legacy, Current
<1>8. VersionsTell'
    BY <1>1, <1>5, <1>7 DEF DatabaseInv, VersionsTell, NeedsRepair, Conn
<1>9. DataSurvives'
    BY <1>1, <1>5, <1>6
    DEF DatabaseInv, DataSurvives, RowsSurvive, IdentitySurvives, RepairKeepsAccount
<1>10. DatabaseShape'
    <2>1. saved' \subseteq Row
        BY <1>1 DEF DatabaseInv, DatabaseShape
    <2> QED
        BY <1>1, <1>3, <1>5, <2>1, Parts
        DEF DatabaseShape, Numbered, Requests, Conversion, Stands
<1>11. RepairsTell'
    <2> SUFFICES ASSUME NEW t \in Tab, NEW n \in 1..MaxTries
        PROVE  /\ HoldsOnce(requests', Ask("probe", t, n))
               /\ HoldsOnce(requests', Ask("bridge", t, n))
               /\ Holds(requests', Ask("probe", t, n)) => repair'[t][n].stage = "probing"
               /\ Holds(requests', Ask("bridge", t, n)) =>
                     /\ repair'[t][n].stage \in {"converting", "rejected"}
                     /\ idb'.version < Bridge => saved' \ lateRows' \subseteq repair'[t][n].rows
               /\ n > tries'[t] => repair'[t][n].stage = "none"
        BY DEF RepairsTell, Ask
    <2>1. /\ HoldsOnce(requests, Ask("probe", t, n)) /\ HoldsOnce(requests, Ask("bridge", t, n))
          /\ Holds(requests, Ask("probe", t, n)) => repair[t][n].stage = "probing"
          /\ Holds(requests, Ask("bridge", t, n)) =>
                /\ repair[t][n].stage \in {"converting", "rejected"}
                /\ idb.version < Bridge => saved \ lateRows \subseteq repair[t][n].rows
          /\ n > tries[t] => repair[t][n].stage = "none"
        BY DEF DatabaseInv, RepairsTell
    <2>2. ASSUME Holds(requests, Ask("bridge", t, n)), idb.version < Bridge
          PROVE  saved' \ lateRows' \subseteq repair[t][n].rows
        <3>1. ~(\E u \in Tab : Conn(u, "dexie") \in conns)
            BY <2>2 DEF DatabaseInv, VersionsTell, Current, Bridge
        <3>2. row \in lateRows'
            BY <1>2, <2>1, <2>2, <3>1
        <3> QED
            BY <1>1, <1>6, <2>1, <2>2, <3>2
    <2> QED
        BY <1>1, <1>5, <2>1, <2>2
<1>12. DeletionsTell'
    BY <1>1, <1>3, DeletionsStay
<1> QED
    BY <1>8, <1>9, <1>10, <1>11, <1>12 DEF DatabaseInv

\* It holds at first.
LEMMA DatabaseStarts ==
    ASSUME LocalInit
    PROVE  DatabaseInv
<1>1. PICK rows \in SUBSET Row :
         /\ idb = [version |-> Legacy, keyed |-> "group", rows |-> rows, identity |-> TRUE]
         /\ saved = rows
    BY DEF LocalInit
<1>2. /\ conns = {} /\ requests = <<>> /\ inHand = {} /\ tries = [t \in Tab |-> 0]
      /\ main = [t \in Tab |-> "start"]
      /\ repair = [t \in Tab |-> [n \in 1..MaxTries |-> Untried]]
    BY DEF LocalInit
<1>3. Untried \in [stage : {"none", "probing", "reading", "done"}] /\ Untried.stage = "none"
    BY DEF Untried
<1>4. \A e : ~Holds(requests, e) /\ HoldsOnce(requests, e)
    BY <1>2 DEF Holds, HoldsOnce
<1>5. DatabaseShape
    <2>1. repair \in [Tab -> [1..MaxTries ->
                             [stage : {"none", "probing", "reading", "done"}] \cup Conversion]]
        BY <1>2, <1>3
    <2> HIDE DEF Conversion
    <2> QED
        BY <1>1, <1>2, <2>1 DEF DatabaseShape, Stands, Legacy, Current
<1>6. VersionsTell
    BY <1>1, <1>2 DEF VersionsTell, NeedsRepair, Legacy
<1>7. RepairsTell
    BY <1>2, <1>3, <1>4 DEF RepairsTell
<1>8. DeletionsTell
    BY <1>4 DEF DeletionsTell
<1>9. DataSurvives
    BY <1>1 DEF DataSurvives, RowsSurvive, IdentitySurvives, RepairKeepsAccount
<1> QED
    BY <1>5, <1>6, <1>7, <1>8, <1>9 DEF DatabaseInv

\* And every step keeps it.
LEMMA DatabaseStays ==
    ASSUME DatabaseInv, [LocalNext]_localVars
    PROVE  DatabaseInv'
<1>1. CASE UNCHANGED localVars
    <2>1. /\ idb' = idb /\ conns' = conns /\ requests' = requests /\ main' = main
          /\ tries' = tries /\ repair' = repair /\ inHand' = inHand /\ saved' = saved
          /\ lateRows' = lateRows /\ forfeited' = forfeited /\ mislaid' = mislaid
        BY <1>1 DEF localVars
    <2>2. /\ requests' \in Seq(Requests) /\ Numbered(requests')
          /\ Less(requests', requests, {"probe", "bridge"}) /\ Less(requests', requests, {"delete"})
        BY <2>1, Parts, SameLess
    <2>3. VersionsTell' /\ DataSurvives'
        BY <2>1, DataStay
    <2>4. DatabaseShape'
        BY <2>1, <2>2, Parts, ShapeOf
    <2>5. RepairsTell'
        BY <2>1, <2>2, Parts, RepairsStay
    <2>6. DeletionsTell'
        BY <2>1, <2>2, DeletionsStay
    <2> QED
        BY <2>3, <2>4, <2>5, <2>6 DEF DatabaseInv
<1>2. ASSUME NEW t \in Tab,
             \/ Start(t) \/ Proceed(t) \/ OpenDone(t) \/ OpenTimeout(t) \/ runRepair(t)
             \/ RescueTimeout(t) \/ eraseIdentity(t) \/ RefuseDelete(t) \/ Reopen(t)
             \/ \E n \in 1..MaxTries : ReadRows(t, n)
      PROVE  DatabaseInv'
    BY <1>2, StartStep, ProceedStep, OpenDoneStep, OpenTimeoutStep, runRepairStep,
       RescueTimeoutStep, eraseIdentityStep, RefuseDeleteStep, ReopenStep, ReadRowsStep
<1>3. CASE \/ GrantProbe \/ GrantBridge \/ BlockedBridge \/ GrantDexie \/ GrantRescue
           \/ GrantDelete \/ LoseConnection
    BY <1>3, GrantProbeStep, GrantBridgeStep, BlockedBridgeStep, GrantDexieStep,
       GrantRescueStep, GrantDeleteStep, LoseConnectionStep
<1>4. CASE \E row \in Row : SaveRow(row)
    BY <1>4, SaveRowStep
<1> QED
    BY <1>1, <1>2, <1>3, <1>4 DEF LocalNext

\* Whatever tabs, old page and browser do, and however often they try: no row that was
\* saved is lost in a conversion, and the identity stays with the database or with who
\* rescued it, unless it was given up or a second repair deleted without one.
THEOREM DataSurvivesHolds == LocalSpec => []DataSurvives
<1>1. LocalInit => DatabaseInv
    BY DatabaseStarts
<1>2. DatabaseInv /\ [LocalNext]_localVars => DatabaseInv'
    BY DatabaseStays
<1>3. DatabaseInv => DataSurvives
    BY DEF DatabaseInv
<1> QED
    BY <1>1, <1>2, <1>3, PTL DEF LocalSpec
======================================================================================
