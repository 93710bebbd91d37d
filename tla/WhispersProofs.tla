-------------------------------- MODULE WhispersProofs --------------------------------
(*****************************************************************************)
(* Theorems about Whispers, for any users, echoes, reflections and requests, *)
(* and about FeedClient, for any posts, polls and pages.                     *)
(*****************************************************************************)
EXTENDS Whispers, FeedClient, FiniteSetTheorems, FiniteSums, TLAPS

-----------------------------------------------------------------------------
(* The tables.                                                               *)

Notices == [to : User, from : User, kind : {"mention", "reply", "reflect", "like", "ripple"},
            about : Target]
Publishing == [stage : {"notify"}, kind : {"publish"}, by : User, target : Echo,
               todo : SUBSET Notices]
Reflecting == [stage : {"write", "notify"}, kind : {"reflect"}, by : User, target : Reflection,
               todo : SUBSET Notices]
Toggles == [stage : {"write", "notify"}, kind : {"on", "off"}, by : User, target : Target,
            todo : SUBSET Notices]
Rippling == [stage : {"write", "copy", "notify"}, kind : {"ripple"}, by : User, target : Echo,
             copy : Echo, todo : SUBSET Notices]
FeedShape ==
    /\ echoes \subseteq Echo /\ refl \in [Reflection -> {"absent", "live", "tombstone"}]
    /\ marks \subseteq User \X Target /\ ripples \subseteq User \X Echo /\ notices \subseteq Notices
    /\ request \in [Request -> {Done} \cup Publishing \cup Reflecting \cup Toggles \cup Rippling]

\* The target is there, or was deleted under a request about it.
Stands(t) == Present(t) \/ {t, Home(t)} \cap raced # {}

\* A reply's echo and parent are there, or were deleted while it was being added.
Hangs(f) ==
    /\ EchoOf[f] \in echoes \cup raced
    /\ ParentOf[f] \in Reflection =>
          refl[ParentOf[f]] # "absent" \/ {ParentOf[f], EchoOf[f]} \cap raced # {}

\* What is in the tables hangs from something.
NothingLoose ==
    /\ \A p \in marks \cup ripples : Stands(p[2])
    /\ \A n \in notices : Stands(n.about)
    /\ \A f \in Reflection : refl[f] # "absent" => Hangs(f)

\* The notification of the mark p.
NoticeOf(p) == Notice(Owner(p[2]), p[1], "like", p[2])

\* So does what a request is about to write, and it notifies of its target only.
Founded(q) ==
    q # Done =>
        /\ \A n \in q.todo : n.about = q.target /\ (n.kind = "like" => q.kind \in {"on", "off"})
        /\ q.kind \in {"on", "off"} => q.todo \subseteq {NoticeOf(<<q.by, q.target>>)}
        /\ q.kind \in {"publish", "on", "off"} => Stands(q.target)
        /\ q.kind = "reflect" => IF q.stage = "write" THEN Hangs(q.target) ELSE Stands(q.target)
        /\ q.kind = "ripple" /\ q.todo # {} => Stands(q.target)

\* A request switches the mark p.
Switches(q, p) == q # Done /\ q.kind \in {"on", "off"} /\ <<q.by, q.target>> = p
Matches(p) == (p \in marks) <=> (NoticeOf(p) \in notices)
\* How far a switch has come: the mark is made, the notification not yet.
Halfway(q, p) ==
    IF q.todo = {} THEN Matches(p)
    ELSE q.stage = "notify" /\ q.todo = {NoticeOf(p)} /\ ((p \in marks) <=> (q.kind = "on"))

Excused(p) == p \in tangled \/ {p[2], Home(p[2])} \cap raced # {} \/ Owner(p[2]) = p[1]
Tallied ==
    \A p \in Toggled : Excused(p) \/
        /\ \A r, s \in Request : Switches(request[r], p) /\ Switches(request[s], p) => r = s
        /\ \A r \in Request : Switches(request[r], p) => Halfway(request[r], p)
        /\ (\A r \in Request : ~Switches(request[r], p)) => Matches(p)

FeedInv == FeedShape /\ NothingLoose /\ (\A r \in Request : Founded(request[r])) /\ Tallied

\* It holds of an empty feed.
LEMMA FeedInvInit == FeedInit => FeedInv
<1> SUFFICES ASSUME FeedInit PROVE FeedInv
    OBVIOUS
<1>1. FeedShape
    BY DEF FeedInit, FeedShape
<1>2. NothingLoose /\ \A r \in Request : Founded(request[r])
    BY DEF FeedInit, NothingLoose, Founded
<1>3. Tallied
    BY DEF FeedInit, Tallied, Switches, Matches
<1>4. QED
    BY <1>1, <1>2, <1>3 DEF FeedInv

-----------------------------------------------------------------------------
(* What steps leave standing. *)

\* Nothing is deleted.
Grows ==
    /\ echoes \subseteq echoes' /\ raced \subseteq raced'
    /\ \A f \in Reflection : /\ refl[f] = "live" => refl'[f] = "live"
                             /\ refl[f] # "absent" => refl'[f] # "absent"

LEMMA StandsStay ==
    ASSUME Grows, NEW t, Stands(t)
    PROVE  Stands(t)'
BY DEF Grows, Stands, Present

LEMMA HangsStay ==
    ASSUME Grows, NEW f, Hangs(f)
    PROVE  Hangs(f)'
BY DEF Grows, Hangs

LEMMA FoundedStay ==
    ASSUME Grows, NEW q, Founded(q)
    PROVE  Founded(q)'
<1>1. \A t : Stands(t) => Stands(t)'
    BY StandsStay
<1>2. \A f : Hangs(f) => Hangs(f)'
    BY HangsStay
<1>3. QED
    BY <1>1, <1>2 DEF Founded, NoticeOf, Notice, Owner

\* A request goes on, and what it writes stands.
LEMMA FoundationStep ==
    ASSUME FeedShape, NothingLoose, \A s \in Request : Founded(request[s]), Grows,
           NEW r \in Request, NEW q, request' = [request EXCEPT ![r] = q], Founded(q)',
           \A p \in (marks' \cup ripples') \ (marks \cup ripples) : Stands(p[2])',
           \A n \in notices' \ notices : Stands(n.about)',
           \A f \in Reflection : refl'[f] # "absent" /\ refl[f] = "absent" => Hangs(f)'
    PROVE  NothingLoose' /\ \A s \in Request : Founded(request[s])'
<1>1. \A t : Stands(t) => Stands(t)'
    BY StandsStay
<1>2. \A f : Hangs(f) => Hangs(f)'
    BY HangsStay
<1>3. \A p \in marks' \cup ripples' : Stands(p[2])'
    BY <1>1 DEF NothingLoose
<1>4. \A n \in notices' : Stands(n.about)'
    BY <1>1 DEF NothingLoose
<1>5. \A f \in Reflection : refl'[f] # "absent" => Hangs(f)'
    BY <1>2 DEF NothingLoose
<1>6. NothingLoose'
    BY <1>3, <1>4, <1>5 DEF NothingLoose
<1>7. ASSUME NEW s \in Request
      PROVE  Founded(request[s])'
    <2>1. CASE s = r
        <3>1. request'[s] = q
            BY <2>1 DEF FeedShape
        <3>2. QED
            BY <3>1
    <2>2. CASE s # r
        <3>1. request'[s] = request[s]
            BY <2>2 DEF FeedShape
        <3>2. Founded(request[s])
            OBVIOUS
        <3>3. QED
            BY <3>1, <3>2, FoundedStay
    <2>3. QED
        BY <2>1, <2>2
<1>8. QED
    BY <1>6, <1>7

\* A step that concerns no switch of a mark.
LEMMA TallyKept ==
    ASSUME Tallied, tangled \subseteq tangled', raced \subseteq raced',
           \A p \in Toggled : /\ p \in marks' <=> p \in marks
                              /\ NoticeOf(p) \in notices' <=> NoticeOf(p) \in notices,
           \A s \in Request : \/ request'[s] = request[s]
                              \/ \A p \in Toggled : ~Switches(request[s], p) /\ ~Switches(request'[s], p)
    PROVE  Tallied'
<1> SUFFICES ASSUME NEW p \in Toggled, ~Excused(p)'
             PROVE  /\ \A r, s \in Request : Switches(request'[r], p) /\ Switches(request'[s], p) => r = s
                    /\ \A r \in Request : Switches(request'[r], p) => Halfway(request[r], p)'
                    /\ (\A r \in Request : ~Switches(request'[r], p)) => Matches(p)'
    BY DEF Tallied, Switches
<1>1. ~Excused(p)
    BY DEF Excused
<1>2. \A s \in Request : Switches(request'[s], p) <=> Switches(request[s], p)
    OBVIOUS
<1>3. /\ \A r, s \in Request : Switches(request[r], p) /\ Switches(request[s], p) => r = s
      /\ \A r \in Request : Switches(request[r], p) => Halfway(request[r], p)
      /\ (\A r \in Request : ~Switches(request[r], p)) => Matches(p)
    BY <1>1 DEF Tallied
<1>4. Matches(p)' <=> Matches(p)
    BY DEF Matches, NoticeOf, Notice, Owner
<1>5. ASSUME NEW r \in Request, Switches(request'[r], p)
      PROVE  Halfway(request[r], p)'
    <2>1. request'[r] = request[r] /\ Switches(request[r], p)
        BY <1>5
    <2>2. Halfway(request[r], p)
        BY <1>3, <2>1
    <2>3. QED
        BY <1>4, <2>1, <2>2 DEF Halfway, Matches, NoticeOf, Notice, Owner
<1>6. QED
    BY <1>2, <1>3, <1>4, <1>5

\* A switch goes on, and is where it should be.
LEMMA TallyStep ==
    ASSUME FeedShape, Tallied, tangled \subseteq tangled', raced \subseteq raced',
           NEW r \in Request, NEW q, request' = [request EXCEPT ![r] = q],
           NEW m, \A p \in Toggled \ {m} : /\ p \in marks' <=> p \in marks
                                           /\ NoticeOf(p) \in notices' <=> NoticeOf(p) \in notices
                                           /\ ~Switches(request[r], p) /\ ~Switches(q, p),
           m \in Toggled /\ ~Excused(m)' =>
                /\ \A s \in Request \ {r} : ~Switches(request[s], m)
                /\ IF Switches(q, m) THEN Halfway(q, m)' ELSE Matches(m)'
    PROVE  Tallied'
<1>0. /\ request'[r] = q
      /\ \A s \in Request \ {r} : request'[s] = request[s]
    BY DEF FeedShape
<1> SUFFICES ASSUME NEW p \in Toggled, ~Excused(p)'
             PROVE  /\ \A v, s \in Request : Switches(request'[v], p) /\ Switches(request'[s], p) => v = s
                    /\ \A s \in Request : Switches(request'[s], p) => Halfway(request[s], p)'
                    /\ (\A s \in Request : ~Switches(request'[s], p)) => Matches(p)'
    BY DEF Tallied, Switches
<1>1. CASE p = m
    <2>1. \A s \in Request : Switches(request'[s], p) => s = r
        BY <1>0, <1>1
    <2>2. \A s \in Request : Switches(request'[s], p) => Halfway(request[s], p)'
        BY <1>0, <1>1, <2>1 DEF Halfway
    <2>3. (\A s \in Request : ~Switches(request'[s], p)) => Matches(p)'
        BY <1>0, <1>1
    <2>4. QED
        BY <2>1, <2>2, <2>3
<1>2. CASE p # m
    <2>1. ~Excused(p)
        BY DEF Excused
    <2>2. \A s \in Request : Switches(request'[s], p) <=> Switches(request[s], p)
        BY <1>0, <1>2
    <2>3. /\ \A v, s \in Request : Switches(request[v], p) /\ Switches(request[s], p) => v = s
          /\ \A s \in Request : Switches(request[s], p) => Halfway(request[s], p)
          /\ (\A s \in Request : ~Switches(request[s], p)) => Matches(p)
        BY <2>1 DEF Tallied
    <2>4. Matches(p)' <=> Matches(p)
        BY <1>2 DEF Matches, NoticeOf, Notice, Owner
    <2>5. ASSUME NEW s \in Request, Switches(request'[s], p)
          PROVE  Halfway(request[s], p)'
        <3>1. s # r /\ request'[s] = request[s] /\ Switches(request[s], p)
            BY <1>0, <1>2, <2>5
        <3>2. Halfway(request[s], p)
            BY <2>3, <3>1
        <3>3. QED
            BY <1>2, <2>4, <3>1, <3>2 DEF Halfway, Matches, NoticeOf, Notice, Owner
    <2>6. QED
        BY <2>2, <2>3, <2>4, <2>5
<1>3. QED
    BY <1>1, <1>2

-----------------------------------------------------------------------------
(* Each request. *)

LEMMA CreateEchoStep ==
    ASSUME FeedInv, NEW r \in Request, NEW e \in Echo, NEW u \in User, createEcho(r, e, {u})
    PROVE  FeedInv'
<1> DEFINE q == [stage |-> "notify", kind |-> "publish", by |-> AuthorOf[e], target |-> e,
                 todo |-> {Notice(v, AuthorOf[e], "mention", e) : v \in {u}}]
<1>1. /\ request[r] = Done /\ request' = [request EXCEPT ![r] = q]
      /\ echoes' = echoes \cup {e}
      /\ UNCHANGED <<refl, marks, ripples, notices, raced, tangled>>
    BY DEF createEcho
<1>2. AuthorOf[e] \in User /\ e \in Target
    BY PostsAssumption DEF Target
<1>3. q \in Publishing
    BY <1>2 DEF Publishing, Notices, Notice
<1>4. \A n \in q.todo : n.about = e /\ n.kind = "mention"
    BY DEF Notice
<1>5. q.kind = "publish" /\ q.target = e
    OBVIOUS
<1> HIDE DEF q
<1>6. FeedShape'
    BY <1>1, <1>3 DEF FeedInv, FeedShape
<1>7. Grows
    BY <1>1 DEF Grows
<1>8. Founded(q)'
    BY <1>1, <1>4, <1>5 DEF Founded, Stands, Present
<1>9. NothingLoose' /\ \A s \in Request : Founded(request[s])'
    BY <1>1, <1>7, <1>8, FoundationStep DEF FeedInv
<1>10. Tallied'
    <2>1. \A p : ~Switches(Done, p) /\ ~Switches(q, p)
        BY <1>5 DEF Switches
    <2>2. \A s \in Request : request'[s] = request[s] \/ (request[s] = Done /\ request'[s] = q)
        BY <1>1 DEF FeedInv, FeedShape
    <2>3. QED
        BY <1>1, <2>1, <2>2, TallyKept DEF FeedInv
<1>11. QED
    BY <1>6, <1>9, <1>10 DEF FeedInv

LEMMA LookUpParentStep ==
    ASSUME FeedInv, NEW r \in Request, NEW f \in Reflection, LookUpParent(r, f)
    PROVE  FeedInv'
<1> DEFINE parent == {q \in {ParentOf[f]} \cap Reflection : refl[q] = "live"}
           others == {EchoOf[f]} \ {e \in Echo : \E q \in parent : AuthorOf[q] = AuthorOf[e]}
<1>0. PICK todo : todo = {Notice(AuthorOf[p], AuthorOf[f], "reply", f) : p \in parent} \cup
                         {Notice(AuthorOf[e], AuthorOf[f], "reflect", f) : e \in others}
    OBVIOUS
<1> DEFINE q == [stage |-> "write", kind |-> "reflect", by |-> AuthorOf[f], target |-> f,
                 todo |-> todo]
<1>1. /\ request[r] = Done /\ request' = [request EXCEPT ![r] = q]
      /\ EchoOf[f] \in echoes /\ (ParentOf[f] \in Reflection => refl[ParentOf[f]] # "absent")
      /\ UNCHANGED <<echoes, refl, marks, ripples, notices, raced, tangled>>
    BY <1>0 DEF LookUpParent
<1>2. /\ AuthorOf[f] \in User /\ f \in Target
      /\ \A p \in parent : AuthorOf[p] \in User
      /\ \A e \in others : AuthorOf[e] \in User
    BY PostsAssumption DEF Target
<1> HIDE DEF parent, others
<1>3. \A n \in todo : n \in Notices /\ n.about = f /\ n.kind \in {"reply", "reflect"}
    BY <1>0, <1>2 DEF Notices, Notice
<1>4. q \in Reflecting
    BY <1>2, <1>3 DEF Reflecting
<1>5. q.kind = "reflect" /\ q.stage = "write" /\ q.target = f /\ q.todo = todo
    OBVIOUS
<1> HIDE DEF q
<1>6. FeedShape'
    BY <1>1, <1>4 DEF FeedInv, FeedShape
<1>7. Grows
    BY <1>1 DEF Grows
<1>8. Founded(q)'
    BY <1>1, <1>3, <1>5 DEF Founded, Hangs
<1>9. NothingLoose' /\ \A s \in Request : Founded(request[s])'
    BY <1>1, <1>7, <1>8, FoundationStep DEF FeedInv
<1>10. Tallied'
    <2>1. \A p : ~Switches(Done, p) /\ ~Switches(q, p)
        BY <1>5 DEF Switches
    <2>2. \A s \in Request : request'[s] = request[s] \/ (request[s] = Done /\ request'[s] = q)
        BY <1>1 DEF FeedInv, FeedShape
    <2>3. QED
        BY <1>1, <2>1, <2>2, TallyKept DEF FeedInv
<1>11. QED
    BY <1>6, <1>9, <1>10 DEF FeedInv

\* What a request can be, by its kind and stage.
LEMMA RequestKinds ==
    ASSUME FeedShape, NEW r \in Request
    PROVE  /\ request[r].stage # "none" <=> request[r] # Done
           /\ request[r].stage \in {"none", "write", "copy", "notify"}
           /\ request[r] # Done => request[r].todo \in SUBSET Notices /\ request[r].by \in User
           /\ request[r] # Done /\ request[r].kind \in {"on", "off"} => request[r] \in Toggles
           /\ request[r] # Done /\ request[r].kind = "reflect" => request[r] \in Reflecting
           /\ request[r] # Done /\ request[r].kind = "ripple" => request[r] \in Rippling
           /\ request[r].stage = "copy" => request[r] \in Rippling
<1>1. request[r] \in {Done} \cup Publishing \cup Reflecting \cup Toggles \cup Rippling
    BY DEF FeedShape
<1>2. QED
    BY <1>1 DEF Done, Publishing, Reflecting, Toggles, Rippling

\* Changing how far a request is keeps the rest of it.
LEMMA StageChanged ==
    ASSUME FeedShape, NEW r \in Request, request[r] # Done,
           NEW q, \/ q = [request[r] EXCEPT !.stage = "notify"]
                  \/ request[r] \in Rippling /\ q = [request[r] EXCEPT !.stage = "copy"]
    PROVE  /\ q \in Publishing \cup Reflecting \cup Toggles \cup Rippling
           /\ q # Done /\ q.kind = request[r].kind /\ q.by = request[r].by
           /\ q.target = request[r].target /\ q.todo = request[r].todo
           /\ q.stage \in {"notify", "copy"}
           /\ q = [request[r] EXCEPT !.stage = "notify"] => q.stage = "notify"
<1>1. request[r] \in Publishing \cup Reflecting \cup Toggles \cup Rippling
    BY DEF FeedShape
<1>2. CASE request[r] \in Publishing
    BY <1>2 DEF Publishing, Done, Rippling
<1>3. CASE request[r] \in Reflecting
    BY <1>3 DEF Reflecting, Done, Rippling
<1>4. CASE request[r] \in Toggles
    BY <1>4 DEF Toggles, Done, Rippling
<1>5. CASE request[r] \in Rippling
    BY <1>5 DEF Rippling, Done
<1>6. QED
    BY <1>1, <1>2, <1>3, <1>4, <1>5

LEMMA AddReflectionStep ==
    ASSUME FeedInv, NEW r \in Request, addReflection(r)
    PROVE  FeedInv'
<1>0. PICK f, q : f = request[r].target /\ q = [request[r] EXCEPT !.stage = "notify"]
    OBVIOUS
<1>1. /\ request[r].stage = "write" /\ request[r].kind = "reflect"
      /\ UNCHANGED <<echoes, marks, ripples, notices, raced, tangled>>
    BY DEF addReflection
<1>2. request[r] # Done /\ request[r] \in Reflecting /\ f \in Reflection
    BY <1>0, <1>1, RequestKinds DEF FeedInv, Reflecting
<1>3. Founded(request[r])
    BY DEF FeedInv
<1>4. Hangs(f)
    BY <1>0, <1>1, <1>2, <1>3 DEF Founded
<1>5. /\ q \in Publishing \cup Reflecting \cup Toggles \cup Rippling
      /\ q # Done /\ q.kind = "reflect" /\ q.target = f /\ q.todo = request[r].todo
      /\ q.stage = "notify"
    BY <1>0, <1>1, <1>2, StageChanged DEF FeedInv
<1>6. \/ /\ refl[f] = "absent" /\ refl' = [refl EXCEPT ![f] = "live"]
         /\ request' = [request EXCEPT ![r] = q]
      \/ refl' = refl /\ request' = [request EXCEPT ![r] = Done]
    BY <1>0 DEF addReflection
<1>7. FeedShape' /\ Grows
    BY <1>1, <1>2, <1>5, <1>6 DEF FeedInv, FeedShape, Grows
<1>8. Tallied'
    <2>1. \A p : ~Switches(Done, p) /\ ~Switches(q, p) /\ ~Switches(request[r], p)
        BY <1>1, <1>5 DEF Switches
    <2>2. \A s \in Request : \/ request'[s] = request[s]
                             \/ s = r /\ request'[s] \in {q, Done}
        BY <1>6 DEF FeedInv, FeedShape
    <2>3. QED
        BY <1>1, <2>1, <2>2, TallyKept DEF FeedInv
<1>9. CASE refl' = refl /\ request' = [request EXCEPT ![r] = Done]
    <2>1. Founded(Done)'
        BY DEF Founded
    <2>2. NothingLoose' /\ \A s \in Request : Founded(request[s])'
        BY <1>1, <1>7, <1>9, <2>1, FoundationStep DEF FeedInv
    <2>3. QED
        BY <1>7, <1>8, <2>2 DEF FeedInv
<1>10. CASE /\ refl[f] = "absent" /\ refl' = [refl EXCEPT ![f] = "live"]
            /\ request' = [request EXCEPT ![r] = q]
    <2>1. refl'[f] = "live"
        BY <1>2, <1>10 DEF FeedInv, FeedShape
    <2>2. Founded(q)'
        BY <1>0, <1>2, <1>3, <1>5, <2>1 DEF Founded, Stands, Present
    <2>3. \A g \in Reflection : refl'[g] # "absent" /\ refl[g] = "absent" => g = f
        BY <1>10 DEF FeedInv, FeedShape
    <2>4. Hangs(f)'
        BY <1>4, <1>7, HangsStay
    <2>5. \A g \in Reflection : refl'[g] # "absent" /\ refl[g] = "absent" => Hangs(g)'
        BY <2>3, <2>4 DEF Hangs
    <2>6. NothingLoose' /\ \A s \in Request : Founded(request[s])'
        BY <1>1, <1>7, <1>10, <2>2, <2>5, FoundationStep DEF FeedInv
    <2>7. QED
        BY <1>7, <1>8, <2>6 DEF FeedInv
<1>11. QED
    BY <1>6, <1>9, <1>10

LEMMA LookUpTargetStep ==
    ASSUME FeedInv, NEW r \in Request, NEW u \in User, NEW t \in Target, NEW k \in {"on", "off"},
           LookUpTarget(r, u, t, k)
    PROVE  FeedInv'
<1> DEFINE q == [stage |-> "write", kind |-> k, by |-> u, target |-> t, todo |-> {}]
<1>1. /\ request[r] = Done /\ request' = [request EXCEPT ![r] = q] /\ Present(t)
      /\ tangled' = IF Toggling(u, t) THEN tangled \cup {<<u, t>>} ELSE tangled
      /\ UNCHANGED <<echoes, refl, marks, ripples, notices, raced>>
    BY DEF LookUpTarget
<1>2. q \in Toggles
    BY DEF Toggles
<1>3. /\ q.kind = k /\ q.stage = "write" /\ q.target = t /\ q.by = u /\ q.todo = {}
      /\ q.stage # Done.stage
    BY DEF Done
<1> HIDE DEF q
<1>4. FeedShape'
    BY <1>1, <1>2 DEF FeedInv, FeedShape
<1>5. Grows
    BY <1>1 DEF Grows
<1>6. Founded(q)'
    BY <1>1, <1>3 DEF Founded, Stands, Present
<1>7. NothingLoose' /\ \A s \in Request : Founded(request[s])'
    BY <1>1, <1>5, <1>6, FoundationStep DEF FeedInv
<1>8. Tallied'
    <2>1. \A p : ~Switches(Done, p) /\ (Switches(q, p) => p = <<u, t>>)
        BY <1>3 DEF Switches
    <2>2. ASSUME <<u, t>> \in Toggled, ~Excused(<<u, t>>)'
          PROVE  /\ \A s \in Request \ {r} : ~Switches(request[s], <<u, t>>)
                 /\ IF Switches(q, <<u, t>>) THEN Halfway(q, <<u, t>>)' ELSE Matches(<<u, t>>)'
        <3>1. ~Toggling(u, t) /\ ~Excused(<<u, t>>)
            BY <1>1, <2>2 DEF Excused
        <3>2. \A s \in Request : ~Switches(request[s], <<u, t>>)
            <4>1. ASSUME NEW s \in Request, Switches(request[s], <<u, t>>)
                  PROVE  FALSE
                <5>1. /\ request[s] # Done /\ request[s].kind \in {"on", "off"}
                      /\ request[s].by = u /\ request[s].target = t
                    BY <4>1 DEF Switches
                <5>2. QED
                    BY <3>1, <5>1 DEF Toggling
            <4>2. QED
                BY <4>1
        <3>3. Matches(<<u, t>>)
            BY <2>2, <3>1, <3>2 DEF FeedInv, Tallied
        <3>4. Matches(<<u, t>>)'
            BY <1>1, <3>3 DEF Matches, NoticeOf, Notice, Owner
        <3>5. Halfway(q, <<u, t>>)'
            BY <1>3, <3>4 DEF Halfway, Matches, NoticeOf, Notice, Owner
        <3>6. QED
            BY <3>2, <3>4, <3>5
    <2>3. tangled \subseteq tangled' /\ raced \subseteq raced'
        BY <1>1
    <2>4. QED
        BY <1>1, <2>1, <2>2, <2>3, TallyStep DEF FeedInv
<1>9. QED
    BY <1>4, <1>7, <1>8 DEF FeedInv

\* What is known of the mark m that the request r switches.
SwitchFacts(r, m) ==
    /\ request[r] \in Toggles /\ m \in User \X Target
    /\ m[1] = request[r].by /\ m[2] = request[r].target
    /\ Switches(request[r], m) /\ \A p : Switches(request[r], p) => p = m
    /\ m \in Toggled /\ ~Excused(m) =>
         /\ \A s \in Request \ {r} : ~Switches(request[s], m)
         /\ Halfway(request[r], m)
    /\ \A p : p # m /\ p \in User \X Target => NoticeOf(p) # NoticeOf(m)

LEMMA SwitchKnown ==
    ASSUME FeedInv, NEW r \in Request, request[r] # Done, request[r].kind \in {"on", "off"},
           NEW m, m = <<request[r].by, request[r].target>>
    PROVE  SwitchFacts(r, m)
<1>1. request[r] \in Toggles
    BY RequestKinds DEF FeedInv
<1>2. m \in User \X Target /\ m[1] = request[r].by /\ m[2] = request[r].target
    BY <1>1 DEF Toggles
<1>3. Switches(request[r], m) /\ \A p : Switches(request[r], p) => p = m
    BY DEF Switches
<1>4. ASSUME m \in Toggled, ~Excused(m)
      PROVE  /\ \A s \in Request \ {r} : ~Switches(request[s], m)
             /\ Halfway(request[r], m)
    BY <1>3, <1>4 DEF FeedInv, Tallied
<1>5. ASSUME NEW p \in User \X Target, NoticeOf(p) = NoticeOf(m)
      PROVE  p = m
    <2>1. p[1] = m[1] /\ p[2] = m[2]
        BY <1>5 DEF NoticeOf, Notice
    <2>2. QED
        BY <1>2, <2>1
<1>6. QED
    BY <1>1, <1>2, <1>3, <1>4, <1>5 DEF SwitchFacts

LEMMA SetReactionStep ==
    ASSUME FeedInv, NEW r \in Request, setReaction(r)
    PROVE  FeedInv'
<1>0. PICK m, kind, target : /\ m = <<request[r].by, request[r].target>>
                             /\ kind = request[r].kind /\ target = request[r].target
    OBVIOUS
<1>1. /\ request[r].stage = "write" /\ kind \in {"on", "off"}
      /\ marks' = IF kind = "on" THEN marks \cup {m} ELSE marks \ {m}
      /\ UNCHANGED <<echoes, refl, ripples, notices, raced, tangled>>
    BY <1>0 DEF setReaction
<1>2. request[r] # Done
    BY <1>1, RequestKinds DEF FeedInv
<1>3. /\ request[r] \in Toggles /\ m \in User \X Target
      /\ m[1] = request[r].by /\ m[2] = request[r].target
      /\ \A p : Switches(request[r], p) => p = m
      /\ m \in Toggled /\ ~Excused(m) =>
           /\ \A s \in Request \ {r} : ~Switches(request[s], m)
           /\ Halfway(request[r], m)
    BY <1>0, <1>1, <1>2, SwitchKnown DEF SwitchFacts
<1>4. PICK todo : todo = IF kind = "off" \/ target \notin User \/ m \notin marks
                         THEN {Notice(Owner(target), request[r].by, "like", target)} ELSE {}
    OBVIOUS
<1>5. PICK q : q = [request[r] EXCEPT !.stage = "notify", !.todo = todo]
    OBVIOUS
<1>6. request' = [request EXCEPT ![r] = q]
    BY <1>0, <1>4, <1>5 DEF setReaction, FeedInv, FeedShape
<1>7. /\ todo \in {{NoticeOf(m)}, {}}
      /\ todo = {} => kind = "on" /\ m \in marks
    BY <1>0, <1>1, <1>3, <1>4 DEF NoticeOf
<1>8. Owner(target) \in User
    BY <1>0, <1>3, PostsAssumption DEF Owner, Toggles, Target
<1>9. NoticeOf(m) \in Notices /\ NoticeOf(m).about = target
    BY <1>0, <1>3, <1>8 DEF NoticeOf, Notice, Notices, Toggles
<1>10. /\ q \in Toggles /\ q # Done /\ q.stage = "notify" /\ q.kind = kind /\ q.todo = todo
       /\ q.target = target /\ q.by = m[1]
    BY <1>0, <1>3, <1>5, <1>7, <1>9 DEF Toggles, Done
<1>11. FeedShape'
    BY <1>1, <1>3, <1>6, <1>10 DEF FeedInv, FeedShape
<1>12. Grows
    BY <1>1 DEF Grows
<1>13. Stands(target)
    BY <1>0, <1>1, <1>2 DEF FeedInv, Founded
<1>14. Stands(target)'
    BY <1>12, <1>13, StandsStay
<1>15. Founded(q)'
    BY <1>0, <1>1, <1>3, <1>7, <1>9, <1>10, <1>14 DEF Founded, NoticeOf, Notice, Owner
<1>16. \A p \in (marks' \cup ripples') \ (marks \cup ripples) : Stands(p[2])'
    <2>1. \A p \in (marks' \cup ripples') \ (marks \cup ripples) : p[2] = target
        BY <1>0, <1>1, <1>3
    <2>2. QED
        BY <1>14, <2>1 DEF Stands, Present
<1>17. NothingLoose' /\ \A s \in Request : Founded(request[s])'
    BY <1>1, <1>6, <1>12, <1>15, <1>16, FoundationStep DEF FeedInv
<1>18. Tallied'
    <2>1. \A p : Switches(q, p) => p = m
        BY <1>0, <1>3, <1>10 DEF Switches
    <2>2. ASSUME m \in Toggled, ~Excused(m)'
          PROVE  /\ \A s \in Request \ {r} : ~Switches(request[s], m)
                 /\ IF Switches(q, m) THEN Halfway(q, m)' ELSE Matches(m)'
        <3>1. ~Excused(m)
            BY <1>1, <2>2 DEF Excused
        <3>2. Matches(m)
            BY <1>1, <1>3, <2>2, <3>1 DEF Halfway
        <3>3. Switches(q, m)
            BY <1>0, <1>1, <1>3, <1>10 DEF Switches
        <3>4. CASE todo = {}
            <4>1. marks' = marks \cup {m} /\ m \in marks
                BY <1>1, <1>7, <3>4
            <4>2. Matches(m)'
                BY <1>1, <3>2, <4>1 DEF Matches, NoticeOf, Notice, Owner
            <4>3. Halfway(q, m)'
                BY <1>10, <3>4, <4>2 DEF Halfway
            <4>4. QED
                BY <1>3, <2>2, <3>1, <3>3, <4>3
        <3>5. CASE todo = {NoticeOf(m)}
            <4>1. m \in marks' <=> kind = "on"
                BY <1>1
            <4>2. Halfway(q, m)'
                BY <1>10, <3>5, <4>1 DEF Halfway, NoticeOf, Notice, Owner
            <4>3. QED
                BY <1>3, <2>2, <3>1, <3>3, <4>2
        <3>6. QED
            BY <1>7, <3>4, <3>5
    <2>3. \A p \in Toggled \ {m} : /\ p \in marks' <=> p \in marks
                                   /\ NoticeOf(p) \in notices' <=> NoticeOf(p) \in notices
                                   /\ ~Switches(request[r], p) /\ ~Switches(q, p)
        BY <1>1, <1>3, <2>1
    <2>4. tangled \subseteq tangled' /\ raced \subseteq raced'
        BY <1>1
    <2>5. QED
        BY <1>6, <2>2, <2>3, <2>4, TallyStep DEF FeedInv
<1>19. QED
    BY <1>11, <1>17, <1>18 DEF FeedInv

LEMMA LookUpRippleStep ==
    ASSUME FeedInv, NEW r \in Request, NEW u \in User, NEW e \in Echo, NEW copy \in Echo,
           LookUpRipple(r, u, e, copy)
    PROVE  FeedInv'
<1>0. PICK todo : todo = IF e \in echoes THEN {Notice(AuthorOf[e], u, "ripple", e)} ELSE {}
    OBVIOUS
<1> DEFINE q == [stage |-> "write", kind |-> "ripple", by |-> u, target |-> e, copy |-> copy,
                 todo |-> todo]
<1>1. /\ request[r] = Done /\ request' = [request EXCEPT ![r] = q]
      /\ UNCHANGED <<echoes, refl, marks, ripples, notices, raced, tangled>>
    BY <1>0 DEF LookUpRipple
<1>2. AuthorOf[e] \in User /\ e \in Target
    BY PostsAssumption DEF Target
<1>3. \A n \in todo : n \in Notices /\ n.about = e /\ n.kind = "ripple"
    BY <1>0, <1>2 DEF Notices, Notice
<1>4. q \in Rippling
    BY <1>3 DEF Rippling
<1>5. q.kind = "ripple" /\ q.target = e /\ q.todo = todo
    OBVIOUS
<1> HIDE DEF q
<1>6. FeedShape'
    BY <1>1, <1>4 DEF FeedInv, FeedShape
<1>7. Grows
    BY <1>1 DEF Grows
<1>8. Founded(q)'
    BY <1>0, <1>1, <1>3, <1>5 DEF Founded, Stands, Present
<1>9. NothingLoose' /\ \A s \in Request : Founded(request[s])'
    BY <1>1, <1>7, <1>8, FoundationStep DEF FeedInv
<1>10. Tallied'
    <2>1. \A p : ~Switches(Done, p) /\ ~Switches(q, p)
        BY <1>5 DEF Switches
    <2>2. \A s \in Request : request'[s] = request[s] \/ (request[s] = Done /\ request'[s] = q)
        BY <1>1 DEF FeedInv, FeedShape
    <2>3. QED
        BY <1>1, <2>1, <2>2, TallyKept DEF FeedInv
<1>11. QED
    BY <1>6, <1>9, <1>10 DEF FeedInv

\* A rippling goes on to its next stage.
LEMMA RippleGoesOn ==
    ASSUME FeedInv, NEW r \in Request, request[r] \in Rippling,
           NEW q, \/ q = [request[r] EXCEPT !.stage = "notify"]
                  \/ q = [request[r] EXCEPT !.stage = "copy"],
           request' = [request EXCEPT ![r] = q],
           Grows, UNCHANGED <<refl, marks, notices, raced, tangled>>,
           echoes' \subseteq Echo, ripples' \subseteq User \X Echo,
           \A p \in ripples' \ ripples : Stands(p[2])
    PROVE  FeedInv'
<1>1. request[r] # Done /\ request[r].kind = "ripple"
    BY DEF Rippling, Done
<1>2. /\ q \in Publishing \cup Reflecting \cup Toggles \cup Rippling /\ q # Done
      /\ q.kind = "ripple" /\ q.target = request[r].target /\ q.todo = request[r].todo
    BY <1>1, StageChanged DEF FeedInv
<1>3. FeedShape'
    BY <1>2 DEF FeedInv, FeedShape
<1>4. Founded(request[r])
    BY DEF FeedInv
<1>5. Founded(q)
    BY <1>1, <1>2, <1>4 DEF Founded
<1>6. Founded(q)'
    BY <1>5, FoundedStay
<1>7. \A p \in (marks' \cup ripples') \ (marks \cup ripples) : Stands(p[2])'
    <2>1. \A t : Stands(t) => Stands(t)'
        BY StandsStay
    <2>2. QED
        BY <2>1
<1>8. NothingLoose' /\ \A s \in Request : Founded(request[s])'
    BY <1>6, <1>7, FoundationStep DEF FeedInv
<1>9. Tallied'
    <2>1. \A p : ~Switches(request[r], p) /\ ~Switches(q, p)
        BY <1>1, <1>2 DEF Switches
    <2>2. \A s \in Request : request'[s] = request[s] \/ (s = r /\ request'[s] = q)
        BY DEF FeedInv, FeedShape
    <2>3. QED
        BY <2>1, <2>2, TallyKept DEF FeedInv
<1>10. QED
    BY <1>3, <1>8, <1>9 DEF FeedInv

LEMMA AddRippleStep ==
    ASSUME FeedInv, NEW r \in Request, addRipple(r)
    PROVE  FeedInv'
<1>0. PICK q : q = [request[r] EXCEPT !.stage = "copy"]
    OBVIOUS
<1>1. /\ request[r].stage = "write" /\ request[r].kind = "ripple"
      /\ ripples' = IF request[r].todo = {} THEN ripples
                    ELSE ripples \cup {<<request[r].by, request[r].target>>}
      /\ UNCHANGED <<echoes, refl, marks, notices, raced, tangled>>
    BY DEF addRipple
<1>2. request[r] # Done /\ request[r] \in Rippling
    BY <1>1, RequestKinds DEF FeedInv
<1>3. request' = [request EXCEPT ![r] = q]
    BY <1>0 DEF addRipple, FeedInv, FeedShape
<1>4. request[r].todo # {} => Stands(request[r].target)
    BY <1>1, <1>2 DEF FeedInv, Founded
<1>5. request[r].by \in User /\ request[r].target \in Echo
    BY <1>2 DEF Rippling
<1>6. ripples' \subseteq User \X Echo /\ \A p \in ripples' \ ripples : Stands(p[2])
    BY <1>1, <1>4, <1>5 DEF FeedInv, FeedShape
<1>7. Grows /\ echoes' \subseteq Echo
    BY <1>1 DEF Grows, FeedInv, FeedShape
<1>8. QED
    BY <1>0, <1>1, <1>2, <1>3, <1>6, <1>7, RippleGoesOn

LEMMA CreateRippleEchoStep ==
    ASSUME FeedInv, NEW r \in Request, createRippleEcho(r)
    PROVE  FeedInv'
<1>0. PICK q : q = [request[r] EXCEPT !.stage = "notify"]
    OBVIOUS
<1>1. /\ request[r].stage = "copy" /\ echoes' = echoes \cup {request[r].copy}
      /\ UNCHANGED <<refl, marks, ripples, notices, raced, tangled>>
    BY DEF createRippleEcho
<1>2. request[r] \in Rippling
    BY <1>1, RequestKinds DEF FeedInv
<1>3. request' = [request EXCEPT ![r] = q]
    BY <1>0 DEF createRippleEcho, FeedInv, FeedShape
<1>4. request[r].copy \in Echo
    BY <1>2 DEF Rippling
<1>5. Grows /\ echoes' \subseteq Echo /\ ripples' \subseteq User \X Echo
    BY <1>1, <1>4 DEF Grows, FeedInv, FeedShape
<1>6. QED
    BY <1>0, <1>1, <1>2, <1>3, <1>5, RippleGoesOn

\* A request with fewer notifications to store.
LEMMA TodoChanged ==
    ASSUME FeedShape, NEW r \in Request, request[r] # Done, NEW n,
           NEW q, q = [request[r] EXCEPT !.todo = @ \ {n}]
    PROVE  /\ q \in Publishing \cup Reflecting \cup Toggles \cup Rippling
           /\ q # Done /\ q.kind = request[r].kind /\ q.by = request[r].by
           /\ q.target = request[r].target /\ q.todo = request[r].todo \ {n}
           /\ q.stage = request[r].stage
<1>1. request[r] \in Publishing \cup Reflecting \cup Toggles \cup Rippling
    BY DEF FeedShape
<1>2. CASE request[r] \in Publishing
    BY <1>2 DEF Publishing, Done
<1>3. CASE request[r] \in Reflecting
    BY <1>3 DEF Reflecting, Done
<1>4. CASE request[r] \in Toggles
    BY <1>4 DEF Toggles, Done
<1>5. CASE request[r] \in Rippling
    BY <1>5 DEF Rippling, Done
<1>6. QED
    BY <1>1, <1>2, <1>3, <1>4, <1>5

LEMMA NotifyStep ==
    ASSUME FeedInv, NEW r \in Request, NEW n \in request[r].todo, notify(r, n)
    PROVE  FeedInv'
<1>0. PICK q : q = [request[r] EXCEPT !.todo = @ \ {n}]
    OBVIOUS
<1>1. /\ request[r].stage = "notify"
      /\ \/ request[r].kind = "off" /\ notices' = notices \ {n}
         \/ request[r].kind # "off" /\ n.to # n.from /\ notices' = notices \cup {n}
         \/ request[r].kind # "off" /\ n.to = n.from /\ notices' = notices
      /\ UNCHANGED <<echoes, refl, marks, ripples, raced, tangled>>
    BY DEF notify
<1>2. request[r] # Done /\ request[r].todo \in SUBSET Notices
    BY <1>1, RequestKinds DEF FeedInv
<1>3. request' = [request EXCEPT ![r] = q]
    BY <1>0 DEF notify, FeedInv, FeedShape
<1>4. /\ q \in Publishing \cup Reflecting \cup Toggles \cup Rippling
      /\ q # Done /\ q.kind = request[r].kind /\ q.by = request[r].by
      /\ q.target = request[r].target /\ q.todo = request[r].todo \ {n}
      /\ q.stage = request[r].stage
    BY <1>0, <1>2, TodoChanged DEF FeedInv
<1>5. FeedShape'
    BY <1>1, <1>2, <1>3, <1>4 DEF FeedInv, FeedShape
<1>6. Grows
    BY <1>1 DEF Grows
<1>7. Founded(request[r])
    BY DEF FeedInv
<1>8. Founded(q) /\ Stands(n.about) /\ (n.kind = "like" => request[r].kind \in {"on", "off"})
    <2>1. Founded(q)
        BY <1>1, <1>2, <1>4, <1>7 DEF Founded
    <2>2. /\ n.about = request[r].target /\ request[r].todo # {}
          /\ request[r].stage # "write"
          /\ (n.kind = "like" => request[r].kind \in {"on", "off"})
        BY <1>1, <1>2, <1>7 DEF Founded
    <2>3. request[r].kind \in {"publish", "on", "off", "reflect", "ripple"}
        BY <1>2 DEF FeedInv, FeedShape, Publishing, Reflecting, Toggles, Rippling
    <2>4. Stands(request[r].target)
        BY <1>2, <1>7, <2>2, <2>3 DEF Founded
    <2>5. QED
        BY <2>1, <2>2, <2>4
<1>9. Founded(q)' /\ Stands(n.about)'
    BY <1>6, <1>8, FoundedStay, StandsStay
<1>10. \A x \in notices' \ notices : Stands(x.about)'
    <2>1. \A x \in notices' \ notices : x = n
        BY <1>1
    <2>2. QED
        BY <1>9, <2>1
<1>11. NothingLoose' /\ \A s \in Request : Founded(request[s])'
    BY <1>1, <1>3, <1>6, <1>9, <1>10, FoundationStep DEF FeedInv
<1>12. CASE request[r].kind \in {"on", "off"}
    <2>0. PICK m : m = <<request[r].by, request[r].target>>
        OBVIOUS
    <2>1. /\ request[r] \in Toggles /\ m \in User \X Target
          /\ m[1] = request[r].by /\ m[2] = request[r].target
          /\ \A p : Switches(request[r], p) => p = m
          /\ m \in Toggled /\ ~Excused(m) =>
                /\ \A s \in Request \ {r} : ~Switches(request[s], m)
                /\ Halfway(request[r], m)
          /\ \A p : p # m /\ p \in User \X Target => NoticeOf(p) # NoticeOf(m)
        BY <1>2, <1>12, <2>0, SwitchKnown DEF SwitchFacts
    <2>2. Switches(q, m) /\ \A p : Switches(q, p) => p = m
        BY <1>4, <1>12, <2>0 DEF Switches
    <2>3. ASSUME m \in Toggled, ~Excused(m)'
          PROVE  /\ \A s \in Request \ {r} : ~Switches(request[s], m)
                 /\ IF Switches(q, m) THEN Halfway(q, m)' ELSE Matches(m)'
        <3>1. ~Excused(m)
            BY <1>1, <2>3 DEF Excused
        <3>2. Halfway(request[r], m)
            BY <2>1, <2>3, <3>1
        <3>3. n = NoticeOf(m) /\ q.todo = {} /\ (m \in marks <=> request[r].kind = "on")
            BY <1>4, <3>2 DEF Halfway
        <3>4. n.to # n.from
            BY <2>1, <3>1, <3>3 DEF Excused, NoticeOf, Notice
        <3>5. NoticeOf(m) \in notices' <=> request[r].kind # "off"
            BY <1>1, <3>3, <3>4
        <3>6. Matches(m)'
            BY <1>1, <1>12, <3>3, <3>5 DEF Matches, NoticeOf, Notice, Owner
        <3>7. Halfway(q, m)'
            BY <3>3, <3>6 DEF Halfway
        <3>8. QED
            BY <2>1, <2>2, <2>3, <3>1, <3>7
    <2>4. ASSUME NEW p \in Toggled \ {m}
          PROVE  NoticeOf(p) \in notices' <=> NoticeOf(p) \in notices
        <3>1. n = NoticeOf(m)
            BY <1>2, <1>7, <1>12, <2>0 DEF Founded
        <3>2. NoticeOf(p) # n
            BY <2>1, <3>1, WhispersAssumption
        <3>3. QED
            BY <1>1, <3>2
    <2>5. tangled \subseteq tangled' /\ raced \subseteq raced'
        BY <1>1
    <2>6. Tallied'
        BY <1>1, <1>3, <2>1, <2>2, <2>3, <2>4, <2>5, TallyStep DEF FeedInv
    <2>7. QED
        BY <1>5, <1>11, <2>6 DEF FeedInv
<1>13. CASE request[r].kind \notin {"on", "off"}
    <2>1. n.kind # "like" /\ \A p : NoticeOf(p) # n
        BY <1>8, <1>13 DEF NoticeOf, Notice
    <2>2. \A p : ~Switches(request[r], p) /\ ~Switches(q, p)
        BY <1>4, <1>13 DEF Switches
    <2>3. \A s \in Request : request'[s] = request[s] \/ (s = r /\ request'[s] = q)
        BY <1>3 DEF FeedInv, FeedShape
    <2>4. \A p : NoticeOf(p) \in notices' <=> NoticeOf(p) \in notices
        BY <1>1, <2>1
    <2>5. Tallied'
        BY <1>1, <2>2, <2>3, <2>4, TallyKept DEF FeedInv
    <2>6. QED
        BY <1>5, <1>11, <2>5 DEF FeedInv
<1>14. QED
    BY <1>12, <1>13

\* A request is over: a switch is at its end, or tangled.
LEMMA RequestEnds ==
    ASSUME FeedInv, NEW r \in Request, request[r] # Done, request' = [request EXCEPT ![r] = Done],
           UNCHANGED <<echoes, refl, marks, ripples, notices, raced>>, tangled \subseteq tangled',
           request[r].kind \in {"on", "off"} =>
                \/ request[r].todo = {}
                \/ <<request[r].by, request[r].target>> \in tangled'
    PROVE  FeedInv'
<1>1. FeedShape' /\ Grows
    BY DEF FeedInv, FeedShape, Grows
<1>2. Founded(Done)'
    BY DEF Founded
<1>3. NothingLoose' /\ \A s \in Request : Founded(request[s])'
    BY <1>1, <1>2, FoundationStep DEF FeedInv
<1>4. \A p : ~Switches(Done, p)
    BY DEF Switches
<1>5. CASE request[r].kind \in {"on", "off"}
    <2>0. PICK m : m = <<request[r].by, request[r].target>>
        OBVIOUS
    <2>known. SwitchFacts(r, m)
        BY <1>5, <2>0, SwitchKnown
    <2>1. /\ request[r] \in Toggles /\ m \in User \X Target
          /\ m[1] = request[r].by /\ m[2] = request[r].target
          /\ Switches(request[r], m) /\ \A p : Switches(request[r], p) => p = m
          /\ m \in Toggled /\ ~Excused(m) =>
                /\ \A s \in Request \ {r} : ~Switches(request[s], m)
                /\ Halfway(request[r], m)
          /\ \A p : p # m /\ p \in User \X Target => NoticeOf(p) # NoticeOf(m)
        BY <2>known DEF SwitchFacts
    <2>2. ASSUME m \in Toggled, ~Excused(m)'
          PROVE  /\ \A s \in Request \ {r} : ~Switches(request[s], m)
                 /\ IF Switches(Done, m) THEN Halfway(Done, m)' ELSE Matches(m)'
        <3>1. ~Excused(m) /\ request[r].todo = {}
            BY <1>5, <2>0, <2>2 DEF Excused
        <3>2. Matches(m)
            BY <2>1, <2>2, <3>1 DEF Halfway
        <3>3. Matches(m)'
            BY <3>2 DEF Matches, NoticeOf, Notice, Owner
        <3>4. QED
            BY <1>4, <2>1, <2>2, <3>1, <3>3
    <2>3. raced \subseteq raced'
        OBVIOUS
    <2>4. Tallied'
        BY <1>4, <2>1, <2>2, <2>3, TallyStep DEF FeedInv
    <2>5. QED
        BY <1>1, <1>3, <2>4 DEF FeedInv
<1>6. CASE request[r].kind \notin {"on", "off"}
    <2>1. \A p : ~Switches(request[r], p)
        BY <1>6 DEF Switches
    <2>2. \A s \in Request : request'[s] = request[s] \/ (s = r /\ request'[s] = Done)
        BY DEF FeedInv, FeedShape
    <2>3. raced \subseteq raced'
        OBVIOUS
    <2>4. Tallied'
        BY <1>4, <2>1, <2>2, <2>3, TallyKept DEF FeedInv
    <2>5. QED
        BY <1>1, <1>3, <2>4 DEF FeedInv
<1>7. QED
    BY <1>5, <1>6

LEMMA ReplyStep ==
    ASSUME FeedInv, NEW r \in Request, Reply(r)
    PROVE  FeedInv'
<1>1. /\ request[r].stage = "notify" /\ request[r].todo = {}
      /\ request' = [request EXCEPT ![r] = Done]
      /\ UNCHANGED <<echoes, refl, marks, ripples, notices, raced, tangled>>
    BY DEF Reply
<1>2. request[r] # Done
    BY <1>1, RequestKinds DEF FeedInv
<1>3. QED
    BY <1>1, <1>2, RequestEnds

LEMMA AbortStep ==
    ASSUME FeedInv, NEW r \in Request, Abort(r)
    PROVE  FeedInv'
<1>1. /\ request[r] # Done /\ request' = [request EXCEPT ![r] = Done]
      /\ tangled' = IF request[r].kind \in {"on", "off"}
                    THEN tangled \cup {<<request[r].by, request[r].target>>} ELSE tangled
      /\ UNCHANGED <<echoes, refl, marks, ripples, notices, raced>>
    BY DEF Abort
<1>2. QED
    BY <1>1, RequestEnds

-----------------------------------------------------------------------------
(* Deletions: of d, an echo or a reflection. *)

\* What hangs from d belongs to it.
Under(t, d) == t = d \/ Home(t) = d

\* A deletion takes what is about d out of the tables, or is one the requests about it race.
LEMMA DeletionTally ==
    ASSUME FeedInv, UNCHANGED <<request, tangled>>, NEW d,
           raced' = IF InProgress(d) THEN raced \cup {d} ELSE raced,
           NEW T, \A t \in T : Under(t, d),
           marks' = {p \in marks : p[2] \notin T},
           notices' = {n \in notices : n.about \notin T}
    PROVE  Tallied'
<1> SUFFICES ASSUME NEW p \in Toggled, ~Excused(p)'
             PROVE  /\ \A v, s \in Request : Switches(request[v], p) /\ Switches(request[s], p) => v = s
                    /\ \A s \in Request : Switches(request[s], p) => Halfway(request[s], p)'
                    /\ (\A s \in Request : ~Switches(request[s], p)) => Matches(p)'
    BY DEF Tallied, Switches
<1>1. ~Excused(p)
    BY DEF Excused
<1>2. /\ \A v, s \in Request : Switches(request[v], p) /\ Switches(request[s], p) => v = s
      /\ \A s \in Request : Switches(request[s], p) => Halfway(request[s], p)
      /\ (\A s \in Request : ~Switches(request[s], p)) => Matches(p)
    BY <1>1 DEF FeedInv, Tallied
<1>3. NoticeOf(p).about = p[2]
    BY DEF NoticeOf, Notice
<1>4. CASE p[2] \notin T
    <2>1. /\ p \in marks' <=> p \in marks
          /\ NoticeOf(p) \in notices' <=> NoticeOf(p) \in notices
        BY <1>3, <1>4
    <2>2. Matches(p)' <=> Matches(p)
        BY <2>1 DEF Matches, NoticeOf, Notice, Owner
    <2>3. \A s \in Request : Halfway(request[s], p) => Halfway(request[s], p)'
        BY <2>1, <2>2 DEF Halfway, NoticeOf, Notice, Owner
    <2>4. QED
        BY <1>2, <2>2, <2>3
<1>5. CASE p[2] \in T
    <2>1. ~InProgress(d)
        BY <1>5 DEF Excused, Under, Home
    <2>2. ASSUME NEW s \in Request, Switches(request[s], p)
          PROVE  FALSE
        <3>1. request[s] # Done /\ request[s].target = p[2]
            BY <2>2 DEF Switches
        <3>2. About(request[s], d)
            BY <1>5, <3>1 DEF About, Under
        <3>3. QED
            BY <2>1, <3>2 DEF InProgress
    <2>3. p \notin marks' /\ NoticeOf(p) \notin notices'
        BY <1>3, <1>5
    <2>4. Matches(p)'
        BY <2>3 DEF Matches, NoticeOf, Notice, Owner
    <2>5. QED
        BY <2>2, <2>4
<1>6. QED
    BY <1>4, <1>5

\* It leaves standing what is not under it, and excuses what a request was about to write.
LEMMA DeletionFounded ==
    ASSUME FeedInv, UNCHANGED request, NEW d,
           raced' = IF InProgress(d) THEN raced \cup {d} ELSE raced,
           \A t : Stands(t) => Stands(t)' \/ Under(t, d),
           \A f \in Reflection : Hangs(f) =>
                \/ Hangs(f)'
                \/ EchoOf[f] = d
                \/ ParentOf[f] = d /\ EchoOf[f] \in (echoes \cup raced)'
    PROVE  \A r \in Request : Founded(request[r])'
<1> SUFFICES ASSUME NEW r \in Request, request[r] # Done
             PROVE  Founded(request[r])'
    BY DEF Founded
<1>1. Founded(request[r])
    BY DEF FeedInv
<1>2. ASSUME About(request[r], d)
      PROVE  d \in raced'
    BY <1>2 DEF InProgress
<1>3. Stands(request[r].target) => Stands(request[r].target)'
    <2>1. CASE Under(request[r].target, d)
        <3>1. d \in raced'
            BY <1>2, <2>1 DEF About, Under
        <3>2. QED
            BY <2>1, <3>1 DEF Stands, Under, Home
    <2>2. CASE ~Under(request[r].target, d)
        BY <2>2
    <2>3. QED
        BY <2>1, <2>2
<1>4. request[r].kind = "reflect" /\ Hangs(request[r].target) => Hangs(request[r].target)'
    <2>1. ASSUME request[r].kind = "reflect", Hangs(request[r].target)
          PROVE  Hangs(request[r].target)'
        <3>1. request[r].target \in Reflection
            BY <2>1, RequestKinds DEF FeedInv, Reflecting
        <3>2. CASE EchoOf[request[r].target] = d
            <4>1. d \in raced'
                BY <1>2, <3>1, <3>2 DEF About, Home
            <4>2. QED
                BY <3>2, <4>1 DEF Hangs
        <3>3. CASE /\ ParentOf[request[r].target] = d
                   /\ EchoOf[request[r].target] \in (echoes \cup raced)'
            <4>1. d \in raced'
                BY <1>2, <3>1, <3>3 DEF About
            <4>2. QED
                BY <3>3, <4>1 DEF Hangs
        <3>4. QED
            BY <2>1, <3>1, <3>2, <3>3
    <2>2. QED
        BY <2>1
<1>5. QED
    BY <1>1, <1>3, <1>4 DEF Founded, NoticeOf, Notice, Owner

LEMMA DeleteEchoStep ==
    ASSUME FeedInv, NEW e \in Echo, deleteEcho(e)
    PROVE  FeedInv'
<1> DEFINE T == {t \in Target : Home(t) = e}
<1>1. /\ echoes' = echoes \ {e}
      /\ refl' = [f \in Reflection |-> IF EchoOf[f] = e THEN "absent" ELSE refl[f]]
      /\ marks' = {p \in marks : Home(p[2]) # e}
      /\ ripples' = {p \in ripples : p[2] # e}
      /\ notices' = {n \in notices : Home(n.about) # e}
      /\ raced' = IF InProgress(e) THEN raced \cup {e} ELSE raced
      /\ UNCHANGED <<request, tangled>>
    BY DEF deleteEcho
<1>2. FeedShape'
    BY <1>1 DEF FeedInv, FeedShape
<1>3. Home(e) = e
    BY PostsAssumption DEF Home
<1>4. \A t : Stands(t) => Stands(t)' \/ Under(t, e)
    BY <1>1 DEF Stands, Present, Under, Home
<1>5. \A f \in Reflection : Hangs(f) => Hangs(f)' \/ EchoOf[f] = e
    <2>1. ASSUME NEW f \in Reflection, Hangs(f), EchoOf[f] # e
          PROVE  Hangs(f)'
        <3>1. EchoOf[f] \in echoes' \cup raced'
            BY <1>1, <2>1 DEF Hangs
        <3>2. ASSUME ParentOf[f] \in Reflection
              PROVE  \/ refl'[ParentOf[f]] # "absent"
                     \/ {ParentOf[f], EchoOf[f]} \cap raced' # {}
            <4>1. EchoOf[ParentOf[f]] = EchoOf[f]
                BY <3>2, PostsAssumption
            <4>2. \/ refl[ParentOf[f]] # "absent"
                  \/ {ParentOf[f], EchoOf[f]} \cap raced # {}
                BY <2>1, <3>2 DEF Hangs
            <4>3. refl'[ParentOf[f]] = refl[ParentOf[f]]
                BY <1>1, <2>1, <3>2, <4>1
            <4>4. QED
                BY <1>1, <4>2, <4>3
        <3>3. QED
            BY <3>1, <3>2 DEF Hangs
    <2>2. QED
        BY <2>1
<1>6. \A r \in Request : Founded(request[r])'
    BY <1>1, <1>4, <1>5, DeletionFounded
<1>7. NothingLoose'
    <2>1. \A p \in marks' \cup ripples' : Stands(p[2])'
        <3>1. ASSUME NEW p \in marks' \cup ripples'
              PROVE  Stands(p[2]) /\ ~Under(p[2], e)
            <4>1. Stands(p[2])
                BY <1>1 DEF FeedInv, NothingLoose
            <4>2. CASE p \in marks'
                BY <1>1, <1>3, <4>1, <4>2 DEF Under
            <4>3. CASE p \in ripples'
                <5>1. p[2] \in Echo /\ p[2] # e
                    BY <1>1, <4>3 DEF FeedInv, FeedShape
                <5>2. Home(p[2]) = p[2]
                    BY <5>1, PostsAssumption DEF Home
                <5>3. QED
                    BY <4>1, <5>1, <5>2 DEF Under
            <4>4. QED
                BY <4>2, <4>3
        <3>2. QED
            BY <1>4, <3>1
    <2>2. \A n \in notices' : Stands(n.about)'
        <3>1. \A n \in notices' : Stands(n.about) /\ ~Under(n.about, e)
            BY <1>1, <1>3 DEF FeedInv, NothingLoose, Under
        <3>2. QED
            BY <1>4, <3>1
    <2>3. \A f \in Reflection : refl'[f] # "absent" => Hangs(f)'
        <3>1. \A f \in Reflection : refl'[f] # "absent" => Hangs(f) /\ EchoOf[f] # e
            BY <1>1 DEF FeedInv, NothingLoose
        <3>2. QED
            BY <1>5, <3>1
    <2>4. QED
        BY <2>1, <2>2, <2>3 DEF NothingLoose
<1>8. Tallied'
    <2>1. \A t \in T : Under(t, e)
        BY DEF Under
    <2>2. marks' = {p \in marks : p[2] \notin T} /\ notices' = {n \in notices : n.about \notin T}
        <3>1. \A p \in marks : p[2] \in Target
            BY DEF FeedInv, FeedShape
        <3>2. \A n \in notices : n.about \in Target
            BY DEF FeedInv, FeedShape, Notices
        <3>3. QED
            BY <1>1, <3>1, <3>2
    <2> HIDE DEF T
    <2>3. QED
        BY <1>1, <2>1, <2>2, DeletionTally
<1>9. QED
    BY <1>2, <1>6, <1>7, <1>8 DEF FeedInv

LEMMA DeleteReflectionStep ==
    ASSUME FeedInv, NEW d \in Reflection, deleteReflection(d)
    PROVE  FeedInv'
<1>1. /\ refl[d] = "live" /\ refl' = [refl EXCEPT ![d] = Remains(d)]
      /\ marks' = {p \in marks : p[2] # d}
      /\ notices' = {n \in notices : n.about # d}
      /\ raced' = IF InProgress(d) THEN raced \cup {d} ELSE raced
      /\ UNCHANGED <<echoes, ripples, request, tangled>>
    BY DEF deleteReflection
<1>2. FeedShape'
    BY <1>1 DEF FeedInv, FeedShape, Remains
<1>3. \A t : Stands(t) => Stands(t)' \/ t = d
    BY <1>1 DEF Stands, Present, FeedInv, FeedShape
<1>4. ASSUME NEW f \in Reflection, Hangs(f)
      PROVE  \/ Hangs(f)'
             \/ /\ ParentOf[f] = d /\ EchoOf[f] \in (echoes \cup raced)'
                /\ refl[f] # "absent" => Hangs(f)'
    <2>1. EchoOf[f] \in echoes' \cup raced'
        BY <1>1, <1>4 DEF Hangs
    <2>2. CASE ParentOf[f] # d
        <3>1. ParentOf[f] \in Reflection => refl'[ParentOf[f]] = refl[ParentOf[f]]
            BY <1>1, <2>2 DEF FeedInv, FeedShape
        <3>2. QED
            BY <1>1, <1>4, <2>1, <3>1 DEF Hangs
    <2>3. CASE ParentOf[f] = d
        <3>1. ASSUME refl[f] # "absent"
              PROVE  Hangs(f)'
            <4>1. f \in Children(d)
                BY <2>3, <3>1 DEF Children
            <4>2. refl'[d] = "tombstone"
                BY <1>1, <4>1 DEF Remains, FeedInv, FeedShape
            <4>3. QED
                BY <2>1, <2>3, <4>2 DEF Hangs
        <3>2. QED
            BY <2>1, <2>3, <3>1
    <2>4. QED
        BY <2>2, <2>3
<1>5. \A r \in Request : Founded(request[r])'
    <2>1. \A t : Stands(t) => Stands(t)' \/ Under(t, d)
        BY <1>3 DEF Under
    <2>2. \A f \in Reflection : Hangs(f) =>
                \/ Hangs(f)'
                \/ EchoOf[f] = d
                \/ ParentOf[f] = d /\ EchoOf[f] \in (echoes \cup raced)'
        BY <1>4
    <2>3. QED
        BY <1>1, <2>1, <2>2, DeletionFounded
<1>6. NothingLoose'
    <2>1. \A p \in marks' \cup ripples' : Stands(p[2]) /\ p[2] # d
        <3>1. \A p \in ripples : p[2] \in Echo
            BY DEF FeedInv, FeedShape
        <3>2. QED
            BY <1>1, <3>1, PostsAssumption DEF FeedInv, NothingLoose
    <2>2. \A n \in notices' : Stands(n.about) /\ n.about # d
        BY <1>1 DEF FeedInv, NothingLoose
    <2>3. \A f \in Reflection : refl'[f] # "absent" => refl[f] # "absent"
        BY <1>1 DEF FeedInv, FeedShape
    <2>4. \A f \in Reflection : refl'[f] # "absent" => Hangs(f)'
        BY <1>4, <2>3 DEF FeedInv, NothingLoose
    <2>5. \A p \in marks' \cup ripples' : Stands(p[2])'
        BY <1>3, <2>1
    <2>6. \A n \in notices' : Stands(n.about)'
        BY <1>3, <2>2
    <2>7. QED
        BY <2>4, <2>5, <2>6 DEF NothingLoose
<1>7. Tallied'
    <2>1. \A t \in {d} : Under(t, d)
        BY DEF Under
    <2>2. /\ marks' = {p \in marks : p[2] \notin {d}}
          /\ notices' = {n \in notices : n.about \notin {d}}
        BY <1>1
    <2>3. QED
        BY <1>1, <2>1, <2>2, DeletionTally
<1>8. QED
    BY <1>2, <1>5, <1>6, <1>7 DEF FeedInv

LEMMA FeedInvNext == FeedInv /\ [FeedNext]_feedVars => FeedInv'
<1> SUFFICES ASSUME FeedInv, [FeedNext]_feedVars
             PROVE  FeedInv'
    OBVIOUS
<1>1. CASE UNCHANGED feedVars
    BY <1>1 DEF feedVars, FeedInv, FeedShape, NothingLoose, Founded, Tallied, Stands, Present, Hangs,
        Switches, Halfway, Matches, Excused, NoticeOf, Notice, Owner, Home
<1>2. ASSUME NEW r \in Request, NEW e \in Echo, NEW u \in User, createEcho(r, e, {u})
      PROVE  FeedInv'
    BY <1>2, CreateEchoStep
<1>3. ASSUME NEW r \in Request, NEW f \in Reflection, LookUpParent(r, f)
      PROVE  FeedInv'
    BY <1>3, LookUpParentStep
<1>4. ASSUME NEW r \in Request, NEW u \in User, NEW t \in Target, NEW k \in {"on", "off"},
             LookUpTarget(r, u, t, k)
      PROVE  FeedInv'
    BY <1>4, LookUpTargetStep
<1>5. ASSUME NEW r \in Request, NEW u \in User, NEW e \in Echo, NEW copy \in Echo,
             LookUpRipple(r, u, e, copy)
      PROVE  FeedInv'
    BY <1>5, LookUpRippleStep
<1>6. ASSUME NEW r \in Request, addReflection(r) \/ setReaction(r)
      PROVE  FeedInv'
    BY <1>6, AddReflectionStep, SetReactionStep
<1>7. ASSUME NEW r \in Request, addRipple(r) \/ createRippleEcho(r)
      PROVE  FeedInv'
    BY <1>7, AddRippleStep, CreateRippleEchoStep
<1>8. ASSUME NEW r \in Request, NEW n \in request[r].todo, notify(r, n)
      PROVE  FeedInv'
    BY <1>8, NotifyStep
<1>9. ASSUME NEW r \in Request, Reply(r) \/ Abort(r)
      PROVE  FeedInv'
    BY <1>9, ReplyStep, AbortStep
<1>10. ASSUME NEW e \in Echo, deleteEcho(e)
       PROVE  FeedInv'
    BY <1>10, DeleteEchoStep
<1>11. ASSUME NEW f \in Reflection, deleteReflection(f)
       PROVE  FeedInv'
    BY <1>11, DeleteReflectionStep
<1>12. QED
    BY <1>1, <1>2, <1>3, <1>4, <1>5, <1>6, <1>7, <1>8, <1>9, <1>10, <1>11 DEF FeedNext

\* The property follows: what stands is there, and where no switch is in progress marks and
\* notifications agree.
LEMMA FeedInvImplies == FeedInv => FeedHoldsTogether
<1> SUFFICES ASSUME FeedInv PROVE FeedHoldsTogether
    OBVIOUS
<1>1. ThreadsIntact
    BY DEF FeedInv, NothingLoose, Hangs, ThreadsIntact
<1>2. ASSUME NEW t \in (Echo \cup Reflection) \ raced, ~Present(t), Home(t) \notin raced
      PROVE  /\ \A p \in marks \cup ripples : p[2] # t
             /\ \A n \in notices : n.about # t
             /\ t \in Echo => \A f \in Reflection : EchoOf[f] = t => refl[f] = "absent"
    <2>1. ~Stands(t)
        BY <1>2 DEF Stands
    <2>2. \A f \in Reflection : EchoOf[f] = t => ~Hangs(f)
        BY <1>2 DEF Hangs, Present
    <2>3. QED
        BY <2>1, <2>2 DEF FeedInv, NothingLoose
<1>3. DeletedLeavesNothing
    BY <1>1, <1>2 DEF DeletedLeavesNothing
<1>4. NoticeMatchesMark
    <2>1. ASSUME NEW p \in Toggled, ~Toggling(p[1], p[2]), ~Excused(p)
          PROVE  Matches(p)
        <3>1. \A r \in Request : ~Switches(request[r], p)
            <4>1. p = <<p[1], p[2]>>
                BY WhispersAssumption
            <4>2. QED
                BY <2>1, <4>1 DEF Toggling, Switches
        <3>2. QED
            BY <2>1, <3>1 DEF FeedInv, Tallied
    <2>2. QED
        BY <2>1 DEF NoticeMatchesMark, Excused, Matches, NoticeOf
<1>5. QED
    BY <1>3, <1>4 DEF FeedHoldsTogether

\* What is deleted leaves nothing behind, no thread hangs loose, and the inbox says what is
\* liked and followed, but for what requests race or tangle
\* (whisper-repository.ts:577, whisper-routes.ts:454).
THEOREM FeedAlwaysHolds == FeedSpec => []FeedHoldsTogether
<1>1. FeedInv => FeedHoldsTogether
    BY FeedInvImplies
<1>2. QED
    BY <1>1, FeedInvInit, FeedInvNext, PTL DEF FeedSpec

-----------------------------------------------------------------------------
(* The feed on the screen.                                                   *)

Answer == [posts : SUBSET Whisper, likes : SUBSET Whisper]
AnsweredPoll == [stage : {"answered", "read"}, before : Nat, body : Answer]
Sent(kind, p) == [kind |-> kind, post |-> p, stage |-> "sent"] \in writes

ScreenShape ==
    /\ posted \subseteq Whisper /\ IsFiniteSet(posted) /\ screen \subseteq Whisper
    /\ tag \in Answer
    /\ poll \in [Poll -> {Unasked} \cup [stage : {"asked"}, known : Answer, before : Nat]
                         \cup AnsweredPoll]
    /\ writes \subseteq [kind : {"publish", "like", "unlike", "delete"}, post : Whisper,
                         stage : {"sent", "run"}]
    /\ \A w \in writes : w.kind \in {"publish", "delete"} => w.post \in Mine

\* A post that is on its way to the relay is not there.
PublishedOnce == \A p \in Whisper : Sent("publish", p) => p \notin posted

\* What an answer shows has been at the relay, and will not come there again.
Known(a) == /\ a.likes \subseteq a.posts
            /\ \A p \in a.posts : p \in posted \cup gone /\ ~Sent("publish", p)
Feeds == {q \in Poll : poll[q].stage \in {"answered", "read"} /\ poll[q].before = 0}
AnswersKnown == Known(tag) /\ \A q \in Feeds : Known(poll[q].body)

\* One answer at a time, the one whose tag is remembered.
OneReading == ~mingled => \A q \in Reading : poll[q].body = tag /\ \A r \in Reading : q = r

OneSwitch == ~mingled => \A p \in Whisper : \A v, w \in Switching(p) : v = w

\* Nothing is being read, and nothing went wrong.
Settled == ~missed /\ ~mingled /\ Reading = {}

\* What is shown above the end of the answer and not in it is the viewer's, on its way
\* to the relay or there.
NewOnScreen == Settled =>
    \A p \in screen \ tag.posts : (\E q \in tag.posts : q < p) =>
       p \in Mine /\ ~Sent("delete", p) /\ (Sent("publish", p) \/ p \in posted)

\* What is in the answer and not shown is deleted, or is about to be.
TagShown == Settled => \A p \in tag.posts \ screen : Sent("delete", p) \/ p \notin posted

\* What the relay will hold of the viewer's like of p.
Wanted(p) == (p \in loved \/ Sent("like", p)) /\ ~Sent("unlike", p)
Agrees(p) == (p \in hearts <=> p \in tag.likes) \/ (p \in hearts <=> Wanted(p))
HeartsFollow == Settled =>
    \A p \in tag.posts \cap posted \cap screen : Sent("delete", p) \/ Agrees(p)

ScreenInv ==
    /\ ScreenShape /\ PublishedOnce /\ AnswersKnown /\ OneReading /\ OneSwitch
    /\ NewOnScreen /\ TagShown /\ HeartsFollow

(* The operators. *)

\* A set of posts has an oldest one.
LEMMA OldestExists ==
    ASSUME NEW S \in SUBSET Whisper, S # {}
    PROVE  OldestPost(S) \in S /\ \A q \in S : OldestPost(S) <= q
<1>1. S \subseteq Nat
    BY FeedClientAssumption
<1> DEFINE Least(p) == p \in S /\ \A q \in S : p <= q
<1>2. \E p : Least(p)
    BY <1>1, LeastNumber
<1>3. Least(CHOOSE p : Least(p))
    <2> HIDE DEF Least
    <2> QED BY <1>2
<1>4. OldestPost(S) = CHOOSE p : Least(p)
    BY DEF OldestPost
<1> QED
    BY <1>3, <1>4

\* A page is upward closed: what is there and newer than a post of the page is on it.
LEMMA NewestClosed ==
    ASSUME NEW S \in SUBSET Whisper, IsFiniteSet(S), NEW n \in Nat,
           NEW q \in NewestPosts(S, n), NEW p \in S, q < p
    PROVE  p \in NewestPosts(S, n)
<1> DEFINE After(r) == {t \in S : t > r}
<1>0. p \in Nat /\ q \in Nat /\ q \in S /\ S \subseteq Nat
    BY FeedClientAssumption DEF NewestPosts
<1>1. After(p) \subseteq After(q)
    <2>1. \A t \in Nat : t > p => t > q
        BY <1>0
    <2> QED
        BY <1>0, <2>1
<1>2. IsFiniteSet(After(q)) /\ IsFiniteSet(After(p))
    BY FS_Subset
<1>3. /\ Cardinality(After(p)) <= Cardinality(After(q))
      /\ Cardinality(After(p)) \in Nat /\ Cardinality(After(q)) \in Nat
    <2> HIDE DEF After
    <2> QED BY <1>1, <1>2, FS_Subset, FS_CardinalityType
<1>4. Cardinality(After(q)) < n
    BY DEF NewestPosts
<1>5. Cardinality(After(p)) < n
    <2> HIDE DEF After
    <2> QED BY <1>3, <1>4
<1> QED
    BY <1>5 DEF NewestPosts

\* An answer shows what is at the relay.
LEMMA FeedIsPosted ==
    ASSUME NEW S \in SUBSET Whisper
    PROVE  /\ listFeed(S) \in Answer /\ listFeed(S).posts = NewestPosts(S, PageSize)
           /\ listFeed(S).posts \subseteq S /\ listFeed(S).likes = loved \cap listFeed(S).posts
<1> DEFINE T == NewestPosts(S, PageSize)
<1>1. T \subseteq S
    BY DEF NewestPosts
<1>2. listFeed(S) = [posts |-> T, likes |-> loved \cap T]
    BY DEF listFeed
<1> HIDE DEF T
<1>3. T = NewestPosts(S, PageSize)
    BY DEF T
<1> QED
    BY <1>1, <1>2, <1>3 DEF Answer

\* While nothing is on its way and the tag is that of the feed, the screen shows it.
LEMMA ScreenIsCurrent == ScreenInv => UnchangedIsCurrent
<1> SUFFICES ASSUME ScreenInv, tag # Untagged, tag = Page, writes = {}, ~missed, ~mingled,
                    \A q \in Poll : poll[q].stage # "read"
             PROVE  /\ {p \in screen : p >= OldestPost(tag.posts)} = tag.posts
                    /\ hearts \cap tag.posts = tag.likes
    BY DEF UnchangedIsCurrent
<1>1. Settled
    BY DEF Settled, Reading
<1>2. /\ posted \in SUBSET Whisper /\ IsFiniteSet(posted) /\ tag \in Answer /\ screen \subseteq Whisper
      /\ PageSize \in Nat
    BY FeedClientAssumption DEF ScreenInv, ScreenShape
<1>3. /\ tag.posts = NewestPosts(posted, PageSize)
      /\ tag.posts \subseteq posted /\ tag.likes = loved \cap tag.posts
    BY <1>2, FeedIsPosted DEF Page
<1>4. tag = [posts |-> tag.posts, likes |-> tag.likes]
    BY <1>2 DEF Answer
<1>5. tag.posts # {}
    BY <1>3, <1>4 DEF Untagged
<1>6. tag.posts \in SUBSET Whisper
    BY <1>2 DEF Answer
<1>7. OldestPost(tag.posts) \in tag.posts /\ \A q \in tag.posts : OldestPost(tag.posts) <= q
    BY <1>5, <1>6, OldestExists
<1>8. \A kind, p : ~Sent(kind, p)
    BY DEF Sent
<1>9. tag.posts \subseteq screen
    BY <1>1, <1>3, <1>8 DEF ScreenInv, TagShown
<1>10. ASSUME NEW p \in screen, p >= OldestPost(tag.posts), p \notin tag.posts
       PROVE  FALSE
    <2>1. OldestPost(tag.posts) < p
        <3> DEFINE o == OldestPost(tag.posts)
        <3>1. o \in Nat /\ p \in Nat /\ o # p /\ p >= o
            BY <1>2, <1>6, <1>7, <1>10, FeedClientAssumption
        <3> HIDE DEF o
        <3>2. o < p
            BY <3>1
        <3> QED
            BY <3>2 DEF o
    <2>2. p \in posted
        BY <1>1, <1>7, <1>8, <1>10, <2>1 DEF ScreenInv, NewOnScreen
    <2> DEFINE o == OldestPost(tag.posts)
    <2>3. o \in NewestPosts(posted, PageSize) /\ o < p
        BY <1>3, <1>7, <2>1
    <2> HIDE DEF o
    <2>4. p \in NewestPosts(posted, PageSize)
        BY <1>2, <2>2, <2>3, NewestClosed
    <2> QED
        BY <1>3, <1>10, <2>4
<1>11. {p \in screen : p >= OldestPost(tag.posts)} = tag.posts
    BY <1>6, <1>7, <1>9, <1>10, FeedClientAssumption
<1>12. \A p \in tag.posts : p \in hearts <=> p \in tag.likes
    BY <1>1, <1>3, <1>8, <1>9 DEF ScreenInv, HeartsFollow, Agrees, Wanted
<1> QED
    BY <1>3, <1>11, <1>12

\* It holds before anything is asked.
LEMMA ScreenInitially == FeedClientInit => ScreenInv
<1> SUFFICES ASSUME FeedClientInit PROVE ScreenInv
    OBVIOUS
<1>1. Untagged \in Answer /\ Untagged.posts = {} /\ Untagged.likes = {}
    BY DEF Untagged, Answer
<1>2. ScreenShape
    BY <1>1, FS_EmptySet DEF FeedClientInit, ScreenShape
<1>3. \A q \in Poll : poll[q].stage = "none"
    BY DEF FeedClientInit, Unasked
<1> QED
    BY <1>1, <1>2, <1>3 DEF FeedClientInit, ScreenInv, PublishedOnce, Sent, AnswersKnown, Known,
       Feeds,
       OneReading, Reading, OneSwitch, Switching, NewOnScreen, TagShown, HeartsFollow

(* The steps. *)

\* A poll that takes its turn, and is not being read, disturbs nothing.
LEMMA PollingKeeps ==
    ASSUME ScreenInv, NEW q \in Poll, NEW r,
           r \in {Unasked} \cup [stage : {"asked"}, known : Answer, before : Nat]
                 \cup [stage : {"answered"}, before : Nat, body : Answer],
           r.stage = "answered" /\ r.before = 0 => Known(r.body),
           poll' = [poll EXCEPT ![q] = r], q \in Reading => missed',
           UNCHANGED <<posted, gone, loved, screen, hearts, tag, mingled>>, missed => missed',
           \A w : w.stage = "sent" => (w \in writes' <=> w \in writes), writes' \subseteq writes
    PROVE  ScreenInv'
<1>1. /\ \A kind, p : Sent(kind, p)' <=> Sent(kind, p)
      /\ \A p : Switching(p)' = Switching(p)
    BY DEF Sent, Switching
<1>2. r.stage # "read"
    BY DEF Unasked
<1>3. /\ \A s \in Poll \ {q} : poll'[s] = poll[s]
      /\ poll'[q] = r
    BY DEF ScreenInv, ScreenShape
<1>4. Reading' = Reading \ {q}
    BY <1>2, <1>3 DEF Reading
<1>5. ScreenShape'
    <2>1. r \in {Unasked} \cup [stage : {"asked"}, known : Answer, before : Nat] \cup AnsweredPoll
        BY DEF AnsweredPoll
    <2> QED
        BY <2>1 DEF ScreenInv, ScreenShape
<1>6. PublishedOnce'
    BY <1>1 DEF ScreenInv, PublishedOnce
<1>7. AnswersKnown'
    <2>1. \A a : Known(a) => Known(a)'
        BY <1>1 DEF Known
    <2>2. ASSUME NEW s \in Feeds' PROVE Known(poll'[s].body)
        <3>1. CASE s = q
            BY <1>2, <1>3, <2>1, <2>2, <3>1 DEF Feeds
        <3>2. CASE s # q
            BY <1>3, <2>2, <3>2 DEF Feeds, ScreenInv, AnswersKnown
        <3> QED
            BY <3>1, <3>2
    <2>3. \A a : Known(a) <=> Known(a)'
        BY <1>1 DEF Known
    <2> QED
        BY <2>2, <2>3 DEF ScreenInv, AnswersKnown
<1>8. OneReading'
    BY <1>3, <1>4 DEF ScreenInv, OneReading, Reading
<1>9. OneSwitch'
    BY <1>1 DEF ScreenInv, OneSwitch
<1>10. Settled' => Settled
    BY <1>4 DEF Settled
<1>11. NewOnScreen' /\ TagShown' /\ HeartsFollow'
    BY <1>1, <1>10 DEF ScreenInv, NewOnScreen, TagShown, HeartsFollow, Agrees, Wanted
<1> QED
    BY <1>5, <1>6, <1>7, <1>8, <1>9, <1>11 DEF ScreenInv

\* What the relay answers is what is there.
LEMMA PageKnown ==
    ASSUME ScreenInv, NEW S \in SUBSET posted
    PROVE  listFeed(S) \in Answer /\ Known(listFeed(S))
<1>1. S \in SUBSET Whisper
    BY DEF ScreenInv, ScreenShape
<1> DEFINE a == listFeed(S)
<1>2. a \in Answer /\ a.posts \subseteq S /\ a.likes \subseteq a.posts
    BY <1>1, FeedIsPosted
<1> HIDE DEF a
<1>3. \A p \in a.posts : p \in posted /\ p \in Whisper
    BY <1>1, <1>2
<1>4. Known(a)
    BY <1>2, <1>3 DEF Known, ScreenInv, PublishedOnce
<1> QED
    BY <1>2, <1>4 DEF a

\* Asking, answering and settling keep it,
LEMMA PollingSteps ==
    ASSUME ScreenInv, NEW q \in Poll,
           \/ AskFeed(q) \/ AskOlder(q) \/ AnswerPoll(q) \/ PollMissed(q)
           \/ \E w \in writes : WriteDone(w, q)
    PROVE  ScreenInv'
<1> DEFINE Next1 == {Unasked} \cup [stage : {"asked"}, known : Answer, before : Nat]
                    \cup [stage : {"answered"}, before : Nat, body : Answer]
<1>0. /\ tag \in Answer /\ posted \subseteq Whisper /\ screen \in SUBSET Whisper
      /\ Untagged \in Answer
      /\ poll[q] \in {Unasked} \cup [stage : {"asked"}, known : Answer, before : Nat] \cup AnsweredPoll
    BY DEF ScreenInv, ScreenShape, Answer, Untagged
<1>1. AskedFeed \in [stage : {"asked"}, known : Answer, before : Nat] /\ AskedFeed.stage = "asked"
    BY <1>0 DEF AskedFeed
<1>2. Unasked.stage = "none"
    BY DEF Unasked
<1>3. Reading = {s \in Poll : poll[s].stage = "read" /\ poll[s].before = 0}
    BY DEF Reading
<1>4. CASE AskFeed(q)
    BY <1>1, <1>2, <1>3, <1>4, PollingKeeps DEF AskFeed
<1>5. CASE AskOlder(q)
    <2>1. OldestPost(screen) \in Nat
        BY <1>0, <1>5, OldestExists, FeedClientAssumption DEF AskOlder
    <2> DEFINE r == [stage |-> "asked", known |-> Untagged, before |-> OldestPost(screen)]
    <2>2. r \in [stage : {"asked"}, known : Answer, before : Nat] /\ r.stage = "asked"
        BY <1>0, <2>1
    <2>3. poll' = [poll EXCEPT ![q] = r] /\ poll[q] = Unasked
        BY <1>5 DEF AskOlder
    <2> HIDE DEF r
    <2> QED
        BY <1>2, <1>3, <1>5, <2>2, <2>3, PollingKeeps DEF AskOlder
<1>6. CASE AnswerPoll(q)
    <2> DEFINE body == IF poll[q].before = 0 THEN Page ELSE Before(poll[q].before)
               r == IF poll[q].known = body /\ body # Untagged THEN Unasked
                    ELSE [stage |-> "answered", before |-> poll[q].before, body |-> body]
    <2>1. Page \in Answer /\ Known(Page)
        BY PageKnown DEF Page
    <2>2. \A p : Before(p) \in Answer /\ Known(Before(p))
        <3> TAKE p
        <3>1. {s \in posted : s < p} \in SUBSET posted
            OBVIOUS
        <3> QED
            BY <3>1, PageKnown DEF Before
    <2>3. body \in Answer /\ Known(body)
        BY <2>1, <2>2
    <2>4. poll' = [poll EXCEPT ![q] = r] /\ poll[q].stage = "asked"
        BY <1>6 DEF AnswerPoll
    <2>5. poll[q].before \in Nat
        <3>1. poll[q] \in [stage : {"asked"}, known : Answer, before : Nat] \cup AnsweredPoll
            BY <1>0, <1>2, <2>4
        <3> QED
            BY <3>1 DEF AnsweredPoll
    <2> HIDE DEF body
    <2>6. r \in Next1 /\ (r.stage = "answered" /\ r.before = 0 => Known(r.body))
        BY <1>2, <2>3, <2>5
    <2>7. /\ UNCHANGED <<posted, gone, loved, screen, hearts, tag, mingled, writes, missed>>
          /\ q \notin Reading
        BY <1>3, <1>6, <2>4 DEF AnswerPoll
    <2> HIDE DEF r
    <2>8. poll' = [poll EXCEPT ![q] = r]
        BY <2>4
    <2> QED
        BY <2>6, <2>7, <2>8, PollingKeeps
<1>7. CASE PollMissed(q)
    BY <1>2, <1>3, <1>7, PollingKeeps DEF PollMissed
<1>8. ASSUME NEW w \in writes, WriteDone(w, q) PROVE ScreenInv'
    BY <1>1, <1>2, <1>3, <1>8, PollingKeeps DEF WriteDone
<1> QED
    BY <1>4, <1>5, <1>6, <1>7, <1>8

\* and so does a tag that is remembered,
LEMMA ReadTagStep ==
    ASSUME ScreenInv, NEW q \in Poll, ReadTag(q)
    PROVE  ScreenInv'
<1>1. /\ poll[q] \in AnsweredPoll /\ poll[q].stage = "answered"
      /\ poll[q].before \in Nat /\ poll[q].body \in Answer
    BY DEF ScreenInv, ScreenShape, ReadTag, AnsweredPoll, Unasked
<1> DEFINE r == [poll[q] EXCEPT !.stage = "read"]
<1>2. r \in AnsweredPoll /\ r.stage = "read" /\ r.before = poll[q].before /\ r.body = poll[q].body
    BY <1>1 DEF AnsweredPoll
<1>3. poll' = [poll EXCEPT ![q] = r]
    BY <1>1 DEF ReadTag
<1> HIDE DEF r
<1>4. (\A s \in Poll \ {q} : poll'[s] = poll[s]) /\ poll'[q] = r
    BY <1>3 DEF ScreenInv, ScreenShape
<1>5. /\ \A kind, p : Sent(kind, p)' <=> Sent(kind, p)
      /\ \A p : Switching(p)' = Switching(p) /\ \A a : Known(a)' <=> Known(a)
    BY DEF Sent, Switching, Known, ReadTag
<1>6. /\ poll[q].before = 0 => tag' = poll[q].body /\ Known(poll[q].body)
      /\ poll[q].before # 0 => tag' = tag
    BY <1>1 DEF ReadTag, ScreenInv, AnswersKnown, Feeds
<1>7. ScreenShape'
    BY <1>1, <1>2, <1>3, <1>6 DEF ScreenInv, ScreenShape, ReadTag
<1>8. PublishedOnce' /\ OneSwitch'
    BY <1>5 DEF ScreenInv, PublishedOnce, OneSwitch, ReadTag
<1>9. Feeds' \subseteq Feeds /\ \A s \in Feeds' : poll'[s].body = poll[s].body
    BY <1>1, <1>2, <1>4 DEF Feeds
<1>10. AnswersKnown'
    BY <1>5, <1>6, <1>9 DEF ScreenInv, AnswersKnown
<1>11. Reading' = IF poll[q].before = 0 THEN Reading \cup {q} ELSE Reading
    BY <1>1, <1>2, <1>4 DEF Reading
<1>12. q \notin Reading
    BY <1>1 DEF Reading
<1>13. OneReading'
    <2> SUFFICES ASSUME ~mingled'
                 PROVE  \A s \in Reading' : poll'[s].body = tag' /\ \A t \in Reading' : s = t
        BY DEF OneReading
    <2>1. ~mingled /\ (poll[q].before = 0 => Reading = {})
        BY DEF ReadTag
    <2>2. CASE poll[q].before = 0
        BY <1>2, <1>4, <1>6, <1>11, <2>1, <2>2
    <2>3. CASE poll[q].before # 0
        BY <1>4, <1>6, <1>11, <1>12, <2>1, <2>3 DEF ScreenInv, OneReading, Reading
    <2> QED
        BY <2>2, <2>3
<1>14. Settled' => Settled /\ tag' = tag
    BY <1>6, <1>11 DEF Settled, ReadTag
<1>15. NewOnScreen' /\ TagShown' /\ HeartsFollow'
    BY <1>5, <1>14 DEF ScreenInv, NewOnScreen, TagShown, HeartsFollow, Agrees, Wanted, ReadTag
<1> QED
    BY <1>7, <1>8, <1>10, <1>13, <1>15 DEF ScreenInv

\* a body that is shown,
LEMMA ReadBodyStep ==
    ASSUME ScreenInv, NEW q \in Poll, ReadBody(q)
    PROVE  ScreenInv'
<1>1. /\ poll[q] \in AnsweredPoll /\ poll[q].stage = "read"
      /\ poll[q].before \in Nat /\ poll[q].body \in Answer
    BY DEF ScreenInv, ScreenShape, ReadBody, AnsweredPoll, Unasked
<1>2. /\ \A s \in Poll \ {q} : poll'[s] = poll[s]
      /\ poll'[q] = Unasked /\ Unasked.stage = "none"
    BY DEF ScreenInv, ScreenShape, ReadBody, Unasked
<1>3. /\ \A kind, p : Sent(kind, p)' <=> Sent(kind, p)
      /\ \A p : Switching(p)' = Switching(p) /\ \A a : Known(a)' <=> Known(a)
      /\ \A p : Wanted(p)' <=> Wanted(p)
    BY DEF Sent, Switching, Known, ReadBody, Wanted
<1>4. /\ screen' \subseteq Whisper
      /\ poll[q].before = 0 =>
            /\ screen' = poll[q].body.posts \cup RetainedPosts(poll[q].body)
            /\ hearts' = poll[q].body.likes \cup
                            (hearts \cap (RetainedPosts(poll[q].body) \ poll[q].body.posts))
      /\ poll[q].before # 0 =>
            /\ screen' = screen \cup poll[q].body.posts
            /\ \A p \in screen : p \in hearts' <=> p \in hearts
    <2>1. RetainedPosts(poll[q].body) \subseteq screen
        BY DEF RetainedPosts
    <2> QED
        BY <1>1, <2>1 DEF ReadBody, ScreenInv, ScreenShape, Answer
<1>5. ScreenShape'
    <2>1. Unasked \in {Unasked} \cup [stage : {"asked"}, known : Answer, before : Nat] \cup AnsweredPoll
        OBVIOUS
    <2> QED
        BY <1>4, <2>1 DEF ScreenInv, ScreenShape, ReadBody
<1>6. PublishedOnce' /\ OneSwitch'
    <2>1. mingled' => mingled' /\ (~mingled' => ~mingled) /\ UNCHANGED posted
        BY DEF ReadBody
    <2> QED
        BY <1>3, <2>1 DEF ScreenInv, PublishedOnce, OneSwitch, ReadBody
<1>7. AnswersKnown'
    <2>1. Feeds' \subseteq Feeds /\ \A s \in Feeds' : poll'[s].body = poll[s].body
        BY <1>2 DEF Feeds
    <2> QED
        BY <1>3, <2>1 DEF ScreenInv, AnswersKnown, ReadBody
<1>8. Reading' = Reading \ {q} /\ \A s \in Reading' : poll'[s] = poll[s]
    BY <1>2 DEF Reading
<1>9. ~mingled' => ~mingled
    BY DEF ReadBody
<1>10. OneReading'
    BY <1>8, <1>9 DEF ScreenInv, OneReading, ReadBody
<1>11. tag \in Answer /\ screen \subseteq Whisper
    BY DEF ScreenInv, ScreenShape
<1>12. CASE poll[q].before = 0
    <2> SUFFICES ASSUME Settled' PROVE NewOnScreen' /\ TagShown' /\ HeartsFollow'
        BY <1>5, <1>6, <1>7, <1>10 DEF ScreenInv, NewOnScreen, TagShown, HeartsFollow
    <2>1. q \in Reading
        BY <1>1, <1>12 DEF Reading
    <2>2. poll[q].body = tag /\ UNCHANGED tag
        BY <1>9, <2>1 DEF Settled, ScreenInv, OneReading, ReadBody
    <2>3. /\ screen' = tag.posts \cup RetainedPosts(tag)
          /\ hearts' = tag.likes \cup (hearts \cap (RetainedPosts(tag) \ tag.posts))
        BY <1>4, <1>12, <2>2
    <2>4. \A p \in screen' \ tag.posts : ~ \E s \in tag.posts : s < p
        <3> SUFFICES ASSUME NEW p \in RetainedPosts(tag), NEW s \in tag.posts, s < p PROVE FALSE
            BY <2>3
        <3> DEFINE o == OldestPost(tag.posts)
        <3>1. p < o /\ o <= s
            BY <1>11, OldestExists DEF RetainedPosts, Answer
        <3>2. o \in Nat /\ p \in Nat /\ s \in Nat
            BY <1>11, OldestExists, FeedClientAssumption DEF RetainedPosts, Answer
        <3> HIDE DEF o
        <3> QED
            BY <3>1, <3>2
    <2>5. tag.posts \subseteq screen' /\ \A p \in tag.posts : p \in hearts' <=> p \in tag.likes
        BY <2>3
    <2> QED
        BY <2>2, <2>4, <2>5 DEF NewOnScreen, TagShown, HeartsFollow, Agrees
<1>13. CASE poll[q].before # 0
    <2> SUFFICES ASSUME Settled' PROVE NewOnScreen' /\ TagShown' /\ HeartsFollow'
        BY <1>5, <1>6, <1>7, <1>10 DEF ScreenInv, NewOnScreen, TagShown, HeartsFollow
    <2>1. q \notin Reading
        BY <1>13 DEF Reading
    <2>2. Settled
        BY <1>8, <1>9, <2>1 DEF Settled, ReadBody
    <2>3. UNCHANGED <<tag, posted, loved, gone>>
        BY DEF ReadBody
    <2>4. poll[q].body.posts \cap (Withdrawn \cup Since) = {}
        BY <1>13 DEF Settled, ReadBody
    <2>5. poll[q].body.posts \subseteq Whisper
        BY <1>1 DEF Answer
    <2>6. \A p \in screen' \ tag.posts : (\E s \in tag.posts : s < p) => p \in screen
        BY <1>4, <1>13, <2>4, <2>5 DEF Since
    <2>7. NewOnScreen'
        BY <1>3, <2>2, <2>3, <2>6 DEF ScreenInv, NewOnScreen
    <2>8. TagShown'
        BY <1>3, <1>4, <1>13, <2>2, <2>3 DEF ScreenInv, TagShown
    <2>9. ASSUME NEW p \in tag.posts, p \in posted, p \in screen' PROVE p \in screen
        <3> SUFFICES ASSUME p \notin screen PROVE FALSE
            OBVIOUS
        <3>1. Sent("delete", p)
            BY <2>2, <2>9 DEF ScreenInv, TagShown
        <3>2. p \in Withdrawn
            BY <3>1 DEF Sent, Withdrawn
        <3> QED
            BY <1>4, <1>13, <2>4, <2>9, <3>2
    <2>10. HeartsFollow'
        BY <1>3, <1>4, <1>13, <2>2, <2>3, <2>9 DEF ScreenInv, HeartsFollow, Agrees
    <2> QED
        BY <2>7, <2>8, <2>10
<1> QED
    BY <1>12, <1>13

\* What the viewer does leaves the polls as they are.
LEMMA PollsStay ==
    ASSUME ScreenInv, UNCHANGED <<poll, tag, missed>>, ~mingled' => ~mingled,
           posted \cup gone \subseteq posted' \cup gone',
           \A p \in posted \cup gone : Sent("publish", p)' => Sent("publish", p)
    PROVE  AnswersKnown' /\ OneReading' /\ (Settled' => Settled)
<1>1. Reading' = Reading /\ Feeds' = Feeds
    BY DEF Reading, Feeds
<1>2. \A a : Known(a) => Known(a)'
    BY DEF Known
<1>3. Known(tag) /\ \A q \in Feeds : Known(poll[q].body)
    BY DEF ScreenInv, AnswersKnown
<1>4. Known(tag)' /\ \A q \in Feeds : Known(poll[q].body)'
    BY <1>2, <1>3, UNCHANGED <<poll, tag>> DEF Known
<1> QED
    BY <1>1, <1>4 DEF ScreenInv, AnswersKnown, OneReading, Settled

\* Whatever the viewer does, a request is sent.
LEMMA ActShape ==
    ASSUME ScreenInv, NEW p \in Whisper, NEW kind \in {"publish", "like", "unlike", "delete"},
           kind \in {"publish", "delete"} => p \in Mine, Act(kind, p),
           screen' \subseteq screen \cup {p}
    PROVE  /\ ScreenShape'
           /\ \A k, r : Sent(k, r)' <=> Sent(k, r) \/ (k = kind /\ r = p)
           /\ \A r \in Whisper \ {p} : Switching(r)' = Switching(r)
           /\ kind \notin {"like", "unlike"} => \A r : Switching(r)' = Switching(r)
<1> DEFINE w == [kind |-> kind, post |-> p, stage |-> "sent"]
<1>1. writes' = writes \cup {w}
    BY DEF Act
<1>2. w.kind = kind /\ w.post = p /\ w.stage = "sent"
    OBVIOUS
<1>3. ScreenShape'
    BY <1>1, <1>2 DEF ScreenInv, ScreenShape, Act
<1>4. \A k, r : [kind |-> k, post |-> r, stage |-> "sent"] = w <=> k = kind /\ r = p
    OBVIOUS
<1> HIDE DEF w
<1> QED
    BY <1>1, <1>2, <1>3, <1>4 DEF Sent, Switching

\* The viewer posts,
LEMMA PostStep ==
    ASSUME ScreenInv, NEW p \in Whisper, postEcho(p)
    PROVE  ScreenInv'
<1>1. /\ p \in Mine /\ p \notin posted /\ p \notin gone /\ p \notin screen
      /\ screen' = screen \cup {p} /\ \A w \in writes : w.post # p
      /\ UNCHANGED <<hearts, mingled, posted, gone, loved, tag, poll, missed>>
    BY DEF postEcho, Act
<1>2. /\ ScreenShape'
      /\ \A k, r : Sent(k, r)' <=> Sent(k, r) \/ (k = "publish" /\ r = p)
      /\ \A r : Switching(r)' = Switching(r)
    BY <1>1, ActShape DEF postEcho
<1>3. \A k : ~Sent(k, p)
    BY <1>1 DEF Sent
<1>4. PublishedOnce'
    BY <1>1, <1>2 DEF ScreenInv, PublishedOnce
<1>5. AnswersKnown' /\ OneReading' /\ (Settled' => Settled)
    BY <1>1, <1>2, PollsStay
<1>6. OneSwitch'
    BY <1>1, <1>2 DEF ScreenInv, OneSwitch
<1>7. p \notin tag.posts
    BY <1>1 DEF ScreenInv, AnswersKnown, Known
<1>8. NewOnScreen'
    BY <1>1, <1>2, <1>3, <1>5 DEF ScreenInv, NewOnScreen
<1>9. TagShown'
    BY <1>1, <1>2, <1>5, <1>7 DEF ScreenInv, TagShown
<1>10. HeartsFollow'
    BY <1>1, <1>2, <1>5, <1>7 DEF ScreenInv, HeartsFollow, Agrees, Wanted
<1> QED
    BY <1>2, <1>4, <1>5, <1>6, <1>8, <1>9, <1>10 DEF ScreenInv

\* likes or takes a like back,
LEMMA ToggleStep ==
    ASSUME ScreenInv, NEW p \in Whisper, toggleEcho(p)
    PROVE  ScreenInv'
<1> DEFINE kind == IF p \in hearts THEN "unlike" ELSE "like"
<1>1. /\ UNCHANGED <<screen, posted, gone, loved, tag, poll, missed>>
      /\ mingled' = (mingled \/ Switching(p) # {})
      /\ hearts' = IF p \in hearts THEN hearts \ {p} ELSE hearts \cup {p}
      /\ Act(kind, p)
    BY DEF toggleEcho, Act
<1>2. kind \in {"publish", "like", "unlike", "delete"} /\ kind \notin {"publish", "delete"}
    OBVIOUS
<1>3. kind = "like" <=> p \in hearts'
    BY <1>1
<1> HIDE DEF kind
<1>4. /\ ScreenShape'
      /\ \A k, r : Sent(k, r)' <=> Sent(k, r) \/ (k = kind /\ r = p)
      /\ \A r \in Whisper \ {p} : Switching(r)' = Switching(r)
    BY <1>1, <1>2, ActShape
<1>5. PublishedOnce'
    BY <1>1, <1>2, <1>4 DEF ScreenInv, PublishedOnce
<1>6. AnswersKnown' /\ OneReading' /\ (Settled' => Settled)
    BY <1>1, <1>2, <1>4, PollsStay
<1>7. OneSwitch'
    <2> SUFFICES ASSUME ~mingled', NEW r \in Whisper, NEW v \in Switching(r)', NEW w \in Switching(r)'
                 PROVE  v = w
        BY DEF OneSwitch
    <2>1. CASE r = p
        <3>1. Switching(p)' \subseteq {[kind |-> kind, post |-> p, stage |-> "sent"]}
            BY <1>1 DEF Act, Switching
        <3> QED
            BY <2>1, <3>1
    <2>2. CASE r # p
        BY <1>1, <1>4, <2>2 DEF ScreenInv, OneSwitch
    <2> QED
        BY <2>1, <2>2
<1>8. NewOnScreen' /\ TagShown'
    BY <1>1, <1>2, <1>4, <1>6 DEF ScreenInv, NewOnScreen, TagShown
<1>9. HeartsFollow'
    <2> SUFFICES ASSUME Settled', NEW r \in tag.posts, r \in posted, r \in screen, ~Sent("delete", r)
                 PROVE  Agrees(r)'
        BY <1>1, <1>2, <1>4 DEF HeartsFollow
    <2>1. Agrees(r)
        BY <1>6 DEF ScreenInv, HeartsFollow
    <2>2. CASE r # p
        <3>1. (r \in hearts' <=> r \in hearts) /\ (Wanted(r)' <=> Wanted(r))
            BY <1>1, <1>4, <2>2 DEF Wanted
        <3> QED
            BY <1>1, <2>1, <3>1 DEF Agrees
    <2>3. CASE r = p
        <3>0. Switching(p) = {}
            BY <1>1 DEF Settled
        <3>1. ~Sent("like", p) /\ ~Sent("unlike", p)
            BY <3>0 DEF Sent, Switching
        <3>2. kind \in {"like", "unlike"}
            BY DEF kind
        <3>3. (Sent("like", p)' <=> kind = "like") /\ (Sent("unlike", p)' <=> kind = "unlike")
            BY <1>4, <3>1
        <3>4. kind = "unlike" <=> ~(kind = "like")
            BY <3>2
        <3>5. Wanted(p)' <=> kind = "like"
            BY <3>3, <3>4 DEF Wanted
        <3> QED
            BY <1>3, <2>3, <3>5 DEF Agrees
    <2> QED
        BY <2>2, <2>3
<1> QED
    BY <1>4, <1>5, <1>6, <1>7, <1>8, <1>9 DEF ScreenInv

\* deletes,
LEMMA DeleteStep ==
    ASSUME ScreenInv, NEW p \in Whisper, deleteOwnEcho(p)
    PROVE  ScreenInv'
<1>1. /\ UNCHANGED <<mingled, posted, gone, loved, tag, poll, missed>>
      /\ screen' = screen \ {p} /\ hearts' = hearts \ {p} /\ p \in Mine /\ Act("delete", p)
    BY DEF deleteOwnEcho, Act
<1>2. /\ ScreenShape'
      /\ \A k, r : Sent(k, r)' <=> Sent(k, r) \/ (k = "delete" /\ r = p)
      /\ \A r : Switching(r)' = Switching(r)
    BY <1>1, ActShape
<1>3. AnswersKnown' /\ OneReading' /\ (Settled' => Settled)
    BY <1>1, <1>2, PollsStay
<1>4. PublishedOnce' /\ OneSwitch'
    BY <1>1, <1>2 DEF ScreenInv, PublishedOnce, OneSwitch
<1>5. NewOnScreen' /\ TagShown'
    BY <1>1, <1>2, <1>3 DEF ScreenInv, NewOnScreen, TagShown
<1>6. HeartsFollow'
    BY <1>1, <1>2, <1>3 DEF ScreenInv, HeartsFollow, Agrees, Wanted
<1> QED
    BY <1>2, <1>3, <1>4, <1>5, <1>6 DEF ScreenInv

\* others post and delete,
LEMMA OthersStep ==
    ASSUME ScreenInv, NEW p \in Whisper, Others(p)
    PROVE  ScreenInv'
<1>1. UNCHANGED <<screen, hearts, tag, poll, writes, missed, mingled>> /\ p \notin Mine
    BY DEF Others
<1>2. /\ \A k, r : Sent(k, r)' <=> Sent(k, r)
      /\ \A r : Switching(r)' = Switching(r)
    BY <1>1 DEF Sent, Switching
<1>3. ~Sent("publish", p) /\ ~Sent("delete", p)
    BY <1>1 DEF ScreenInv, ScreenShape, Sent
<1>4. \/ posted' = posted \cup {p} /\ p \notin posted \cup gone /\ UNCHANGED <<gone, loved>>
      \/ posted' = posted \ {p} /\ gone' = gone \cup {p} /\ loved' = loved \ {p}
    BY DEF Others
<1>5. ScreenShape'
    <2>1. IsFiniteSet(posted')
        BY <1>4, FS_AddElement, FS_RemoveElement DEF ScreenInv, ScreenShape
    <2> QED
        BY <1>1, <1>4, <2>1 DEF ScreenInv, ScreenShape
<1>6. AnswersKnown' /\ OneReading' /\ (Settled' => Settled)
    BY <1>1, <1>2, <1>4, PollsStay
<1>7. PublishedOnce' /\ OneSwitch'
    BY <1>1, <1>2, <1>3, <1>4 DEF ScreenInv, PublishedOnce, OneSwitch
<1>8. NewOnScreen'
    BY <1>1, <1>2, <1>4, <1>6 DEF ScreenInv, NewOnScreen
<1>10. \A r \in tag.posts : r \in posted' => r \in posted
    BY <1>4 DEF ScreenInv, AnswersKnown, Known
<1>11. TagShown'
    BY <1>1, <1>2, <1>6, <1>10 DEF ScreenInv, TagShown
<1>12. HeartsFollow'
    <2>1. \A r \in tag.posts : r \in posted' => (r \in loved' <=> r \in loved)
        BY <1>4 DEF ScreenInv, AnswersKnown, Known
    <2> QED
        BY <1>1, <1>2, <1>6, <1>10, <2>1 DEF ScreenInv, HeartsFollow, Agrees, Wanted
<1> QED
    BY <1>5, <1>6, <1>7, <1>8, <1>11, <1>12 DEF ScreenInv

\* the relay runs what was sent,
LEMMA RunStep ==
    ASSUME ScreenInv, NEW w \in writes, RunWrite(w)
    PROVE  ScreenInv'
<1> DEFINE p == w.post
           done == [w EXCEPT !.stage = "run"]
<1>1. /\ UNCHANGED <<screen, hearts, tag, poll, missed, mingled>>
      /\ w.stage = "sent" /\ writes' = (writes \ {w}) \cup {done}
    BY DEF RunWrite
<1>2. /\ w \in [kind : {"publish", "like", "unlike", "delete"}, post : Whisper, stage : {"sent", "run"}]
      /\ w.kind \in {"publish", "delete"} => p \in Mine /\ p \in Whisper
    BY DEF ScreenInv, ScreenShape
<1>3. /\ w = [kind |-> w.kind, post |-> p, stage |-> "sent"]
      /\ done = [kind |-> w.kind, post |-> p, stage |-> "run"]
      /\ done.stage = "run" /\ done.kind = w.kind /\ done.post = p
      /\ p \in Whisper
    BY <1>1, <1>2
<1>4. /\ w.kind = "publish" => posted' = posted \cup {p} /\ UNCHANGED <<gone, loved>>
      /\ w.kind = "delete" => /\ posted' = posted \ {p} /\ loved' = loved \ {p}
                              /\ gone' = gone \cup {p}
      /\ w.kind = "like" => /\ loved' = IF p \in posted THEN loved \cup {p} ELSE loved
                            /\ UNCHANGED <<posted, gone>>
      /\ w.kind = "unlike" => loved' = loved \ {p} /\ UNCHANGED <<posted, gone>>
    BY DEF RunWrite
<1>5. ScreenShape'
    <2>1. IsFiniteSet(posted') /\ posted' \subseteq Whisper
        BY <1>2, <1>3, <1>4, FS_AddElement, FS_RemoveElement DEF ScreenInv, ScreenShape
    <2>2. done \in [kind : {"publish", "like", "unlike", "delete"}, post : Whisper,
                    stage : {"sent", "run"}]
        BY <1>2
    <2> HIDE DEF done
    <2> QED
        BY <1>1, <1>2, <1>3, <2>1, <2>2 DEF ScreenInv, ScreenShape
<1>6. \A k, r : Sent(k, r)' <=> Sent(k, r) /\ ~(k = w.kind /\ r = p)
    <2>1. \A k, r : /\ [kind |-> k, post |-> r, stage |-> "sent"] # done
                    /\ [kind |-> k, post |-> r, stage |-> "sent"] = w <=> k = w.kind /\ r = p
        BY <1>3
    <2> HIDE DEF p, done
    <2> QED
        BY <1>1, <2>1 DEF Sent
<1>7. \A r : Switching(r)' = Switching(r) \ {w}
    <2> HIDE DEF p, done
    <2> QED
        BY <1>1, <1>3 DEF Switching
<1>8. w \in writes /\ Sent(w.kind, p)
    BY <1>3 DEF Sent
<1> HIDE DEF p, done
<1>9. posted \cup gone \subseteq posted' \cup gone'
    BY <1>2, <1>4
<1>10. AnswersKnown' /\ OneReading' /\ (Settled' => Settled)
    BY <1>1, <1>6, <1>9, PollsStay
<1>11. PublishedOnce' /\ OneSwitch'
    BY <1>1, <1>2, <1>4, <1>6, <1>7 DEF ScreenInv, PublishedOnce, OneSwitch
<1>12. \A r \in tag.posts : r \in posted' => r \in posted /\ (w.kind = "delete" => r # p)
    BY <1>2, <1>4, <1>8 DEF ScreenInv, AnswersKnown, Known
<1>13. NewOnScreen'
    BY <1>1, <1>2, <1>4, <1>6, <1>8, <1>10 DEF ScreenInv, NewOnScreen
<1>14. TagShown'
    BY <1>1, <1>2, <1>6, <1>10, <1>12, <1>4 DEF ScreenInv, TagShown
<1>15. HeartsFollow'
    <2> SUFFICES ASSUME Settled', NEW r \in tag.posts, r \in posted', r \in screen, ~Sent("delete", r)'
                 PROVE  Agrees(r)'
        BY <1>1 DEF HeartsFollow
    <2>1. r \in posted /\ (w.kind = "delete" => r # p) /\ ~Sent("delete", r)
        BY <1>6, <1>12
    <2>2. Agrees(r)
        BY <1>10, <2>1 DEF ScreenInv, HeartsFollow
    <2>3. Wanted(r)' <=> Wanted(r)
        <3>1. CASE r # p
            BY <1>2, <1>4, <1>6, <3>1 DEF Wanted
        <3>2. CASE r = p /\ w.kind \in {"like", "unlike"}
            <4>1. ~(Sent("like", p) /\ Sent("unlike", p))
                <5> DEFINE a == [kind |-> "like", post |-> p, stage |-> "sent"]
                           b == [kind |-> "unlike", post |-> p, stage |-> "sent"]
                <5>1. a # b /\ a.kind = "like" /\ b.kind = "unlike" /\ a.post = p /\ b.post = p
                      /\ a.stage = "sent" /\ b.stage = "sent"
                    OBVIOUS
                <5>2. (Sent("like", p) <=> a \in writes) /\ (Sent("unlike", p) <=> b \in writes)
                    BY DEF Sent
                <5> HIDE DEF a, b
                <5> QED
                    BY <1>3, <1>10, <5>1, <5>2 DEF Settled, ScreenInv, OneSwitch, Switching
            <4> QED
                BY <1>4, <1>6, <1>8, <2>1, <3>2, <4>1 DEF Wanted
        <3>3. CASE r = p /\ w.kind \notin {"like", "unlike"}
            BY <1>2, <1>4, <1>6, <2>1, <3>3 DEF Wanted
        <3> QED
            BY <3>1, <3>2, <3>3
    <2> QED
        BY <1>1, <2>2, <2>3 DEF Agrees
<1> QED
    BY <1>5, <1>10, <1>11, <1>13, <1>14, <1>15 DEF ScreenInv

\* or never gets it.
LEMMA MissStep ==
    ASSUME ScreenInv, NEW w \in writes, WriteMissed(w)
    PROVE  ScreenInv'
<1>1. /\ UNCHANGED <<posted, gone, loved, screen, hearts, tag, poll, mingled>>
      /\ missed' /\ writes' = writes \ {w}
    BY DEF WriteMissed
<1>2. /\ \A k, r : Sent(k, r)' => Sent(k, r)
      /\ \A r : Switching(r)' \subseteq Switching(r)
    BY <1>1 DEF Sent, Switching
<1>3. ScreenShape'
    BY <1>1 DEF ScreenInv, ScreenShape, WriteMissed
<1>4. PublishedOnce' /\ OneSwitch'
    BY <1>1, <1>2 DEF ScreenInv, PublishedOnce, OneSwitch
<1>5. Reading' = Reading /\ Feeds' = Feeds
    BY <1>1 DEF Reading, Feeds
<1>6. AnswersKnown' /\ OneReading'
    BY <1>1, <1>2, <1>5 DEF ScreenInv, AnswersKnown, Known, OneReading
<1>7. ~Settled'
    BY <1>1 DEF Settled
<1> QED
    BY <1>3, <1>4, <1>6, <1>7 DEF ScreenInv, NewOnScreen, TagShown, HeartsFollow

\* Every step keeps it.
LEMMA ScreenStep == ScreenInv /\ [FeedClientNext]_screenVars => ScreenInv'
<1>1. ASSUME ScreenInv, UNCHANGED screenVars PROVE ScreenInv'
    BY <1>1 DEF ScreenInv, screenVars, ScreenShape, PublishedOnce, Sent, AnswersKnown, Known, Feeds,
       OneReading, Reading, OneSwitch, Switching, NewOnScreen, TagShown, HeartsFollow, Settled, Agrees,
       Wanted
<1> QED
    BY <1>1, PollingSteps, ReadTagStep, ReadBodyStep, PostStep, ToggleStep, DeleteStep, OthersStep,
       RunStep, MissStep DEF FeedClientNext

\* "Unchanged" means that the viewer's copy is current (Dashboard.tsx:336), for any posts,
\* polls, pages and bounds: while the tag is that of the feed as it is, and nothing is on
\* its way, the screen shows that feed, unless answers or likes overlapped.
THEOREM UnchangedIsCurrentHolds == FeedClientSpec => []UnchangedIsCurrent
<1>1. FeedClientSpec => []ScreenInv
    BY ScreenInitially, ScreenStep, PTL DEF FeedClientSpec
<1> QED
    BY <1>1, ScreenIsCurrent, PTL
======================================================================================
