------------------------------- MODULE Whispers -------------------------------
(***************************************************************************)
(* The public feed: echoes, reflections, likes, ripples, follows and the   *)
(* notifications about them (apps/relay/src/whisper-routes.ts and          *)
(* whisper-repository.ts).                                                 *)
(*                                                                         *)
(* A request looks its target up, writes, then notifies: three statements, *)
(* each its own transaction.  Deletions are one transaction each.  What    *)
(* the contest credits for them is ContestEngine's.                        *)
(***************************************************************************)
EXTENDS FeedTypes, Naturals, FiniteSets

CONSTANTS
  Request,    \* requests in progress
  Toggled,    \* bound: the likes and follows that are switched, as <<user, target>>
  MaxAborts   \* bound: requests that fail half-way

Target == Echo \cup Reflection \cup User

ASSUME WhispersAssumption ==
  /\ Toggled \subseteq User \X Target
  /\ MaxAborts \in Nat

VARIABLES
  echoes,      \* whisper_echoes
  refl,        \* whisper_reflections: "absent", "live" or "tombstone"
  marks,       \* whisper_reactions, whisper_reflection_reactions, whisper_follows
  ripples,     \* whisper_ripples
  notices,     \* whisper_notifications
  request,
  raced,       \* history: deleted while a request about them was in progress
  tangled,  \* history: likes and follows toggled by two requests at once, or by half of one
  aborts

feedVars == <<echoes, refl, marks, ripples, notices, request, raced, tangled, aborts>>

Done == [stage |-> "none", todo |-> {}]

FeedInit ==
  /\ echoes = {} /\ refl = [f \in Reflection |-> "absent"]
  /\ marks = {} /\ ripples = {} /\ notices = {}
  /\ request = [r \in Request |-> Done]
  /\ raced = {} /\ tangled = {} /\ aborts = 0

\* Whom a like or follow is shown to, and the echo a notification leads to.
Owner(t) == IF t \in User THEN t ELSE AuthorOf[t]
Home(t) == IF t \in Reflection THEN EchoOf[t] ELSE t
Present(t) == t \in echoes \cup User \/ (t \in Reflection /\ refl[t] = "live")

Notice(to, from, kind, about) == [to |-> to, from |-> from, kind |-> kind, about |-> about]

\* A request in progress that could still write something about t.
About(q, t) == q # Done /\ (q.target = t \/ Home(q.target) = t
                            \/ (q.target \in Reflection /\ ParentOf[q.target] = t))
InProgress(t) == \E r \in Request : About(request[r], t)
Toggling(u, t) == \E r \in Request : /\ request[r] # Done
                                     /\ request[r].kind \in {"on", "off"}
                                     /\ request[r].by = u /\ request[r].target = t

-------------------------------------------------------------------------------
(* Requests.  "todo" holds the notifications still to be stored. *)

\* One statement, then a notification for whom the text mentions.
createEcho(r, e, mentioned) ==
  /\ request[r] = Done
  /\ e \notin echoes
  /\ echoes' = echoes \cup {e}
  /\ request' = [request EXCEPT ![r] =
       [stage |-> "notify", kind |-> "publish", by |-> AuthorOf[e], target |-> e,
        todo |-> {Notice(u, AuthorOf[e], "mention", e) : u \in mentioned}]]
  /\ UNCHANGED <<refl, marks, ripples, notices, raced, tangled, aborts>>

\* addReflection, the look-up: the echo and the parent are there.  Whom to notify is
\* settled here; the author of a tombstone is not told.
LookUpParent(r, f) ==
  /\ request[r] = Done
  /\ EchoOf[f] \in echoes
  /\ ParentOf[f] \in Reflection => refl[ParentOf[f]] # "absent"
  /\ LET p == ParentOf[f]
         parent == {q \in {p} \cap Reflection : refl[q] = "live"}
         others == {EchoOf[f]} \ {e \in Echo : \E q \in parent : AuthorOf[q] = AuthorOf[e]}
     IN request' = [request EXCEPT ![r] =
          [stage |-> "write", kind |-> "reflect", by |-> AuthorOf[f], target |-> f,
           todo |-> {Notice(AuthorOf[q], AuthorOf[f], "reply", f) : q \in parent} \cup
                    {Notice(AuthorOf[e], AuthorOf[f], "reflect", f) : e \in others}]]
  /\ UNCHANGED <<echoes, refl, marks, ripples, notices, raced, tangled, aborts>>

\* addReflection, the insert: an id that exists already ends the request.
addReflection(r) ==
  /\ request[r].stage = "write" /\ request[r].kind = "reflect"
  /\ LET f == request[r].target
     IN IF refl[f] = "absent"
        THEN /\ refl' = [refl EXCEPT ![f] = "live"]
             /\ request' = [request EXCEPT ![r].stage = "notify"]
        ELSE request' = [request EXCEPT ![r] = Done] /\ UNCHANGED refl
  /\ UNCHANGED <<echoes, marks, ripples, notices, raced, tangled, aborts>>

\* A like or follow is switched on or off: the look-up.
LookUpTarget(r, u, t, switch) ==
  /\ request[r] = Done
  /\ <<u, t>> \in Toggled
  /\ Present(t) /\ t # u
  /\ tangled' = IF Toggling(u, t) THEN tangled \cup {<<u, t>>} ELSE tangled
  /\ request' = [request EXCEPT ![r] = [stage |-> "write", kind |-> switch, by |-> u,
                                        target |-> t, todo |-> {}]]
  /\ UNCHANGED <<echoes, refl, marks, ripples, notices, raced, aborts>>

\* setReaction, setReflectionReaction and setFollow: the row.  A follow that was there
\* already notifies nobody.
setReaction(r) ==
  /\ request[r].stage = "write" /\ request[r].kind \in {"on", "off"}
  /\ LET q == request[r]
         p == <<q.by, q.target>>
         news == q.target \notin User \/ p \notin marks
     IN /\ marks' = IF q.kind = "on" THEN marks \cup {p} ELSE marks \ {p}
        /\ request' = [request EXCEPT ![r].stage = "notify", ![r].todo =
             IF q.kind = "off" \/ news
             THEN {Notice(Owner(q.target), q.by, "like", q.target)} ELSE {}]
  /\ UNCHANGED <<echoes, refl, ripples, notices, raced, tangled, aborts>>

\* addRipple: the look-up.
LookUpRipple(r, u, e, copy) ==
  /\ request[r] = Done
  /\ AuthorOf[copy] = u /\ copy # e
  /\ request' = [request EXCEPT ![r] = [stage |-> "write", kind |-> "ripple", by |-> u,
       target |-> e, copy |-> copy,
       todo |-> IF e \in echoes THEN {Notice(AuthorOf[e], u, "ripple", e)} ELSE {}]]
  /\ UNCHANGED <<echoes, refl, marks, ripples, notices, raced, tangled, aborts>>

\* addRipple, the insert, unless the look-up found nothing.
addRipple(r) ==
  /\ request[r].stage = "write" /\ request[r].kind = "ripple"
  /\ ripples' = IF request[r].todo = {} THEN ripples
                ELSE ripples \cup {<<request[r].by, request[r].target>>}
  /\ request' = [request EXCEPT ![r].stage = "copy"]
  /\ UNCHANGED <<echoes, refl, marks, notices, raced, tangled, aborts>>

\* The quoting echo is created whether its original is there or not.
createRippleEcho(r) ==
  /\ request[r].stage = "copy"
  /\ echoes' = echoes \cup {request[r].copy}
  /\ request' = [request EXCEPT ![r].stage = "notify"]
  /\ UNCHANGED <<refl, marks, ripples, notices, raced, tangled, aborts>>

\* A notification is not taken back when a like is.
notify_Keep(r, n) ==
  /\ request[r].stage = "notify"
  /\ n \in request[r].todo
  /\ notices' = IF request[r].kind # "off" /\ n.to # n.from THEN notices \cup {n} ELSE notices
  /\ request' = [request EXCEPT ![r].todo = @ \ {n}]
  /\ UNCHANGED <<echoes, refl, marks, ripples, raced, tangled, aborts>>

\* addNotification, never to oneself and once; or removeNotification.
notify(r, n) ==
  /\ request[r].stage = "notify"
  /\ n \in request[r].todo
  /\ notices' = CASE request[r].kind = "off" -> notices \ {n}
                  [] request[r].kind # "off" /\ n.to # n.from -> notices \cup {n}
                  [] OTHER -> notices
  /\ request' = [request EXCEPT ![r].todo = @ \ {n}]
  /\ UNCHANGED <<echoes, refl, marks, ripples, raced, tangled, aborts>>

Reply(r) ==
  /\ request[r].stage = "notify" /\ request[r].todo = {}
  /\ request' = [request EXCEPT ![r] = Done]
  /\ UNCHANGED <<echoes, refl, marks, ripples, notices, raced, tangled, aborts>>

\* A statement fails, or the instance stops.
Abort(r) ==
  /\ request[r] # Done
  /\ aborts < MaxAborts
  /\ aborts' = aborts + 1
  /\ tangled' = IF request[r].kind \in {"on", "off"}
                   THEN tangled \cup {<<request[r].by, request[r].target>>} ELSE tangled
  /\ request' = [request EXCEPT ![r] = Done]
  /\ UNCHANGED <<echoes, refl, marks, ripples, notices, raced>>

-------------------------------------------------------------------------------
(* Deletions. *)

\* The notifications about the echo stay.
deleteEcho_KeepNotices(e) ==
  /\ e \in echoes
  /\ echoes' = echoes \ {e}
  /\ refl' = [f \in Reflection |-> IF EchoOf[f] = e THEN "absent" ELSE refl[f]]
  /\ marks' = {p \in marks : Home(p[2]) # e}
  /\ ripples' = {p \in ripples : p[2] # e}
  /\ raced' = IF InProgress(e) THEN raced \cup {e} ELSE raced
  /\ UNCHANGED <<notices, request, tangled, aborts>>

\* The echo and everything under it.
deleteEcho(e) ==
  /\ e \in echoes
  /\ echoes' = echoes \ {e}
  /\ refl' = [f \in Reflection |-> IF EchoOf[f] = e THEN "absent" ELSE refl[f]]
  /\ marks' = {p \in marks : Home(p[2]) # e}
  /\ ripples' = {p \in ripples : p[2] # e}
  /\ notices' = {n \in notices : Home(n.about) # e}
  /\ raced' = IF InProgress(e) THEN raced \cup {e} ELSE raced
  /\ UNCHANGED <<request, tangled, aborts>>

Children(f) == {c \in Reflection : ParentOf[c] = f /\ refl[c] # "absent"}

\* Replies or not, the row goes.
Remains_Nothing(f) == "absent"

\* A reply that was replied to leaves a tombstone.
Remains(f) == IF Children(f) # {} THEN "tombstone" ELSE "absent"

deleteReflection(f) ==
  /\ refl[f] = "live"
  /\ refl' = [refl EXCEPT ![f] = Remains(f)]
  /\ marks' = {p \in marks : p[2] # f}
  /\ notices' = {n \in notices : n.about # f}
  /\ raced' = IF InProgress(f) THEN raced \cup {f} ELSE raced
  /\ UNCHANGED <<echoes, ripples, request, tangled, aborts>>

FeedNext ==
  \/ \E r \in Request :
       \/ \E e \in Echo, u \in User : createEcho(r, e, {u})
       \/ \E f \in Reflection : LookUpParent(r, f)
       \/ \E u \in User, t \in Target, s \in {"on", "off"} : LookUpTarget(r, u, t, s)
       \/ \E u \in User, e, copy \in Echo : LookUpRipple(r, u, e, copy)
       \/ addReflection(r) \/ setReaction(r) \/ addRipple(r) \/ createRippleEcho(r)
       \/ \E n \in request[r].todo : notify(r, n)
       \/ Reply(r) \/ Abort(r)
  \/ \E e \in Echo : deleteEcho(e)
  \/ \E f \in Reflection : deleteReflection(f)

FeedSpec == FeedInit /\ [][FeedNext]_feedVars

-------------------------------------------------------------------------------
(* Properties. *)

\* A reply's parent is there, live or as a tombstone, unless it was deleted while the
\* reply was being added (whisper-repository.ts:638).
ThreadsIntact ==
  \A f \in Reflection :
    refl[f] # "absent" /\ ParentOf[f] \in Reflection =>
      refl[ParentOf[f]] # "absent" \/ {ParentOf[f], EchoOf[f]} \cap raced # {}

\* Once an echo or a reply is gone nothing is left of it, no notification leads to it and
\* no thread hangs from it, unless a request about it was in progress
\* (whisper-repository.ts:577).
DeletedLeavesNothing ==
  /\ ThreadsIntact
  /\ \A t \in (Echo \cup Reflection) \ raced :
       ~Present(t) /\ Home(t) \notin raced =>
         /\ \A p \in marks \cup ripples : p[2] # t
         /\ \A n \in notices : n.about # t
         /\ t \in Echo => \A f \in Reflection : EchoOf[f] = t => refl[f] = "absent"

\* The inbox never goes stale: a like or follow of another is in place exactly when its
\* notification is, unless two toggles of it tangled (whisper-routes.ts:454).
NoticeMatchesMark ==
  \A p \in Toggled :
    LET u == p[1]
        t == p[2]
    IN \/ Toggling(u, t) \/ p \in tangled \/ {t, Home(t)} \cap raced # {}
       \/ Owner(t) = u
       \/ (p \in marks) <=> (Notice(Owner(t), u, "like", t) \in notices)

\* Both at once: what is gone leaves nothing behind, and what is there is what the inbox
\* says (whisper-repository.ts:577, whisper-routes.ts:454).
FeedHoldsTogether == DeletedLeavesNothing /\ NoticeMatchesMark
===============================================================================
