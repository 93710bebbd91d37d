------------------------------- MODULE MCClients -------------------------------
(***************************************************************************)
(* What happens on people's devices and in the feed they share, in parts   *)
(* with no state in common, checked one at a time: the initial state       *)
(* chooses the part, and only that part moves.                             *)
(***************************************************************************)
EXTENDS Outbox, Inbox, GroupKeys, LocalDatabase, Calls, FeedClient, Statuses, Attachments,
        Whispers, FeedMemory, ChatScreen, TLC

CONSTANTS Parts, p1, x1, x2, r1, r2, m1, m2, u1, u2, e1, e2, f1, f2, none

VARIABLE part

chatVars == <<linkVars, outVars, wireVars, inVars>>
deviceVars == <<groupVars, localVars>>
socialVars == <<callVars, screenVars, statusVars, attachVars>>
whisperVars == <<feedVars, memoryVars, panelVars>>

\* The second user's reply to the first user's echo, and the first user's to that.
Author == (e1 :> u1) @@ (e2 :> u2) @@ (f1 :> u2) @@ (f2 :> u1)
Thread == (f1 :> e1) @@ (f2 :> f1)
EchoPlace == (f1 :> e1) @@ (f2 :> e1)
Likes == {<<e1, u2>>, <<e2, u2>>, <<f1, u2>>}
Posted == (e1 :> 1) @@ (e2 :> 2) @@ (f1 :> 3) @@ (f2 :> 4)
LikeTimes == (e1 :> 2) @@ (e2 :> 1)
Alphabet == (u1 :> 2) @@ (u2 :> 1)
Told == (e1 :> {u1}) @@ (e2 :> {u1, u2})
Toggles == {<<u1, f1>>, <<u2, u1>>, <<u2, e1>>}

\* Senders are interchangeable, and so are runs and requests.
Interchangeable == Permutations({x1, x2}) \cup Permutations({r1, r2})

Init ==
  /\ part \in Parts
  /\ GroupInit /\ LocalInit
  /\ kept[1] = IF part = "group" THEN Device ELSE {Creator}
  /\ part # "database" => page = "closed" /\ saved = {}
  /\ SocketInit /\ OutboxInit /\ WireInit /\ InboxInit
  /\ CallsInit /\ FeedClientInit /\ StatusesInit /\ AttachmentsInit
  /\ FeedInit /\ MemoryInit /\ PanelInit
  /\ part # "files" => inView = p1

\* The sender, seen from the recipient: the relay accepts what it sends.
SenderAccepts(m) ==
  /\ \/ relayed' = relayed \cup {m} /\ UNCHANGED retracted
     \/ retracted' = retracted \cup {m} /\ UNCHANGED relayed
  /\ UNCHANGED inVars

\* Three messages, or two and a link, or two whose runs overlap on one device.
Overlapping ==
  LET busy == {w \in Worker : worker'[w] # Unoccupied}
  IN \/ Cardinality(busy) <= 1 /\ (links' # {} => sent' <= 2)
     \/ sent' <= 2 /\ links' = {} /\ Cardinality({worker'[w].at : w \in busy}) = 1

\* A request is missed in the company of one act of the viewer's only.
OneMissOrTwoActs == misses' > 0 => acted' <= 1

\* Requests of these kinds only, likes and follows of these targets only.
Feed(kinds, targets) ==
  /\ FeedNext
  /\ \A r \in Request :
       request'[r] # Done =>
         /\ request'[r].kind \in kinds \cup {"on", "off"}
         /\ request'[r].kind \in {"on", "off"} => request'[r].target \in targets

\* Only the first user is tagged, in reflections, and these marks are made.
Tags(posts) == UNION {posts[p].mentions : p \in DOMAIN posts}
Marked(likes, rippled) ==
  /\ Tags(echoes_') = {} /\ Tags(reflections_') \subseteq {u1}
  /\ Pairs(reactions_') \cup Pairs(reflectionReactions_') \subseteq likes
  /\ Pairs(ripples_') \subseteq rippled

\* The first user's profile brings no key, and nobody else's is made later.
Profiled == \A u \in DOMAIN profiles_' : profiles_'[u].at = 2 /\ (u = u1 => profiles_'[u].key = Null)

\* Two notifications to the first user, about one echo and one reflection.
InInbox ==
  /\ Len(notifications_') <= 2
  /\ DOMAIN echoes_' \subseteq {e1} /\ DOMAIN reflections_' \subseteq {f1}
  /\ Tags(echoes_') \cup Tags(reflections_') = {}
  /\ \A i \in DOMAIN notifications_' :
       notifications_'[i].to = u1 /\ notifications_'[i].echo \in {e1, Null}

\* At the panel: messages quoted, edited, or behind dialogs, and what takes its time.
Wordless == messageText' = Nowhere /\ editingMessageId' = NoBubble /\ typingTo' = Nowhere
Unpreferred == chatPref' = Nowhere /\ settingReads' = {}

Quoting ==
  /\ PanelNext /\ dialog' = NoDialog /\ take' = take /\ editingMessageId' = NoBubble
  /\ typingTo' = Nowhere /\ Cardinality(settingReads') <= 1
  /\ replyToId' = NoBubble \/ replyToId'[2] = "theirs"

Editing ==
  /\ PanelNext /\ dialog' = NoDialog /\ take' = take /\ replyToId' = NoBubble /\ Unpreferred

Asking ==
  /\ PanelNext /\ Wordless /\ take' = take /\ replyToId' = NoBubble /\ chatPref' = Nowhere
  /\ settingReads' \subseteq {p1} /\ Cardinality(deleted') <= 1 /\ Cardinality(emptied') <= 1

Recording ==
  /\ PanelNext /\ Wordless /\ Unpreferred /\ turns' <= 2 /\ selectedChatId' # p1
  /\ replyToId' \in {NoBubble, <<e1, "mine">>} /\ dialog'.kind \in {"none", "poll"}
  /\ deleted' = {} /\ emptied' = {}

Next ==
  \/ /\ part = "link" /\ OutboxNext /\ \A m \in Msg : rec'[m] = NoRecord
     /\ UNCHANGED <<part, whisperVars, socialVars, deviceVars, inVars>>
  \/ /\ part = "recipient"
     /\ \/ InboxNext /\ UNCHANGED wireVars
        \/ \E m \in Msg : SenderAccepts(m)
     /\ UNCHANGED <<part, whisperVars, socialVars, deviceVars, linkVars, outVars>>
  \/ /\ \/ part = "group" /\ GroupNext /\ Overlapping /\ UNCHANGED localVars
        \/ part = "database" /\ LocalNext /\ tries'[x1] + tries'[x2] <= 3 /\ UNCHANGED groupVars
     /\ UNCHANGED <<part, whisperVars, socialVars, chatVars>>
  \/ /\ \/ part = "call" /\ CallsNext /\ UNCHANGED <<screenVars, statusVars, attachVars>>
        \/ part = "screen" /\ FeedClientNext /\ OneMissOrTwoActs
           /\ UNCHANGED <<callVars, statusVars, attachVars>>
        \/ part = "status" /\ StatusesNext /\ UNCHANGED <<callVars, screenVars, attachVars>>
        \/ part = "files" /\ AttachmentsNext /\ UNCHANGED <<callVars, screenVars, statusVars>>
     /\ UNCHANGED <<part, whisperVars, deviceVars, chatVars>>
  \/ /\ \/ part = "threads" /\ Feed({"publish", "reflect"}, {f1}) /\ e2 \notin echoes'
        \/ part = "ripples" /\ Feed({"publish", "ripple"}, {})
        \/ part = "follows" /\ Feed({"publish"}, {u1, e1}) /\ e2 \notin echoes'
     /\ UNCHANGED <<part, memoryVars, panelVars, socialVars, deviceVars, chatVars>>
  \/ /\ \/ part = "posts" /\ PostCall /\ Marked(Likes, {<<e1, u2>>})
        \/ part = "people" /\ PeopleCall /\ Profiled
        \/ part = "notices" /\ (PostCall \/ InboxCall) /\ Marked({}, {}) /\ InInbox
     /\ UNCHANGED <<part, feedVars, panelVars, socialVars, deviceVars, chatVars>>
  \/ /\ \/ part = "quotes" /\ Quoting
        \/ part = "edits" /\ Editing
        \/ part = "sheets" /\ Asking
        \/ part = "clips" /\ Recording
     /\ UNCHANGED <<part, feedVars, memoryVars, socialVars, deviceVars, chatVars>>

Spec == Init /\ [][Next]_<<part, whisperVars, socialVars, deviceVars, chatVars>>
===============================================================================
