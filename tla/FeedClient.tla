------------------------------ MODULE FeedClient ------------------------------
(***************************************************************************)
(* The whispers feed on a screen: the feed actions of Dashboard.tsx, which *)
(* change the screen first and tell the relay after, and the polls of      *)
(* apps/web/src/lib/whispers.ts, which remember the entity tag of the last *)
(* answer and are told "unchanged" when the relay computes the same one    *)
(* (apps/relay/src/whisper-routes.ts).                                     *)
(*                                                                         *)
(* A poll is asked, answered, its headers are read, and its body replaces  *)
(* the screen: four steps between which the viewer acts and other polls    *)
(* run.  Replies and the threads that show them, profiles and the inbox    *)
(* are left out; the relay is one instance whose caches answer truly.      *)
(***************************************************************************)
EXTENDS Naturals, FiniteSets

CONSTANTS
  Whisper,       \* numbered by the time their author's clock shows
  Mine,       \* those the viewer makes
  Poll,       \* bound: requests for the feed at once
  PageSize,   \* posts in an answer: 100 in the code
  MaxActs,  \* bound: what the viewer does
  MaxMisses   \* bound: requests that do not reach the relay

ASSUME FeedClientAssumption ==
  /\ Whisper \subseteq Nat \ {0} /\ Mine \subseteq Whisper
  /\ PageSize \in Nat \ {0} /\ MaxActs \in Nat /\ MaxMisses \in Nat

VARIABLES
  posted,  \* whisper_echoes
  gone,    \* posts that were deleted
  loved,   \* the viewer's rows of whisper_reactions
  screen,  \* the posts shown
  hearts,  \* those shown as liked
  tag,     \* feedEtags: the answer last read
  poll,    \* requests for the feed
  writes,  \* the viewer's requests: [kind, post, stage]
  acted, misses,
  missed,  \* history: a write did not reach the relay
  mingled  \* history: answers or likes overlapped, as the actions below say

screenVars == <<posted, gone, loved, screen, hearts, tag, poll, writes,
                acted, misses, missed, mingled>>

Unasked == [stage |-> "none"]
Untagged == [posts |-> {}, likes |-> {}]

OldestPost(S) == CHOOSE p \in S : \A q \in S : p <= q
NewestPosts(S, n) == {p \in S : Cardinality({q \in S : q > p}) < n}

\* listFeed for this viewer: the newest page, or the page before a post.
listFeed(S) ==
  LET newest == NewestPosts(S, PageSize)
  IN [posts |-> newest, likes |-> loved \cap newest]
Page == listFeed(posted)
Before(p) == listFeed({q \in posted : q < p})

FeedClientInit ==
  /\ posted = {} /\ gone = {} /\ loved = {} /\ screen = {} /\ hearts = {}
  /\ tag = Untagged /\ poll = [q \in Poll |-> Unasked] /\ writes = {}
  /\ acted = 0 /\ misses = 0 /\ missed = FALSE /\ mingled = FALSE

-------------------------------------------------------------------------------
(* What the viewer does. *)

\* The screen first, then the request.
Act(kind, p) ==
  /\ acted < MaxActs
  /\ acted' = acted + 1
  /\ writes' = writes \cup {[kind |-> kind, post |-> p, stage |-> "sent"]}
  /\ UNCHANGED <<posted, gone, loved, tag, poll, misses, missed>>

postEcho(p) ==
  /\ p \in Mine \ (posted \cup gone \cup screen)
  /\ \A w \in writes : w.post # p
  /\ screen' = screen \cup {p}
  /\ Act("publish", p)
  /\ UNCHANGED <<hearts, mingled>>

\* A like or an unlike of p that the relay has not run.
Switching(p) == {w \in writes : w.kind \in {"like", "unlike"} /\ w.post = p /\ w.stage = "sent"}

\* Which way is decided by what is shown.  Nothing keeps the request behind an earlier one.
toggleEcho(p) ==
  /\ p \in screen
  /\ mingled' = (mingled \/ Switching(p) # {})
  /\ hearts' = IF p \in hearts THEN hearts \ {p} ELSE hearts \cup {p}
  /\ Act(IF p \in hearts THEN "unlike" ELSE "like", p)
  /\ UNCHANGED screen

deleteOwnEcho(p) ==
  /\ p \in Mine \cap screen
  /\ screen' = screen \ {p} /\ hearts' = hearts \ {p}
  /\ Act("delete", p)
  /\ UNCHANGED mingled

\* Others publish, at the time their clocks show, and delete.
Others(p) ==
  /\ p \notin Mine
  /\ \/ /\ p \notin posted \cup gone
        /\ posted' = posted \cup {p}
        /\ UNCHANGED <<gone, loved>>
     \/ /\ p \in posted
        /\ posted' = posted \ {p} /\ gone' = gone \cup {p} /\ loved' = loved \ {p}
  /\ UNCHANGED <<screen, hearts, tag, poll, writes, acted, misses, missed, mingled>>

\* The relay runs a request.
RunWrite(w) ==
  /\ w \in writes /\ w.stage = "sent"
  /\ CASE w.kind = "publish" -> posted' = posted \cup {w.post} /\ UNCHANGED <<gone, loved>>
       [] w.kind = "delete" -> /\ posted' = posted \ {w.post} /\ loved' = loved \ {w.post}
                               /\ gone' = gone \cup {w.post}
       [] w.kind = "like" -> /\ loved' = IF w.post \in posted THEN loved \cup {w.post} ELSE loved
                             /\ UNCHANGED <<posted, gone>>
       [] w.kind = "unlike" -> loved' = loved \ {w.post} /\ UNCHANGED <<posted, gone>>
  /\ writes' = (writes \ {w}) \cup {[w EXCEPT !.stage = "run"]}
  /\ UNCHANGED <<screen, hearts, tag, poll, acted, misses, missed, mingled>>

\* queryWhisperFeed: a poll, with the tag.
AskedFeed == [stage |-> "asked", known |-> tag, before |-> 0]

\* It went through: the feed is asked for.
WriteDone(w, q) ==
  /\ w \in writes /\ w.stage = "run"
  /\ poll[q] = Unasked
  /\ poll' = [poll EXCEPT ![q] = AskedFeed]
  /\ writes' = writes \ {w}
  /\ UNCHANGED <<posted, gone, loved, screen, hearts, tag, acted, misses, missed, mingled>>

\* It did not reach the relay, or its answer the viewer: the screen is left as it is.
WriteMissed(w) ==
  /\ w \in writes
  /\ misses < MaxMisses
  /\ misses' = misses + 1 /\ missed' = TRUE
  /\ writes' = writes \ {w}
  /\ UNCHANGED <<posted, gone, loved, screen, hearts, tag, poll, acted, mingled>>

-------------------------------------------------------------------------------
(* Polls: every 20 seconds, when the window gets the focus, after a write. *)

AskFeed(q) ==
  /\ poll[q] = Unasked
  /\ poll' = [poll EXCEPT ![q] = AskedFeed]
  /\ UNCHANGED <<posted, gone, loved, screen, hearts, tag, writes, acted, misses, missed, mingled>>

\* loadMoreWhisperFeed.  Its answers have tags of their own.
AskOlder(q) ==
  /\ poll[q] = Unasked /\ screen # {}
  /\ poll' = [poll EXCEPT ![q] = [stage |-> "asked", known |-> Untagged,
                                  before |-> OldestPost(screen)]]
  /\ UNCHANGED <<posted, gone, loved, screen, hearts, tag, writes, acted, misses, missed, mingled>>

\* The relay answers; "unchanged" carries nothing.
AnswerPoll(q) ==
  /\ poll[q].stage = "asked"
  /\ LET body == IF poll[q].before = 0 THEN Page ELSE Before(poll[q].before)
         unchanged == poll[q].known = body /\ body # Untagged
     IN poll' = [poll EXCEPT ![q] =
          IF unchanged THEN Unasked
          ELSE [stage |-> "answered", before |-> poll[q].before, body |-> body]]
  /\ UNCHANGED <<posted, gone, loved, screen, hearts, tag, writes, acted, misses, missed, mingled>>

\* No answer, or a body that cannot be read: its tag is remembered all the same.
PollMissed(q) ==
  /\ poll[q] # Unasked
  /\ misses < MaxMisses
  /\ misses' = misses + 1
  /\ missed' = (missed \/ (poll[q].stage = "read" /\ poll[q].before = 0))
  /\ poll' = [poll EXCEPT ![q] = Unasked]
  /\ UNCHANGED <<posted, gone, loved, screen, hearts, tag, writes, acted, mingled>>

\* Polls whose answer is on its way to the screen.
Reading == {q \in Poll : poll[q].stage = "read" /\ poll[q].before = 0}

\* The headers: the tag is remembered before the body is read.
ReadTag(q) ==
  /\ poll[q].stage = "answered"
  /\ tag' = IF poll[q].before = 0 THEN poll[q].body ELSE tag
  /\ poll' = [poll EXCEPT ![q].stage = "read"]
  /\ mingled' = (mingled \/ (poll[q].before = 0 /\ Reading # {}))
  /\ UNCHANGED <<posted, gone, loved, screen, hearts, writes, acted, misses, missed>>

\* Whatever the answer lacks is kept.
RetainedPosts_All(body) == screen \ body.posts

\* What is older than the answer is kept: pages the viewer has loaded.
RetainedPosts(body) == {p \in screen : body.posts # {} /\ p < OldestPost(body.posts)}

\* Deleted, or about to be.
Withdrawn == gone \cup {w.post : w \in {v \in writes : v.kind = "delete"}}

\* Not in the answer last read, and no older than it.
Since == {p \in Whisper \ tag.posts : \E q \in tag.posts : q < p}

\* syncWhispersFromRelay and loadMoreWhisperFeed, the body.
ReadBody(q) ==
  /\ poll[q].stage = "read"
  /\ LET body == poll[q].body
     IN IF poll[q].before = 0
        THEN LET older == RetainedPosts(body) \ body.posts
             IN /\ screen' = body.posts \cup older
                /\ hearts' = body.likes \cup (hearts \cap older)
        ELSE LET new == body.posts \ screen
             IN /\ screen' = screen \cup new
                /\ hearts' = hearts \cup (body.likes \cap new)
  /\ poll' = [poll EXCEPT ![q] = Unasked]
  /\ mingled' = (mingled \/ (/\ poll[q].before # 0
                             /\ poll[q].body.posts \cap (Withdrawn \cup Since) # {}))
  /\ UNCHANGED <<posted, gone, loved, tag, writes, acted, misses, missed>>

FeedClientNext ==
  \/ \E p \in Whisper : postEcho(p) \/ toggleEcho(p) \/ deleteOwnEcho(p) \/ Others(p)
  \/ \E w \in writes : RunWrite(w) \/ WriteMissed(w) \/ \E q \in Poll : WriteDone(w, q)
  \/ \E q \in Poll : AskFeed(q) \/ AskOlder(q) \/ AnswerPoll(q) \/ PollMissed(q)
                     \/ ReadTag(q) \/ ReadBody(q)

FeedClientSpec == FeedClientInit /\ [][FeedClientNext]_screenVars

-------------------------------------------------------------------------------
(* Property. *)

\* "Unchanged" means that the viewer's copy is current (Dashboard.tsx:336): while the
\* tag that is sent is that of the feed as it is, and nothing of the viewer's or of an
\* answer is on its way, the screen shows that feed.  Not so after a write that did not
\* reach the relay or a body that could not be read, nor after two answers were read at
\* once, likes of one post overlapped, or an older page met a newer answer or a deletion.
UnchangedIsCurrent ==
  tag # Untagged /\ tag = Page /\ writes = {} /\ ~missed /\ ~mingled
  /\ (\A q \in Poll : poll[q].stage # "read") =>
    /\ {p \in screen : p >= OldestPost(tag.posts)} = tag.posts
    /\ hearts \cap tag.posts = tag.likes
===============================================================================
