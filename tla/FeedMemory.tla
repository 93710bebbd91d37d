------------------------------ MODULE FeedMemory ------------------------------
(***************************************************************************)
(* The repository of the public feed a relay without a database uses, and  *)
(* the relay's tests with it: MemoryWhisperRepository                      *)
(* (apps/relay/src/whisper-repository.ts), Maps of Maps and Sets in place  *)
(* of tables.  What the tests show of it holds in production as far as it  *)
(* answers every call the way the tables do.                               *)
(***************************************************************************)
EXTENDS FeedTypes, FiniteSets, Sequences, TLC

LOCAL INSTANCE Functions
LOCAL INSTANCE SequencesExt
LOCAL INSTANCE FiniteSetsExt

CONSTANT Times      \* bound: the times of requests, and of the pages they ask for

VARIABLES
  echoes_, reflections_, reactions_, reflectionReactions_, ripples_, profiles_, follows_,
  notifications_,
  answer      \* what the last call returned

postMaps == <<echoes_, reflections_, reactions_, reflectionReactions_, ripples_>>
peopleMaps == <<profiles_, follows_>>
memoryVars == <<postMaps, peopleMaps, notifications_, answer>>

\* Rows in place of entries: a Map entry with an empty Set is none.
Pairs(map) == UNION {{k} \X map[k] : k \in DOMAIN map}

Entries(map) == {map[k] : k \in DOMAIN map}

Tables == INSTANCE FeedTables WITH
  whisper_echoes <- Entries(echoes_), whisper_reflections <- Entries(reflections_),
  whisper_reactions <- Pairs(reactions_),
  whisper_reflection_reactions <- Pairs(reflectionReactions_),
  whisper_ripples <- Pairs(ripples_), whisper_profiles <- Entries(profiles_),
  whisper_follows <- Pairs(follows_), whisper_notifications <- ToSet(notifications_),
  reply <- answer

Blank == [k \in {} |-> {}]

MemoryInit ==
  /\ echoes_ = Blank /\ reflections_ = Blank
  /\ reactions_ = Blank /\ reflectionReactions_ = Blank /\ ripples_ = Blank
  /\ profiles_ = Blank /\ follows_ = Blank
  /\ notifications_ = <<>> /\ answer = Null

Without(map, keys) == Restrict(map, DOMAIN map \ keys)
Get(map, k) == IF k \in DOMAIN map THEN map[k] ELSE {}
Toggle(map, k, u, on) == (k :> IF on THEN Get(map, k) \cup {u} ELSE Get(map, k) \ {u}) @@ map

pruneNotifications(gone) == SelectSeq(notifications_, LAMBDA n : n \notin gone)

-------------------------------------------------------------------------------
(* Calls. *)

MakeEcho(e, tags) ==
  /\ UNCHANGED <<reflections_, reactions_, reflectionReactions_, ripples_, peopleMaps,
                 notifications_>>
  /\ answer' = [created |-> e \notin DOMAIN echoes_]
  /\ echoes_' = echoes_ @@ (e :> [id |-> e, mentions |-> tags])

\* Mutant: the likes of its reflections stay.
DropEcho_KeepLikes(e, by) ==
  LET own == e \in DOMAIN echoes_ /\ AuthorOf[e] = by
      under == {f \in DOMAIN reflections_ : EchoOf[f] = e}
  IN /\ answer' = [deleted |-> own]
     /\ IF own
        THEN /\ echoes_' = Without(echoes_, {e})
             /\ reflections_' = Without(reflections_, under)
             /\ reactions_' = Without(reactions_, {e})
             /\ ripples_' = Without(ripples_, {e})
             /\ notifications_' = pruneNotifications({n \in ToSet(notifications_) : n.echo = e})
             /\ UNCHANGED reflectionReactions_
        ELSE UNCHANGED <<postMaps, notifications_>>
     /\ UNCHANGED peopleMaps

DropEcho(e, by) ==
  LET own == e \in DOMAIN echoes_ /\ AuthorOf[e] = by
      under == {f \in DOMAIN reflections_ : EchoOf[f] = e}
  IN /\ answer' = [deleted |-> own]
     /\ IF own
        THEN /\ echoes_' = Without(echoes_, {e})
             /\ reflections_' = Without(reflections_, under)
             /\ reflectionReactions_' = Without(reflectionReactions_, under)
             /\ reactions_' = Without(reactions_, {e})
             /\ ripples_' = Without(ripples_, {e})
             /\ notifications_' = pruneNotifications({n \in ToSet(notifications_) : n.echo = e})
        ELSE UNCHANGED <<postMaps, notifications_>>
     /\ UNCHANGED peopleMaps

Reflect(f, tags) ==
  LET p == ParentOf[f]
      nested == p \in Reflection
      created == /\ EchoOf[f] \in DOMAIN echoes_ /\ f \notin DOMAIN reflections_
                 /\ nested => p \in DOMAIN reflections_
      root == IF nested THEN reflections_[p].root ELSE f
  IN /\ UNCHANGED <<echoes_, reactions_, reflectionReactions_, ripples_, peopleMaps,
                   notifications_>>
     /\ IF created
        THEN reflections_' = (f :> [id |-> f, root |-> root, deleted |-> FALSE,
                                    mentions |-> tags]) @@ reflections_
        ELSE UNCHANGED reflections_
     /\ answer' = IF ~created THEN [created |-> FALSE]
                  ELSE IF nested /\ ~reflections_[p].deleted
                  THEN [echoAuthor |-> AuthorOf[EchoOf[f]], parentAuthor |-> AuthorOf[p]]
                  ELSE [echoAuthor |-> AuthorOf[EchoOf[f]]]

DropReflection(f, by) ==
  LET own == f \in DOMAIN reflections_ /\ AuthorOf[f] = by /\ ~reflections_[f].deleted
      hasChildren == \E c \in DOMAIN reflections_ : ParentOf[c] = f
  IN /\ UNCHANGED <<echoes_, reactions_, ripples_, peopleMaps>>
     /\ IF own
        THEN /\ reflectionReactions_' = Without(reflectionReactions_, {f})
             /\ notifications_' = pruneNotifications({n \in ToSet(notifications_) : n.reflection = f})
             /\ reflections_' =
                  IF hasChildren
                  THEN [reflections_ EXCEPT ![f].deleted = TRUE, ![f].mentions = {}]
                  ELSE Without(reflections_, {f})
        ELSE UNCHANGED <<reflections_, reflectionReactions_, notifications_>>
     /\ answer' = IF ~own THEN Null ELSE [deletion |-> IF hasChildren THEN "soft" ELSE "hard"]

React(e, u, on) ==
  LET there == e \in DOMAIN echoes_
  IN /\ UNCHANGED <<echoes_, reflections_, reflectionReactions_, ripples_, peopleMaps,
                   notifications_>>
     /\ reactions_' = IF there THEN Toggle(reactions_, e, u, on) ELSE reactions_
     /\ answer' = IF there THEN [author |-> AuthorOf[e], echo |-> e] ELSE Null

ReactToReflection(f, u, on) ==
  LET there == f \in DOMAIN reflections_ /\ ~reflections_[f].deleted
  IN /\ UNCHANGED <<echoes_, reflections_, reactions_, ripples_, peopleMaps,
                   notifications_>>
     /\ reflectionReactions_' = IF there THEN Toggle(reflectionReactions_, f, u, on)
                                ELSE reflectionReactions_
     /\ answer' = IF there THEN [author |-> AuthorOf[f], echo |-> EchoOf[f]] ELSE Null

Ripple(e, u) ==
  LET there == e \in DOMAIN echoes_
  IN /\ UNCHANGED <<echoes_, reflections_, reactions_, reflectionReactions_, peopleMaps,
                   notifications_>>
     /\ ripples_' = IF there THEN Toggle(ripples_, e, u, TRUE) ELSE ripples_
     /\ answer' = IF there THEN [author |-> AuthorOf[e], echo |-> e] ELSE Null

\* Mutant: an edit without the setting opens tagging again.
EditProfile_Reopen(u, name, key, privacy, at) ==
  LET known == u \in DOMAIN profiles_
      old == profiles_[u]
  IN /\ UNCHANGED <<postMaps, follows_, notifications_>>
     /\ profiles_' = (u :>
          [id |-> u, name |-> name, at |-> IF known THEN old.at ELSE at,
           privacy |-> IF privacy # Null THEN privacy ELSE "everyone",
           key |-> IF key # Null THEN key ELSE IF known THEN old.key ELSE Null]) @@ profiles_
     /\ answer' = Null

EditProfile(u, name, key, privacy, at) ==
  LET known == u \in DOMAIN profiles_
      old == profiles_[u]
  IN /\ UNCHANGED <<postMaps, follows_, notifications_>>
     /\ profiles_' = (u :>
          [id |-> u, name |-> name, at |-> IF known THEN old.at ELSE at,
           privacy |-> IF privacy # Null THEN privacy
                       ELSE IF known THEN old.privacy ELSE "everyone",
           key |-> IF key # Null THEN key
                   ELSE IF known THEN old.key ELSE Null]) @@ profiles_
     /\ answer' = Null

RecordKey(u, name, key, at) ==
  /\ UNCHANGED <<postMaps, follows_, notifications_>>
  /\ key # Null
  /\ profiles_' = IF u \in DOMAIN profiles_ THEN [profiles_ EXCEPT ![u].key = key]
                  ELSE (u :> [id |-> u, name |-> name, at |-> at, privacy |-> "everyone",
                              key |-> key]) @@ profiles_
  /\ answer' = Null

Follow(u, v, on) ==
  /\ UNCHANGED <<postMaps, profiles_, notifications_>>
  /\ follows_' = IF u = v \/ (on /\ v \in Get(follows_, u)) THEN follows_
                 ELSE Toggle(follows_, u, v, on)
  /\ answer' = [followed |-> u # v /\ on /\ v \notin Get(follows_, u)]

Notify(n) ==
  LET new == n.to # n.from /\ \A i \in DOMAIN notifications_ : Tables!RowKey(notifications_[i]) # n
  IN /\ UNCHANGED <<postMaps, peopleMaps>>
     /\ notifications_' =
          IF new THEN Append(notifications_, [to |-> n.to, from |-> n.from, kind |-> n.kind,
                               echo |-> n.echo, reflection |-> n.reflection, read |-> FALSE])
          ELSE notifications_
     /\ answer' = [notified |-> new]

Retract(n) ==
  /\ UNCHANGED <<postMaps, peopleMaps>>
  /\ notifications_' = pruneNotifications({m \in ToSet(notifications_) : Tables!RowKey(m) = n})
  /\ answer' = Null

\* An inbox's own, of those not read yet; ids of others are passed over.
MarkRead(u, named) ==
  /\ UNCHANGED <<postMaps, peopleMaps>>
  /\ notifications_' =
       [i \in DOMAIN notifications_ |->
          LET n == notifications_[i]
          IN IF n.to # u \/ n.read \/ (named # {} /\ Tables!RowKey(n) \notin named) THEN n
             ELSE [n EXCEPT !.read = TRUE]]
  /\ answer' = Null

PostCall ==
  \/ \E e \in Echo, u \in User :
       \/ \E tags \in SUBSET User : MakeEcho(e, tags)
       \/ DropEcho(e, u) \/ Ripple(e, u)
       \/ \E on \in BOOLEAN : React(e, u, on)
  \/ \E f \in Reflection, u \in User :
       \/ \E tags \in SUBSET User : Reflect(f, tags)
       \/ DropReflection(f, u)
       \/ \E on \in BOOLEAN : ReactToReflection(f, u, on)

PeopleCall ==
  \/ \E u, v \in User, on \in BOOLEAN : Follow(u, v, on)
  \/ \E u \in User, at \in Times :
       \/ \E name, key \in {Null, u}, privacy \in Tables!Privacy \cup {Null} :
            EditProfile(u, name, key, privacy, at)
       \/ \E name \in {Null, u} : RecordKey(u, name, u, at)

InboxCall ==
  \/ \E n \in Tables!Notices : Notify(n) \/ Retract(n)
  \/ \E u \in User, named \in SUBSET {Tables!RowKey(n) : n \in ToSet(notifications_)} :
       MarkRead(u, named)

MemorySpec == MemoryInit /\ [][PostCall \/ PeopleCall \/ InboxCall]_memoryVars

-------------------------------------------------------------------------------
(* Queries: the maps are filtered, sorted and cut. *)

\* The first "limit" posts of those, the latest first, by "at".
Latest(posts, limit, at) ==
  LET sorted == SetToSortSeq(posts, LAMBDA p, q : at[p] > at[q])
  IN ToSet(SubSeq(sorted, 1, IF limit < Len(sorted) THEN limit ELSE Len(sorted)))

Alive(e) == {f \in DOMAIN reflections_ : EchoOf[f] = e /\ ~reflections_[f].deleted}

reflectionView(f, viewer) ==
  LET likes == Get(reflectionReactions_, f)
  IN [id |-> f, deleted |-> reflections_[f].deleted, mentions |-> reflections_[f].mentions,
      likes |-> Cardinality(likes), liked |-> viewer \in likes,
      replies |-> Cardinality({c \in DOMAIN reflections_ :
                                 ParentOf[c] = f /\ ~reflections_[c].deleted})]

echoView(e, viewer) ==
  LET likes == Get(reactions_, e)
      rippled == Get(ripples_, e)
  IN [id |-> e, mentions |-> echoes_[e].mentions,
      likes |-> Cardinality(likes), liked |-> viewer \in likes,
      ripples |-> Cardinality(rippled), rippled |-> viewer \in rippled,
      reflections |-> Cardinality(Alive(e)),
      preview |-> {reflectionView(f, viewer) : f \in Latest(Alive(e), PREVIEW, Stamp)}]

FeedPage(viewer, since, limit, authors, before) ==
  {echoView(e, viewer) :
     e \in Latest({d \in DOMAIN echoes_ : /\ Stamp[d] >= since /\ Stamp[d] < before
                                       /\ AuthorOf[d] \in authors}, limit, Stamp)}

FeedCount(since, authors) ==
  Cardinality({e \in DOMAIN echoes_ : Stamp[e] >= since /\ AuthorOf[e] \in authors})

ThreadPage(e, viewer, limit, before) ==
  LET all == {f \in DOMAIN reflections_ : EchoOf[f] = e}
      roots == {f \in all : ParentOf[f] \notin Reflection /\ Stamp[f] < before}
      pageRoots == Latest(roots, limit, Stamp)
      descendants == {f \in all : /\ ParentOf[f] \in Reflection
                                  /\ reflections_[f].root \in pageRoots}
  IN [hasMore |-> Cardinality(roots) > limit, total |-> Cardinality(Alive(e)),
      reflections |-> {reflectionView(f, viewer) : f \in pageRoots \cup descendants}]

AuthorPage(u, viewer, limit, before) ==
  {[view |-> reflectionView(f, viewer), echo |-> EchoOf[f]] :
     f \in Latest({g \in DOMAIN reflections_ :
                  /\ AuthorOf[g] = u /\ ~reflections_[g].deleted
                  /\ EchoOf[g] \in DOMAIN echoes_ /\ Stamp[g] < before}, limit, Stamp)}

LikedPage(u, viewer, limit, before) ==
  {echoView(e, viewer) :
     e \in Latest({d \in DOMAIN reactions_ \cap DOMAIN echoes_ :
                  u \in reactions_[d] /\ LikedAt[d] < before}, limit, LikedAt)}

NameOf(u) == IF u \in DOMAIN profiles_ THEN profiles_[u].name ELSE Null

Profile(u, viewer) ==
  LET known == u \in DOMAIN profiles_
      authoredEchoes == {e \in DOMAIN echoes_ : AuthorOf[e] = u}
      authored == {f \in DOMAIN reflections_ : AuthorOf[f] = u /\ ~reflections_[f].deleted}
      Likes(map, posts) == Cardinality(UNION {{p} \X Get(map, p) : p \in posts})
  IN [name |-> NameOf(u), key |-> IF known THEN profiles_[u].key ELSE Null,
      privacy |-> IF known THEN profiles_[u].privacy ELSE "everyone",
      joinedAt |-> IF known THEN profiles_[u].at
                   ELSE IF authoredEchoes = {} THEN 0
                   ELSE Min({Stamp[e] : e \in authoredEchoes}),
      echoes |-> Cardinality(authoredEchoes), reflections |-> Cardinality(authored),
      likes |-> Likes(reactions_, authoredEchoes) + Likes(reflectionReactions_, authored),
      followers |-> Cardinality({v \in DOMAIN follows_ : u \in follows_[v]}),
      following |-> Cardinality(Get(follows_, u)),
      followed |-> u \in Get(follows_, viewer)]

FollowList(u, direction) ==
  {[id |-> v, name |-> NameOf(v)] :
     v \in IF direction = "following" THEN Get(follows_, u)
           ELSE {w \in DOMAIN follows_ : u \in follows_[w]}}

\* Mutant: a "following" profile can be tagged by those it does not follow.
Taggable_Anyone(author, requested) ==
  {u \in requested \cap DOMAIN profiles_ :
     profiles_[u].name # Null /\ (u = author \/ profiles_[u].privacy # "none")}

\* selectMentions.
Taggable(author, requested) ==
  {u \in requested \cap DOMAIN profiles_ :
     /\ profiles_[u].name # Null
     /\ \/ u = author \/ profiles_[u].privacy = "everyone"
        \/ profiles_[u].privacy = "following" /\ author \in Get(follows_, u)}

Candidates(viewer, typed, limit) ==
  LET followed(u) == u \in Get(follows_, viewer)
      follower(u) == viewer \in Get(follows_, u)
      ranked == {u \in DOMAIN profiles_ \ {viewer} :
        /\ profiles_[u].name # Null
        /\ profiles_[u].privacy # "none" /\ (profiles_[u].privacy = "following" => follower(u))
        /\ IF typed THEN u \in NameFits ELSE followed(u) \/ follower(u)}
      Rank(u) == (IF followed(u) THEN 0 ELSE 4) + (IF follower(u) THEN 0 ELSE 2)
                 + (IF typed => u \in FrontFits THEN 0 ELSE 1)
      sorted == SetToSortSeq(ranked, LAMBDA u, v :
                  Rank(u) < Rank(v) \/ (Rank(u) = Rank(v) /\ NameRank[u] < NameRank[v]))
  IN {[id |-> sorted[i], followed |-> followed(sorted[i])] :
        i \in {j \in DOMAIN sorted : j <= limit}}

InboxPage(u) ==
  LET mine == SelectSeq(notifications_, LAMBDA n : n.to = u)
  IN [notifications |-> ToSet(mine),
      unreadCount |-> Len(SelectSeq(mine, LAMBDA n : ~n.read))]

-------------------------------------------------------------------------------
(* Properties. *)

\* Every query answers alike, of whatever was stored.
ViewsAgree ==
  MemoryInit \/ \A u, viewer \in User, limit \in {1, 2}, before \in Times :
    /\ \A since \in Times, authors \in {{u}, User} :
         /\ FeedPage(viewer, since, limit, authors, before)
              = Tables!listFeed(viewer, since, limit, authors, before)
         /\ FeedCount(since, authors) = Tables!countFeed(since, authors)
    /\ \A e \in DOMAIN echoes_ :
         ThreadPage(e, viewer, limit, before) = Tables!listReflections(e, viewer, limit, before)
    /\ AuthorPage(u, viewer, limit, before)
         = Tables!listAuthorReflections(u, viewer, limit, before)
    /\ LikedPage(u, viewer, limit, before) = Tables!listLikedEchoes(u, viewer, limit, before)
    /\ Profile(u, viewer) = Tables!getProfile(u, viewer)
    /\ \A direction \in {"followers", "following"} :
         FollowList(u, direction) = Tables!listFollows(u, direction)
    /\ Taggable(u, {viewer}) = Tables!resolveMentions(u, {viewer})
    /\ \A typed \in BOOLEAN :
         Candidates(viewer, typed, limit) = Tables!searchMentionCandidates(viewer, typed, limit)
    /\ InboxPage(u) = Tables!listNotifications(u)

\* What each call of the maps is for the tables, result included.
SameCall ==
  /\ \A e \in Echo, tags \in SUBSET User : MakeEcho(e, tags) => Tables!createEcho(e, tags)
  /\ \A f \in Reflection, tags \in SUBSET User : Reflect(f, tags) => Tables!addReflection(f, tags)
  /\ \A e \in Echo, u \in User :
       /\ DropEcho(e, u) => Tables!deleteEcho(e, u)
       /\ Ripple(e, u) => Tables!addRipple(e, u)
       /\ \A on \in BOOLEAN : React(e, u, on) => Tables!setReaction(e, u, on)
  /\ \A f \in Reflection, u \in User :
       /\ DropReflection(f, u) => Tables!deleteReflection(f, u)
       /\ \A on \in BOOLEAN :
            ReactToReflection(f, u, on) => Tables!setReflectionReaction(f, u, on)
  /\ \A u, v \in User, on \in BOOLEAN : Follow(u, v, on) => Tables!setFollow(u, v, on)
  /\ \A u \in User, at \in Times : \A name, key \in {Null, u} :
       /\ \A privacy \in Tables!Privacy \cup {Null} :
            EditProfile(u, name, key, privacy, at)
              => Tables!upsertProfile(u, name, key, privacy, at)
       /\ RecordKey(u, name, key, at) => Tables!recordAuthorPubkey(u, name, key, at)
  /\ \A n \in Tables!Notices :
       /\ Notify(n) => Tables!addNotification(n)
       /\ Retract(n) => Tables!removeNotification(n)
  /\ \A u \in User, named \in SUBSET {Tables!RowKey(n) : n \in ToSet(notifications_)} :
       MarkRead(u, named) => Tables!markNotificationsRead(u, named)

\* A relay without a database, and every test, answers like one with it: each call of the
\* maps does to them what the same call does to the tables and returns the same, and
\* every query agrees (whisper-repository.ts:1458).
AnswersAlike ==
  /\ Tables!TablesInit /\ [][UNCHANGED memoryVars \/ SameCall]_memoryVars
  /\ []ViewsAgree
===============================================================================
