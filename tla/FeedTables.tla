------------------------------ MODULE FeedTables ------------------------------
(***************************************************************************)
(* What a repository of the public feed promises, as its tables keep it:   *)
(* PostgresWhisperRepository (apps/relay/src/whisper-repository.ts), a     *)
(* call at a time.  A call leaves what it returned in "reply"; what the    *)
(* queries return are the views at the end.                                *)
(***************************************************************************)
EXTENDS FeedTypes, FiniteSets

CONSTANT Times      \* bound: when profiles are made

VARIABLES
  whisper_echoes,
  whisper_reflections,
  whisper_reactions,             \* <<echo, reactor>>
  whisper_reflection_reactions,  \* <<reflection, reactor>>
  whisper_ripples,               \* <<echo, rippler>>
  whisper_profiles,
  whisper_follows,               \* <<follower, followee>>
  whisper_notifications,
  reply

tableVars == <<whisper_echoes, whisper_reflections, whisper_reactions,
  whisper_reflection_reactions, whisper_ripples, whisper_profiles, whisper_follows,
  whisper_notifications, reply>>
postTables == <<whisper_echoes, whisper_reflections, whisper_reactions,
  whisper_reflection_reactions, whisper_ripples>>
peopleTables == <<whisper_profiles, whisper_follows>>

Privacy == {"everyone", "following", "none"}

TablesInit ==
  /\ whisper_echoes = {} /\ whisper_reflections = {}
  /\ whisper_reactions = {} /\ whisper_reflection_reactions = {} /\ whisper_ripples = {}
  /\ whisper_profiles = {} /\ whisper_follows = {} /\ whisper_notifications = {}
  /\ reply = Null

Ids(rows) == {row.id : row \in rows}
RowOf(rows, id) == CHOOSE row \in rows : row.id = id

-------------------------------------------------------------------------------
(* Posts. *)

\* "on conflict (id) do nothing"
createEcho(e, tags) ==
  /\ whisper_echoes' = IF e \in Ids(whisper_echoes) THEN whisper_echoes
                       ELSE whisper_echoes \cup {[id |-> e, mentions |-> tags]}
  /\ reply' = [created |-> e \notin Ids(whisper_echoes)]
  /\ UNCHANGED <<whisper_reflections, whisper_reactions, whisper_reflection_reactions,
                 whisper_ripples, peopleTables, whisper_notifications>>

\* Five child tables go with the author's own echo.
deleteEcho(e, by) ==
  LET under == {row.id : row \in {f \in whisper_reflections : EchoOf[f.id] = e}}
      own == e \in Ids(whisper_echoes) /\ AuthorOf[e] = by
  IN /\ IF own
        THEN /\ whisper_echoes' = {row \in whisper_echoes : row.id # e}
             /\ whisper_reflection_reactions' =
                  {row \in whisper_reflection_reactions : row[1] \notin under}
             /\ whisper_reflections' = {row \in whisper_reflections : row.id \notin under}
             /\ whisper_reactions' = {row \in whisper_reactions : row[1] # e}
             /\ whisper_ripples' = {row \in whisper_ripples : row[1] # e}
             /\ whisper_notifications' = {row \in whisper_notifications : row.echo # e}
        ELSE UNCHANGED <<postTables, whisper_notifications>>
     /\ reply' = [deleted |-> own]
     /\ UNCHANGED peopleTables

\* A reply to an unknown parent is turned away; who is told comes back.
addReflection(f, tags) ==
  LET nested == ParentOf[f] \in Reflection
      parent == RowOf(whisper_reflections, ParentOf[f])
      created == /\ EchoOf[f] \in Ids(whisper_echoes)
                 /\ nested => ParentOf[f] \in Ids(whisper_reflections)
                 /\ f \notin Ids(whisper_reflections)
  IN /\ whisper_reflections' =
          IF created
          THEN whisper_reflections \cup
                 {[id |-> f, root |-> IF nested THEN parent.root ELSE f, deleted |-> FALSE,
                   mentions |-> tags]}
          ELSE whisper_reflections
     /\ reply' = IF ~created THEN [created |-> FALSE]
                 ELSE IF nested /\ ~parent.deleted
                 THEN [echoAuthor |-> AuthorOf[EchoOf[f]],
                       parentAuthor |-> AuthorOf[ParentOf[f]]]
                 ELSE [echoAuthor |-> AuthorOf[EchoOf[f]]]
     /\ UNCHANGED <<whisper_echoes, whisper_reactions, whisper_reflection_reactions,
                    whisper_ripples, peopleTables, whisper_notifications>>

\* Its row stays, without text and tags, under replies.
deleteReflection(f, by) ==
  LET own == /\ f \in Ids(whisper_reflections) /\ AuthorOf[f] = by
             /\ ~RowOf(whisper_reflections, f).deleted
      row == RowOf(whisper_reflections, f)
      others == whisper_reflections \ {row}
      replied == \E c \in Ids(others) : ParentOf[c] = f
  IN /\ IF own
        THEN /\ whisper_reflection_reactions' =
                  {r \in whisper_reflection_reactions : r[1] # f}
             /\ whisper_notifications' = {n \in whisper_notifications : n.reflection # f}
             /\ whisper_reflections' =
                  IF replied
                  THEN others \cup {[row EXCEPT !.deleted = TRUE, !.mentions = {}]}
                  ELSE others
        ELSE UNCHANGED <<whisper_reflections, whisper_reflection_reactions,
                         whisper_notifications>>
     /\ reply' = IF ~own THEN Null ELSE [deletion |-> IF replied THEN "soft" ELSE "hard"]
     /\ UNCHANGED <<whisper_echoes, whisper_reactions, whisper_ripples, peopleTables>>

Switched(rows, row, on) == IF on THEN rows \cup {row} ELSE rows \ {row}

setReaction(e, u, on) ==
  LET there == e \in Ids(whisper_echoes)
  IN /\ whisper_reactions' =
          IF there THEN Switched(whisper_reactions, <<e, u>>, on) ELSE whisper_reactions
     /\ reply' = IF there THEN [author |-> AuthorOf[e], echo |-> e] ELSE Null
     /\ UNCHANGED <<whisper_echoes, whisper_reflections, whisper_reflection_reactions,
                    whisper_ripples, peopleTables, whisper_notifications>>

setReflectionReaction(f, u, on) ==
  LET there == f \in Ids(whisper_reflections) /\ ~RowOf(whisper_reflections, f).deleted
  IN /\ whisper_reflection_reactions' =
          IF there THEN Switched(whisper_reflection_reactions, <<f, u>>, on)
          ELSE whisper_reflection_reactions
     /\ reply' = IF there THEN [author |-> AuthorOf[f], echo |-> EchoOf[f]] ELSE Null
     /\ UNCHANGED <<whisper_echoes, whisper_reflections, whisper_reactions, whisper_ripples,
                    peopleTables, whisper_notifications>>

addRipple(e, u) ==
  LET there == e \in Ids(whisper_echoes)
  IN /\ whisper_ripples' = IF there THEN whisper_ripples \cup {<<e, u>>} ELSE whisper_ripples
     /\ reply' = IF there THEN [author |-> AuthorOf[e], echo |-> e] ELSE Null
     /\ UNCHANGED <<whisper_echoes, whisper_reflections, whisper_reactions,
                    whisper_reflection_reactions, peopleTables, whisper_notifications>>

-------------------------------------------------------------------------------
(* People. *)

\* An edit keeps when the profile was made, the verified key if it brings none, and the
\* privacy of tags if the client does not know the setting (Null).
upsertProfile(u, name, key, privacy, at) ==
  LET old == RowOf(whisper_profiles, u)
      known == u \in Ids(whisper_profiles)
      row == [id |-> u, name |-> name,
              key |-> IF key = Null /\ known THEN old.key ELSE key,
              privacy |-> IF privacy # Null THEN privacy
                          ELSE IF known THEN old.privacy ELSE "everyone",
              at |-> IF known THEN old.at ELSE at]
  IN /\ whisper_profiles' = {p \in whisper_profiles : p.id # u} \cup {row}
     /\ reply' = Null
     /\ UNCHANGED <<postTables, whisper_follows, whisper_notifications>>

\* A verified key that came with a post.
recordAuthorPubkey(u, name, key, at) ==
  LET old == RowOf(whisper_profiles, u)
      row == IF u \in Ids(whisper_profiles) THEN [old EXCEPT !.key = key]
             ELSE [id |-> u, name |-> name, key |-> key, privacy |-> "everyone", at |-> at]
  IN /\ key # Null
     /\ whisper_profiles' = {p \in whisper_profiles : p.id # u} \cup {row}
     /\ reply' = Null
     /\ UNCHANGED <<postTables, whisper_follows, whisper_notifications>>

\* Says whether the follow is new.
setFollow(u, v, on) ==
  /\ whisper_follows' = IF u = v THEN whisper_follows
                        ELSE Switched(whisper_follows, <<u, v>>, on)
  /\ reply' = [followed |-> u # v /\ on /\ <<u, v>> \notin whisper_follows]
  /\ UNCHANGED <<postTables, whisper_profiles, whisper_notifications>>

-------------------------------------------------------------------------------
(* Notifications. *)

RowKey(n) == [to |-> n.to, from |-> n.from, kind |-> n.kind, echo |-> n.echo,
           reflection |-> n.reflection]

addNotification(n) ==
  LET new == n.to # n.from /\ \A row \in whisper_notifications : RowKey(row) # n
      row == [to |-> n.to, from |-> n.from, kind |-> n.kind, echo |-> n.echo,
              reflection |-> n.reflection, read |-> FALSE]
  IN /\ whisper_notifications' =
          IF new THEN whisper_notifications \cup {row} ELSE whisper_notifications
     /\ reply' = [notified |-> new]
     /\ UNCHANGED <<postTables, peopleTables>>

removeNotification(n) ==
  /\ whisper_notifications' = {row \in whisper_notifications : RowKey(row) # n}
  /\ reply' = Null
  /\ UNCHANGED <<postTables, peopleTables>>

\* The ones named, all of them if none is.
markNotificationsRead(u, named) ==
  /\ whisper_notifications' =
       {[row EXCEPT !.read = @ \/ (row.to = u /\ (named = {} \/ RowKey(row) \in named))] :
          row \in whisper_notifications}
  /\ reply' = Null
  /\ UNCHANGED <<postTables, peopleTables>>

\* A follow is about nothing else; the others about an echo, or a reflection under it.
Notices ==
  LET about == {<<Null, Null>>} \cup (Echo \X {Null}) \cup {<<EchoOf[f], f>> : f \in Reflection}
  IN {[to |-> p[1], from |-> p[2], echo |-> t[1], reflection |-> t[2],
       kind |-> IF t[1] = Null THEN "follow" ELSE "like"] : p \in User \X User, t \in about}

AnyCall ==
  \/ \E e \in Echo, u \in User :
       \/ \E tags \in SUBSET User : createEcho(e, tags)
       \/ deleteEcho(e, u) \/ addRipple(e, u)
       \/ \E on \in BOOLEAN : setReaction(e, u, on)
  \/ \E f \in Reflection, u \in User :
       \/ \E tags \in SUBSET User : addReflection(f, tags)
       \/ deleteReflection(f, u)
       \/ \E on \in BOOLEAN : setReflectionReaction(f, u, on)
  \/ \E u, v \in User, on \in BOOLEAN : setFollow(u, v, on)
  \/ \E u \in User, at \in Times :
       \/ \E name \in {Null, u}, key \in {Null, u}, privacy \in Privacy \cup {Null} :
            upsertProfile(u, name, key, privacy, at)
       \/ \E name \in {Null, u} : recordAuthorPubkey(u, name, u, at)
  \/ \E n \in Notices : addNotification(n) \/ removeNotification(n)
  \/ \E u \in User, named \in SUBSET {RowKey(row) : row \in whisper_notifications} :
       markNotificationsRead(u, named)

TablesSpec == TablesInit /\ [][AnyCall]_tableVars

-------------------------------------------------------------------------------
(* Queries.  A page is the set of what it shows: it is sorted by the stamps   *)
(* it is cut by.                                                              *)

Newest(posts, limit, at) == {p \in posts : Cardinality({q \in posts : at[q] > at[p]}) < limit}

Of(rows, id) == {row \in rows : row[1] = id}
Live(e) == {row.id : row \in {f \in whisper_reflections : EchoOf[f.id] = e /\ ~f.deleted}}

ReflectionView(f, viewer) ==
  LET row == RowOf(whisper_reflections, f)
  IN [id |-> f, deleted |-> row.deleted, mentions |-> row.mentions,
      likes |-> Cardinality(Of(whisper_reflection_reactions, f)),
      liked |-> <<f, viewer>> \in whisper_reflection_reactions,
      replies |-> Cardinality({c \in Live(EchoOf[f]) : ParentOf[c] = f})]

EchoView(e, viewer) ==
  [id |-> e, mentions |-> RowOf(whisper_echoes, e).mentions,
   likes |-> Cardinality(Of(whisper_reactions, e)),
   liked |-> <<e, viewer>> \in whisper_reactions,
   ripples |-> Cardinality(Of(whisper_ripples, e)),
   rippled |-> <<e, viewer>> \in whisper_ripples,
   reflections |-> Cardinality(Live(e)),
   preview |-> {ReflectionView(f, viewer) : f \in Newest(Live(e), PREVIEW, Stamp)}]

Posted(since, authors) ==
  {e \in Ids(whisper_echoes) : Stamp[e] >= since /\ AuthorOf[e] \in authors}

listFeed(viewer, since, limit, authors, before) ==
  {EchoView(e, viewer) :
     e \in Newest({d \in Posted(since, authors) : Stamp[d] < before}, limit, Stamp)}

countFeed(since, authors) == Cardinality(Posted(since, authors))

\* Every reply comes along with the first of its thread.
listReflections(e, viewer, limit, before) ==
  LET roots == {f \in Ids(whisper_reflections) : ParentOf[f] = e /\ Stamp[f] < before}
      page == Newest(roots, limit, Stamp)
      under == {row.id : row \in {f \in whisper_reflections :
                                    f.root \in page /\ ParentOf[f.id] \in Reflection}}
  IN [hasMore |-> Cardinality(roots) > limit, total |-> Cardinality(Live(e)),
      reflections |-> {ReflectionView(f, viewer) : f \in page \cup under}]

listAuthorReflections(u, viewer, limit, before) ==
  {[view |-> ReflectionView(f, viewer), echo |-> EchoOf[f]] :
     f \in Newest({row.id : row \in {r \in whisper_reflections :
                     /\ AuthorOf[r.id] = u /\ ~r.deleted
                     /\ EchoOf[r.id] \in Ids(whisper_echoes) /\ Stamp[r.id] < before}},
                  limit, Stamp)}

\* By when they were liked.
listLikedEchoes(u, viewer, limit, before) ==
  {EchoView(e, viewer) :
     e \in Newest({d \in Ids(whisper_echoes) :
                     <<d, u>> \in whisper_reactions /\ LikedAt[d] < before}, limit, LikedAt)}

Named(u) == IF u \in Ids(whisper_profiles) THEN RowOf(whisper_profiles, u).name ELSE Null

getProfile(u, viewer) ==
  LET known == u \in Ids(whisper_profiles)
      row == RowOf(whisper_profiles, u)
      echoes == Posted(0, {u})
      mine == {f \in whisper_reflections : AuthorOf[f.id] = u}
  IN [name |-> Named(u), key |-> IF known THEN row.key ELSE Null,
      privacy |-> IF known THEN row.privacy ELSE "everyone",
      joinedAt |-> IF known THEN row.at
                   ELSE IF echoes = {} THEN 0
                   ELSE CHOOSE t \in {Stamp[e] : e \in echoes} : \A e \in echoes : t <= Stamp[e],
      echoes |-> Cardinality(echoes),
      reflections |-> Cardinality({f \in mine : ~f.deleted}),
      likes |-> Cardinality({row2 \in whisper_reactions : AuthorOf[row2[1]] = u})
                + Cardinality({row2 \in whisper_reflection_reactions : AuthorOf[row2[1]] = u}),
      followers |-> Cardinality({row2 \in whisper_follows : row2[2] = u}),
      following |-> Cardinality(Of(whisper_follows, u)),
      followed |-> <<viewer, u>> \in whisper_follows]

\* A page of 100: the tables list the latest follows first, the maps the earliest.
listFollows(u, direction) ==
  {[id |-> v, name |-> Named(v)] :
     v \in {w \in User : IF direction = "followers" THEN <<w, u>> \in whisper_follows
                                                    ELSE <<u, w>> \in whisper_follows}}

\* Who may be tagged by the author: named, and the author's privacy permits it.
Permits(row, author) ==
  \/ row.privacy = "everyone"
  \/ row.privacy = "following" /\ <<row.id, author>> \in whisper_follows

resolveMentions(author, requested) ==
  {row.id : row \in {p \in whisper_profiles :
     p.id \in requested /\ p.name # Null /\ (p.id = author \/ Permits(p, author))}}

\* Those the viewer follows first, then the viewer's followers, then by name.
Before(u, v, viewer, typed) ==
  LET rank(w) == <<<<viewer, w>> \in whisper_follows, <<w, viewer>> \in whisper_follows,
                   typed => w \in FrontFits>>
      a == rank(u)
      b == rank(v)
  IN \/ a = b /\ NameRank[u] < NameRank[v]
     \/ \E i \in 1..3 : a[i] /\ ~b[i] /\ \A j \in 1..(i - 1) : a[j] = b[j]

searchMentionCandidates(viewer, typed, limit) ==
  LET found == {row.id : row \in {p \in whisper_profiles :
                  /\ p.id # viewer /\ p.name # Null /\ Permits(p, viewer)
                  /\ IF typed THEN p.id \in NameFits
                     ELSE {<<viewer, p.id>>, <<p.id, viewer>>} \cap whisper_follows # {}}}
  IN {[id |-> u, followed |-> <<viewer, u>> \in whisper_follows] :
        u \in {v \in found : Cardinality({w \in found : Before(w, v, viewer, typed)}) < limit}}

listNotifications(u) ==
  LET mine == {row \in whisper_notifications : row.to = u}
  IN [notifications |-> mine, unreadCount |-> Cardinality({row \in mine : ~row.read})]
===============================================================================
