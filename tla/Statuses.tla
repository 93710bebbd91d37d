------------------------------- MODULE Statuses -------------------------------
(***************************************************************************)
(* Status posts: handlePostStatus, deleteStatus and the poll of the feed   *)
(* in Dashboard.tsx, persistIncomingStatuses and the status branches of    *)
(* persistIncomingMessages (apps/web/src/utils/helpers.ts), and the        *)
(* relay's table (apps/relay/src/status-repository.ts).                    *)
(*                                                                         *)
(* One author.  A status travels twice: sealed for each contact over the   *)
(* socket, and with its sealed keys through the relay's table, which the   *)
(* contacts poll.  Requests are not awaited by anyone, so they reach the   *)
(* relay in any order; messages may overtake each other, as a live one     *)
(* overtakes a queued one.                                                 *)
(***************************************************************************)
EXTENDS Naturals, FiniteSets

CONSTANTS
  Status, Viewer,
  MaxMissed   \* bound: requests and messages that are not sent

ASSUME StatusesAssumption == MaxMissed \in Nat

VARIABLES
  friends,   \* statusPeerHashes: the author's contacts
  state,     \* the author's record: "none", "posted", "deleted"
  audience,  \* whom the content key was sealed for
  served,    \* status_updates, with their status_key_envelopes
  asks,      \* on their way to the relay: <<"publish" or "delete", status>>
  letters,   \* on their way to a viewer: <<"copy" or "tombstone", status, viewer>>
  records,   \* the viewers' records: <<status, viewer>>
  pageOf,    \* per viewer: what the relay answered and is not yet stored
  aged,      \* statuses of more than a day
  warned,    \* history: tombstones that were sent, <<status, viewer>>
  outrun,    \* history: tombstones handled while a copy was still to come
  undone,    \* history: statuses whose deletion did not reach the relay after the publication
  skipped

statusVars == <<friends, state, audience, served, asks, letters, records, pageOf, aged,
                warned, outrun, undone, skipped>>

NoPage == [asked |-> FALSE, rows |-> {}]

StatusesInit ==
  /\ friends = Viewer
  /\ state = [s \in Status |-> "none"]
  /\ audience = [s \in Status |-> {}]
  /\ served = {} /\ asks = {} /\ letters = {} /\ records = {}
  /\ pageOf = [v \in Viewer |-> NoPage]
  /\ aged = {} /\ warned = {} /\ outrun = {} /\ undone = {} /\ skipped = 0

\* A copy of s may still reach v: a letter, a page, or a poll of the row.
Coming(s, v) == \/ <<"copy", s, v>> \in letters
                \/ s \in pageOf[v].rows

-------------------------------------------------------------------------------
(* The author. *)

handlePostStatus(s) ==
  /\ state[s] = "none"
  /\ state' = [state EXCEPT ![s] = "posted"]
  /\ audience' = [audience EXCEPT ![s] = friends]
  /\ asks' = asks \cup {<<"publish", s>>}
  /\ letters' = letters \cup {<<"copy", s, v>> : v \in friends}
  /\ UNCHANGED <<friends, served, records, pageOf, aged, warned, outrun, undone, skipped>>

\* The tombstone goes to the contacts of now.
deleteStatus(s) ==
  /\ state[s] = "posted"
  /\ state' = [state EXCEPT ![s] = "deleted"]
  /\ asks' = asks \cup {<<"delete", s>>}
  /\ letters' = letters \cup {<<"tombstone", s, v>> : v \in friends}
  /\ warned' = warned \cup {<<s, v>> : v \in friends}
  /\ UNCHANGED <<friends, audience, served, records, pageOf, aged, outrun, undone, skipped>>

Unfriend(v) ==
  /\ v \in friends
  /\ friends' = friends \ {v}
  /\ UNCHANGED <<state, audience, served, asks, letters, records, pageOf, aged, warned,
                 outrun, undone, skipped>>

-------------------------------------------------------------------------------
(* The relay. *)

\* upsertStatus: the row and its keys, in one transaction.
upsertStatus(s) ==
  /\ <<"publish", s>> \in asks
  /\ asks' = asks \ {<<"publish", s>>}
  /\ served' = served \cup {s}
  /\ UNCHANGED <<friends, state, audience, letters, records, pageOf, aged, warned, outrun,
                 undone, skipped>>

\* The row stays.
deleteFromRelay_KeepsRow(s) ==
  /\ <<"delete", s>> \in asks
  /\ asks' = asks \ {<<"delete", s>>}
  /\ undone' = IF <<"publish", s>> \in asks THEN undone \cup {s} ELSE undone
  /\ UNCHANGED <<friends, state, audience, served, letters, records, pageOf, aged, warned,
                 outrun, skipped>>

\* deleteStatus of the repository; a publication that comes later stays.
deleteFromRelay(s) ==
  /\ <<"delete", s>> \in asks
  /\ asks' = asks \ {<<"delete", s>>}
  /\ served' = served \ {s}
  /\ undone' = IF <<"publish", s>> \in asks THEN undone \cup {s} ELSE undone
  /\ UNCHANGED <<friends, state, audience, letters, records, pageOf, aged, warned, outrun,
                 skipped>>

\* The network fails, nobody proves the identity, or the socket is closed: nothing is retried.
Miss ==
  /\ skipped < MaxMissed
  /\ skipped' = skipped + 1
  /\ \/ \E s \in Status : \E kind \in {"publish", "delete"} :
          /\ <<kind, s>> \in asks
          /\ asks' = asks \ {<<kind, s>>}
          /\ undone' = IF kind = "delete" THEN undone \cup {s} ELSE undone
          /\ UNCHANGED <<letters, warned>>
     \/ \E l \in letters :
          /\ letters' = letters \ {l}
          /\ warned' = IF l[1] = "tombstone" THEN warned \ {<<l[2], l[3]>>} ELSE warned
          /\ UNCHANGED <<asks, undone>>
  /\ UNCHANGED <<friends, state, audience, served, records, pageOf, aged, outrun>>

\* A day goes by: the status is not served any more, and swept when someone asks.
Age(s) ==
  /\ state[s] # "none" /\ s \notin aged
  /\ aged' = aged \cup {s}
  /\ UNCHANGED <<friends, state, audience, served, asks, letters, records, pageOf, warned,
                 outrun, undone, skipped>>

-------------------------------------------------------------------------------
(* A viewer. *)

\* Anyone who asks can read them.
listStatuses_AnyKey(v) == served \ aged

\* Rows of the last day, readable with the key that is sealed for the one who asks.
listStatuses(v) == {s \in served \ aged : v \in audience[s]}

\* syncStatusFeedFromRelay, every minute.
queryStatuses(v) ==
  /\ ~pageOf[v].asked
  /\ pageOf' = [pageOf EXCEPT ![v] = [asked |-> TRUE, rows |-> listStatuses(v)]]
  /\ served' = served \ aged
  /\ UNCHANGED <<friends, state, audience, asks, letters, records, aged, warned, outrun,
                 undone, skipped>>

\* persistIncomingStatuses.
Store(v) ==
  /\ pageOf[v].asked
  /\ records' = records \cup {<<s, v>> : s \in pageOf[v].rows}
  /\ pageOf' = [pageOf EXCEPT ![v] = NoPage]
  /\ UNCHANGED <<friends, state, audience, served, asks, letters, aged, warned,
                 outrun, undone, skipped>>

ReceiveCopy(s, v) ==
  /\ <<"copy", s, v>> \in letters
  /\ letters' = letters \ {<<"copy", s, v>>}
  /\ records' = records \cup {<<s, v>>}
  /\ UNCHANGED <<friends, state, audience, served, asks, pageOf, aged, warned, outrun,
                 undone, skipped>>

\* The tombstone is stored like any message.
ReceiveTombstone_Kept(s, v) ==
  /\ <<"tombstone", s, v>> \in letters
  /\ letters' = letters \ {<<"tombstone", s, v>>}
  /\ outrun' = IF Coming(s, v) \/ s \in served \/ <<"publish", s>> \in asks
                  THEN outrun \cup {<<s, v>>} ELSE outrun
  /\ UNCHANGED <<friends, state, audience, served, asks, records, pageOf, aged, warned,
                 undone, skipped>>

\* The record goes; nothing remembers that it did.
ReceiveTombstone(s, v) ==
  /\ <<"tombstone", s, v>> \in letters
  /\ letters' = letters \ {<<"tombstone", s, v>>}
  /\ records' = records \ {<<s, v>>}
  /\ outrun' = IF Coming(s, v) \/ s \in served \/ <<"publish", s>> \in asks
                  THEN outrun \cup {<<s, v>>} ELSE outrun
  /\ UNCHANGED <<friends, state, audience, served, asks, pageOf, aged, warned, undone,
                 skipped>>

StatusesNext ==
  \/ \E s \in Status : handlePostStatus(s) \/ deleteStatus(s) \/ Age(s)
                       \/ upsertStatus(s) \/ deleteFromRelay(s)
  \/ \E v \in Viewer : Unfriend(v) \/ queryStatuses(v) \/ Store(v)
  \/ \E s \in Status, v \in Viewer : ReceiveCopy(s, v) \/ ReceiveTombstone(s, v)
  \/ Miss

StatusesSpec == StatusesInit /\ [][StatusesNext]_statusVars

-------------------------------------------------------------------------------
(* Properties. *)

\* A status that was deleted is gone, when nothing about it is on its way: from the relay
\* unless the deletion missed the publication, and from every viewer who was sent the
\* tombstone after any copy (Dashboard.tsx:2892).
DeletedStatusIsGone ==
  \A s \in Status :
    state[s] = "deleted" /\ (\A r \in asks : r[2] # s) /\ (\A l \in letters : l[2] # s) =>
      /\ s \notin undone => s \notin served
      /\ \A v \in Viewer :
           <<s, v>> \in records => <<s, v>> \notin warned \/ <<s, v>> \in outrun
===============================================================================
