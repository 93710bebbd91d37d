------------------------------- MODULE GroupKeys -------------------------------
(***************************************************************************)
(* A group's key epochs and member lists on the devices of its members     *)
(* (apps/web/src/lib/group-membership.ts, utils/helpers.ts,                *)
(* lib/message-crypto.ts and the group senders of Dashboard.tsx).          *)
(*                                                                         *)
(* The relay delivers a group message to whoever its sender names, in any  *)
(* order.  Every device runs this client, and every identity key is known  *)
(* to every sender.  The k-th key the owner mints is called k.             *)
(***************************************************************************)
EXTENDS Naturals, FiniteSets

CONSTANTS
  Device, Creator,
  Worker,                         \* overlapping runs of persistIncomingGroupMessages
  MaxEpoch, MaxMessages, MaxLinks \* bounds

ASSUME GroupAssumption ==
  Creator \in Device /\ MaxEpoch \in Nat \ {0} /\ {MaxMessages, MaxLinks} \subseteq Nat

VARIABLES
  chat,     \* per device: its record of the group, or Absent
  filed,    \* per device: groupKeys, epoch to key, 0 for none
  unsent,   \* per device: messages written while the relay was away
  arrived,    \* per device: messages delivered and not yet processed
  worker,   \* what a run has decided about a message, before it writes
  sent, links,
  kept,     \* history: per key, whom the owner sealed it to at the reset
  joined,   \* history: per key, who joined with a link that carried it
  wrote,    \* history: per key, who wrote under it
  crossed,  \* history: devices whose record changed under a run
  misled,   \* history: devices that took another than the owner for the owner
  overtaken,\* history: devices that learned a new key before its member list, or from a
            \* link of such a device
  misnamed, \* history: messages sent under a key other than that of the epoch they name
  unread    \* history: messages a device could not open though it held their key, as the
            \* current one or under the epoch it was minted for

groupVars == <<chat, filed, unsent, arrived, worker, sent, links, kept, joined, wrote,
               crossed, misled, overtaken, misnamed, unread>>

Epoch == 1..MaxEpoch
Absent == [members |-> {}, epoch |-> 0, key |-> 0, owner |-> Creator]
Unoccupied == [stage |-> "none"]

\* createGroup, and those of the invited whom its first message has reached.
GroupInit ==
  /\ \E invited \in SUBSET (Device \ {Creator}) : \E reached \in SUBSET invited :
       /\ chat = [d \in Device |->
            IF d \in reached \cup {Creator}
            THEN [members |-> {Creator} \cup invited, epoch |-> 1, key |-> 1, owner |-> Creator]
            ELSE Absent]
       /\ kept = [k \in Epoch |-> IF k = 1 THEN {Creator} \cup invited ELSE {}]
  /\ filed = [d \in Device |-> [e \in Epoch |-> IF e = 1 THEN chat[d].key ELSE 0]]
  /\ unsent = [d \in Device |-> {}] /\ arrived = [d \in Device |-> {}]
  /\ worker = [w \in Worker |-> Unoccupied]
  /\ sent = 0 /\ links = {}
  /\ joined = [k \in Epoch |-> {}] /\ wrote = [k \in Epoch |-> {}]
  /\ crossed = {} /\ misled = {} /\ overtaken = {} /\ misnamed = {} /\ unread = {}

-------------------------------------------------------------------------------
(* Sending. *)

\* A ciphertext under the group's current key; a reset has the member list inside.
Sealed(c, roster) == [key |-> c.key, roster |-> roster, id |-> sent + 1]

\* The envelope around it: buildGroupKeyDistribution seals the current key to every
\* member and names its epoch; a joiner's names the epoch only.
Envelope(d, c, cipher, carries) ==
  [id |-> cipher.id, from |-> d, label |-> c.epoch, key |-> cipher.key, roster |-> cipher.roster,
   to |-> c.members \ {d}, carried |-> IF carries THEN c.key ELSE 0]

Post(d, c, cipher, carries) ==
  LET m == Envelope(d, c, cipher, carries)
  IN /\ arrived' = [x \in Device |-> IF x \in m.to THEN arrived[x] \cup {m} ELSE arrived[x]]
     /\ wrote' = [wrote EXCEPT ![m.key] = @ \cup {d}]
     /\ misnamed' = IF cipher.key = c.key THEN misnamed ELSE misnamed \cup {m}

\* Written, and sent at once or kept until the relay is back.
PostOrKeep(d, c, roster, carries) ==
  \/ Post(d, c, Sealed(c, roster), carries) /\ UNCHANGED unsent
  \/ unsent' = [unsent EXCEPT ![d] = @ \cup {Sealed(c, roster)}] /\ UNCHANGED <<arrived, wrote, misnamed>>

SendMessage(d) ==
  /\ chat[d] # Absent
  /\ sent < MaxMessages
  /\ sent' = sent + 1
  /\ PostOrKeep(d, chat[d], {}, TRUE)
  /\ UNCHANGED <<chat, filed, worker, links, kept, joined, crossed, misled, overtaken, unread>>

\* flushQueue: the stored ciphertext, in an envelope for the key of now.
FlushUnsent(d) ==
  /\ chat[d] # Absent
  /\ \E c \in unsent[d] :
       /\ unsent' = [unsent EXCEPT ![d] = @ \ {c}]
       /\ Post(d, chat[d], c, TRUE)
  /\ UNCHANGED <<chat, filed, worker, sent, links, kept, joined, crossed, misled, overtaken,
                 unread>>

\* The owner resets the key for the members kept, and tells them.
rotateGroupKeyForChat(keep) ==
  LET epoch == 1 + CHOOSE e \in Epoch : filed[Creator][e] # 0
                                        /\ \A f \in Epoch : filed[Creator][f] # 0 => f <= e
      c == [members |-> keep, epoch |-> epoch, key |-> epoch, owner |-> chat[Creator].owner]
  IN /\ keep \subseteq chat[Creator].members /\ Creator \in keep
     /\ epoch <= MaxEpoch /\ sent < MaxMessages
     /\ filed' = [filed EXCEPT ![Creator][epoch] = epoch]
     /\ chat' = [chat EXCEPT ![Creator] = c]
     /\ kept' = [kept EXCEPT ![epoch] = keep]
     /\ sent' = sent + 1
     /\ PostOrKeep(Creator, c, keep, TRUE)
     /\ UNCHANGED <<worker, links, joined, crossed, misled, overtaken, unread>>

\* A link carries the copier's current key and member list.
copyGroupInvite(d) ==
  /\ chat[d] # Absent
  /\ Cardinality(links) < MaxLinks
  /\ links' = links \cup {[key |-> chat[d].key, members |-> chat[d].members,
                           owner |-> chat[d].owner, outdated |-> d \in overtaken]}
  /\ UNCHANGED <<chat, filed, unsent, arrived, worker, sent, kept, joined, wrote, crossed,
                 misled, overtaken, misnamed, unread>>

\* The link's key is filed as epoch 1, and the members are told.
upsertGroupFromInvite(d) ==
  /\ chat[d] = Absent
  /\ sent < MaxMessages
  /\ \E l \in links :
       LET c == [members |-> l.members \cup {d}, epoch |-> 1, key |-> l.key, owner |-> l.owner]
       IN /\ chat' = [chat EXCEPT ![d] = c]
          /\ filed' = [filed EXCEPT ![d][1] = l.key]
          /\ joined' = [joined EXCEPT ![l.key] = @ \cup {d}]
          /\ misled' = IF l.owner = Creator THEN misled ELSE misled \cup {d}
          /\ overtaken' = IF l.outdated THEN overtaken \cup {d} ELSE overtaken
          /\ PostOrKeep(d, c, {}, FALSE)
  /\ sent' = sent + 1
  /\ UNCHANGED <<worker, links, kept, crossed, unread>>

-------------------------------------------------------------------------------
(* Receiving. *)

Held(e, k) == [source |-> "held", epoch |-> e, key |-> k]

\* The key the message names, else the current one.
Labelled(d, m) == IF m.label = chat[d].epoch THEN chat[d].key ELSE filed[d][m.label]

\* A key for a new epoch is taken from anyone.
keysToTry_AnySender(d, m) ==
  {Held(m.label, Labelled(d, m)), Held(chat[d].epoch, chat[d].key)}
  \cup (IF m.carried # 0 /\ Labelled(d, m) = 0 /\ m.label > chat[d].epoch /\ m.carried # chat[d].key
        THEN {[source |-> "owner", epoch |-> m.label, key |-> m.carried]} ELSE {})

\* Only the key the message names.
keysToTry_Labelled(d, m) ==
  {Held(m.label, Labelled(d, m))}
  \cup (IF m.carried # 0 /\ m.from = chat[d].owner /\ Labelled(d, m) = 0 /\ m.label > chat[d].epoch
        THEN {[source |-> "owner", epoch |-> m.label, key |-> m.carried]} ELSE {})

\* The key of the epoch named, the current key, and one that the owner brings for an
\* epoch that is new to this device.  A key is tried once, as the first of these.
keysToTry(d, m) ==
  {Held(m.label, Labelled(d, m)), Held(chat[d].epoch, chat[d].key)}
  \cup (IF m.carried # 0 /\ m.from = chat[d].owner /\ Labelled(d, m) = 0
           /\ m.label > chat[d].epoch /\ m.carried # chat[d].key
        THEN {[source |-> "owner", epoch |-> m.label, key |-> m.carried]} ELSE {})

IsMember(d, x) == x = chat[d].owner \/ x \in chat[d].members

\* Whoever writes under a key this device has ever held is let in.
Admits_AnyKey(d, m) == ~IsMember(d, m.from)

\* A sender joins by writing under the current key.
Admits(d, m) == ~IsMember(d, m.from) /\ m.key = chat[d].key

Opening(d, m) == {c \in keysToTry(d, m) : c.key = m.key}

\* What a run will write: the whole record of a new group, or the fields that change.
Nothing == [epoch |-> 0, key |-> 0, members |-> {}]
Creation == [Nothing EXCEPT !.members = Device]

judgeGroupMessage(d, m) ==
  IF Opening(d, m) = {} THEN Nothing
  ELSE IF \A c \in Opening(d, m) : c.source = "owner"
  THEN [epoch |-> m.label, key |-> m.key,
        members |-> IF m.roster = {} THEN {} ELSE m.roster \cup {m.from, d}]
  ELSE [Nothing EXCEPT !.members = IF Admits(d, m) THEN chat[d].members \cup {m.from} ELSE {}]

\* A run reads its records and decides.  A group it has not seen counts only when a
\* key sealed to this device comes with the message.
Judge(w, d, m) ==
  /\ worker[w] = Unoccupied
  /\ m \in arrived[d]
  /\ IF chat[d] = Absent /\ m.carried = 0
     THEN arrived' = [arrived EXCEPT ![d] = @ \ {m}] /\ UNCHANGED worker
     ELSE /\ worker' = [worker EXCEPT ![w] =
               [stage |-> "write", at |-> d, message |-> m, seen |-> chat[d],
                new |-> IF chat[d] = Absent THEN Creation ELSE judgeGroupMessage(d, m)]]
          /\ UNCHANGED arrived
  /\ unread' = IF /\ chat[d] # Absent /\ Opening(d, m) = {}
                  /\ m.key \in {chat[d].key, filed[d][m.key]}
               THEN unread \cup {m} ELSE unread
  /\ UNCHANGED <<chat, filed, unsent, sent, links, kept, joined, wrote, crossed, misled,
                 overtaken, misnamed>>

\* The first message of a group: its sender is taken for the owner.
CreateFrom(d, m) ==
  /\ chat' = [chat EXCEPT ![d] = [members |-> {d, m.from} \cup m.to, epoch |-> m.label,
                                  key |-> m.carried, owner |-> m.from]]
  /\ filed' = [filed EXCEPT ![d][m.label] = m.carried]
  /\ misled' = IF m.from = Creator THEN misled ELSE misled \cup {d}
  /\ UNCHANGED overtaken

Update(d, m, new) ==
  /\ chat' = [chat EXCEPT ![d] =
       [members |-> IF new.members = {} THEN @.members ELSE new.members,
        epoch |-> IF new.key = 0 THEN @.epoch ELSE new.epoch,
        key |-> IF new.key = 0 THEN @.key ELSE new.key, owner |-> @.owner]]
  /\ filed' = IF new.key = 0 THEN filed ELSE [filed EXCEPT ![d][new.epoch] = new.key]
  /\ overtaken' = IF new.key # 0 /\ new.members = {} THEN overtaken \cup {d} ELSE overtaken
  /\ UNCHANGED misled

\* Then it writes, whatever has been written since it read.
Persist(w) ==
  /\ worker[w] # Unoccupied
  /\ LET d == worker[w].at
         m == worker[w].message
     IN /\ IF worker[w].seen = Absent THEN CreateFrom(d, m) ELSE Update(d, m, worker[w].new)
        /\ crossed' = IF chat[d] = worker[w].seen \/ worker[w].new = Nothing
                      THEN crossed ELSE crossed \cup {d}
        /\ arrived' = [arrived EXCEPT ![d] = @ \ {m}]
  /\ worker' = [worker EXCEPT ![w] = Unoccupied]
  /\ UNCHANGED <<unsent, sent, links, kept, joined, wrote, misnamed, unread>>

GroupNext ==
  \/ \E d \in Device :
       \/ SendMessage(d) \/ FlushUnsent(d) \/ copyGroupInvite(d) \/ upsertGroupFromInvite(d)
       \/ \E w \in Worker, m \in arrived[d] : Judge(w, d, m)
  \/ \E keep \in SUBSET Device : rotateGroupKeyForChat(keep)
  \/ \E w \in Worker : Persist(w)

GroupSpec == GroupInit /\ [][GroupNext]_groupVars

-------------------------------------------------------------------------------
(* Properties. *)

\* Whoever the owner left out of a reset never comes to hold the new key, however late
\* the others learn of it, unless a current link lets them in; and whoever holds it has
\* them off the member list it is sealed to, unless the key was learned from a message
\* that overtook the reset, or from a link that somebody made who had learned it so.
RemovedStaysOut ==
  \A d \in Device :
    /\ \A e \in Epoch : filed[d][e] # 0 => d \in kept[filed[d][e]] \cup joined[filed[d][e]]
    /\ d \notin overtaken /\ chat[d] # Absent =>
         LET k == chat[d].key
         IN chat[d].members \subseteq {d} \cup kept[k] \cup joined[k] \cup wrote[k]

\* A device that holds the key a message was written under can read it, unless the
\* message was flushed after a reset, or its writer files the key under another epoch:
\* one who joined by a link that has been revoked since, or took such a one for the owner.
HoldersRead ==
  \A m \in unread \ misnamed : m.from \in joined[m.key] \cup misled

\* In whatever order the owner's resets and messages under older and newer keys arrive,
\* the group's keys follow its members: the removed stay out and the others go on
\* reading.  The removed stay out unless somebody else passed for the owner or runs
\* overlapped (group-membership.ts:76).
KeysFollowMembers ==
  /\ misled \cup crossed = {} => RemovedStaysOut
  /\ HoldersRead

\* "Messages name the key epoch they were encrypted under" (helpers.ts:980).
NamesItsKey == misnamed = {}
===============================================================================
