------------------------------- MODULE FeedTypes -------------------------------
(***************************************************************************)
(* The posts of the public feed: echoes, and reflections in threads under  *)
(* them.                                                                   *)
(***************************************************************************)
EXTENDS Naturals

CONSTANTS
  User, Echo, Reflection,
  AuthorOf,   \* of an echo or a reflection
  EchoOf,     \* the echo a reflection belongs to
  ParentOf,   \* the reflection it replies to, or its echo
  Null,       \* no value
  Stamp,      \* createdAt of an echo or a reflection, set by its author's clock
  LikedAt,    \* createdAt of the likes of an echo
  NameFits,   \* users whose names have a word the "@" query starts
  FrontFits,  \* of those, the ones whose names start with it
  NameRank,   \* the alphabetical order of the names
  PREVIEW     \* reflections a card in the feed shows

ASSUME PostsAssumption ==
  /\ AuthorOf \in [Echo \cup Reflection -> User]
  /\ EchoOf \in [Reflection -> Echo] /\ Echo \cap Reflection = {}
  /\ \A f \in Reflection : \/ ParentOf[f] = EchoOf[f]
                           \/ ParentOf[f] \in Reflection /\ EchoOf[ParentOf[f]] = EchoOf[f]

\* Posts of one millisecond come in no order from the tables.
ASSUME FeedOrderAssumption ==
  /\ Stamp \in [Echo \cup Reflection -> Nat \ {0}]
  /\ \A p, q \in DOMAIN Stamp : Stamp[p] = Stamp[q] => p = q
  /\ LikedAt \in [Echo -> Nat] /\ \A e, d \in Echo : LikedAt[e] = LikedAt[d] => e = d
  /\ NameRank \in [User -> Nat] /\ \A u, v \in User : NameRank[u] = NameRank[v] => u = v
  /\ FrontFits \subseteq NameFits /\ NameFits \subseteq User
===============================================================================
