--------------------------------- MODULE ClientProofs ---------------------------------
(*****************************************************************************)
(* Theorems about the client: Prekeys, Outbox, Inbox, Statuses, GroupKeys,   *)
(* Attachments and ChatScreen, for any devices, messages, runs, uploads,     *)
(* keys, chats, members, clips and bounds.                                   *)
(*****************************************************************************)
EXTENDS Prekeys, Outbox, Inbox, Statuses, GroupKeys, Attachments, ChatScreen,
        FiniteSetTheorems, TLAPS

-----------------------------------------------------------------------------
(* Prekeys. *)

\* Messages that left the relay: received, being stored, stored.
InHand == {reader[r].message : r \in {q \in Reader : reader[q] # Rest}}
Arrived == inbox \cup stored \cup InHand

\* A one-time prekey the relay can hand out, or is about to, is on the device and
\* was given to nobody.
KeysAccounted ==
  /\ held \subseteq 1..minted
  /\ \A k \in OneTime : taken[k] \in {0, 1} /\ (taken[k] = 1 => k <= minted)
  /\ \A k \in stock : k \in held /\ taken[k] = 0
  /\ refresh.stage = "publishing" =>
       \A k \in refresh.keys : k \in held /\ taken[k] = 0 /\ k \notin stock

\* Claims under way are for different keys: in stock until committed, and from then on
\* taken and in no message.
ClaimsApart ==
  /\ \A s \in Sender : claim[s].stage = "locked" /\ claim[s].opk # 0 => claim[s].opk \in stock
  /\ \A s \in Sender : claim[s].stage = "bundle" /\ claim[s].opk # 0 =>
       /\ claim[s].opk \in held /\ taken[claim[s].opk] = 1
       /\ \A m \in mail \cup Arrived : m.opk # claim[s].opk
  /\ \A s, t \in Sender :
       claim[s] # Rest /\ claim[t] # Rest /\ claim[s].opk = claim[t].opk /\ claim[s].opk # 0
         => s = t

\* A message under way is the only one under its key, which waits for it.
MessagesApart ==
  /\ \A m \in mail \cup Arrived : m.opk # 0 => taken[m.opk] = 1
  /\ \A m \in mail : m.opk # 0 =>
       /\ m.opk \in held
       /\ \A n \in Arrived : n.opk # m.opk
       /\ \A n \in mail : n.opk = m.opk => n = m

\* A key is spent before its message is stored, and on no other.
SpentIsKept ==
  /\ \A m \in stored : m.opk \notin held
  /\ \A r \in Reader : reader[r].stage = "consumed" => reader[r].message.opk \notin held
  /\ \A k \in OneTime : taken[k] = 1 /\ k \notin held =>
       \E m \in stored \cup Spending \cup cut : m.opk = k

\* The inductive invariant of both theorems.
PrekeysInv ==
  /\ PrekeysTypeOK
  /\ KeysAccounted
  /\ ClaimsApart
  /\ MessagesApart
  /\ SpentIsKept

-------------------------------------------------------------------------------
\* The types of the bounds, one by one.
LEMMA Bounds ==
  /\ MaxDay \in Nat /\ MaxKeys \in Nat /\ MaxCuts \in Nat
  /\ Batch \in Nat /\ MaxStock \in Nat
BY PrekeysAssumption DEF PrekeysAssumption

(* The initial states, and one lemma per action. *)

LEMMA PrekeysInitInv == PrekeysInit => PrekeysInv
<1> SUFFICES ASSUME PrekeysInit PROVE PrekeysInv
    OBVIOUS
<1>1. PrekeysTypeOK
    BY PrekeysAssumption DEF PrekeysInit, PrekeysTypeOK, Days, Rest
<1>2. InHand = {} /\ Arrived = {}
    BY DEF PrekeysInit, InHand, Arrived
<1>3. KeysAccounted
    BY DEF PrekeysInit, KeysAccounted, Rest
<1>4. ClaimsApart
    BY DEF PrekeysInit, ClaimsApart, Rest
<1>5. MessagesApart /\ SpentIsKept
    BY <1>2 DEF PrekeysInit, MessagesApart, SpentIsKept, Spending, Rest
<1>6. QED
    BY <1>1, <1>3, <1>4, <1>5 DEF PrekeysInv

LEMMA RenewInv ==
  ASSUME PrekeysInv, Renew
  PROVE  PrekeysInv'
<1> USE DEF PrekeysInv
<1>1. PrekeysTypeOK'
    <2>1. PICK today \in Days :
            /\ signed' = Retained(signed \cup {today}, today)
            /\ \E e \in BOOLEAN : refresh' = [stage |-> "renewed", spk |-> today, expired |-> e]
        BY DEF Renew, Newest, PrekeysTypeOK
    <2>2. signed' \subseteq Days
        BY <2>1 DEF Retained, PrekeysTypeOK
    <2>3. refresh' \in [stage : {"renewed"}, spk : Days, expired : BOOLEAN]
        BY <2>1
    <2>4. QED
        BY <2>2, <2>3 DEF Renew, PrekeysTypeOK, relayVars, mailVars
<1>2. KeysAccounted'
    BY DEF Renew, PrekeysTypeOK, KeysAccounted, OneTime, Rest, relayVars, ownerVars, mailVars
<1>3. ClaimsApart'
    BY DEF Renew, PrekeysTypeOK, KeysAccounted, ClaimsApart, MessagesApart,
          InHand, Arrived, OneTime, Rest, relayVars, ownerVars, mailVars
<1>4. MessagesApart'
    BY DEF Renew, PrekeysTypeOK, KeysAccounted, ClaimsApart, MessagesApart,
          InHand, Arrived, OneTime, Rest, relayVars, ownerVars, mailVars
<1>5. SpentIsKept'
    BY DEF Renew, PrekeysTypeOK, KeysAccounted, MessagesApart, SpentIsKept,
          Spending, InHand, Arrived, OneTime, Rest, relayVars, ownerVars, mailVars
<1>6. QED
    BY <1>1, <1>2, <1>3, <1>4, <1>5

LEMMA TopUpInv ==
  ASSUME PrekeysInv, NEW counted \in BOOLEAN, TopUp(counted)
  PROVE  PrekeysInv'
<1> USE DEF PrekeysInv
<1>a. PICK batch \in SUBSET ((minted + 1)..(minted + Batch)) :
        /\ minted' \in Nat /\ minted <= minted' /\ minted' <= MaxKeys
        /\ batch \subseteq 1..minted' /\ batch \cap (1..minted) = {}
        /\ held' = held \cup batch
        /\ \/ refresh' = Rest
           \/ refresh' = [stage |-> "publishing", spk |-> refresh.spk, keys |-> batch]
    <2>1. minted \in Nat /\ Batch \in Nat
        BY Bounds DEF PrekeysTypeOK
    <2>2. Cardinality((minted + 1)..(minted + Batch)) = Batch /\ Cardinality({}) = 0
        BY <2>1, FS_Interval, FS_EmptySet
    <2>3. CASE ~counted \/ Cardinality(stock) < Threshold
        <3>1. minted' = minted + Batch /\ minted' <= MaxKeys
            BY <2>2, <2>3 DEF TopUp
        <3>2. WITNESS (minted + 1)..(minted + Batch) \in SUBSET ((minted + 1)..(minted + Batch))
        <3>3. /\ (minted + 1)..(minted + Batch) \subseteq 1..minted'
              /\ ((minted + 1)..(minted + Batch)) \cap (1..minted) = {}
            BY <2>1, <3>1
        <3>4. QED
            BY <2>1, <2>3, <3>1, <3>3 DEF TopUp
    <2>4. CASE ~(~counted \/ Cardinality(stock) < Threshold)
        <3>1. minted' = minted /\ held' = held /\ minted' <= MaxKeys
            BY <2>1, <2>2, <2>4 DEF TopUp
        <3>2. WITNESS {} \in SUBSET ((minted + 1)..(minted + Batch))
        <3>3. QED
            BY <2>1, <2>4, <3>1 DEF TopUp
    <2>5. QED
        BY <2>3, <2>4
<1>b. held' \subseteq 1..minted'
    <2>1. held \subseteq 1..minted /\ minted \in Nat
        BY DEF PrekeysTypeOK, KeysAccounted
    <2>2. 1..minted \subseteq 1..minted'
        BY <2>1, <1>a
    <2>3. QED
        BY <2>1, <2>2, <1>a
<1>c. \A k \in batch : k \in OneTime /\ taken[k] = 0 /\ k \notin stock
    <2>1. \A k \in batch : k \in OneTime
        BY <1>a, Bounds DEF OneTime
    <2>2. \A k \in batch : k \notin 1..minted /\ ~ (k <= minted)
        BY <1>a, Bounds DEF PrekeysTypeOK
    <2>3. QED
        BY <2>1, <2>2 DEF KeysAccounted
<1>d. refresh # Rest /\ refresh.spk \in Days
    BY DEF TopUp, PrekeysTypeOK, Rest
<1>1. PrekeysTypeOK'
    BY <1>a, <1>b, <1>d, Bounds DEF TopUp, PrekeysTypeOK, OneTime, relayVars, mailVars
<1>2. KeysAccounted'
    <2>1. \A k \in OneTime : taken[k] = 1 => k <= minted'
        BY <1>a, <1>b DEF PrekeysTypeOK, KeysAccounted, OneTime
    <2>2. UNCHANGED <<taken, stock>>
        BY DEF TopUp, relayVars
    <2>3. refresh'.stage = "publishing" => refresh'.keys = batch
        BY <1>a DEF Rest
    <2>4. QED
        BY <1>a, <1>b, <1>c, <2>1, <2>2, <2>3 DEF KeysAccounted
<1>3. ClaimsApart'
    BY <1>a DEF TopUp, PrekeysTypeOK, ClaimsApart, InHand, Arrived, relayVars, mailVars
<1>4. MessagesApart'
    BY <1>a DEF TopUp, PrekeysTypeOK, MessagesApart, InHand, Arrived, relayVars, mailVars
<1>5. SpentIsKept'
    <2>1. \A k \in batch : k \in OneTime /\ taken[k] # 1
        BY <1>a, <1>b, Bounds DEF PrekeysTypeOK, KeysAccounted, OneTime
    <2>2. \A m \in stored : m.opk \notin batch
        BY <2>1 DEF MessagesApart, Arrived, PrekeysTypeOK, Messages, OneTime
    <2>3. \A r \in Reader : reader[r].stage = "consumed" => reader[r].message.opk \notin batch
        BY <2>1 DEF MessagesApart, Arrived, InHand, PrekeysTypeOK, Messages, OneTime, Rest
    <2>4. QED
        BY <1>a, <2>2, <2>3 DEF TopUp, SpentIsKept, Spending, InHand, relayVars, mailVars
<1>6. QED
    BY <1>1, <1>2, <1>3, <1>4, <1>5

LEMMA FailRefreshInv ==
  ASSUME PrekeysInv, FailRefresh
  PROVE  PrekeysInv'
<1> USE DEF PrekeysInv
<1>1. PrekeysTypeOK'
    BY Bounds DEF FailRefresh, PrekeysTypeOK, Days, OneTime, Messages, Rest,
          relayVars, ownerVars, mailVars
<1>2. KeysAccounted'
    BY DEF FailRefresh, PrekeysTypeOK, KeysAccounted, OneTime, Rest, relayVars, ownerVars, mailVars
<1>3. ClaimsApart'
    BY DEF FailRefresh, PrekeysTypeOK, KeysAccounted, ClaimsApart, MessagesApart,
          InHand, Arrived, OneTime, Rest, relayVars, ownerVars, mailVars
<1>4. MessagesApart'
    BY DEF FailRefresh, PrekeysTypeOK, KeysAccounted, ClaimsApart, MessagesApart,
          InHand, Arrived, OneTime, Rest, relayVars, ownerVars, mailVars
<1>5. SpentIsKept'
    BY DEF FailRefresh, PrekeysTypeOK, KeysAccounted, MessagesApart, SpentIsKept,
          Spending, InHand, Arrived, OneTime, Rest, relayVars, ownerVars, mailVars
<1>6. QED
    BY <1>1, <1>2, <1>3, <1>4, <1>5

LEMMA PublishInv ==
  ASSUME PrekeysInv, publish
  PROVE  PrekeysInv'
<1> USE DEF PrekeysInv
<1>a. /\ stock' \subseteq stock \cup refresh.keys
      /\ stock \cap Locked \subseteq stock'
    BY DEF publish, Trimmed
<1>b. refresh.keys \subseteq OneTime /\ refresh.spk \in Days
    BY DEF publish, PrekeysTypeOK, Rest
<1>1. PrekeysTypeOK'
    BY <1>a, <1>b DEF publish, PrekeysTypeOK, mailVars
<1>2. KeysAccounted'
    BY <1>a DEF publish, KeysAccounted, Rest
<1>3. ClaimsApart'
    <2>1. \A s \in Sender : claim[s].stage = "locked" => claim[s].opk \in Locked
        BY DEF Locked
    <2>2. \A s \in Sender :
            claim[s].stage = "locked" /\ claim[s].opk # 0 => claim[s].opk \in stock'
        BY <1>a, <2>1 DEF ClaimsApart
    <2>3. UNCHANGED <<claim, taken, held, mail, InHand, Arrived>>
        BY DEF publish, InHand, Arrived, mailVars
    <2>4. QED
        BY <2>2, <2>3 DEF ClaimsApart
<1>4. MessagesApart'
    BY DEF publish, PrekeysTypeOK, KeysAccounted, ClaimsApart, MessagesApart,
          InHand, Arrived, OneTime, Rest, relayVars, ownerVars, mailVars
<1>5. SpentIsKept'
    BY DEF publish, PrekeysTypeOK, KeysAccounted, MessagesApart, SpentIsKept,
          Spending, InHand, Arrived, OneTime, Rest, relayVars, ownerVars, mailVars
<1>6. QED
    BY <1>1, <1>2, <1>3, <1>4, <1>5

LEMMA ClaimKeyInv ==
  ASSUME PrekeysInv, NEW s \in Sender, ClaimKey(s)
  PROVE  PrekeysInv'
<1> USE DEF PrekeysInv
<1>a. PICK k : /\ k = 0 \/ k \in stock \ Locked
              /\ claim' = [claim EXCEPT ![s] = [stage |-> "locked", spk |-> published,
                                                opk |-> k]]
    BY DEF ClaimKey, Oldest, Free
<1>b. /\ claim'[s] = [stage |-> "locked", spk |-> published, opk |-> k]
      /\ \A t \in Sender : t # s => claim'[t] = claim[t]
    BY <1>a DEF PrekeysTypeOK
<1>1. PrekeysTypeOK'
    <2>1. k \in 0..MaxKeys /\ published \in Days
        <3>1. published \in Days
            BY DEF ClaimKey, PrekeysTypeOK
        <3>2. \A l \in OneTime : l \in 0..MaxKeys
            BY DEF OneTime
        <3>3. stock \subseteq OneTime /\ 0 \in 0..MaxKeys
            BY Bounds DEF PrekeysTypeOK
        <3>4. QED
            BY <1>a, <3>1, <3>2, <3>3
    <2>2. claim' \in [Sender -> {Rest} \cup
                       [stage : {"locked", "bundle"}, spk : Days, opk : 0..MaxKeys]]
        BY <1>a, <2>1 DEF PrekeysTypeOK
    <2>3. QED
        BY <2>2 DEF ClaimKey, PrekeysTypeOK, ownerVars, mailVars
<1>2. KeysAccounted'
    BY DEF ClaimKey, PrekeysTypeOK, KeysAccounted, OneTime, Rest, relayVars, ownerVars, mailVars
<1>3. ClaimsApart'
    <2>1. \A t \in Sender : claim[t] # Rest /\ k # 0 => claim[t].opk # k
        <3>1. \A t \in Sender : claim[t].stage = "locked" /\ k # 0 => claim[t].opk # k
            BY <1>a DEF Locked
        <3>2. \A t \in Sender : claim[t].stage = "bundle" /\ k # 0 => claim[t].opk # k
            BY <1>a DEF KeysAccounted, ClaimsApart
        <3>3. \A t \in Sender : claim[t] # Rest => claim[t].stage \in {"locked", "bundle"}
            BY DEF PrekeysTypeOK
        <3>4. QED
            BY <3>1, <3>2, <3>3
    <2>2. claim[s] = Rest /\ UNCHANGED <<stock, held, taken, mail, InHand, Arrived>>
        BY DEF ClaimKey, InHand, Arrived, ownerVars, mailVars
    <2>3. QED
        BY <1>a, <1>b, <2>1, <2>2 DEF ClaimsApart, Rest
<1>4. MessagesApart'
    BY DEF ClaimKey, PrekeysTypeOK, KeysAccounted, ClaimsApart, MessagesApart,
          InHand, Arrived, OneTime, Rest, relayVars, ownerVars, mailVars
<1>5. SpentIsKept'
    BY DEF ClaimKey, PrekeysTypeOK, KeysAccounted, MessagesApart, SpentIsKept,
          Spending, InHand, Arrived, OneTime, Rest, relayVars, ownerVars, mailVars
<1>6. QED
    BY <1>1, <1>2, <1>3, <1>4, <1>5

LEMMA ClaimBundleInv ==
  ASSUME PrekeysInv, NEW s \in Sender, claimBundle(s)
  PROVE  PrekeysInv'
<1> USE DEF PrekeysInv
<1> DEFINE k == claim[s].opk
<1>a. claim[s] \in [stage : {"locked", "bundle"}, spk : Days, opk : 0..MaxKeys]
    BY DEF claimBundle, PrekeysTypeOK, Rest
<1>b. /\ k = 0 \/ k \in OneTime
      /\ k # 0 => k \in stock /\ k \in held /\ taken[k] = 0
    BY <1>a, Bounds DEF claimBundle, KeysAccounted, ClaimsApart, OneTime
<1>c. /\ claim'[s] = [claim[s] EXCEPT !.stage = "bundle"]
      /\ \A t \in Sender : t # s => claim'[t] = claim[t]
      /\ stock' = stock \ {k}
      /\ k = 0 => stock' = stock /\ taken' = taken
      /\ k # 0 => taken' = [taken EXCEPT ![k] = 1]
    <2>1. /\ claim'[s] = [claim[s] EXCEPT !.stage = "bundle"]
          /\ \A t \in Sender : t # s => claim'[t] = claim[t]
        BY DEF claimBundle, PrekeysTypeOK
    <2>2. /\ stock' = stock \ {k} /\ 0 \notin stock
          /\ taken' = IF k = 0 THEN taken ELSE [taken EXCEPT ![k] = @ + 1]
        BY DEF claimBundle, PrekeysTypeOK, OneTime
    <2>3. k # 0 => taken' = [taken EXCEPT ![k] = 1]
        <3>1. k # 0 => taken[k] + 1 = 1
            BY <1>b
        <3>2. QED
            BY <3>1, <2>2
    <2>4. QED
        BY <2>1, <2>2, <2>3
<1>d. UNCHANGED <<held, minted, refresh, mail, stored, cut, InHand, Arrived>>
    BY DEF claimBundle, InHand, Arrived, ownerVars, mailVars
<1>1. PrekeysTypeOK'
    <2>1. claim' \in [Sender -> {Rest} \cup
                       [stage : {"locked", "bundle"}, spk : Days, opk : 0..MaxKeys]]
        BY <1>a DEF claimBundle, PrekeysTypeOK
    <2>2. taken' \in [OneTime -> Nat] /\ stock' \subseteq OneTime
        BY <1>c, <1>b DEF claimBundle, PrekeysTypeOK
    <2>3. QED
        BY <2>1, <2>2 DEF claimBundle, PrekeysTypeOK, ownerVars, mailVars
<1>2. KeysAccounted'
    <2>1. CASE k = 0
        BY <2>1, <1>c, <1>d DEF KeysAccounted
    <2>2. CASE k # 0
        <3>1. k <= minted /\ taken'[k] = 1 /\ \A l \in OneTime : l # k => taken'[l] = taken[l]
            BY <2>2, <1>b, <1>c DEF KeysAccounted, PrekeysTypeOK
        <3>2. stock \subseteq OneTime
            BY DEF PrekeysTypeOK
        <3>3. refresh.stage = "publishing" => refresh.keys \subseteq OneTime /\ k \notin refresh.keys
            BY <2>2, <1>b DEF KeysAccounted, PrekeysTypeOK, Rest
        <3>4. QED
            BY <2>2, <1>b, <1>c, <1>d, <3>1, <3>2, <3>3 DEF KeysAccounted
    <2>3. QED
        BY <2>1, <2>2
<1>3. ClaimsApart'
    BY DEF claimBundle, PrekeysTypeOK, KeysAccounted, ClaimsApart, MessagesApart,
          InHand, Arrived, OneTime, Rest, relayVars, ownerVars, mailVars
<1>4. MessagesApart'
    BY DEF claimBundle, PrekeysTypeOK, KeysAccounted, ClaimsApart, MessagesApart,
          InHand, Arrived, OneTime, Rest, relayVars, ownerVars, mailVars
<1>5. SpentIsKept'
    <2>1. \A l \in OneTime : taken'[l] = 1 /\ l \notin held => taken[l] = 1
        BY <1>b, <1>c DEF PrekeysTypeOK
    <2>2. reader' = reader
        BY DEF claimBundle, mailVars
    <2>3. QED
        BY <1>d, <2>1, <2>2 DEF SpentIsKept, Spending
<1>6. QED
    BY <1>1, <1>2, <1>3, <1>4, <1>5

LEMMA FailClaimInv ==
  ASSUME PrekeysInv, NEW s \in Sender, FailClaim(s)
  PROVE  PrekeysInv'
<1> USE DEF PrekeysInv
<1>1. PrekeysTypeOK'
    BY Bounds DEF FailClaim, PrekeysTypeOK, Days, OneTime, Messages, Rest,
          relayVars, ownerVars, mailVars
<1>2. KeysAccounted'
    BY DEF FailClaim, PrekeysTypeOK, KeysAccounted, OneTime, Rest, relayVars, ownerVars, mailVars
<1>3. ClaimsApart'
    BY DEF FailClaim, PrekeysTypeOK, KeysAccounted, ClaimsApart, MessagesApart,
          InHand, Arrived, OneTime, Rest, relayVars, ownerVars, mailVars
<1>4. MessagesApart'
    BY DEF FailClaim, PrekeysTypeOK, KeysAccounted, ClaimsApart, MessagesApart,
          InHand, Arrived, OneTime, Rest, relayVars, ownerVars, mailVars
<1>5. SpentIsKept'
    BY DEF FailClaim, PrekeysTypeOK, KeysAccounted, MessagesApart, SpentIsKept,
          Spending, InHand, Arrived, OneTime, Rest, relayVars, ownerVars, mailVars
<1>6. QED
    BY <1>1, <1>2, <1>3, <1>4, <1>5

LEMMA EncryptInv ==
  ASSUME PrekeysInv, NEW s \in Sender, encryptWithPrekeyBundle(s)
  PROVE  PrekeysInv'
<1> USE DEF PrekeysInv
<1>1. PrekeysTypeOK'
    BY Bounds, SMTT(20) DEF encryptWithPrekeyBundle, PrekeysTypeOK, Days, OneTime, Messages, Rest,
          relayVars, ownerVars, mailVars
<1>2. KeysAccounted'
    BY DEF encryptWithPrekeyBundle, PrekeysTypeOK, KeysAccounted, OneTime, Rest, relayVars,
       ownerVars, mailVars
<1>3. ClaimsApart'
    BY DEF encryptWithPrekeyBundle, PrekeysTypeOK, KeysAccounted, ClaimsApart, MessagesApart,
          InHand, Arrived, OneTime, Rest, relayVars, ownerVars, mailVars
<1>4. MessagesApart'
    BY DEF encryptWithPrekeyBundle, PrekeysTypeOK, KeysAccounted, ClaimsApart, MessagesApart,
          InHand, Arrived, OneTime, Rest, relayVars, ownerVars, mailVars
<1>5. SpentIsKept'
    BY DEF encryptWithPrekeyBundle, PrekeysTypeOK, KeysAccounted, MessagesApart, SpentIsKept,
          Spending, InHand, Arrived, OneTime, Rest, relayVars, ownerVars, mailVars
<1>6. QED
    BY <1>1, <1>2, <1>3, <1>4, <1>5

LEMMA ReceiveInv ==
  ASSUME PrekeysInv, NEW m \in mail, Receive(m)
  PROVE  PrekeysInv'
<1> USE DEF PrekeysInv
<1>1. PrekeysTypeOK'
    BY Bounds DEF Receive, PrekeysTypeOK, Days, OneTime, Messages, Rest,
          relayVars, ownerVars, mailVars
<1>2. KeysAccounted'
    BY DEF Receive, PrekeysTypeOK, KeysAccounted, OneTime, Rest, relayVars, ownerVars, mailVars
<1>3. ClaimsApart'
    BY DEF Receive, PrekeysTypeOK, KeysAccounted, ClaimsApart, MessagesApart,
          InHand, Arrived, OneTime, Rest, relayVars, ownerVars, mailVars
<1>4. MessagesApart'
    BY DEF Receive, PrekeysTypeOK, KeysAccounted, ClaimsApart, MessagesApart,
          InHand, Arrived, OneTime, Rest, relayVars, ownerVars, mailVars
<1>5. SpentIsKept'
    BY DEF Receive, PrekeysTypeOK, KeysAccounted, MessagesApart, SpentIsKept,
          Spending, InHand, Arrived, OneTime, Rest, relayVars, ownerVars, mailVars
<1>6. QED
    BY <1>1, <1>2, <1>3, <1>4, <1>5

LEMMA DecryptInv ==
  ASSUME PrekeysInv, NEW r \in Reader, NEW m \in inbox, decryptWithPrekeys(r, m)
  PROVE  PrekeysInv'
<1> USE DEF PrekeysInv
<1>1. PrekeysTypeOK'
    <2>1. m \in Messages
        BY DEF PrekeysTypeOK
    <2>2. reader' \in [Reader -> {Rest} \cup [stage : {"opened", "consumed"}, message : Messages]]
        BY <2>1 DEF decryptWithPrekeys, PrekeysTypeOK
    <2>3. QED
        BY <2>2 DEF decryptWithPrekeys, PrekeysTypeOK, relayVars, ownerVars
<1>2. KeysAccounted'
    BY DEF decryptWithPrekeys, PrekeysTypeOK, KeysAccounted, OneTime, Rest, relayVars, ownerVars,
       mailVars
<1>3. ClaimsApart'
    BY DEF decryptWithPrekeys, PrekeysTypeOK, KeysAccounted, ClaimsApart, MessagesApart,
          InHand, Arrived, OneTime, Rest, relayVars, ownerVars, mailVars
<1>4. MessagesApart'
    BY DEF decryptWithPrekeys, PrekeysTypeOK, KeysAccounted, ClaimsApart, MessagesApart,
          InHand, Arrived, OneTime, Rest, relayVars, ownerVars, mailVars
<1>5. SpentIsKept'
    BY DEF decryptWithPrekeys, PrekeysTypeOK, KeysAccounted, MessagesApart, SpentIsKept,
          Spending, InHand, Arrived, OneTime, Rest, relayVars, ownerVars, mailVars
<1>6. QED
    BY <1>1, <1>2, <1>3, <1>4, <1>5

LEMMA ConsumeInv ==
  ASSUME PrekeysInv, NEW r \in Reader, consumePrekeys(r)
  PROVE  PrekeysInv'
<1> USE DEF PrekeysInv
<1>a. /\ reader[r] # Rest /\ reader[r] \in [stage : {"opened", "consumed"}, message : Messages]
      /\ reader[r].message \in Arrived
    BY DEF consumePrekeys, PrekeysTypeOK, Arrived, InHand, Rest
<1>b. reader[r].message.opk = 0 \/ taken[reader[r].message.opk] = 1
    BY <1>a DEF MessagesApart
<1>1. PrekeysTypeOK'
    <2>1. reader' \in [Reader -> {Rest} \cup [stage : {"opened", "consumed"}, message : Messages]]
        BY <1>a DEF consumePrekeys, PrekeysTypeOK
    <2>2. QED
        BY <2>1 DEF consumePrekeys, PrekeysTypeOK, relayVars
<1>2. KeysAccounted'
    <2>1. \A k \in held : taken[k] = 0 => k \in held'
        BY <1>b DEF consumePrekeys, KeysAccounted
    <2>2. \A k \in held : k # 0
        BY DEF KeysAccounted, PrekeysTypeOK
    <2>3. QED
        BY <2>1, <2>2, <1>b DEF consumePrekeys, KeysAccounted, relayVars
<1>3. ClaimsApart'
    BY DEF consumePrekeys, PrekeysTypeOK, KeysAccounted, ClaimsApart, MessagesApart,
          InHand, Arrived, OneTime, Rest, relayVars, ownerVars, mailVars
<1>4. MessagesApart'
    BY DEF consumePrekeys, PrekeysTypeOK, KeysAccounted, ClaimsApart, MessagesApart,
          InHand, Arrived, OneTime, Rest, relayVars, ownerVars, mailVars
<1>5. SpentIsKept'
    BY DEF consumePrekeys, PrekeysTypeOK, KeysAccounted, MessagesApart, SpentIsKept,
          Spending, InHand, Arrived, OneTime, Rest, relayVars, ownerVars, mailVars
<1>6. QED
    BY <1>1, <1>2, <1>3, <1>4, <1>5

LEMMA PutInv ==
  ASSUME PrekeysInv, NEW r \in Reader, PutMessage(r)
  PROVE  PrekeysInv'
<1> USE DEF PrekeysInv
<1>1. PrekeysTypeOK'
    BY Bounds DEF PutMessage, PrekeysTypeOK, Days, OneTime, Messages, Rest,
          relayVars, ownerVars, mailVars
<1>2. KeysAccounted'
    BY DEF PutMessage, PrekeysTypeOK, KeysAccounted, OneTime, Rest, relayVars, ownerVars, mailVars
<1>3. ClaimsApart'
    BY DEF PutMessage, PrekeysTypeOK, KeysAccounted, ClaimsApart, MessagesApart,
          InHand, Arrived, OneTime, Rest, relayVars, ownerVars, mailVars
<1>4. MessagesApart'
    BY DEF PutMessage, PrekeysTypeOK, KeysAccounted, ClaimsApart, MessagesApart,
          InHand, Arrived, OneTime, Rest, relayVars, ownerVars, mailVars
<1>5. SpentIsKept'
    BY DEF PutMessage, PrekeysTypeOK, KeysAccounted, MessagesApart, SpentIsKept,
          Spending, InHand, Arrived, OneTime, Rest, relayVars, ownerVars, mailVars
<1>6. QED
    BY <1>1, <1>2, <1>3, <1>4, <1>5

LEMMA CloseInv ==
  ASSUME PrekeysInv, ClosePage
  PROVE  PrekeysInv'
<1> USE DEF PrekeysInv
<1>1. PrekeysTypeOK'
    <2>1. Spending \subseteq Messages
        BY DEF Spending, PrekeysTypeOK, Rest
    <2>2. QED
        BY <2>1, Bounds DEF ClosePage, PrekeysTypeOK, Rest, relayVars
<1>2. KeysAccounted'
    BY DEF ClosePage, PrekeysTypeOK, KeysAccounted, OneTime, Rest, relayVars, ownerVars, mailVars
<1>3. ClaimsApart'
    BY DEF ClosePage, PrekeysTypeOK, KeysAccounted, ClaimsApart, MessagesApart,
          InHand, Arrived, OneTime, Rest, relayVars, ownerVars, mailVars
<1>4. MessagesApart'
    BY DEF ClosePage, PrekeysTypeOK, KeysAccounted, ClaimsApart, MessagesApart,
          InHand, Arrived, OneTime, Rest, relayVars, ownerVars, mailVars
<1>5. SpentIsKept'
    BY DEF ClosePage, PrekeysTypeOK, KeysAccounted, MessagesApart, SpentIsKept,
          Spending, InHand, Arrived, OneTime, Rest, relayVars, ownerVars, mailVars
<1>6. QED
    BY <1>1, <1>2, <1>3, <1>4, <1>5

LEMMA TickInv ==
  ASSUME PrekeysInv, Tick
  PROVE  PrekeysInv'
<1> USE DEF PrekeysInv
<1>1. PrekeysTypeOK'
    BY Bounds DEF Tick, PrekeysTypeOK, Days, OneTime, Messages, Rest,
          relayVars, ownerVars, mailVars
<1>2. KeysAccounted'
    BY DEF Tick, PrekeysTypeOK, KeysAccounted, OneTime, Rest, relayVars, ownerVars, mailVars
<1>3. ClaimsApart'
    BY DEF Tick, PrekeysTypeOK, KeysAccounted, ClaimsApart, MessagesApart,
          InHand, Arrived, OneTime, Rest, relayVars, ownerVars, mailVars
<1>4. MessagesApart'
    BY DEF Tick, PrekeysTypeOK, KeysAccounted, ClaimsApart, MessagesApart,
          InHand, Arrived, OneTime, Rest, relayVars, ownerVars, mailVars
<1>5. SpentIsKept'
    BY DEF Tick, PrekeysTypeOK, KeysAccounted, MessagesApart, SpentIsKept,
          Spending, InHand, Arrived, OneTime, Rest, relayVars, ownerVars, mailVars
<1>6. QED
    BY <1>1, <1>2, <1>3, <1>4, <1>5

-------------------------------------------------------------------------------
\* In every state that senders, overlapping runs, failed calls and closed pages reach, a
\* key is where KeysAccounted, ClaimsApart, MessagesApart and SpentIsKept say
\* (prekey-repository.ts, prekey-store.ts).
THEOREM PrekeysInvariant == PrekeysSpec => []PrekeysInv
<1>1. PrekeysInv /\ [PrekeysNext]_preVars => PrekeysInv'
    <2>1. SUFFICES ASSUME PrekeysInv, [PrekeysNext]_preVars PROVE PrekeysInv'
        OBVIOUS
    <2>2. CASE UNCHANGED preVars
        BY <2>1, <2>2 DEF preVars, relayVars, ownerVars, mailVars, PrekeysInv, PrekeysTypeOK,
              KeysAccounted, ClaimsApart, MessagesApart, SpentIsKept, Spending, InHand, Arrived
    <2>3. CASE Renew \/ FailRefresh \/ publish \/ ClosePage \/ Tick
        BY <2>1, <2>3, RenewInv, FailRefreshInv, PublishInv, CloseInv, TickInv
    <2>4. CASE \E counted \in BOOLEAN : TopUp(counted)
        BY <2>1, <2>4, TopUpInv
    <2>5. CASE \E s \in Sender : \/ ClaimKey(s) \/ claimBundle(s) \/ FailClaim(s)
                                 \/ encryptWithPrekeyBundle(s)
        BY <2>1, <2>5, ClaimKeyInv, ClaimBundleInv, FailClaimInv, EncryptInv
    <2>6. CASE \E m \in mail : Receive(m)
        BY <2>1, <2>6, ReceiveInv
    <2>7. CASE \E r \in Reader : \/ \E m \in inbox : decryptWithPrekeys(r, m)
                                 \/ consumePrekeys(r) \/ PutMessage(r)
        BY <2>1, <2>7, DecryptInv, ConsumeInv, PutInv
    <2>8. QED
        BY <2>1, <2>2, <2>3, <2>4, <2>5, <2>6, <2>7 DEF PrekeysNext
<1>2. QED
    BY PrekeysInitInv, <1>1, PTL DEF PrekeysSpec

\* However many senders claim at once and whatever fails, a one-time prekey goes to one of
\* them (prekey-repository.ts:127), and its private half waits for the message.
THEOREM OneTimeKeysOnce == PrekeysSpec => []OneTimeOnce
<1>1. PrekeysInv => OneTimeOnce
    BY DEF PrekeysInv, KeysAccounted, MessagesApart, OneTimeOnce
<1>2. QED
    BY PrekeysInvariant, <1>1, PTL

\* For any number of overlapping runs a stored message can be opened by nobody any more
\* (message-crypto.ts:240), and a key is spent only on a message that is stored, that is
\* about to be, or that a page closed between the two has lost.
THEOREM SpentKeysAreStored == PrekeysSpec => []SpentIsStored
<1>1. PrekeysInv => SpentIsStored
    BY DEF PrekeysInv, PrekeysTypeOK, KeysAccounted, SpentIsKept, SpentIsStored
<1>2. QED
    BY PrekeysInvariant, <1>1, PTL

-----------------------------------------------------------------------------
(* The outbox and its connection. *)

Records == [status : {"absent", "local", "failed", "queued", "sent", "delivered", "read"},
            payload : {"none", "pending", "sealed"}, deleted : BOOLEAN]

\* A message that anything is at work on has a record, and a record has a payload; what
\* the flush is about to send is sealed.
Recorded ==
    /\ rec \in [Msg -> Records]
    /\ \A m \in Msg : rec[m].payload = "none" => rec[m] = NoRecord
    /\ \A m \in Msg : task[m] # NoTask \/ m \in flush.save => rec[m] # NoRecord
    /\ \A e \in receipt : e[1] \in Msg /\ rec[e[1]] # NoRecord
SealedInFlush == flush.todo \subseteq Msg /\ \A m \in flush.todo : rec[m].payload = "sealed"

OutboxInv == Recorded /\ SealedInFlush /\ QuietAfterDisconnect /\ OnlySealedIsSent

\* A step of the connection keeps it quiet once it was told to disconnect.
LEMMA ConnectionQuiet ==
    ASSUME QuietAfterDisconnect,
           Mount \/ Unmount \/ Reconnect
             \/ \E s \in Sockets : SocketEvent(s) \/ ReportError(s) \/ Fail(s)
    PROVE  QuietAfterDisconnect'
<1> USE DEF QuietAfterDisconnect
<1>1. CASE Mount \/ Unmount \/ Reconnect
    BY <1>1 DEF Mount, Unmount, Reconnect
<1>2. ASSUME NEW s \in Sockets, SocketEvent(s) \/ ReportError(s) \/ Fail(s)
      PROVE  QuietAfterDisconnect'
    BY <1>2 DEF SocketEvent, ReportError, Fail, OnOpen, Register, OnRegistered, OnClose, Schedules
<1>3. QED
    BY <1>1, <1>2

\* What happens to one message's record, when it has a payload after it and no less of
\* a ciphertext than before, disturbs nothing else.
LEMMA RecordStep ==
    ASSUME Recorded, SealedInFlush, NEW m \in Msg, NEW row \in Records, row.payload # "none",
           rec[m].payload = "sealed" => row.payload = "sealed",
           rec' = [rec EXCEPT ![m] = row],
           \A n \in Msg \ {m} : task'[n] = task[n], receipt' \subseteq receipt,
           flush'.todo \subseteq flush.todo, flush'.save \subseteq flush.save \cup {m}
    PROVE  Recorded' /\ SealedInFlush'
<1>1. rec'[m] = row /\ row # NoRecord /\ \A n \in Msg \ {m} : rec'[n] = rec[n]
    BY DEF Recorded, NoRecord
<1>2. rec' \in [Msg -> Records]
    BY DEF Recorded
<1>3. \A e \in receipt' : e[1] \in Msg /\ rec'[e[1]] # NoRecord
    BY <1>1 DEF Recorded
<1>4. QED
    BY <1>1, <1>2, <1>3 DEF Recorded, SealedInFlush

\* It holds before the client has connected.
LEMMA OutboxInvInit == SocketInit /\ OutboxInit => OutboxInv
BY DEF SocketInit, OutboxInit, OutboxInv, Recorded, Records, SealedInFlush, QuietAfterDisconnect,
       OnlySealedIsSent, NoRecord, NoTask

\* Every step keeps it.
LEMMA OutboxInvNext ==
    OutboxInv /\ [OutboxNext]_<<linkVars, outVars, wireVars>> => OutboxInv'
<1> SUFFICES ASSUME OutboxInv, [OutboxNext]_<<linkVars, outVars, wireVars>> PROVE OutboxInv'
    OBVIOUS
<1>t. Recorded /\ SealedInFlush /\ QuietAfterDisconnect /\ OnlySealedIsSent
    BY DEF OutboxInv
<1>1. ASSUME UNCHANGED <<mounted, timer, current, shouldReconnect>>
      PROVE  QuietAfterDisconnect'
    BY <1>t, <1>1 DEF QuietAfterDisconnect
<1>2. ASSUME UNCHANGED <<rec, task, receipt, naked>>, flush'.todo \subseteq flush.todo,
             flush'.save \subseteq flush.save
      PROVE  Recorded' /\ SealedInFlush' /\ OnlySealedIsSent'
    BY <1>t, <1>2 DEF Recorded, SealedInFlush, OnlySealedIsSent
<1>3. ASSUME Mount \/ Unmount \/ Reconnect
               \/ (\E s \in Sockets : SocketEvent(s) \/ ReportError(s) \/ Fail(s)),
             UNCHANGED <<rec, task, flush, receipt, naked>>
      PROVE  OutboxInv'
    BY <1>t, <1>2, <1>3, ConnectionQuiet DEF OutboxInv
<1>4. CASE StartFlush
    <2>1. \A m \in flush'.todo : m \in Msg /\ rec[m].status = "queued" /\ rec[m].payload # "pending"
        BY <1>4 DEF StartFlush, Sendable
    <2>2. \A m \in flush'.todo : rec[m].payload = "sealed"
        BY <1>t, <2>1 DEF Recorded, Records, NoRecord
    <2>3. flush'.save = flush.save /\ UNCHANGED <<rec, task, receipt, naked>>
        BY <1>4 DEF StartFlush
    <2>4. Recorded' /\ SealedInFlush' /\ OnlySealedIsSent'
        BY <1>t, <2>1, <2>2, <2>3 DEF Recorded, SealedInFlush, OnlySealedIsSent
    <2>5. QED
        BY <1>1, <1>4, <2>4 DEF StartFlush, linkVars, OutboxInv
<1>5. CASE ChatsChange
    <2>1. flush'.todo = {} /\ flush'.save = flush.save /\ UNCHANGED <<rec, task, receipt, naked>>
        BY <1>5 DEF ChatsChange
    <2>2. QED
        BY <1>1, <1>2, <1>5, <2>1 DEF ChatsChange, linkVars, OutboxInv
\* The steps that change one record.
<1>6. ASSUME NEW m \in Msg, NEW row \in Records, row.payload # "none",
             rec[m].payload = "sealed" => row.payload = "sealed", rec' = [rec EXCEPT ![m] = row],
             \A n \in Msg \ {m} : task'[n] = task[n], receipt' \subseteq receipt,
             flush'.todo \subseteq flush.todo, flush'.save \subseteq flush.save \cup {m},
             naked' = naked, UNCHANGED <<mounted, timer, current, shouldReconnect>>
      PROVE  OutboxInv'
    BY <1>t, <1>1, <1>6, RecordStep DEF OutboxInv, OnlySealedIsSent
<1>7. ASSUME NEW m \in Msg, Compose(m) PROVE OutboxInv'
    <2> DEFINE row == [status |-> "local", payload |-> "pending", deleted |-> FALSE]
    <2>1. row \in Records /\ row.payload # "none" /\ rec[m].payload # "sealed"
        BY <1>7 DEF Records, Compose, NoRecord
    <2>2. /\ rec' = [rec EXCEPT ![m] = row] /\ \A n \in Msg \ {m} : task'[n] = task[n]
          /\ UNCHANGED <<receipt, flush, naked, mounted, timer, current, shouldReconnect>>
        BY <1>7 DEF Compose, linkVars
    <2> HIDE DEF row
    <2>3. QED
        BY <1>6, <2>1, <2>2
<1>8. ASSUME NEW m \in Msg, Retry(m) PROVE OutboxInv'
    <2> DEFINE row == [rec[m] EXCEPT !.status = "queued"]
    <2>1. rec[m] \in Records /\ rec[m].payload # "none"
        BY <1>t, <1>8 DEF Recorded, Retry, NoRecord
    <2>2. row \in Records /\ row.payload = rec[m].payload
        BY <2>1 DEF Records
    <2>3. /\ rec' = [rec EXCEPT ![m] = row] /\ \A n \in Msg \ {m} : task'[n] = task[n]
          /\ UNCHANGED <<receipt, flush, naked, mounted, timer, current, shouldReconnect>>
        BY <1>8 DEF Retry, linkVars
    <2> HIDE DEF row
    <2>4. QED
        BY <1>6, <2>1, <2>2, <2>3
<1>9. ASSUME NEW m \in Msg, FailEncrypt(m) PROVE OutboxInv'
    <2> DEFINE row == [rec[m] EXCEPT !.status = IF task[m].by = "retry" THEN "failed" ELSE @]
    <2>1. rec[m] \in Records /\ rec[m].payload = "pending"
        BY <1>t, <1>9 DEF Recorded, FailEncrypt
    <2>2. row \in Records /\ row.payload = "pending"
        BY <2>1 DEF Records
    <2>3. /\ rec' = [rec EXCEPT ![m] = row] /\ \A n \in Msg \ {m} : task'[n] = task[n]
          /\ UNCHANGED <<receipt, flush, naked, mounted, timer, current, shouldReconnect>>
        BY <1>9 DEF FailEncrypt, linkVars
    <2> HIDE DEF row
    <2>4. QED
        BY <1>6, <2>1, <2>2, <2>3
<1>10. ASSUME NEW m \in Msg, Encrypted(m) PROVE OutboxInv'
    <2> DEFINE row == IF task[m].by = "retry" THEN [rec[m] EXCEPT !.payload = "sealed"] ELSE rec[m]
    <2>1. rec[m] \in Records /\ rec[m].payload # "none"
        BY <1>t, <1>10 DEF Recorded, Encrypted, NoTask, NoRecord
    <2>2. row \in Records /\ row.payload # "none" /\ (rec[m].payload = "sealed" => row.payload = "sealed")
        BY <2>1 DEF Records
    <2>3. rec' = [rec EXCEPT ![m] = row]
        <3>1. CASE task[m].by = "retry"
            <4>1. rec' = [rec EXCEPT ![m].payload = "sealed"]
                BY <1>10, <3>1 DEF Encrypted
            <4>2. QED
                BY <4>1, <3>1
        <3>2. CASE task[m].by # "retry"
            <4>1. rec' = rec /\ row = rec[m]
                BY <1>10, <3>2 DEF Encrypted
            <4>2. QED
                BY <1>t, <4>1 DEF Recorded
        <3>3. QED
            BY <3>1, <3>2
    <2>4. /\ \A n \in Msg \ {m} : task'[n] = task[n]
          /\ UNCHANGED <<receipt, flush, naked, mounted, timer, current, shouldReconnect>>
        BY <1>10 DEF Encrypted, Transmit, linkVars
    <2> HIDE DEF row
    <2>5. QED
        BY <1>6, <2>2, <2>3, <2>4
<1>11. ASSUME NEW m \in Msg, Save(m) PROVE OutboxInv'
    <2> DEFINE row == [status |-> IF task[m].sent THEN "sent" ELSE "queued", payload |-> "sealed",
                       deleted |-> task[m].by = "retry" /\ rec[m].deleted]
    <2>1. row \in Records /\ row.payload = "sealed"
        BY DEF Records
    <2>2. /\ rec' = [rec EXCEPT ![m] = row] /\ \A n \in Msg \ {m} : task'[n] = task[n]
          /\ UNCHANGED <<receipt, flush, naked, mounted, timer, current, shouldReconnect>>
        BY <1>11 DEF Save, linkVars
    <2> HIDE DEF row
    <2>3. QED
        BY <1>6, <2>1, <2>2
<1>12. ASSUME NEW m \in Msg, FlushOne(m) PROVE OutboxInv'
    <2>1. rec[m].payload = "sealed" /\ rec[m] # NoRecord
        BY <1>t, <1>12 DEF FlushOne, SealedInFlush, NoRecord
    <2>2. naked' = naked /\ UNCHANGED <<rec, task, receipt, mounted, timer, current, shouldReconnect>>
        BY <1>12, <2>1 DEF FlushOne, Transmit, linkVars
    <2>3. flush'.todo \subseteq flush.todo /\ flush'.save \subseteq flush.save \cup {m}
        <3>1. CASE status = "connected" /\ CanSend
            BY <1>12, <3>1 DEF FlushOne
        <3>2. CASE ~(status = "connected" /\ CanSend)
            <4>1. flush' = [flush EXCEPT !.todo = flush.todo \ {m}] \/ flush' = [flush EXCEPT !.todo = {}]
                BY <1>12, <3>2 DEF FlushOne
            <4>2. CASE flush' = [flush EXCEPT !.todo = flush.todo \ {m}]
                BY <4>2
            <4>3. CASE flush' = [flush EXCEPT !.todo = {}]
                BY <4>3
            <4>4. QED
                BY <4>1, <4>2, <4>3
        <3>3. QED
            BY <3>1, <3>2
    <2>4. Recorded' /\ SealedInFlush' /\ OnlySealedIsSent'
        BY <1>t, <2>1, <2>2, <2>3 DEF Recorded, SealedInFlush, OnlySealedIsSent
    <2>5. QED
        BY <1>1, <2>2, <2>4 DEF OutboxInv
<1>13. ASSUME NEW m \in Msg, FlushSave(m) PROVE OutboxInv'
    <2> DEFINE row == [rec[m] EXCEPT !.status = "sent"]
    <2>1. rec[m] \in Records /\ rec[m].payload # "none"
        BY <1>t, <1>13 DEF Recorded, FlushSave
    <2>2. row \in Records /\ row.payload = rec[m].payload
        BY <2>1 DEF Records
    <2>3. /\ rec' = [rec EXCEPT ![m] = row] /\ flush'.todo = flush.todo /\ flush'.save \subseteq flush.save
          /\ UNCHANGED <<receipt, task, naked, mounted, timer, current, shouldReconnect>>
        BY <1>13 DEF FlushSave, linkVars
    <2> HIDE DEF row
    <2>4. QED
        BY <1>6, <2>1, <2>2, <2>3
<1>14. ASSUME NEW m \in Msg, deleteMessageForEveryone(m) PROVE OutboxInv'
    <2> DEFINE row == [rec[m] EXCEPT !.deleted = TRUE, !.status = "local"]
    <2>1. rec[m] \in Records /\ rec[m].payload # "none"
        BY <1>t, <1>14 DEF Recorded, deleteMessageForEveryone
    <2>2. row \in Records /\ row.payload = rec[m].payload
        BY <2>1 DEF Records
    <2>3. /\ rec' = [rec EXCEPT ![m] = row]
          /\ UNCHANGED <<receipt, flush, task, naked, mounted, timer, current, shouldReconnect>>
        BY <1>14 DEF deleteMessageForEveryone, linkVars
    <2> HIDE DEF row
    <2>4. QED
        BY <1>6, <2>1, <2>2, <2>3
<1>15. ASSUME NEW m \in Msg, NEW s \in {"queued", "delivered", "read"}, Receipt(m, s) PROVE OutboxInv'
    <2>1. rec[m] # NoRecord /\ receipt' = receipt \cup {<<m, s>>}
        BY <1>15 DEF Receipt
    <2>2. UNCHANGED <<rec, task, flush, naked, mounted, timer, current, shouldReconnect>>
        BY <1>15 DEF Receipt, linkVars
    <2>3. Recorded' /\ SealedInFlush' /\ OnlySealedIsSent'
        BY <1>t, <2>1, <2>2 DEF Recorded, SealedInFlush, OnlySealedIsSent
    <2>4. QED
        BY <1>1, <2>2, <2>3 DEF OutboxInv
<1>16. ASSUME NEW m \in Msg, NEW s \in {"queued", "delivered", "read"}, SaveReceipt(m, s) PROVE OutboxInv'
    <2> DEFINE row == [rec[m] EXCEPT !.status = s]
    <2>1. rec[m] \in Records /\ rec[m].payload # "none"
        BY <1>t, <1>16 DEF Recorded, SaveReceipt
    <2>2. row \in Records /\ row.payload = rec[m].payload
        BY <2>1 DEF Records
    <2>3. /\ rec' = [rec EXCEPT ![m] = row] /\ receipt' \subseteq receipt
          /\ UNCHANGED <<flush, task, naked, mounted, timer, current, shouldReconnect>>
        BY <1>16 DEF SaveReceipt, linkVars
    <2> HIDE DEF row
    <2>4. QED
        BY <1>6, <2>1, <2>2, <2>3
<1>17. CASE UNCHANGED <<linkVars, outVars, wireVars>>
    BY <1>1, <1>2, <1>17 DEF OutboxInv, linkVars, outVars
<1>18. QED
    BY <1>3, <1>4, <1>5, <1>7, <1>8, <1>9, <1>10, <1>11, <1>12, <1>13, <1>14, <1>15, <1>16, <1>17
    DEF OutboxNext, Noticed

\* What goes on the wire is a ciphertext, however retries, flushes, receipts and lost
\* connections interleave (Dashboard.tsx:2241).
THEOREM OnlySealedIsSentHolds == OutboxSpec => []OnlySealedIsSent
<1>1. OutboxInv => OnlySealedIsSent
    BY DEF OutboxInv
<1>2. QED
    BY <1>1, OutboxInvInit, OutboxInvNext, PTL DEF OutboxSpec

\* Once the application has disconnected nothing connects again by itself, for any
\* number of sockets, failures and mounts (useSocketStore.ts:360).
THEOREM QuietAfterDisconnectHolds == OutboxSpec => []QuietAfterDisconnect
<1>1. OutboxInv => QuietAfterDisconnect
    BY DEF OutboxInv
<1>2. QED
    BY <1>1, OutboxInvInit, OutboxInvNext, PTL DEF OutboxSpec

-----------------------------------------------------------------------------
(* The recipient's database. *)

Works == {Waiting} \cup [stage : {"check"}, batch : SUBSET Msg, todo : SUBSET Msg]
                   \cup [stage : {"put"}, batch : SUBSET Msg, todo : SUBSET Msg, message : Msg]
InboxTypes ==
    /\ run \in [Run -> Works] /\ db \in [Msg -> {"absent", "shown", "deleted"}]
    /\ buffer \subseteq Msg /\ receipts \subseteq Msg /\ erased \subseteq Msg

\* A run is about to put this message.
Putting(w, m) == w.stage = "put" /\ w.message = m

\* What a run has been through is in the database, but for the one it is at.
Covered(w, d) ==
    w.stage # "none" =>
        \A m \in w.batch \ w.todo : d[m] # "absent" \/ m \in Unreadable \/ Putting(w, m)

\* A deletion that was applied found a record, and a run that would put the message back
\* was at it then.
Remembered ==
    /\ \A m \in erased : db[m] # "absent"
    /\ \A r \in Run, m \in erased : Putting(run[r], m) => m \in overlapped

InboxInv == InboxTypes /\ InboxHolds /\ Remembered /\ \A r \in Run : Covered(run[r], db)

\* It holds of an empty database.
LEMMA InboxInvInit == InboxInit => InboxInv
BY DEF InboxInit, InboxInv, InboxTypes, InboxHolds, DeletionHolds, ReceiptIsStored, Remembered,
       Covered, Putting, Works, Waiting

\* A record that is there stays there.
LEMMA RecordsStay ==
    ASSUME NEW w \in Works, NEW d \in [Msg -> {"absent", "shown", "deleted"}], NEW e,
           \A m \in Msg : d[m] # "absent" => e[m] # "absent", Covered(w, d)
    PROVE  Covered(w, e)
<1>1. w.stage # "none" => w.batch \subseteq Msg
    BY DEF Works, Waiting
<1>2. QED
    BY <1>1 DEF Covered

\* A run that moves on, or a run that is given up, and nothing else.
LEMMA RunStep ==
    ASSUME InboxInv, NEW r \in Run, NEW w \in Works, Covered(w, db), run' = [run EXCEPT ![r] = w],
           \A m \in erased : ~Putting(w, m), buffer' \subseteq Msg, receipts' \subseteq Msg,
           \A m \in receipts' : m \in receipts \/ db[m] # "absent" \/ m \in Unreadable,
           UNCHANGED <<db, erased, overlapped>>
    PROVE  InboxInv'
<1>1. run'[r] = w /\ \A s \in Run \ {r} : run'[s] = run[s]
    BY DEF InboxInv, InboxTypes
<1>2. InboxTypes'
    BY DEF InboxInv, InboxTypes
<1>3. InboxHolds'
    BY DEF InboxInv, InboxHolds, DeletionHolds, ReceiptIsStored
<1>4. Remembered'
    BY <1>1 DEF InboxInv, Remembered
<1>5. \A s \in Run : Covered(run'[s], db')
    BY <1>1 DEF InboxInv
<1>6. QED
    BY <1>2, <1>3, <1>4, <1>5 DEF InboxInv

\* Every step keeps it.
LEMMA InboxInvNext == InboxInv /\ [InboxNext]_inVars => InboxInv'
<1> SUFFICES ASSUME InboxInv, [InboxNext]_inVars PROVE InboxInv'
    OBVIOUS
<1>t. InboxTypes /\ InboxHolds /\ Remembered /\ \A r \in Run : Covered(run[r], db)
    BY DEF InboxInv
<1>1. ASSUME UNCHANGED <<run, db, receipts, erased, overlapped>>, buffer' \subseteq Msg PROVE InboxInv'
    BY <1>t, <1>1 DEF InboxInv, InboxTypes, InboxHolds, DeletionHolds, ReceiptIsStored, Remembered
<1>2. ASSUME NEW m \in Msg, Arrive(m) \/ ArriveDeletion(m) PROVE InboxInv'
    BY <1>t, <1>1, <1>2 DEF Arrive, ArriveDeletion, InboxTypes
<1>3. CASE UNCHANGED inVars
    BY <1>t, <1>1, <1>3 DEF inVars, InboxTypes
<1>4. CASE ReloadPage
    <2>1. /\ run' = [r \in Run |-> Waiting] /\ buffer' = {}
          /\ UNCHANGED <<db, receipts, erased, overlapped>>
        BY <1>4 DEF ReloadPage
    <2>2. \A r \in Run : run'[r] = Waiting
        BY <2>1
    <2>3. InboxTypes'
        BY <1>t, <2>1 DEF InboxTypes, Works
    <2>4. InboxHolds'
        BY <1>t, <2>1 DEF InboxHolds, DeletionHolds, ReceiptIsStored
    <2>5. Remembered' /\ \A r \in Run : Covered(run'[r], db')
        BY <1>t, <2>1, <2>2 DEF Remembered, Covered, Putting, Waiting
    <2>6. QED
        BY <2>3, <2>4, <2>5 DEF InboxInv
<1>5. ASSUME NEW m \in Msg, ApplyDeletion(m) PROVE InboxInv'
    <2>1. CASE db[m] = "absent"
        BY <1>t, <1>1, <1>5, <2>1 DEF ApplyDeletion, InboxTypes
    <2>2. CASE db[m] # "absent"
        <3>1. /\ db' = [db EXCEPT ![m] = "deleted"] /\ erased' = erased \cup {m}
              /\ overlapped \subseteq overlapped'
              /\ (\E r \in Run : Putting(run[r], m)) => m \in overlapped'
              /\ UNCHANGED <<run, buffer, receipts>>
            BY <1>5, <2>2 DEF ApplyDeletion, Putting
        <3>2. db'[m] = "deleted" /\ \A n \in Msg \ {m} : db'[n] = db[n]
            BY <1>t, <3>1 DEF InboxTypes
        <3>3. InboxTypes'
            BY <1>t, <3>1 DEF InboxTypes
        <3>4. InboxHolds'
            BY <1>t, <3>1, <3>2 DEF InboxTypes, InboxHolds, DeletionHolds, ReceiptIsStored
        <3>5. Remembered'
            <4>1. \A n \in erased' : db'[n] # "absent"
                BY <1>t, <3>1, <3>2 DEF InboxTypes, Remembered
            <4>2. ASSUME NEW r \in Run, NEW n \in erased', Putting(run'[r], n) PROVE n \in overlapped'
                BY <1>t, <3>1, <4>2 DEF Remembered
            <4>3. QED
                BY <4>1, <4>2 DEF Remembered
        <3>6. \A r \in Run : Covered(run'[r], db')
            <4>1. \A n \in Msg : db[n] # "absent" => db'[n] # "absent"
                BY <3>2
            <4>2. \A r \in Run : Covered(run[r], db')
                BY <1>t, <4>1, RecordsStay DEF InboxTypes
            <4>3. QED
                BY <3>1, <4>2
        <3>7. QED
            BY <3>3, <3>4, <3>5, <3>6 DEF InboxInv
    <2>3. QED
        BY <2>1, <2>2
<1>6. ASSUME NEW r \in Run, StartRun(r) PROVE InboxInv'
    <2> DEFINE w == [stage |-> "check", batch |-> buffer \ processed, todo |-> buffer \ processed]
    <2>1. w \in Works
        BY <1>t DEF InboxTypes, Works
    <2>2. Covered(w, db) /\ \A m \in erased : ~Putting(w, m)
        BY DEF Covered, Putting
    <2>3. /\ run' = [run EXCEPT ![r] = w]
          /\ UNCHANGED <<db, erased, overlapped, buffer, receipts>>
        BY <1>6 DEF StartRun
    <2> HIDE DEF w
    <2>4. QED
        BY <1>t, <2>1, <2>2, <2>3, RunStep DEF InboxTypes
<1>7. ASSUME NEW r \in Run, NEW m \in Msg, Check(r, m) PROVE InboxInv'
    <2>1. /\ run[r].stage = "check" /\ m \in run[r].todo
          /\ UNCHANGED <<db, erased, overlapped, buffer, receipts>>
          /\ run' = IF db[m] # "absent" \/ m \in Unreadable THEN Skipped(r, m) ELSE Taken(r, m)
        BY <1>7 DEF Check
    <2>2. run[r] \in [stage : {"check"}, batch : SUBSET Msg, todo : SUBSET Msg]
        BY <1>t, <2>1 DEF InboxTypes, Works, Waiting
    <2>3. Covered(run[r], db) /\ ~Putting(run[r], m)
        BY <1>t, <2>1 DEF Putting
    <2>4. CASE db[m] # "absent" \/ m \in Unreadable
        <3> DEFINE w == [run[r] EXCEPT !.todo = run[r].todo \ {m}]
        <3>1. w = [stage |-> "check", batch |-> run[r].batch, todo |-> run[r].todo \ {m}]
            BY <2>2
        <3>2. w \in Works /\ \A n \in erased : ~Putting(w, n)
            BY <2>2, <3>1 DEF Works, Putting
        <3>3. Covered(w, db)
            BY <2>1, <2>3, <2>4, <3>1 DEF Covered, Putting
        <3>4. run' = [run EXCEPT ![r] = w]
            BY <2>1, <2>4 DEF Skipped
        <3> HIDE DEF w
        <3>5. QED
            BY <1>t, <2>1, <3>2, <3>3, <3>4, RunStep DEF InboxTypes
    <2>5. CASE ~(db[m] # "absent" \/ m \in Unreadable)
        <3> DEFINE w == [stage |-> "put", batch |-> run[r].batch, todo |-> run[r].todo \ {m}, message |-> m]
        <3>1. w \in Works
            BY <2>2 DEF Works
        <3>2. Covered(w, db)
            BY <2>1, <2>3 DEF Covered, Putting
        <3>3. \A n \in erased : ~Putting(w, n)
            BY <1>t, <2>5 DEF Remembered, Putting
        <3>4. run' = [run EXCEPT ![r] = w]
            BY <2>1, <2>5 DEF Taken
        <3> HIDE DEF w
        <3>5. QED
            BY <1>t, <2>1, <3>1, <3>2, <3>3, <3>4, RunStep DEF InboxTypes
    <2>6. QED
        BY <2>4, <2>5
<1>8. ASSUME NEW r \in Run, Finish(r) PROVE InboxInv'
    <2>1. /\ run[r].stage = "check" /\ run[r].todo = {}
          /\ buffer' \subseteq buffer /\ receipts' = receipts \cup run[r].batch
          /\ run' = [run EXCEPT ![r] = Waiting] /\ UNCHANGED <<db, erased, overlapped>>
        BY <1>8 DEF Finish
    <2>2. run[r].batch \subseteq Msg
        BY <1>t, <2>1 DEF InboxTypes, Works, Waiting
    <2>3. \A m \in run[r].batch : db[m] # "absent" \/ m \in Unreadable
        BY <1>t, <2>1 DEF Covered, Putting
    <2>4. Waiting \in Works /\ Covered(Waiting, db) /\ \A m \in erased : ~Putting(Waiting, m)
        BY DEF Works, Covered, Putting, Waiting
    <2>5. QED
        BY <1>t, <2>1, <2>2, <2>3, <2>4, RunStep DEF InboxTypes
<1>9. ASSUME NEW r \in Run, Put(r) PROVE InboxInv'
    <2> DEFINE n == run[r].message
               w == [stage |-> "check", batch |-> run[r].batch, todo |-> run[r].todo]
    <2>1. /\ run[r].stage = "put" /\ db' = [db EXCEPT ![n] = "shown"]
          /\ run' = [run EXCEPT ![r] = w] /\ UNCHANGED <<buffer, receipts, erased, overlapped>>
        BY <1>9 DEF Put
    <2>2. run[r] \in [stage : {"put"}, batch : SUBSET Msg, todo : SUBSET Msg, message : Msg]
        BY <1>t, <2>1 DEF InboxTypes, Works, Waiting
    <2>3. n \in Msg /\ Putting(run[r], n) /\ w \in Works /\ w.stage = "check"
        BY <2>1, <2>2 DEF Works, Putting
    <2>4. \A m \in w.batch \ w.todo : db[m] # "absent" \/ m \in Unreadable \/ m = n
        BY <1>t, <2>1 DEF Covered, Putting
    <2> HIDE DEF n, w
    <2>5. db'[n] = "shown" /\ \A m \in Msg \ {n} : db'[m] = db[m]
        BY <1>t, <2>1, <2>3 DEF InboxTypes
    <2>6. run'[r] = w /\ \A s \in Run \ {r} : run'[s] = run[s]
        BY <1>t, <2>1 DEF InboxTypes
    <2>7. InboxTypes'
        BY <1>t, <2>1, <2>3 DEF InboxTypes
    <2>8. InboxHolds'
        BY <1>t, <2>1, <2>3, <2>5
        DEF InboxTypes, InboxHolds, DeletionHolds, ReceiptIsStored, Remembered
    <2>9. Remembered'
        BY <1>t, <2>1, <2>3, <2>5, <2>6 DEF InboxTypes, Remembered, Putting
    <2>10. Covered(w, db')
        BY <2>3, <2>4, <2>5, <1>t DEF Covered, InboxTypes, Works, Waiting
    <2>11. \A s \in Run \ {r} : Covered(run[s], db')
        BY <1>t, <2>5, RecordsStay DEF InboxTypes
    <2>12. \A s \in Run : Covered(run'[s], db')
        BY <2>6, <2>10, <2>11
    <2>13. QED
        BY <2>7, <2>8, <2>9, <2>12 DEF InboxInv
<1>10. QED
    BY <1>2, <1>3, <1>4, <1>5, <1>6, <1>7, <1>8, <1>9 DEF InboxNext

\* A deleted message stays deleted and a receipt is of a message that was stored, but for the
\* overlaps that the property names (persistIncomingMessages), however many runs overlap.
THEOREM InboxAlwaysHolds == InboxSpec => []InboxHolds
<1>1. InboxInv => InboxHolds
    BY DEF InboxInv
<1>2. QED
    BY <1>1, InboxInvInit, InboxInvNext, PTL DEF InboxSpec

-----------------------------------------------------------------------------
(* Status posts. *)

StatusTypes ==
    /\ state \in [Status -> {"none", "posted", "deleted"}]
    /\ pageOf \in [Viewer -> [asked : BOOLEAN, rows : SUBSET Status]]
    /\ served \subseteq Status /\ friends \subseteq Viewer

\* Nothing brings the row of s back.
Withdrawn(s) == s \notin served /\ <<"publish", s>> \notin asks

\* A status that is deleted is withdrawn once the request has arrived, or on its way to be.
DeletionsAsked ==
    \A s \in Status : state[s] = "deleted" /\ s \notin undone =>
        <<"delete", s>> \in asks \/ Withdrawn(s)

\* Only what was deleted was taken back, and a viewer who was told of it in time has
\* nothing left and nothing to come, or the tombstone is on its way.
TombstonesWork ==
    \A s \in Status, v \in Viewer :
        /\ <<s, v>> \in warned => state[s] = "deleted"
        /\ <<s, v>> \in warned /\ <<s, v>> \notin outrun =>
             \/ <<"tombstone", s, v>> \in letters
             \/ Withdrawn(s) /\ ~Coming(s, v) /\ <<s, v>> \notin records

StatusInv == StatusTypes /\ DeletionsAsked /\ TombstonesWork

\* It holds before anything is posted.
LEMMA StatusInvInit == StatusesInit => StatusInv
BY DEF StatusesInit, StatusInv, StatusTypes, DeletionsAsked, TombstonesWork, NoPage

\* Every step keeps the types.
LEMMA StatusTypesNext == StatusTypes /\ [StatusesNext]_statusVars => StatusTypes'
<1> SUFFICES ASSUME StatusTypes, [StatusesNext]_statusVars PROVE StatusTypes'
    OBVIOUS
<1> USE DEF StatusTypes
<1>1. ASSUME NEW s \in Status, handlePostStatus(s) \/ deleteStatus(s) PROVE StatusTypes'
    BY <1>1 DEF handlePostStatus, deleteStatus
<1>2. ASSUME NEW s \in Status, Age(s) \/ upsertStatus(s) \/ deleteFromRelay(s) PROVE StatusTypes'
    BY <1>2 DEF Age, upsertStatus, deleteFromRelay
<1>3. ASSUME NEW v \in Viewer, Unfriend(v) \/ Store(v) PROVE StatusTypes'
    <2>1. NoPage \in [asked : BOOLEAN, rows : SUBSET Status]
        BY DEF NoPage
    <2>2. QED
        BY <1>3, <2>1 DEF Unfriend, Store
<1>4. ASSUME NEW v \in Viewer, queryStatuses(v) PROVE StatusTypes'
    <2>1. listStatuses(v) \in SUBSET Status
        BY DEF listStatuses
    <2>2. QED
        BY <1>4, <2>1 DEF queryStatuses
<1>5. ASSUME NEW s \in Status, NEW v \in Viewer, ReceiveCopy(s, v) \/ ReceiveTombstone(s, v)
      PROVE  StatusTypes'
    BY <1>5 DEF ReceiveCopy, ReceiveTombstone
<1>6. CASE Miss
    BY <1>6 DEF Miss
<1>7. CASE UNCHANGED statusVars
    BY <1>7 DEF statusVars
<1>8. QED
    BY <1>1, <1>2, <1>3, <1>4, <1>5, <1>6, <1>7 DEF StatusesNext

\* Every step keeps it.
LEMMA StatusInvNext == StatusInv /\ [StatusesNext]_statusVars => StatusInv'
<1> SUFFICES ASSUME StatusInv, [StatusesNext]_statusVars PROVE StatusInv'
    OBVIOUS
<1>t. StatusTypes /\ DeletionsAsked /\ TombstonesWork /\ StatusTypes'
    BY StatusTypesNext DEF StatusInv
<1> SUFFICES DeletionsAsked' /\ TombstonesWork'
    BY <1>t DEF StatusInv
<1> USE DEF Withdrawn, Coming
<1>1. ASSUME NEW s \in Status, handlePostStatus(s) PROVE DeletionsAsked' /\ TombstonesWork'
    <2>1. state[s] = "none" /\ state'[s] = "posted" /\ \A q \in Status \ {s} : state'[q] = state[q]
        BY <1>t, <1>1 DEF handlePostStatus, StatusTypes
    <2>2. /\ asks' = asks \cup {<<"publish", s>>} /\ letters \subseteq letters'
          /\ \A q \in Status \ {s}, v \in Viewer : <<"copy", q, v>> \in letters' => <<"copy", q, v>> \in letters
          /\ UNCHANGED <<served, records, pageOf, warned, outrun, undone>>
        BY <1>1 DEF handlePostStatus
    <2>3. DeletionsAsked'
        BY <1>t, <2>1, <2>2 DEF DeletionsAsked
    <2>4. TombstonesWork'
        BY <1>t, <2>1, <2>2 DEF TombstonesWork
    <2>5. QED
        BY <2>3, <2>4
<1>2. ASSUME NEW s \in Status, deleteStatus(s) PROVE DeletionsAsked' /\ TombstonesWork'
    <2>1. state[s] = "posted" /\ state'[s] = "deleted" /\ \A q \in Status \ {s} : state'[q] = state[q]
        BY <1>t, <1>2 DEF deleteStatus, StatusTypes
    <2>2. /\ asks' = asks \cup {<<"delete", s>>} /\ letters \subseteq letters'
          /\ \A q \in Status, v \in Viewer : <<"copy", q, v>> \in letters' => <<"copy", q, v>> \in letters
          /\ \A q \in Status \ {s}, v \in Viewer : <<q, v>> \in warned' => <<q, v>> \in warned
          /\ \A v \in Viewer : <<s, v>> \in warned' => <<s, v>> \in warned \/ <<"tombstone", s, v>> \in letters'
          /\ UNCHANGED <<served, records, pageOf, outrun, undone>>
        BY <1>2 DEF deleteStatus
    <2>3. DeletionsAsked'
        BY <1>t, <2>1, <2>2 DEF DeletionsAsked
    <2>4. TombstonesWork'
        BY <1>t, <2>1, <2>2 DEF TombstonesWork
    <2>5. QED
        BY <2>3, <2>4
<1>3. ASSUME NEW s \in Status, Age(s) PROVE DeletionsAsked' /\ TombstonesWork'
    BY <1>t, <1>3 DEF Age, DeletionsAsked, TombstonesWork
<1>4. ASSUME NEW s \in Status, upsertStatus(s) PROVE DeletionsAsked' /\ TombstonesWork'
    BY <1>t, <1>4 DEF upsertStatus, DeletionsAsked, TombstonesWork
<1>5. ASSUME NEW s \in Status, deleteFromRelay(s) PROVE DeletionsAsked' /\ TombstonesWork'
    BY <1>t, <1>5 DEF deleteFromRelay, DeletionsAsked, TombstonesWork
<1>6. ASSUME NEW v \in Viewer, Unfriend(v) PROVE DeletionsAsked' /\ TombstonesWork'
    BY <1>t, <1>6 DEF Unfriend, DeletionsAsked, TombstonesWork
<1>7. ASSUME NEW v \in Viewer, queryStatuses(v) PROVE DeletionsAsked' /\ TombstonesWork'
    <2>1. /\ served' \subseteq served
          /\ \A w \in Viewer : pageOf'[w].rows \subseteq pageOf[w].rows \cup served
          /\ UNCHANGED <<state, asks, letters, records, warned, outrun, undone>>
        BY <1>t, <1>7 DEF queryStatuses, listStatuses, StatusTypes
    <2>2. QED
        BY <1>t, <2>1 DEF DeletionsAsked, TombstonesWork
<1>8. ASSUME NEW v \in Viewer, Store(v) PROVE DeletionsAsked' /\ TombstonesWork'
    <2>1. /\ \A w \in Viewer : pageOf'[w].rows \subseteq pageOf[w].rows
          /\ records' = records \cup {<<s, v>> : s \in pageOf[v].rows}
          /\ UNCHANGED <<state, served, asks, letters, warned, outrun, undone>>
        BY <1>t, <1>8 DEF Store, NoPage, StatusTypes
    <2>2. \A s \in Status, w \in Viewer : <<s, w>> \in records' => <<s, w>> \in records \/ s \in pageOf[w].rows
        BY <2>1
    <2>3. QED
        BY <1>t, <2>1, <2>2 DEF DeletionsAsked, TombstonesWork
<1>9. ASSUME NEW s \in Status, NEW v \in Viewer, ReceiveCopy(s, v)
      PROVE  DeletionsAsked' /\ TombstonesWork'
    BY <1>t, <1>9 DEF ReceiveCopy, DeletionsAsked, TombstonesWork
<1>10. ASSUME NEW s \in Status, NEW v \in Viewer, ReceiveTombstone(s, v)
       PROVE  DeletionsAsked' /\ TombstonesWork'
    BY <1>t, <1>10 DEF ReceiveTombstone, DeletionsAsked, TombstonesWork
<1>11. CASE Miss
    <2>1. ASSUME NEW s \in Status, NEW kind \in {"publish", "delete"},
                 asks' = asks \ {<<kind, s>>},
                 undone' = IF kind = "delete" THEN undone \cup {s} ELSE undone,
                 UNCHANGED <<letters, warned, state, served, records, pageOf, outrun>>
          PROVE  DeletionsAsked' /\ TombstonesWork'
        BY <1>t, <2>1 DEF DeletionsAsked, TombstonesWork
    <2>2. ASSUME NEW l \in letters, letters' = letters \ {l},
                 warned' = IF l[1] = "tombstone" THEN warned \ {<<l[2], l[3]>>} ELSE warned,
                 UNCHANGED <<asks, undone, state, served, records, pageOf, outrun>>
          PROVE  DeletionsAsked' /\ TombstonesWork'
        BY <1>t, <2>2 DEF DeletionsAsked, TombstonesWork
    <2>3. QED
        BY <1>11, <2>1, <2>2 DEF Miss
<1>12. CASE UNCHANGED statusVars
    BY <1>t, <1>12 DEF statusVars, DeletionsAsked, TombstonesWork
<1>13. QED
    BY <1>1, <1>2, <1>3, <1>4, <1>5, <1>6, <1>7, <1>8, <1>9, <1>10, <1>11, <1>12 DEF StatusesNext

\* A status its owner deleted is gone from the relay and from every viewer who was told of
\* it (lib/status-store.ts, deleteStatus), for every number of statuses and viewers, but
\* for the races that the property names.
THEOREM DeletedStatusIsGoneHolds == StatusesSpec => []DeletedStatusIsGone
<1>1. StatusInv => DeletedStatusIsGone
    BY DEF StatusInv, DeletionsAsked, TombstonesWork, Withdrawn, DeletedStatusIsGone
<1>2. QED
    BY <1>1, StatusInvInit, StatusInvNext, PTL DEF StatusesSpec

-----------------------------------------------------------------------------
(* Group keys. *)

Copies == [members : SUBSET Device, epoch : 0..MaxEpoch, key : 0..MaxEpoch, owner : Device]
Ciphers == [key : Epoch, roster : SUBSET Device, id : Nat]
Envelopes == [id : Nat, from : Device, label : Epoch, key : Epoch, roster : SUBSET Device,
              to : SUBSET Device, carried : 0..MaxEpoch]
Links == [key : Epoch, members : SUBSET Device, owner : Device, outdated : BOOLEAN]
Decisions == [epoch : 0..MaxEpoch, key : 0..MaxEpoch, members : SUBSET Device]
Judgements == [stage : {"write"}, at : Device, message : Envelopes, seen : Copies, new : Decisions]

GroupTypes ==
    /\ chat \in [Device -> Copies] /\ filed \in [Device -> [Epoch -> 0..MaxEpoch]]
    /\ unsent \in [Device -> SUBSET Ciphers] /\ arrived \in [Device -> SUBSET Envelopes]
    /\ worker \in [Worker -> Judgements \cup {Unoccupied}]
    /\ links \subseteq Links /\ sent \in Nat
    /\ kept \in [Epoch -> SUBSET Device] /\ joined \in [Epoch -> SUBSET Device]
    /\ wrote \in [Epoch -> SUBSET Device] /\ unread \subseteq Envelopes

\* A device's current key is on file under its current epoch, which is the one it was
\* minted for unless a link brought it; whoever knows another owner was misled.
Filing ==
    \A d \in Device : chat[d] # Absent =>
        /\ chat[d].epoch \in Epoch /\ chat[d].key \in Epoch
        /\ filed[d][chat[d].epoch] = chat[d].key
        /\ chat[d].epoch = chat[d].key \/ d \in joined[chat[d].key] \cup misled
        /\ chat[d].owner # Creator => d \in misled

\* The owner's own epoch is the newest, and nobody was named for a later one.
OwnerCounts ==
    /\ chat[Creator] # Absent /\ chat[Creator].owner = Creator
    /\ chat[Creator].epoch = chat[Creator].key
    /\ \A e \in Epoch : filed[Creator][e] # 0 => e <= chat[Creator].epoch
    /\ \A e \in Epoch : chat[Creator].epoch < e => kept[e] = {}
    /\ Creator \notin overtaken

\* What is remembered of keys and senders.
Past == [kept |-> kept, joined |-> joined, wrote |-> wrote, misled |-> misled, misnamed |-> misnamed]

\* What a message proves: its writer held its key, it names the epoch of that key but for
\* the exceptions, and a member list in it is that of the reset.
Posted(m, g) ==
    /\ m.from \notin m.to /\ m.from \in g.wrote[m.key]
    /\ m.label = m.key \/ m \in g.misnamed \/ m.from \in g.joined[m.key] \cup g.misled
    /\ m.roster \subseteq g.kept[m.key]
    /\ m.from = Creator => m.label = m.carried
Mailing ==
    /\ \A d \in Device : \A c \in unsent[d] : c.roster \subseteq kept[c.key]
    /\ \A d \in Device : \A m \in arrived[d] : d \in m.to /\ Posted(m, Past)

\* What a run has decided agrees with the record it saw.
Judged(j, now, g) ==
    /\ j.at \in j.message.to /\ Posted(j.message, g)
    /\ j.seen = Absent => j.at # Creator /\ j.message.carried # 0 /\ j.new # Nothing
    /\ j.seen # Absent =>
        /\ now[j.at] # Absent
        /\ j.seen.owner # Creator => j.at \in g.misled
        /\ j.at = Creator => j.seen.owner = Creator
        /\ \/ j.new = Nothing
           \/ /\ j.new.key = 0 /\ j.message.key = j.seen.key
              /\ j.new.members = j.seen.members \cup {j.message.from}
           \/ /\ j.new.key = j.message.key /\ j.new.key = j.message.carried
              /\ j.new.epoch = j.message.label /\ j.message.from = j.seen.owner
              /\ j.new.members \in {{}, j.message.roster \cup {j.message.from, j.at}}
Judging == \A w \in Worker : worker[w] # Unoccupied => Judged(worker[w], chat, Past)

\* Whom the owner kept for a key, and who joined with a link that carried it.
Entitled(k, g) == g.kept[k] \cup g.joined[k]
EntitledPost(m, g) ==
    m.carried # 0 =>
        /\ m.from \in Entitled(m.carried, g)
        /\ m.from = Creator => m.to \subseteq Entitled(m.carried, g)

\* Keys are where they belong: on file, in use, in links and in the mail.
EntitledMail ==
    /\ \A k \in Epoch : wrote[k] \subseteq Entitled(k, Past)
    /\ \A d \in Device : \A c \in unsent[d] : d \in Entitled(c.key, Past)
    /\ \A d \in Device : \A m \in arrived[d] : EntitledPost(m, Past)
    /\ \A w \in Worker : worker[w] # Unoccupied => EntitledPost(worker[w].message, Past)
EntitledHolders ==
    /\ \A d \in Device : \A e \in Epoch : filed[d][e] # 0 => d \in Entitled(filed[d][e], Past)
    /\ \A d \in Device : chat[d] # Absent /\ d \notin overtaken =>
          chat[d].members \subseteq {d} \cup Entitled(chat[d].key, Past)
    /\ \A l \in links : ~l.outdated => l.members \subseteq Entitled(l.key, Past)

GroupInv ==
    /\ GroupTypes /\ Filing /\ OwnerCounts /\ Mailing /\ Judging /\ HoldersRead
    /\ misled \cup crossed = {} => EntitledMail /\ EntitledHolders

\* Nobody is un-misled, no name is taken off a list of those a key was given to.
Spread(g, h) ==
    /\ \A k \in Epoch : g.kept[k] \subseteq h.kept[k] /\ g.joined[k] \subseteq h.joined[k]
    /\ g.misled \subseteq h.misled
Grown(g, h) ==
    /\ Spread(g, h) /\ g.misnamed \subseteq h.misnamed
    /\ \A k \in Epoch : g.wrote[k] \subseteq h.wrote[k]

\* What a message proves, it goes on proving.
LEMMA StaysPosted ==
    ASSUME NEW g, NEW h, Grown(g, h), NEW m \in Envelopes
    PROVE  (Posted(m, g) => Posted(m, h)) /\ (EntitledPost(m, g) => EntitledPost(m, h))
<1>1. m.key \in Epoch /\ (m.carried # 0 => m.carried \in Epoch)
    BY GroupAssumption DEF Envelopes, Epoch
<1>2. Posted(m, g) => Posted(m, h)
    BY <1>1 DEF Grown, Spread, Posted
<1>3. EntitledPost(m, g) => EntitledPost(m, h)
    BY <1>1 DEF Grown, Spread, EntitledPost, Entitled
<1>4. QED
    BY <1>2, <1>3

\* A device posts a ciphertext of its own under the copy c of its record, or keeps it.
LEMMA MailStep ==
    ASSUME GroupTypes, NEW d \in Device, NEW c \in Copies, c.epoch \in Epoch, c.key \in Epoch,
           NEW cipher \in Ciphers, NEW carries \in BOOLEAN,
           Post(d, c, cipher, carries) \/ UNCHANGED <<arrived, wrote, misnamed>>,
           NEW mine \in SUBSET (unsent[d] \cup {cipher}), unsent' = [unsent EXCEPT ![d] = mine],
           Spread(Past, Past'), cipher.roster \subseteq kept'[cipher.key],
           c.epoch = c.key \/ d \in joined'[c.key] \cup misled',
           d = Creator => c.epoch = c.key /\ carries, Mailing
    PROVE  /\ Grown(Past, Past') /\ Mailing'
           /\ arrived' \in [Device -> SUBSET Envelopes] /\ wrote' \in [Epoch -> SUBSET Device]
           /\ /\ EntitledMail /\ worker' = worker
              /\ d \in Entitled(c.key, Past') \cap Entitled(cipher.key, Past')
              /\ d = Creator => c.members \subseteq {d} \cup Entitled(c.key, Past')
              => EntitledMail'
<1> DEFINE g == Past
           h == Past'
<1>p. /\ g.kept = kept /\ g.joined = joined /\ g.wrote = wrote /\ g.misled = misled /\ g.misnamed = misnamed
      /\ h.kept = kept' /\ h.joined = joined' /\ h.wrote = wrote' /\ h.misled = misled'
      /\ h.misnamed = misnamed'
    BY DEF Past
<1>0. cipher.key \in Epoch
    BY DEF Ciphers
<1>m. \A x \in Device : \A e \in unsent'[x] : e.key \in Epoch /\ (e \in unsent[x] \/ (e = cipher /\ x = d))
    <2>1. unsent'[d] = mine /\ \A x \in Device \ {d} : unsent'[x] = unsent[x]
        BY DEF GroupTypes
    <2>2. \A x \in Device : \A e \in unsent[x] : e.key \in Epoch
        BY DEF GroupTypes, Ciphers
    <2>3. \A e \in mine : e.key \in Epoch /\ (e \in unsent[d] \/ e = cipher)
        BY <1>0, <2>2
    <2>4. ASSUME NEW x \in Device, NEW e \in unsent'[x]
          PROVE  e.key \in Epoch /\ (e \in unsent[x] \/ (e = cipher /\ x = d))
        <3>1. CASE x = d
            BY <2>1, <2>3, <3>1
        <3>2. CASE x # d
            BY <2>1, <2>2, <3>2
        <3>3. QED
            BY <3>1, <3>2
    <2>5. QED
        BY <2>4
<1>1. \E new \in SUBSET Envelopes :
         /\ \A x \in Device : arrived'[x] \subseteq arrived[x] \cup {n \in new : x \in n.to}
         /\ \A n \in new :
              /\ n.from = d /\ n.to = c.members \ {d} /\ n.label = c.epoch
              /\ n.key = cipher.key /\ n.roster = cipher.roster
              /\ n.carried = IF carries THEN c.key ELSE 0
              /\ n.key = c.key \/ n \in misnamed'
              /\ d \in wrote'[n.key]
         /\ arrived' \in [Device -> SUBSET Envelopes] /\ wrote' \in [Epoch -> SUBSET Device]
         /\ \A k \in Epoch : wrote[k] \subseteq wrote'[k]
         /\ \A k \in Epoch : wrote'[k] \subseteq wrote[k] \cup {x \in {d} : k = cipher.key}
         /\ misnamed \subseteq misnamed'
    <2>1. CASE UNCHANGED <<arrived, wrote, misnamed>>
        <3>1. WITNESS {} \in SUBSET Envelopes
        <3>2. QED
            BY <2>1 DEF GroupTypes
    <2>2. CASE Post(d, c, cipher, carries)
        <3> DEFINE m == Envelope(d, c, cipher, carries)
        <3>1. /\ m \in Envelopes /\ m.from = d /\ m.to = c.members \ {d} /\ m.label = c.epoch
              /\ m.key = cipher.key /\ m.roster = cipher.roster
              /\ m.carried = IF carries THEN c.key ELSE 0
            BY GroupAssumption DEF Envelope, Envelopes, Copies, Ciphers
        <3>2. /\ arrived' = [x \in Device |-> IF x \in m.to THEN arrived[x] \cup {m} ELSE arrived[x]]
              /\ wrote' = [wrote EXCEPT ![m.key] = wrote[m.key] \cup {d}]
              /\ misnamed' = IF cipher.key = c.key THEN misnamed ELSE misnamed \cup {m}
            BY <2>2 DEF Post
        <3> HIDE DEF m
        <3>3. /\ \A x \in Device : arrived'[x] = IF x \in m.to THEN arrived[x] \cup {m} ELSE arrived[x]
              /\ arrived' \in [Device -> SUBSET Envelopes]
            BY <3>1, <3>2 DEF GroupTypes
        <3>4. /\ wrote' \in [Epoch -> SUBSET Device] /\ wrote'[m.key] = wrote[m.key] \cup {d}
              /\ \A k \in Epoch \ {m.key} : wrote'[k] = wrote[k]
            BY <1>0, <3>1, <3>2 DEF GroupTypes
        <3>5. misnamed \subseteq misnamed' /\ (m.key = c.key \/ m \in misnamed')
            BY <3>1, <3>2
        <3>6. {m} \in SUBSET Envelopes
            BY <3>1
        <3> WITNESS {m} \in SUBSET Envelopes
        <3>7. QED
            BY <1>0, <3>1, <3>3, <3>4, <3>5
    <2>3. QED
        BY <2>1, <2>2
<1>2. PICK new \in SUBSET Envelopes :
         /\ \A x \in Device : arrived'[x] \subseteq arrived[x] \cup {n \in new : x \in n.to}
         /\ \A n \in new :
              /\ n.from = d /\ n.to = c.members \ {d} /\ n.label = c.epoch
              /\ n.key = cipher.key /\ n.roster = cipher.roster
              /\ n.carried = IF carries THEN c.key ELSE 0
              /\ n.key = c.key \/ n \in misnamed'
              /\ d \in wrote'[n.key]
         /\ arrived' \in [Device -> SUBSET Envelopes] /\ wrote' \in [Epoch -> SUBSET Device]
         /\ \A k \in Epoch : wrote[k] \subseteq wrote'[k]
         /\ \A k \in Epoch : wrote'[k] \subseteq wrote[k] \cup {x \in {d} : k = cipher.key}
         /\ misnamed \subseteq misnamed'
    BY <1>1
<1>e. \A x \in Device : arrived[x] \subseteq Envelopes
    BY DEF GroupTypes
<1>3. Grown(g, h)
    BY <1>p, <1>2 DEF Grown
<1> HIDE DEF g, h
<1>4. \A n \in new : Posted(n, h)
    BY <1>p, <1>0, <1>2 DEF Posted
<1>5. \A x \in Device : \A n \in arrived[x] : x \in n.to /\ Posted(n, g)
    BY DEF Mailing, g
<1>6. \A x \in Device : \A n \in arrived'[x] : x \in n.to /\ Posted(n, h)
    BY <1>2, <1>3, <1>4, <1>5, <1>e, StaysPosted
<1>7. \A x \in Device : \A e \in unsent'[x] : e.roster \subseteq kept'[e.key]
    BY <1>m, <1>p, <1>3 DEF Mailing, Grown, Spread
<1>8. Mailing'
    BY <1>6, <1>7 DEF Mailing, h
<1>9. ASSUME EntitledMail, worker' = worker,
             d \in Entitled(c.key, h) \cap Entitled(cipher.key, h),
             d = Creator => c.members \subseteq {d} \cup Entitled(c.key, h)
      PROVE  EntitledMail'
    <2>0. /\ \A k \in Epoch : wrote[k] \subseteq Entitled(k, g)
          /\ \A x \in Device : \A e \in unsent[x] : x \in Entitled(e.key, g)
          /\ \A x \in Device : \A n \in arrived[x] : EntitledPost(n, g)
          /\ \A w \in Worker : worker[w] # Unoccupied => EntitledPost(worker[w].message, g)
        BY <1>9 DEF EntitledMail, g
    <2>e. \A k \in Epoch : Entitled(k, g) \subseteq Entitled(k, h)
        BY <1>3 DEF Grown, Spread, Entitled
    <2>1. \A n \in new : EntitledPost(n, h)
        BY <1>2, <1>9 DEF EntitledPost
    <2>2. \A x \in Device : \A n \in arrived'[x] : EntitledPost(n, h)
        BY <1>2, <1>3, <1>e, <2>0, <2>1, StaysPosted
    <2>3. \A w \in Worker : worker[w] # Unoccupied => worker[w].message \in Envelopes
        BY DEF GroupTypes, Judgements
    <2>4. \A w \in Worker : worker'[w] # Unoccupied => EntitledPost(worker'[w].message, h)
        BY <1>3, <1>9, <2>0, <2>3, StaysPosted
    <2>5. \A k \in Epoch : wrote'[k] \subseteq Entitled(k, h)
        BY <1>2, <1>9, <2>0, <2>e
    <2>6. \A x \in Device : \A e \in unsent'[x] : x \in Entitled(e.key, h)
        BY <1>m, <1>9, <2>0, <2>e
    <2>7. QED
        BY <2>2, <2>4, <2>5, <2>6 DEF EntitledMail, h
<1>10. QED
    BY <1>2, <1>3, <1>8, <1>9 DEF g, h

\* The same for a message that is sealed now.
LEMMA SealStep ==
    ASSUME GroupTypes, NEW d \in Device, NEW c \in Copies, c.epoch \in Epoch, c.key \in Epoch,
           NEW roster \in SUBSET Device, NEW carries \in BOOLEAN, PostOrKeep(d, c, roster, carries),
           Spread(Past, Past'), roster \subseteq kept'[c.key],
           c.epoch = c.key \/ d \in joined'[c.key] \cup misled',
           d = Creator => c.epoch = c.key /\ carries, Mailing
    PROVE  /\ Grown(Past, Past') /\ Mailing' /\ unsent' \in [Device -> SUBSET Ciphers]
           /\ arrived' \in [Device -> SUBSET Envelopes] /\ wrote' \in [Epoch -> SUBSET Device]
           /\ /\ EntitledMail /\ worker' = worker /\ d \in Entitled(c.key, Past')
              /\ d = Creator => c.members \subseteq {d} \cup Entitled(c.key, Past')
              => EntitledMail'
<1> DEFINE cipher == Sealed(c, roster)
<1>1. cipher \in Ciphers /\ cipher.key = c.key /\ cipher.roster = roster
    BY DEF Sealed, Ciphers, GroupTypes
<1>2. Post(d, c, cipher, carries) \/ UNCHANGED <<arrived, wrote, misnamed>>
    BY DEF PostOrKeep
<1>3. unsent' = [unsent EXCEPT ![d] = unsent[d]] \/ unsent' = [unsent EXCEPT ![d] = unsent[d] \cup {cipher}]
    BY DEF PostOrKeep, GroupTypes
<1>4. PICK mine \in SUBSET (unsent[d] \cup {cipher}) : unsent' = [unsent EXCEPT ![d] = mine]
    BY <1>3
<1> HIDE DEF cipher
<1>5. unsent' \in [Device -> SUBSET Ciphers]
    BY <1>1, <1>4 DEF GroupTypes
<1>6. /\ Grown(Past, Past') /\ Mailing'
      /\ arrived' \in [Device -> SUBSET Envelopes] /\ wrote' \in [Epoch -> SUBSET Device]
      /\ /\ EntitledMail /\ worker' = worker
         /\ d \in Entitled(c.key, Past') \cap Entitled(cipher.key, Past')
         /\ d = Creator => c.members \subseteq {d} \cup Entitled(c.key, Past')
         => EntitledMail'
    <2>1. cipher \in Ciphers /\ cipher.roster \subseteq kept'[cipher.key]
        BY <1>1
    <2>2. QED
        BY <1>2, <1>4, <2>1, MailStep
<1>7. Entitled(c.key, Past') \cap Entitled(cipher.key, Past') = Entitled(c.key, Past')
    BY <1>1
<1>8. QED
    BY <1>5, <1>6, <1>7

\* What was read stays read, and what runs have decided stays sound, as records stay.
LEMMA JudgementsStay ==
    ASSUME GroupTypes, Grown(Past, Past'), HoldersRead, Judging, unread' = unread,
           \A v \in Worker : worker'[v] \in {worker[v], Unoccupied},
           NEW d \in Device, chat'[d] # Absent, \A x \in Device \ {d} : chat'[x] = chat[x]
    PROVE  HoldersRead' /\ Judging'
<1>1. \A x \in Device : chat[x] # Absent => chat'[x] # Absent
    OBVIOUS
<1>2. HoldersRead'
    <2>1. \A m \in unread : m.key \in Epoch
        BY DEF GroupTypes, Envelopes
    <2>2. QED
        BY <2>1 DEF HoldersRead, Grown, Spread, Past
<1>3. ASSUME NEW j \in Judgements, Judged(j, chat, Past) PROVE Judged(j, chat', Past')
    <2>1. j.at \in Device /\ j.message \in Envelopes
        BY DEF Judgements
    <2>2. Posted(j.message, Past')
        BY <1>3, <2>1, StaysPosted DEF Judged
    <2>3. j.at \in Past.misled => j.at \in Past'.misled
        BY DEF Grown, Spread
    <2>4. QED
        BY <1>1, <1>3, <2>1, <2>2, <2>3 DEF Judged
<1>4. \A w \in Worker : worker[w] # Unoccupied => worker[w] \in Judgements
    BY DEF GroupTypes
<1>5. Judging'
    BY <1>3, <1>4 DEF Judging
<1>6. QED
    BY <1>2, <1>5

\* A device's record of the group is written, with what it has on file.
LEMMA RecordWritten ==
    ASSUME GroupTypes, Filing, Spread(Past, Past'), NEW d \in Device, NEW c \in Copies,
           NEW f \in [Epoch -> 0..MaxEpoch], c.epoch \in Epoch, c.key \in Epoch,
           chat' = [chat EXCEPT ![d] = c], filed' = [filed EXCEPT ![d] = f],
           f[c.epoch] = c.key, c.epoch = c.key \/ d \in joined'[c.key] \cup misled',
           c.owner # Creator => d \in misled'
    PROVE  /\ Filing' /\ chat' \in [Device -> Copies] /\ filed' \in [Device -> [Epoch -> 0..MaxEpoch]]
           /\ chat'[d] = c /\ filed'[d] = f
           /\ \A x \in Device \ {d} : chat'[x] = chat[x] /\ filed'[x] = filed[x]
           /\ /\ EntitledHolders /\ links' = links /\ overtaken \subseteq overtaken'
              /\ \A e \in Epoch : f[e] # 0 => d \in Entitled(f[e], Past')
              /\ d \notin overtaken' => c.members \subseteq {d} \cup Entitled(c.key, Past')
              => EntitledHolders'
<1>1. /\ chat' \in [Device -> Copies] /\ filed' \in [Device -> [Epoch -> 0..MaxEpoch]]
      /\ chat'[d] = c /\ filed'[d] = f
      /\ \A x \in Device \ {d} : chat'[x] = chat[x] /\ filed'[x] = filed[x]
    BY DEF GroupTypes
<1>2. /\ \A k \in Epoch : kept[k] \subseteq kept'[k] /\ joined[k] \subseteq joined'[k]
      /\ misled \subseteq misled'
    BY DEF Spread, Past
<1>3. Filing'
    BY <1>1, <1>2 DEF Filing
<1>4. ASSUME EntitledHolders, links' = links, overtaken \subseteq overtaken',
             \A e \in Epoch : f[e] # 0 => d \in Entitled(f[e], Past'),
             d \notin overtaken' => c.members \subseteq {d} \cup Entitled(c.key, Past')
      PROVE  EntitledHolders'
    <2> DEFINE g == Past
               h == Past'
    <2>1. \A k \in Epoch : Entitled(k, g) \subseteq Entitled(k, h)
        BY DEF Spread, Entitled
    <2>2. /\ \A x \in Device : \A e \in Epoch : filed[x][e] # 0 => x \in Entitled(filed[x][e], g)
          /\ \A x \in Device : chat[x] # Absent /\ x \notin overtaken =>
                chat[x].members \subseteq {x} \cup Entitled(chat[x].key, g)
          /\ \A l \in links : ~l.outdated => l.members \subseteq Entitled(l.key, g)
        BY <1>4 DEF EntitledHolders
    <2>3. /\ \A e \in Epoch : f[e] # 0 => d \in Entitled(f[e], h)
          /\ d \notin overtaken' => c.members \subseteq {d} \cup Entitled(c.key, h)
        BY <1>4
    <2> HIDE DEF g, h
    <2>4. \A l \in links : l.key \in Epoch
        BY DEF GroupTypes, Links
    <2>5. \A x \in Device : chat[x] # Absent => chat[x].key \in Epoch
        BY DEF Filing
    <2>6. \A x \in Device : \A e \in Epoch : filed[x][e] # 0 => filed[x][e] \in Epoch
        <3>1. \A x \in Device : \A e \in Epoch : filed[x][e] \in 0..MaxEpoch
            BY DEF GroupTypes
        <3>2. QED
            BY <3>1, GroupAssumption DEF Epoch
    <2>7. \A x \in Device : \A e \in Epoch : filed'[x][e] # 0 => x \in Entitled(filed'[x][e], h)
        BY <1>1, <2>1, <2>2, <2>3, <2>6
    <2>8. \A x \in Device : chat'[x] # Absent /\ x \notin overtaken' =>
                chat'[x].members \subseteq {x} \cup Entitled(chat'[x].key, h)
        BY <1>1, <1>4, <2>1, <2>2, <2>3, <2>5
    <2>9. \A l \in links' : ~l.outdated => l.members \subseteq Entitled(l.key, h)
        BY <1>4, <2>1, <2>2, <2>4
    <2>10. QED
        BY <2>7, <2>8, <2>9 DEF EntitledHolders, h
<1>5. QED
    BY <1>1, <1>3, <1>4

\* It holds when the group is made, whomever the first message has reached.
LEMMA GroupInvInit == GroupInit => GroupInv
<1> SUFFICES ASSUME GroupInit PROVE GroupInv
    OBVIOUS
<1>1. PICK invited \in SUBSET (Device \ {Creator}) : \E reached \in SUBSET invited :
        /\ chat = [d \in Device |->
             IF d \in reached \cup {Creator}
             THEN [members |-> {Creator} \cup invited, epoch |-> 1, key |-> 1, owner |-> Creator]
             ELSE Absent]
        /\ kept = [k \in Epoch |-> IF k = 1 THEN {Creator} \cup invited ELSE {}]
    BY DEF GroupInit
<1> DEFINE first == [members |-> {Creator} \cup invited, epoch |-> 1, key |-> 1, owner |-> Creator]
<1>2. 1 \in Epoch /\ Creator \in Device /\ first \in Copies /\ Absent \in Copies /\ first # Absent
    BY GroupAssumption DEF Epoch, Copies, Absent
<1>3. PICK reached \in SUBSET invited :
         /\ chat = [d \in Device |-> IF d \in reached \cup {Creator} THEN first ELSE Absent]
         /\ \A d \in Device : chat[d] = IF d \in reached \cup {Creator} THEN first ELSE Absent
    BY <1>1
<1>4. \A k \in Epoch : kept[k] = IF k = 1 THEN {Creator} \cup invited ELSE {}
    BY <1>1
<1>5. /\ filed = [d \in Device |-> [e \in Epoch |-> IF e = 1 THEN chat[d].key ELSE 0]]
      /\ unsent = [d \in Device |-> {}] /\ arrived = [d \in Device |-> {}]
      /\ worker = [w \in Worker |-> Unoccupied]
      /\ sent = 0 /\ links = {} /\ unread = {} /\ overtaken = {}
      /\ joined = [k \in Epoch |-> {}] /\ wrote = [k \in Epoch |-> {}]
    BY DEF GroupInit
<1>6. /\ first.members = {Creator} \cup invited /\ first.epoch = 1 /\ first.key = 1
      /\ first.owner = Creator /\ Absent.key = 0
    BY DEF Absent
<1>7. \A d \in Device : \A e \in Epoch :
         filed[d][e] = IF e = 1 /\ d \in reached \cup {Creator} THEN 1 ELSE 0
    BY <1>3, <1>5, <1>6
<1>8. GroupTypes
    <2>1. chat \in [Device -> Copies] /\ kept \in [Epoch -> SUBSET Device]
        BY <1>1, <1>2, <1>3
    <2>2. filed \in [Device -> [Epoch -> 0..MaxEpoch]]
        <3>1. \A d \in Device : chat[d].key \in 0..MaxEpoch
            BY <2>1 DEF Copies
        <3>2. QED
            BY <1>5, <3>1, GroupAssumption
    <2>3. QED
        BY <1>5, <2>1, <2>2 DEF GroupTypes
<1> HIDE DEF first
<1>9. Filing
    BY <1>2, <1>3, <1>6, <1>7 DEF Filing
<1>10. OwnerCounts
    BY <1>2, <1>3, <1>4, <1>5, <1>6, <1>7, GroupAssumption DEF OwnerCounts, Epoch
<1>11. Mailing /\ Judging /\ HoldersRead
    BY <1>5 DEF Mailing, Judging, HoldersRead
<1>12. EntitledMail
    BY <1>5 DEF EntitledMail
<1>13. EntitledHolders
    BY <1>2, <1>3, <1>4, <1>5, <1>6, <1>7 DEF EntitledHolders, Entitled, Past
<1>14. QED
    BY <1>8, <1>9, <1>10, <1>11, <1>12, <1>13 DEF GroupInv

\* A member writes, or sends what was kept: nobody's record changes.
LEMMA WritesKeepInv ==
    ASSUME GroupInv, NEW d \in Device, SendMessage(d) \/ FlushUnsent(d)
    PROVE  GroupInv'
<1>t. GroupTypes /\ Filing /\ OwnerCounts /\ Mailing /\ Judging /\ HoldersRead
    BY DEF GroupInv
<1> DEFINE c == chat[d]
<1>1. c # Absent /\ UNCHANGED <<chat, filed, worker, links, kept, joined, crossed, misled, overtaken, unread>>
    BY DEF SendMessage, FlushUnsent
<1>2. c \in Copies /\ c.epoch \in Epoch /\ c.key \in Epoch
    BY <1>t, <1>1 DEF GroupTypes, Filing
<1>3. Spread(Past, Past')
    BY <1>1 DEF Spread, Past
<1>4. /\ c.epoch = c.key \/ d \in joined'[c.key] \cup misled'
      /\ d = Creator => c.epoch = c.key
    BY <1>t, <1>1 DEF Filing, OwnerCounts
<1>5. EntitledHolders => /\ d \in Entitled(c.key, Past')
                         /\ d = Creator => c.members \subseteq {d} \cup Entitled(c.key, Past')
    <2>1. Past'.kept = Past.kept /\ Past'.joined = Past.joined
        BY <1>1 DEF Past
    <2>2. filed[d][c.epoch] = c.key /\ c.key # 0
        BY <1>t, <1>1, <1>2, GroupAssumption DEF Filing, Epoch
    <2>3. QED
        BY <1>t, <1>1, <1>2, <2>1, <2>2 DEF EntitledHolders, OwnerCounts, Entitled
<1>6. /\ Grown(Past, Past') /\ Mailing' /\ unsent' \in [Device -> SUBSET Ciphers] /\ sent' \in Nat
      /\ arrived' \in [Device -> SUBSET Envelopes] /\ wrote' \in [Epoch -> SUBSET Device]
      /\ EntitledMail /\ EntitledHolders => EntitledMail'
    <2>1. CASE SendMessage(d)
        <3>1. PostOrKeep(d, c, {}, TRUE) /\ sent' = sent + 1
            BY <2>1 DEF SendMessage
        <3>2. sent' \in Nat
            BY <1>t, <3>1 DEF GroupTypes
        <3> HIDE DEF c
        <3>3. QED
            BY <1>t, <1>1, <1>2, <1>3, <1>4, <1>5, <3>1, <3>2, SealStep
    <2>2. CASE FlushUnsent(d)
        <3>1. PICK e \in unsent[d] :
                 unsent' = [unsent EXCEPT ![d] = unsent[d] \ {e}] /\ Post(d, c, e, TRUE)
            BY <2>2 DEF FlushUnsent
        <3>2. sent' = sent /\ worker' = worker
            BY <2>2 DEF FlushUnsent
        <3>3. e \in Ciphers /\ e.roster \subseteq kept'[e.key]
            BY <1>t, <1>1 DEF GroupTypes, Mailing
        <3>4. unsent[d] \ {e} \in SUBSET (unsent[d] \cup {e})
            OBVIOUS
        <3>5. unsent' \in [Device -> SUBSET Ciphers] /\ sent' \in Nat
            BY <1>t, <3>1, <3>2 DEF GroupTypes
        <3>6. EntitledMail => d \in Entitled(e.key, Past')
            BY <1>1 DEF EntitledMail, Entitled, Past
        <3> DEFINE mine == unsent[d] \ {e}
        <3> HIDE DEF c, mine
        <3>7. /\ Grown(Past, Past') /\ Mailing'
              /\ arrived' \in [Device -> SUBSET Envelopes] /\ wrote' \in [Epoch -> SUBSET Device]
              /\ /\ EntitledMail /\ worker' = worker
                 /\ d \in Entitled(c.key, Past') \cap Entitled(e.key, Past')
                 /\ d = Creator => c.members \subseteq {d} \cup Entitled(c.key, Past')
                 => EntitledMail'
            <4>1. mine \in SUBSET (unsent[d] \cup {e}) /\ unsent' = [unsent EXCEPT ![d] = mine]
                BY <3>1, <3>4 DEF mine
            <4>2. e \in Ciphers /\ e.roster \subseteq kept'[e.key] /\ Post(d, c, e, TRUE)
                BY <3>1, <3>3
            <4>3. GroupTypes /\ Mailing /\ TRUE \in BOOLEAN
                BY <1>t
            <4>4. QED
                BY <1>2, <1>3, <1>4, <4>1, <4>2, <4>3, MailStep
        <3>8. QED
            BY <1>5, <3>2, <3>5, <3>6, <3>7
    <2>3. QED
        BY <2>1, <2>2
<1>7. GroupTypes'
    BY <1>t, <1>1, <1>6 DEF GroupTypes
<1>8. Filing' /\ OwnerCounts'
    BY <1>t, <1>1 DEF Filing, OwnerCounts
<1>9. HoldersRead' /\ Judging'
    <2>1. chat'[d] # Absent /\ \A x \in Device \ {d} : chat'[x] = chat[x]
        BY <1>1
    <2>2. QED
        BY <1>t, <1>1, <1>6, <2>1, JudgementsStay
<1>10. EntitledHolders => EntitledHolders'
    <2>1. Past'.kept = Past.kept /\ Past'.joined = Past.joined
        BY <1>1 DEF Past
    <2>2. QED
        BY <1>1, <2>1 DEF EntitledHolders, Entitled
<1>11. QED
    BY <1>1, <1>6, <1>7, <1>8, <1>9, <1>10 DEF GroupInv

\* The epoch of a reset is the one after the owner's newest.
LEMMA RotateDoes ==
    ASSUME GroupTypes, Filing, OwnerCounts, NEW keep \in SUBSET Device, rotateGroupKeyForChat(keep)
    PROVE  \E e \in Epoch : \E c \in Copies :
             /\ e = chat[Creator].epoch + 1
             /\ c.members = keep /\ c.epoch = e /\ c.key = e /\ c.owner = Creator
             /\ chat' = [chat EXCEPT ![Creator] = c]
             /\ filed' = [filed EXCEPT ![Creator] = [filed[Creator] EXCEPT ![e] = e]]
             /\ kept' = [kept EXCEPT ![e] = keep]
             /\ keep \subseteq chat[Creator].members /\ Creator \in keep
             /\ sent' = sent + 1 /\ PostOrKeep(Creator, c, keep, TRUE)
             /\ UNCHANGED <<worker, links, joined, crossed, misled, overtaken, unread>>
<1> DEFINE newest == CHOOSE e \in Epoch : filed[Creator][e] # 0
                                          /\ \A f \in Epoch : filed[Creator][f] # 0 => f <= e
           e == 1 + newest
           c == [members |-> keep, epoch |-> e, key |-> e, owner |-> chat[Creator].owner]
<1>1. /\ Creator \in Device /\ chat[Creator] \in Copies /\ chat[Creator].owner = Creator
      /\ chat[Creator].epoch \in Epoch /\ filed[Creator][chat[Creator].epoch] # 0
      /\ \A f \in Epoch : filed[Creator][f] # 0 => f <= chat[Creator].epoch
    BY GroupAssumption DEF GroupTypes, Filing, OwnerCounts, Epoch
<1>2. newest \in Epoch /\ filed[Creator][newest] # 0
      /\ \A f \in Epoch : filed[Creator][f] # 0 => f <= newest
    BY <1>1
<1>3. newest = chat[Creator].epoch
    <2> HIDE DEF newest
    <2>1. newest <= chat[Creator].epoch /\ chat[Creator].epoch <= newest
        BY <1>1, <1>2
    <2>2. QED
        BY <1>1, <1>2, <2>1, GroupAssumption DEF Epoch
<1>4. /\ keep \subseteq chat[Creator].members /\ Creator \in keep /\ e <= MaxEpoch
      /\ filed' = [filed EXCEPT ![Creator][e] = e] /\ chat' = [chat EXCEPT ![Creator] = c]
      /\ kept' = [kept EXCEPT ![e] = keep] /\ sent' = sent + 1
      /\ PostOrKeep(Creator, c, keep, TRUE)
      /\ UNCHANGED <<worker, links, joined, crossed, misled, overtaken, unread>>
    BY DEF rotateGroupKeyForChat
<1> HIDE DEF newest
<1>5. e \in Epoch /\ e = chat[Creator].epoch + 1
    BY <1>1, <1>3, <1>4, GroupAssumption DEF Epoch
<1> HIDE DEF e
<1>6. c \in Copies /\ c.members = keep /\ c.epoch = e /\ c.key = e /\ c.owner = Creator
    <2>1. e \in 0..MaxEpoch
        BY <1>5, GroupAssumption DEF Epoch
    <2>2. QED
        BY <1>1, <2>1 DEF Copies
<1> HIDE DEF c
<1>7. filed' = [filed EXCEPT ![Creator] = [filed[Creator] EXCEPT ![e] = e]]
    BY <1>4
<1>8. QED
    BY <1>4, <1>5, <1>6, <1>7

\* A reset: the new epoch was used by nobody, and whoever stays is kept for it.
LEMMA RotateKeepsInv ==
    ASSUME GroupInv, NEW keep \in SUBSET Device, rotateGroupKeyForChat(keep)
    PROVE  GroupInv'
<1>t. GroupTypes /\ Filing /\ OwnerCounts /\ Mailing /\ Judging /\ HoldersRead
    BY DEF GroupInv
<1>1. PICK e \in Epoch : \E c \in Copies :
             /\ e = chat[Creator].epoch + 1
             /\ c.members = keep /\ c.epoch = e /\ c.key = e /\ c.owner = Creator
             /\ chat' = [chat EXCEPT ![Creator] = c]
             /\ filed' = [filed EXCEPT ![Creator] = [filed[Creator] EXCEPT ![e] = e]]
             /\ kept' = [kept EXCEPT ![e] = keep]
             /\ keep \subseteq chat[Creator].members /\ Creator \in keep
             /\ sent' = sent + 1 /\ PostOrKeep(Creator, c, keep, TRUE)
             /\ UNCHANGED <<worker, links, joined, crossed, misled, overtaken, unread>>
    BY <1>t, RotateDoes
<1>2. PICK c \in Copies :
             /\ e = chat[Creator].epoch + 1
             /\ c.members = keep /\ c.epoch = e /\ c.key = e /\ c.owner = Creator
             /\ chat' = [chat EXCEPT ![Creator] = c]
             /\ filed' = [filed EXCEPT ![Creator] = [filed[Creator] EXCEPT ![e] = e]]
             /\ kept' = [kept EXCEPT ![e] = keep]
             /\ keep \subseteq chat[Creator].members /\ Creator \in keep
             /\ sent' = sent + 1 /\ PostOrKeep(Creator, c, keep, TRUE)
             /\ UNCHANGED <<worker, links, joined, crossed, misled, overtaken, unread>>
    BY <1>1
<1> DEFINE f == [filed[Creator] EXCEPT ![e] = e]
<1>3. /\ Creator \in Device /\ e \in 0..MaxEpoch /\ e # 0 /\ chat[Creator].epoch < e
      /\ chat[Creator].epoch \in Nat
    BY <1>t, <1>2, GroupAssumption DEF Epoch, GroupTypes, Copies
<1>4. /\ f \in [Epoch -> 0..MaxEpoch] /\ f[e] = e
      /\ \A k \in Epoch \ {e} : f[k] = filed[Creator][k]
    BY <1>t, <1>3 DEF GroupTypes
<1>5. /\ kept' \in [Epoch -> SUBSET Device] /\ kept'[e] = keep /\ kept[e] = {}
      /\ \A k \in Epoch \ {e} : kept'[k] = kept[k]
    BY <1>t, <1>2, <1>3 DEF GroupTypes, OwnerCounts
<1>6. Spread(Past, Past')
    BY <1>2, <1>5 DEF Spread, Past
<1> HIDE DEF f
<1>7. c.key = e /\ c.epoch = e /\ keep \subseteq kept'[c.key] /\ Creator \in Entitled(c.key, Past')
      /\ c.members \subseteq {Creator} \cup Entitled(c.key, Past')
    BY <1>2, <1>5 DEF Entitled, Past
<1>8. /\ Grown(Past, Past') /\ Mailing' /\ unsent' \in [Device -> SUBSET Ciphers]
      /\ arrived' \in [Device -> SUBSET Envelopes] /\ wrote' \in [Epoch -> SUBSET Device]
      /\ EntitledMail => EntitledMail'
    <2>1. PostOrKeep(Creator, c, keep, TRUE) /\ worker' = worker /\ TRUE \in BOOLEAN
        BY <1>2
    <2>2. c.epoch \in Epoch /\ c.key \in Epoch /\ c.epoch = c.key
        BY <1>7
    <2>3. /\ Grown(Past, Past') /\ Mailing' /\ unsent' \in [Device -> SUBSET Ciphers]
          /\ arrived' \in [Device -> SUBSET Envelopes] /\ wrote' \in [Epoch -> SUBSET Device]
          /\ /\ EntitledMail /\ worker' = worker /\ Creator \in Entitled(c.key, Past')
             /\ Creator = Creator => c.members \subseteq {Creator} \cup Entitled(c.key, Past')
             => EntitledMail'
        BY <1>t, <1>3, <1>6, <1>7, <2>1, <2>2, SealStep
    <2>4. QED
        BY <1>7, <2>1, <2>3
<1>9. /\ Filing' /\ chat' \in [Device -> Copies] /\ filed' \in [Device -> [Epoch -> 0..MaxEpoch]]
      /\ chat'[Creator] = c /\ filed'[Creator] = f
      /\ \A x \in Device \ {Creator} : chat'[x] = chat[x] /\ filed'[x] = filed[x]
      /\ /\ EntitledHolders /\ links' = links /\ overtaken \subseteq overtaken'
         /\ \A k \in Epoch : f[k] # 0 => Creator \in Entitled(f[k], Past')
         /\ Creator \notin overtaken' => c.members \subseteq {Creator} \cup Entitled(c.key, Past')
         => EntitledHolders'
    <2>1. filed' = [filed EXCEPT ![Creator] = f] /\ chat' = [chat EXCEPT ![Creator] = c]
        BY <1>2 DEF f
    <2>2. f[c.epoch] = c.key /\ c.epoch \in Epoch /\ c.key \in Epoch /\ c.epoch = c.key
          /\ (c.epoch = c.key \/ Creator \in joined'[c.key] \cup misled')
          /\ (c.owner # Creator => Creator \in misled')
        BY <1>2, <1>4, <1>7
    <2>3. GroupTypes /\ Filing /\ f \in [Epoch -> 0..MaxEpoch] /\ Creator \in Device
        BY <1>t, <1>3, <1>4
    <2>4. QED
        BY <1>6, <2>1, <2>2, <2>3, RecordWritten
<1>10. GroupTypes'
    <2>1. sent' \in Nat
        BY <1>t, <1>2 DEF GroupTypes
    <2>2. UNCHANGED <<worker, links, joined, unread>>
        BY <1>2
    <2>3. QED
        BY <1>t, <1>5, <1>8, <1>9, <2>1, <2>2 DEF GroupTypes
<1>11. OwnerCounts'
    <2>1. \A k \in Epoch : f[k] # 0 => k <= e
        BY <1>t, <1>3, <1>4, GroupAssumption DEF OwnerCounts, Epoch
    <2>2. \A k \in Epoch : e < k => kept'[k] = {}
        BY <1>t, <1>3, <1>5, GroupAssumption DEF OwnerCounts, Epoch
    <2>3. c # Absent /\ overtaken' = overtaken
        BY <1>2, <1>3 DEF Absent
    <2>4. QED
        BY <1>t, <1>2, <1>9, <2>1, <2>2, <2>3 DEF OwnerCounts
<1>12. HoldersRead' /\ Judging'
    <2>1. chat'[Creator] # Absent /\ \A x \in Device \ {Creator} : chat'[x] = chat[x]
        BY <1>9, <1>11 DEF OwnerCounts
    <2>2. unread' = unread /\ worker' = worker
        BY <1>2
    <2>3. QED
        BY <1>t, <1>3, <1>8, <2>1, <2>2, JudgementsStay
<1>13. EntitledHolders => EntitledHolders'
    <2>1. EntitledHolders => \A k \in Epoch : filed[Creator][k] # 0 =>
                                 Creator \in Entitled(filed[Creator][k], Past)
        BY <1>3 DEF EntitledHolders
    <2>2. \A k \in Epoch : Entitled(k, Past) \subseteq Entitled(k, Past')
        BY <1>6 DEF Spread, Entitled
    <2>3. \A k \in Epoch : filed[Creator][k] # 0 => filed[Creator][k] \in Epoch
        BY <1>t, <1>3, GroupAssumption DEF GroupTypes, Epoch
    <2>4. EntitledHolders => \A k \in Epoch : f[k] # 0 => Creator \in Entitled(f[k], Past')
        BY <1>4, <1>7, <2>1, <2>2, <2>3
    <2>5. links' = links /\ overtaken \subseteq overtaken'
        BY <1>2
    <2>6. QED
        BY <1>7, <1>9, <2>4, <2>5
<1>14. misled' = misled /\ crossed' = crossed
    BY <1>2
<1>15. QED
    BY <1>8, <1>9, <1>10, <1>11, <1>12, <1>13, <1>14 DEF GroupInv

\* A link carries what the copier holds.
LEMMA CopyKeepsInv ==
    ASSUME GroupInv, NEW d \in Device, copyGroupInvite(d)
    PROVE  GroupInv'
<1>t. GroupTypes /\ Filing /\ OwnerCounts /\ Mailing /\ Judging /\ HoldersRead
    BY DEF GroupInv
<1> DEFINE l == [key |-> chat[d].key, members |-> chat[d].members, owner |-> chat[d].owner,
                 outdated |-> d \in overtaken]
<1>1. /\ chat[d] # Absent /\ links' = links \cup {l}
      /\ UNCHANGED <<chat, filed, unsent, arrived, worker, sent, kept, joined, wrote, crossed,
                     misled, overtaken, misnamed, unread>>
    BY DEF copyGroupInvite
<1>2. chat[d] \in Copies /\ chat[d].key \in Epoch /\ filed[d][chat[d].epoch] = chat[d].key
      /\ chat[d].epoch \in Epoch
    BY <1>t, <1>1 DEF GroupTypes, Filing
<1>3. l \in Links /\ l.key = chat[d].key /\ l.members = chat[d].members
      /\ (~l.outdated => d \notin overtaken)
    <2> DEFINE o == d \in overtaken
    <2>1. o \in BOOLEAN /\ (~o => d \notin overtaken)
        OBVIOUS
    <2>2. l = [key |-> chat[d].key, members |-> chat[d].members, owner |-> chat[d].owner, outdated |-> o]
        OBVIOUS
    <2> HIDE DEF o, l
    <2>3. l \in Links /\ l.key = chat[d].key /\ l.members = chat[d].members /\ l.outdated = o
        BY <1>2, <2>1, <2>2 DEF Links, Copies
    <2>4. QED
        BY <2>1, <2>3
<1> HIDE DEF l
<1>4. GroupTypes'
    BY <1>t, <1>1, <1>3 DEF GroupTypes
<1>5. Past' = Past
    BY <1>1 DEF Past
<1>6. Filing' /\ OwnerCounts' /\ HoldersRead'
    BY <1>t, <1>1 DEF Filing, OwnerCounts, HoldersRead
<1>7. Mailing' /\ Judging'
    BY <1>t, <1>1, <1>5 DEF Mailing, Judging
<1>8. EntitledMail => EntitledMail'
    BY <1>1, <1>5 DEF EntitledMail
<1>9. EntitledHolders => EntitledHolders'
    <2> SUFFICES ASSUME EntitledHolders PROVE EntitledHolders'
        OBVIOUS
    <2>1. d \in Entitled(chat[d].key, Past)
        BY <1>2, GroupAssumption DEF EntitledHolders, Epoch
    <2>2. ~l.outdated => l.members \subseteq Entitled(l.key, Past)
        BY <1>1, <1>3, <2>1 DEF EntitledHolders
    <2>3. QED
        BY <1>1, <1>5, <2>2 DEF EntitledHolders
<1>10. QED
    BY <1>1, <1>4, <1>6, <1>7, <1>8, <1>9 DEF GroupInv

\* Whoever joins with a link has its key filed as epoch 1 and is on record as joined.
LEMMA JoinKeepsInv ==
    ASSUME GroupInv, NEW d \in Device, upsertGroupFromInvite(d)
    PROVE  GroupInv'
<1>t. GroupTypes /\ Filing /\ OwnerCounts /\ Mailing /\ Judging /\ HoldersRead
    BY DEF GroupInv
<1>1. PICK l \in links :
        LET c == [members |-> l.members \cup {d}, epoch |-> 1, key |-> l.key, owner |-> l.owner]
        IN /\ chat' = [chat EXCEPT ![d] = c]
           /\ filed' = [filed EXCEPT ![d][1] = l.key]
           /\ joined' = [joined EXCEPT ![l.key] = joined[l.key] \cup {d}]
           /\ misled' = IF l.owner = Creator THEN misled ELSE misled \cup {d}
           /\ overtaken' = IF l.outdated THEN overtaken \cup {d} ELSE overtaken
           /\ PostOrKeep(d, c, {}, FALSE)
    BY DEF upsertGroupFromInvite
<1> DEFINE c == [members |-> l.members \cup {d}, epoch |-> 1, key |-> l.key, owner |-> l.owner]
           f == [filed[d] EXCEPT ![1] = l.key]
<1>2. /\ chat[d] = Absent /\ sent' = sent + 1
      /\ UNCHANGED <<worker, links, kept, crossed, unread>>
    BY DEF upsertGroupFromInvite
<1>3. d # Creator /\ l \in Links /\ 1 \in Epoch
    BY <1>t, <1>2, GroupAssumption DEF OwnerCounts, GroupTypes, Epoch
<1>4. /\ c \in Copies /\ c.members = l.members \cup {d} /\ c.epoch = 1 /\ c.key = l.key
      /\ c.owner = l.owner /\ l.key \in Epoch
    BY <1>3, GroupAssumption DEF Links, Copies, Epoch
<1>5. /\ f \in [Epoch -> 0..MaxEpoch] /\ f[1] = l.key
      /\ \A k \in Epoch \ {1} : f[k] = filed[d][k]
    BY <1>t, <1>3, <1>4, GroupAssumption DEF GroupTypes, Epoch
<1>6. chat' = [chat EXCEPT ![d] = c] /\ filed' = [filed EXCEPT ![d] = f] /\ PostOrKeep(d, c, {}, FALSE)
    BY <1>1
<1> HIDE DEF c, f
<1>7. /\ joined' \in [Epoch -> SUBSET Device] /\ d \in joined'[l.key]
      /\ \A k \in Epoch : joined[k] \subseteq joined'[k]
      /\ misled \subseteq misled' /\ (l.owner # Creator => d \in misled')
      /\ overtaken \subseteq overtaken' /\ overtaken' \subseteq overtaken \cup {d}
      /\ (l.outdated => d \in overtaken')
    BY <1>t, <1>1, <1>4 DEF GroupTypes
<1>8. Spread(Past, Past') /\ d \in Entitled(c.key, Past')
    BY <1>2, <1>4, <1>7 DEF Spread, Past, Entitled
<1>9. /\ Grown(Past, Past') /\ Mailing' /\ unsent' \in [Device -> SUBSET Ciphers]
      /\ arrived' \in [Device -> SUBSET Envelopes] /\ wrote' \in [Epoch -> SUBSET Device]
      /\ EntitledMail => EntitledMail'
    <2>1. PostOrKeep(d, c, {}, FALSE) /\ worker' = worker /\ FALSE \in BOOLEAN /\ {} \in SUBSET Device
        BY <1>2, <1>6
    <2>2. c.epoch \in Epoch /\ c.key \in Epoch
          /\ (c.epoch = c.key \/ d \in joined'[c.key] \cup misled') /\ {} \subseteq kept'[c.key]
          /\ (d = Creator => c.epoch = c.key /\ FALSE)
        BY <1>3, <1>4, <1>7
    <2>3. /\ Grown(Past, Past') /\ Mailing' /\ unsent' \in [Device -> SUBSET Ciphers]
          /\ arrived' \in [Device -> SUBSET Envelopes] /\ wrote' \in [Epoch -> SUBSET Device]
          /\ /\ EntitledMail /\ worker' = worker /\ d \in Entitled(c.key, Past')
             /\ d = Creator => c.members \subseteq {d} \cup Entitled(c.key, Past')
             => EntitledMail'
        BY <1>t, <1>4, <1>8, <2>1, <2>2, SealStep
    <2>4. QED
        BY <1>3, <1>8, <2>1, <2>3
<1>10. /\ Filing' /\ chat' \in [Device -> Copies] /\ filed' \in [Device -> [Epoch -> 0..MaxEpoch]]
       /\ chat'[d] = c /\ filed'[d] = f
       /\ \A x \in Device \ {d} : chat'[x] = chat[x] /\ filed'[x] = filed[x]
       /\ /\ EntitledHolders /\ links' = links /\ overtaken \subseteq overtaken'
          /\ \A k \in Epoch : f[k] # 0 => d \in Entitled(f[k], Past')
          /\ d \notin overtaken' => c.members \subseteq {d} \cup Entitled(c.key, Past')
          => EntitledHolders'
    <2>1. /\ f[c.epoch] = c.key /\ c.epoch \in Epoch /\ c.key \in Epoch
          /\ (c.epoch = c.key \/ d \in joined'[c.key] \cup misled')
          /\ (c.owner # Creator => d \in misled')
        BY <1>3, <1>4, <1>5, <1>7
    <2>2. GroupTypes /\ Filing /\ f \in [Epoch -> 0..MaxEpoch] /\ c \in Copies
        BY <1>t, <1>4, <1>5
    <2>3. QED
        BY <1>6, <1>8, <2>1, <2>2, RecordWritten
<1>11. GroupTypes'
    <2>1. sent' \in Nat
        BY <1>t, <1>2 DEF GroupTypes
    <2>2. QED
        BY <1>t, <1>2, <1>7, <1>9, <1>10, <2>1 DEF GroupTypes
<1>12. OwnerCounts'
    <2>1. chat'[Creator] = chat[Creator] /\ filed'[Creator] = filed[Creator]
        BY <1>3, <1>10, GroupAssumption
    <2>2. kept' = kept /\ Creator \notin overtaken'
        BY <1>t, <1>2, <1>3, <1>7 DEF OwnerCounts
    <2>3. QED
        BY <1>t, <2>1, <2>2 DEF OwnerCounts
<1>13. HoldersRead' /\ Judging'
    <2>1. c # Absent
        BY <1>4 DEF Absent
    <2>2. chat'[d] # Absent /\ \A x \in Device \ {d} : chat'[x] = chat[x]
        BY <1>10, <2>1
    <2>3. unread' = unread /\ worker' = worker
        BY <1>2
    <2>4. QED
        BY <1>t, <1>9, <2>2, <2>3, JudgementsStay
<1>14. EntitledHolders => EntitledHolders'
    <2> SUFFICES ASSUME EntitledHolders PROVE EntitledHolders'
        OBVIOUS
    <2>1. \A k \in Epoch : filed[d][k] # 0 => d \in Entitled(filed[d][k], Past)
        BY DEF EntitledHolders
    <2>2. \A k \in Epoch : Entitled(k, Past) \subseteq Entitled(k, Past')
        BY <1>8 DEF Spread, Entitled
    <2>3. \A k \in Epoch : filed[d][k] # 0 => filed[d][k] \in Epoch
        BY <1>t, GroupAssumption DEF GroupTypes, Epoch
    <2>4. \A k \in Epoch : f[k] # 0 => d \in Entitled(f[k], Past')
        BY <1>4, <1>5, <1>8, <2>1, <2>2, <2>3
    <2>5. ~l.outdated => l.members \subseteq Entitled(l.key, Past)
        BY DEF EntitledHolders
    <2>6. d \notin overtaken' => c.members \subseteq {d} \cup Entitled(c.key, Past')
        BY <1>4, <1>7, <2>2, <2>5
    <2>7. links' = links /\ overtaken \subseteq overtaken'
        BY <1>2, <1>7
    <2>8. QED
        BY <1>10, <2>4, <2>6, <2>7
<1>15. misled \cup crossed = {} \/ misled' \cup crossed' # {}
    BY <1>2, <1>7
<1>16. QED
    BY <1>9, <1>10, <1>11, <1>12, <1>13, <1>14, <1>15 DEF GroupInv

\* A run that reads its records decides by them, and what it cannot open though it has
\* the key was written by one who files that key elsewhere.
LEMMA JudgeKeepsInv ==
    ASSUME GroupInv, NEW w \in Worker, NEW d \in Device, NEW m \in arrived[d], Judge(w, d, m)
    PROVE  GroupInv'
<1>t. GroupTypes /\ Filing /\ OwnerCounts /\ Mailing /\ Judging /\ HoldersRead
    BY DEF GroupInv
<1>1. UNCHANGED <<chat, filed, unsent, sent, links, kept, joined, wrote, crossed, misled,
                  overtaken, misnamed>>
    BY DEF Judge
<1>2. Past' = Past
    BY <1>1 DEF Past
<1>3. /\ m \in Envelopes /\ m.label \in Epoch /\ m.key \in Epoch /\ m.carried \in 0..MaxEpoch
      /\ m.from \in Device /\ m.to \in SUBSET Device /\ m.roster \in SUBSET Device
    BY <1>t DEF GroupTypes, Envelopes
<1>4. d \in m.to /\ Posted(m, Past)
    BY <1>t DEF Mailing
<1>5. chat[d] \in Copies /\ filed[d] \in [Epoch -> 0..MaxEpoch]
    BY <1>t DEF GroupTypes
<1> DEFINE new == IF chat[d] = Absent THEN Creation ELSE judgeGroupMessage(d, m)
           j == [stage |-> "write", at |-> d, message |-> m, seen |-> chat[d], new |-> new]
<1>6. judgeGroupMessage(d, m) \in Decisions
    <2>1. m.label \in 0..MaxEpoch /\ m.key \in 0..MaxEpoch /\ 0 \in 0..MaxEpoch
        BY <1>3, GroupAssumption DEF Epoch
    <2>2. Nothing \in Decisions /\ [Nothing EXCEPT !.members = chat[d].members \cup {m.from}] \in Decisions
          /\ [Nothing EXCEPT !.members = {}] \in Decisions
        BY <1>3, <1>5, <2>1 DEF Nothing, Decisions, Copies
    <2>3. [epoch |-> m.label, key |-> m.key,
           members |-> IF m.roster = {} THEN {} ELSE m.roster \cup {m.from, d}] \in Decisions
        BY <1>3, <2>1 DEF Decisions
    <2>4. QED
        BY <2>2, <2>3 DEF judgeGroupMessage
<1>7. new \in Decisions
    <2>1. Creation \in Decisions
        BY GroupAssumption DEF Creation, Nothing, Decisions
    <2>2. QED
        BY <1>6, <2>1
<1>8. chat[d] # Absent =>
        LET n == judgeGroupMessage(d, m)
        IN \/ n = Nothing
           \/ n.key = 0 /\ m.key = chat[d].key /\ n.members = chat[d].members \cup {m.from}
           \/ /\ n.key = m.key /\ n.key = m.carried /\ n.epoch = m.label
              /\ m.from = chat[d].owner /\ n.members \in {{}, m.roster \cup {m.from, d}}
    <2>1. CASE Opening(d, m) = {}
        BY <2>1 DEF judgeGroupMessage
    <2>2. CASE Opening(d, m) # {} /\ \A c \in Opening(d, m) : c.source = "owner"
        <3>1. PICK c \in Opening(d, m) : c.source = "owner"
            BY <2>2
        <3>2. c.key = m.carried /\ m.from = chat[d].owner /\ c.key = m.key
            BY <3>1 DEF Opening, keysToTry, Held
        <3>3. judgeGroupMessage(d, m) =
                [epoch |-> m.label, key |-> m.key,
                 members |-> IF m.roster = {} THEN {} ELSE m.roster \cup {m.from, d}]
            BY <2>2 DEF judgeGroupMessage
        <3>4. QED
            BY <3>2, <3>3
    <2>3. CASE Opening(d, m) # {} /\ ~\A c \in Opening(d, m) : c.source = "owner"
        <3>1. judgeGroupMessage(d, m) =
                [Nothing EXCEPT !.members = IF Admits(d, m) THEN chat[d].members \cup {m.from} ELSE {}]
            BY <2>3 DEF judgeGroupMessage
        <3>2. CASE Admits(d, m)
            BY <3>1, <3>2 DEF Admits, Nothing
        <3>3. CASE ~Admits(d, m)
            BY <3>1, <3>3 DEF Nothing
        <3>4. QED
            BY <3>2, <3>3
    <2>4. QED
        BY <2>1, <2>2, <2>3
<1>9. Creation # Nothing
    <2>1. Creation.members = Device /\ Nothing.members = {}
        BY DEF Creation, Nothing
    <2>2. QED
        BY <2>1, GroupAssumption
<1>10. j \in Judgements /\ j.message = m /\ j.at = d /\ j.seen = chat[d] /\ j.new = new
    <2> HIDE DEF new
    <2>1. QED
        BY <1>3, <1>5, <1>7 DEF Judgements
<1>11. (chat[d] = Absent /\ m.carried = 0) \/ Judged(j, chat, Past)
    <2>1. CASE chat[d] = Absent
        <3>1. new # Nothing /\ d # Creator
            BY <1>t, <1>9, <2>1 DEF OwnerCounts
        <3> HIDE DEF new, j
        <3>2. QED
            BY <1>4, <1>10, <2>1, <3>1 DEF Judged
    <2>2. CASE chat[d] # Absent
        <3>1. new = judgeGroupMessage(d, m)
            BY <2>2
        <3>2. (chat[d].owner # Creator => d \in Past.misled) /\ (d = Creator => chat[d].owner = Creator)
            BY <1>t, <2>2 DEF Filing, OwnerCounts, Past
        <3> HIDE DEF new, j
        <3>3. QED
            BY <1>4, <1>8, <1>10, <2>2, <3>1, <3>2 DEF Judged
    <2>3. QED
        BY <2>1, <2>2
<1>12. /\ \A x \in Device : arrived'[x] \subseteq arrived[x]
       /\ arrived' \in [Device -> SUBSET Envelopes]
       /\ worker' \in [Worker -> Judgements \cup {Unoccupied}]
       /\ \A v \in Worker : \/ worker'[v] = worker[v]
                            \/ worker'[v] = j /\ Judged(j, chat, Past)
    <2> HIDE DEF j
    <2>1. \/ /\ chat[d] = Absent /\ m.carried = 0
             /\ arrived' = [arrived EXCEPT ![d] = arrived[d] \ {m}] /\ worker' = worker
          \/ /\ ~(chat[d] = Absent /\ m.carried = 0)
             /\ arrived' = arrived /\ worker' = [worker EXCEPT ![w] = j]
        BY DEF Judge, j
    <2>2. /\ arrived \in [Device -> SUBSET Envelopes] /\ worker \in [Worker -> Judgements \cup {Unoccupied}]
          /\ j \in Judgements \cup {Unoccupied}
        BY <1>t, <1>10 DEF GroupTypes
    <2>3. CASE arrived' = [arrived EXCEPT ![d] = arrived[d] \ {m}] /\ worker' = worker
        BY <2>2, <2>3
    <2>4. CASE /\ ~(chat[d] = Absent /\ m.carried = 0)
               /\ arrived' = arrived /\ worker' = [worker EXCEPT ![w] = j]
        <3>1. /\ worker' \in [Worker -> Judgements \cup {Unoccupied}]
              /\ \A v \in Worker : worker'[v] = worker[v] \/ worker'[v] = j
            BY <2>2, <2>4
        <3>2. Judged(j, chat, Past)
            BY <1>11, <2>4
        <3>3. QED
            BY <2>2, <2>4, <3>1, <3>2
    <2>5. QED
        BY <2>1, <2>3, <2>4
<1> HIDE DEF new, j
<1>13. unread' = unread
       \/ /\ unread' = unread \cup {m} /\ chat[d] # Absent /\ Opening(d, m) = {}
          /\ m.key \in {chat[d].key, filed[d][m.key]}
    BY DEF Judge
<1>14. HoldersRead'
    <2>1. CASE unread' = unread
        BY <1>t, <1>1, <2>1 DEF HoldersRead
    <2>2. CASE /\ unread' = unread \cup {m} /\ chat[d] # Absent /\ Opening(d, m) = {}
               /\ m.key \in {chat[d].key, filed[d][m.key]}
        <3>1. \A k : k \in keysToTry(d, m) => k.key # m.key
            BY <2>2 DEF Opening
        <3>2. Held(m.label, Labelled(d, m)) \in keysToTry(d, m)
              /\ Held(chat[d].epoch, chat[d].key) \in keysToTry(d, m)
            BY DEF keysToTry
        <3>3. Labelled(d, m) # m.key /\ chat[d].key # m.key
            BY <3>1, <3>2 DEF Held
        <3>4. m.key = filed[d][m.key] /\ filed[d][chat[d].epoch] = chat[d].key
            BY <1>t, <2>2, <3>3 DEF Filing
        <3>5. m.label # m.key
            BY <3>3, <3>4 DEF Labelled
        <3>6. m \in misnamed \/ m.from \in joined[m.key] \cup misled
            BY <1>4, <3>5 DEF Posted, Past
        <3>7. QED
            BY <1>t, <1>1, <2>2, <3>6 DEF HoldersRead
    <2>3. QED
        BY <1>13, <2>1, <2>2
<1>15. GroupTypes'
    <2>1. unread' \subseteq Envelopes
        BY <1>t, <1>3, <1>13 DEF GroupTypes
    <2>2. QED
        BY <1>t, <1>1, <1>12, <2>1 DEF GroupTypes
<1>16. Filing' /\ OwnerCounts'
    BY <1>t, <1>1 DEF Filing, OwnerCounts
<1>17. Mailing' /\ Judging'
    BY <1>t, <1>1, <1>2, <1>12 DEF Mailing, Judging
<1>18. EntitledMail => EntitledMail'
    <2> SUFFICES ASSUME EntitledMail PROVE EntitledMail'
        OBVIOUS
    <2>1. EntitledPost(m, Past)
        BY DEF EntitledMail
    <2>2. \A v \in Worker : worker'[v] # Unoccupied => EntitledPost(worker'[v].message, Past)
        BY <1>10, <1>12, <2>1 DEF EntitledMail
    <2>3. QED
        BY <1>1, <1>2, <1>12, <2>2 DEF EntitledMail
<1>19. EntitledHolders => EntitledHolders'
    BY <1>1, <1>2 DEF EntitledHolders
<1>20. QED
    BY <1>1, <1>14, <1>15, <1>16, <1>17, <1>18, <1>19 DEF GroupInv

\* A run writes the record c and the keys f of the device d, as it may: the owner's key
\* and epoch stay, and without a misled device or a crossed run the device was given every
\* key that it files, and has on its list only those who were.
Rewrites(d, c, f) ==
    /\ chat' = [chat EXCEPT ![d] = c] /\ filed' = [filed EXCEPT ![d] = f]
    /\ c.epoch \in Epoch /\ c.key \in Epoch /\ f[c.epoch] = c.key
    /\ c.epoch = c.key \/ d \in joined[c.key] \cup misled'
    /\ c.owner # Creator => d \in misled'
    /\ d = Creator => /\ c.owner = Creator /\ c.epoch = chat[d].epoch /\ c.key = chat[d].key
                      /\ f = filed[d] /\ overtaken' = overtaken
    /\ misled \subseteq misled' /\ overtaken \subseteq overtaken' /\ overtaken' \subseteq overtaken \cup {d}
    /\ misled' \cup crossed' = {} /\ EntitledMail /\ EntitledHolders =>
         /\ \A e \in Epoch : f[e] # 0 => d \in Entitled(f[e], Past)
         /\ d \notin overtaken' => c.members \subseteq {d} \cup Entitled(c.key, Past)

\* What Persist writes of a group that was new to the run.
LEMMA CreationRewrites ==
    ASSUME GroupTypes, Judging, NEW w \in Worker, Persist(w), worker[w].seen = Absent
    PROVE  \E c \in Copies, f \in [Epoch -> 0..MaxEpoch] : Rewrites(worker[w].at, c, f)
<1> DEFINE d == worker[w].at
           m == worker[w].message
           c == [members |-> {d, m.from} \cup m.to, epoch |-> m.label, key |-> m.carried, owner |-> m.from]
           f == [filed[d] EXCEPT ![m.label] = m.carried]
<1>1. worker[w] # Unoccupied /\ worker[w] \in Judgements /\ Judged(worker[w], chat, Past)
    BY DEF Persist, GroupTypes, Judging
<1>2. d \in Device /\ m \in Envelopes
    BY <1>1 DEF Judgements
<1>3. /\ d \in m.to /\ m.from # d /\ m.carried # 0 /\ d # Creator /\ worker[w].new # Nothing
      /\ m.from = Creator => m.label = m.carried
    BY <1>1 DEF Judged, Posted
<1>4. /\ m.from \in Device /\ m.to \in SUBSET Device /\ m.label \in Epoch /\ m.carried \in Epoch
      /\ m.label \in 0..MaxEpoch /\ m.carried \in 0..MaxEpoch
    BY <1>2, <1>3, GroupAssumption DEF Envelopes, Epoch
<1>5. /\ chat' = [chat EXCEPT ![d] = c] /\ filed' = [filed EXCEPT ![d] = f]
      /\ misled' = IF m.from = Creator THEN misled ELSE misled \cup {d}
      /\ overtaken' = overtaken
      /\ crossed' = IF chat[d] = worker[w].seen \/ worker[w].new = Nothing
                    THEN crossed ELSE crossed \cup {d}
    BY DEF Persist, CreateFrom
<1>6. EntitledMail => EntitledPost(m, Past)
    BY <1>1 DEF EntitledMail
<1> HIDE DEF d, m
<1>7. /\ c \in Copies /\ c.members = {d, m.from} \cup m.to /\ c.epoch = m.label
      /\ c.key = m.carried /\ c.owner = m.from
    BY <1>2, <1>4 DEF Copies
<1>8. /\ f \in [Epoch -> 0..MaxEpoch] /\ f[m.label] = m.carried
      /\ \A e \in Epoch \ {m.label} : f[e] = filed[d][e]
    BY <1>2, <1>4 DEF GroupTypes
<1> HIDE DEF c, f
<1>9. misled' \cup crossed' = {} /\ EntitledMail /\ EntitledHolders =>
         /\ \A e \in Epoch : f[e] # 0 => d \in Entitled(f[e], Past)
         /\ d \notin overtaken' => c.members \subseteq {d} \cup Entitled(c.key, Past)
    <2> SUFFICES ASSUME misled' \cup crossed' = {}, EntitledMail, EntitledHolders
                 PROVE  /\ \A e \in Epoch : f[e] # 0 => d \in Entitled(f[e], Past)
                        /\ c.members \subseteq {d} \cup Entitled(c.key, Past)
        OBVIOUS
    <2>1. m.from = Creator
        BY <1>5
    <2>2. m.from \in Entitled(m.carried, Past) /\ m.to \subseteq Entitled(m.carried, Past)
        BY <1>3, <1>6, <2>1 DEF EntitledPost
    <2>3. \A e \in Epoch : filed[d][e] # 0 => d \in Entitled(filed[d][e], Past)
        BY <1>2 DEF EntitledHolders
    <2>4. QED
        BY <1>3, <1>4, <1>7, <1>8, <2>2, <2>3
<1>10. Rewrites(d, c, f)
    BY <1>3, <1>4, <1>5, <1>7, <1>8, <1>9 DEF Rewrites
<1>11. QED
    BY <1>7, <1>8, <1>10 DEF d

\* What Persist writes of a group that the run knew.
LEMMA UpdateRewrites ==
    ASSUME GroupTypes, Filing, OwnerCounts, Judging, NEW w \in Worker, Persist(w),
           worker[w].seen # Absent
    PROVE  \E c \in Copies, f \in [Epoch -> 0..MaxEpoch] : Rewrites(worker[w].at, c, f)
<1> DEFINE d == worker[w].at
           m == worker[w].message
           new == worker[w].new
           seen == worker[w].seen
           c == [members |-> IF new.members = {} THEN chat[d].members ELSE new.members,
                 epoch |-> IF new.key = 0 THEN chat[d].epoch ELSE new.epoch,
                 key |-> IF new.key = 0 THEN chat[d].key ELSE new.key, owner |-> chat[d].owner]
           f == IF new.key = 0 THEN filed[d] ELSE [filed[d] EXCEPT ![new.epoch] = new.key]
<1>1. worker[w] # Unoccupied /\ worker[w] \in Judgements /\ Judged(worker[w], chat, Past)
    BY DEF Persist, GroupTypes, Judging
<1>2. d \in Device /\ m \in Envelopes /\ new \in Decisions /\ seen \in Copies
    BY <1>1 DEF Judgements
<1>3. /\ d \in m.to /\ Posted(m, Past) /\ chat[d] # Absent
      /\ seen.owner # Creator => d \in Past.misled
      /\ d = Creator => seen.owner = Creator
      /\ \/ new = Nothing
         \/ new.key = 0 /\ m.key = seen.key /\ new.members = seen.members \cup {m.from}
         \/ /\ new.key = m.key /\ new.key = m.carried /\ new.epoch = m.label
            /\ m.from = seen.owner /\ new.members \in {{}, m.roster \cup {m.from, d}}
    BY <1>1 DEF Judged
<1>5. /\ chat' = [chat EXCEPT ![d] = c]
      /\ filed' = IF new.key = 0 THEN filed ELSE [filed EXCEPT ![d][new.epoch] = new.key]
      /\ misled' = misled
      /\ overtaken' = IF new.key # 0 /\ new.members = {} THEN overtaken \cup {d} ELSE overtaken
      /\ crossed' = IF chat[d] = seen \/ new = Nothing THEN crossed ELSE crossed \cup {d}
    BY DEF Persist, Update
<1>6. EntitledMail => EntitledPost(m, Past)
    BY <1>1 DEF EntitledMail
<1> HIDE DEF d, m, new, seen
<1>4. /\ m.from \in Device /\ m.key \in Epoch /\ m.label \in Epoch /\ m.key # 0
      /\ m.from \notin m.to /\ m.from \in wrote[m.key] /\ m.roster \subseteq kept[m.key]
      /\ m.from = Creator => m.label = m.carried
    BY <1>2, <1>3, GroupAssumption DEF Envelopes, Epoch, Posted, Past
<1>7. /\ chat[d] \in Copies /\ chat[d].epoch \in Epoch /\ chat[d].key \in Epoch
      /\ filed[d][chat[d].epoch] = chat[d].key
      /\ chat[d].epoch = chat[d].key \/ d \in joined[chat[d].key] \cup misled
      /\ chat[d].owner # Creator => d \in misled
    BY <1>2, <1>3 DEF GroupTypes, Filing
<1>8. c \in Copies
    BY <1>2, <1>7 DEF Copies, Decisions
<1>9. filed' = [filed EXCEPT ![d] = f] /\ f \in [Epoch -> 0..MaxEpoch]
    <2>1. CASE new.key = 0
        BY <1>2, <1>5, <2>1 DEF GroupTypes
    <2>2. CASE new.key # 0
        BY <1>2, <1>5, <2>2 DEF GroupTypes, Decisions
    <2>3. QED
        BY <2>1, <2>2
<1>10. c.owner = chat[d].owner
    OBVIOUS
<1>11. d = Creator => chat[d].owner = Creator
    BY <1>1, <1>2 DEF OwnerCounts
<1>12. Nothing.key = 0 /\ Nothing.members = {}
    BY DEF Nothing
<1>e. /\ EntitledMail => m.from \in Entitled(m.key, Past)
      /\ EntitledHolders => \A e \in Epoch : filed[d][e] # 0 => d \in Entitled(filed[d][e], Past)
      /\ EntitledHolders /\ d \notin overtaken =>
            chat[d].members \subseteq {d} \cup Entitled(chat[d].key, Past)
    BY <1>2, <1>3, <1>4 DEF EntitledMail, EntitledHolders
<1>13. CASE new.key = 0
    <2>1. c.epoch = chat[d].epoch /\ c.key = chat[d].key /\ f = filed[d] /\ overtaken' = overtaken
        BY <1>5, <1>13
    <2>2. c.members = chat[d].members \/ (m.key = seen.key /\ c.members = seen.members \cup {m.from}
                                          /\ new # Nothing)
        BY <1>3, <1>4, <1>12, <1>13
    <2> HIDE DEF c, f
    <2>3. misled' \cup crossed' = {} /\ EntitledMail /\ EntitledHolders =>
             /\ \A e \in Epoch : f[e] # 0 => d \in Entitled(f[e], Past)
             /\ d \notin overtaken' => c.members \subseteq {d} \cup Entitled(c.key, Past)
        BY <1>5, <1>e, <2>1, <2>2
    <2>4. Rewrites(d, c, f)
        BY <1>5, <1>7, <1>9, <1>10, <1>11, <2>1, <2>3 DEF Rewrites
    <2>5. QED
        BY <1>8, <1>9, <2>4 DEF d
<1>14. CASE new.key # 0
    <2>1. /\ new.key = m.key /\ new.key = m.carried /\ new.epoch = m.label
          /\ m.from = seen.owner /\ new.members \in {{}, m.roster \cup {m.from, d}}
        BY <1>3, <1>12, <1>14
    <2>2. d # Creator
        BY <1>3, <1>4, <2>1
    <2>3. c.epoch = m.label /\ c.key = m.key
          /\ (new.members # {} => c.members = m.roster \cup {m.from, d})
        BY <1>14, <2>1
    <2>4. f[m.label] = m.key /\ \A e \in Epoch \ {m.label} : f[e] = filed[d][e]
        BY <1>2, <1>4, <1>14, <2>1 DEF GroupTypes
    <2>5. c.epoch = c.key \/ d \in misled'
        BY <1>3, <1>4, <1>5, <2>1, <2>3 DEF Past
    <2>6. /\ overtaken \subseteq overtaken' /\ overtaken' \subseteq overtaken \cup {d}
          /\ d \notin overtaken' => new.members # {}
        BY <1>5, <1>14
    <2> HIDE DEF c, f
    <2>7. misled' \cup crossed' = {} /\ EntitledMail /\ EntitledHolders =>
             /\ \A e \in Epoch : f[e] # 0 => d \in Entitled(f[e], Past)
             /\ d \notin overtaken' => c.members \subseteq {d} \cup Entitled(c.key, Past)
        <3> SUFFICES ASSUME misled' \cup crossed' = {}, EntitledMail, EntitledHolders
                     PROVE  /\ \A e \in Epoch : f[e] # 0 => d \in Entitled(f[e], Past)
                            /\ d \notin overtaken' => c.members \subseteq {d} \cup Entitled(c.key, Past)
            OBVIOUS
        <3>1. m.from = Creator
            BY <1>3, <1>5, <2>1 DEF Past
        <3>2. d \in Entitled(m.key, Past)
            BY <1>3, <1>4, <1>6, <2>1, <3>1 DEF EntitledPost
        <3>3. m.roster \subseteq Entitled(m.key, Past)
            BY <1>4 DEF Entitled, Past
        <3>4. QED
            BY <1>e, <1>4, <2>3, <2>4, <2>6, <3>2, <3>3
    <2>8. Rewrites(d, c, f)
        BY <1>4, <1>5, <1>7, <1>9, <1>10, <2>2, <2>3, <2>4, <2>5, <2>6, <2>7 DEF Rewrites
    <2>9. QED
        BY <1>8, <1>9, <2>8 DEF d
<1>15. QED
    BY <1>13, <1>14

\* A run that writes keeps every key where it belongs.
LEMMA PersistKeepsInv ==
    ASSUME GroupInv, NEW w \in Worker, Persist(w)
    PROVE  GroupInv'
<1>t. GroupTypes /\ Filing /\ OwnerCounts /\ Mailing /\ Judging /\ HoldersRead
    BY DEF GroupInv
<1> DEFINE d == worker[w].at
           m == worker[w].message
<1>1. d \in Device
    BY <1>t DEF Persist, GroupTypes, Judgements
<1>2. PICK c \in Copies, f \in [Epoch -> 0..MaxEpoch] : Rewrites(d, c, f)
    BY <1>t, CreationRewrites, UpdateRewrites
<1>3. /\ arrived' = [arrived EXCEPT ![d] = arrived[d] \ {m}]
      /\ worker' = [worker EXCEPT ![w] = Unoccupied]
      /\ UNCHANGED <<unsent, sent, links, kept, joined, wrote, misnamed, unread>>
      /\ crossed \subseteq crossed'
    BY DEF Persist
<1> HIDE DEF d, m
<1>4. /\ chat' = [chat EXCEPT ![d] = c] /\ filed' = [filed EXCEPT ![d] = f]
      /\ c.epoch \in Epoch /\ c.key \in Epoch /\ f[c.epoch] = c.key
      /\ c.epoch = c.key \/ d \in joined'[c.key] \cup misled'
      /\ c.owner # Creator => d \in misled'
      /\ d = Creator => /\ c.owner = Creator /\ c.epoch = chat[d].epoch /\ c.key = chat[d].key
                        /\ f = filed[d] /\ overtaken' = overtaken
      /\ misled \subseteq misled' /\ overtaken \subseteq overtaken'
      /\ overtaken' \subseteq overtaken \cup {d}
      /\ misled' \cup crossed' = {} /\ EntitledMail /\ EntitledHolders =>
            /\ \A e \in Epoch : f[e] # 0 => d \in Entitled(f[e], Past)
            /\ d \notin overtaken' => c.members \subseteq {d} \cup Entitled(c.key, Past)
    BY <1>2, <1>3 DEF Rewrites
<1>5. Grown(Past, Past')
    BY <1>3, <1>4 DEF Grown, Spread, Past
<1>6. \A k : Entitled(k, Past') = Entitled(k, Past)
    BY <1>3 DEF Entitled, Past
<1>7. /\ Filing' /\ chat' \in [Device -> Copies] /\ filed' \in [Device -> [Epoch -> 0..MaxEpoch]]
      /\ chat'[d] = c /\ filed'[d] = f
      /\ \A x \in Device \ {d} : chat'[x] = chat[x] /\ filed'[x] = filed[x]
      /\ /\ EntitledHolders /\ links' = links /\ overtaken \subseteq overtaken'
         /\ \A e \in Epoch : f[e] # 0 => d \in Entitled(f[e], Past')
         /\ d \notin overtaken' => c.members \subseteq {d} \cup Entitled(c.key, Past')
         => EntitledHolders'
    <2>1. Spread(Past, Past') /\ GroupTypes /\ Filing
        BY <1>t, <1>5 DEF Grown
    <2>2. QED
        BY <1>1, <1>4, <2>1, RecordWritten
<1>8. /\ arrived' \in [Device -> SUBSET Envelopes] /\ worker' \in [Worker -> Judgements \cup {Unoccupied}]
      /\ \A x \in Device : arrived'[x] \subseteq arrived[x]
      /\ \A v \in Worker : worker'[v] \in {worker[v], Unoccupied}
    BY <1>t, <1>1, <1>3 DEF GroupTypes
<1>9. GroupTypes'
    BY <1>t, <1>3, <1>7, <1>8 DEF GroupTypes
<1>10. OwnerCounts'
    <2>0. kept' = kept /\ Creator \in Device
        BY <1>3, GroupAssumption
    <2>1. CASE d = Creator
        <3>1. c # Absent
            BY <1>4, GroupAssumption DEF Absent, Epoch
        <3>2. QED
            BY <1>t, <1>4, <1>7, <2>0, <2>1, <3>1 DEF OwnerCounts
    <2>2. CASE d # Creator
        BY <1>t, <1>4, <1>7, <2>0, <2>2 DEF OwnerCounts
    <2>3. QED
        BY <2>1, <2>2
<1>11. HoldersRead' /\ Judging'
    <2>1. chat'[d] # Absent /\ \A x \in Device \ {d} : chat'[x] = chat[x]
        BY <1>4, <1>7, GroupAssumption DEF Absent, Epoch
    <2>2. unread' = unread
        BY <1>3
    <2>3. QED
        BY <1>t, <1>1, <1>5, <1>8, <2>1, <2>2, JudgementsStay
<1>12. Mailing'
    <2>1. \A x \in Device : \A n \in arrived[x] : x \in n.to /\ Posted(n, Past')
        BY <1>t, <1>5, StaysPosted DEF Mailing, GroupTypes
    <2>2. \A x \in Device : \A n \in arrived'[x] : x \in n.to /\ Posted(n, Past')
        BY <1>8, <2>1
    <2>3. \A x \in Device : \A e \in unsent'[x] : e.roster \subseteq kept'[e.key]
        BY <1>t, <1>3 DEF Mailing
    <2>4. QED
        BY <2>2, <2>3 DEF Mailing
<1>13. EntitledMail => EntitledMail'
    <2> SUFFICES ASSUME EntitledMail PROVE EntitledMail'
        OBVIOUS
    <2>1. \A x \in Device : \A n \in arrived[x] : EntitledPost(n, Past')
        BY <1>6 DEF EntitledMail, EntitledPost
    <2>2. \A v \in Worker : worker[v] # Unoccupied => EntitledPost(worker[v].message, Past')
        BY <1>6 DEF EntitledMail, EntitledPost
    <2>3. \A v \in Worker : worker'[v] # Unoccupied => EntitledPost(worker'[v].message, Past')
        BY <1>8, <2>2
    <2>4. (\A k \in Epoch : wrote'[k] \subseteq Entitled(k, Past'))
          /\ \A x \in Device : \A e \in unsent'[x] : x \in Entitled(e.key, Past')
        BY <1>3, <1>6 DEF EntitledMail
    <2>5. QED
        BY <1>8, <2>1, <2>3, <2>4 DEF EntitledMail
<1>14. misled' \cup crossed' = {} /\ EntitledMail /\ EntitledHolders => EntitledHolders'
    BY <1>3, <1>4, <1>6, <1>7
<1>15. QED
    BY <1>3, <1>4, <1>7, <1>9, <1>10, <1>11, <1>12, <1>13, <1>14 DEF GroupInv

\* Every step of the clients keeps the invariant.
LEMMA GroupInvNext == GroupInv /\ [GroupNext]_groupVars => GroupInv'
<1> SUFFICES ASSUME GroupInv, [GroupNext]_groupVars PROVE GroupInv'
    OBVIOUS
<1>1. ASSUME NEW d \in Device, SendMessage(d) \/ FlushUnsent(d) PROVE GroupInv'
    BY <1>1, WritesKeepInv
<1>2. ASSUME NEW d \in Device, copyGroupInvite(d) PROVE GroupInv'
    BY <1>2, CopyKeepsInv
<1>3. ASSUME NEW d \in Device, upsertGroupFromInvite(d) PROVE GroupInv'
    BY <1>3, JoinKeepsInv
<1>4. ASSUME NEW d \in Device, NEW w \in Worker, NEW m \in arrived[d], Judge(w, d, m) PROVE GroupInv'
    BY <1>4, JudgeKeepsInv
<1>5. ASSUME NEW keep \in SUBSET Device, rotateGroupKeyForChat(keep) PROVE GroupInv'
    BY <1>5, RotateKeepsInv
<1>6. ASSUME NEW w \in Worker, Persist(w) PROVE GroupInv'
    BY <1>6, PersistKeepsInv
<1>7. CASE UNCHANGED groupVars
    BY <1>7 DEF groupVars, GroupInv, GroupTypes, Filing, OwnerCounts, Mailing, Judging, HoldersRead,
                EntitledMail, EntitledHolders, Past
<1>8. QED
    BY <1>1, <1>2, <1>3, <1>4, <1>5, <1>6, <1>7 DEF GroupNext

\* In whatever order resets and messages arrive (group-membership.ts:76), the removed stay
\* out and who holds a key reads on, for every number of devices, epochs and messages.
THEOREM KeysFollowMembersHolds == GroupSpec => []KeysFollowMembers
<1>1. GroupInv => KeysFollowMembers
    <2> SUFFICES ASSUME GroupInv PROVE KeysFollowMembers
        OBVIOUS
    <2>1. HoldersRead /\ GroupTypes
        BY DEF GroupInv
    <2>2. ASSUME misled \cup crossed = {} PROVE RemovedStaysOut
        <3>1. EntitledHolders
            BY <2>2 DEF GroupInv
        <3>2. QED
            BY <3>1 DEF EntitledHolders, Entitled, Past, RemovedStaysOut
    <2>3. QED
        BY <2>1, <2>2 DEF KeysFollowMembers
<1>2. QED
    BY <1>1, GroupInvInit, GroupInvNext, PTL DEF GroupSpec

-----------------------------------------------------------------------------
(* Attachments. *)

Stages == {"putting", "failed", "sent"}
UploadCalls == [stage : Stages, draft : Draft, chat : Chat]

\* The type invariant of Attachments.
AttachmentsTypeOK ==
    /\ inView \in Chat
    /\ draft \in Draft \cup {Neither} /\ sending \in BOOLEAN
    /\ prepared \subseteq Draft /\ recalled \subseteq Draft
    /\ upload \in [Upload -> {Unused} \cup UploadCalls]
    /\ blobs \subseteq Upload /\ metas \subseteq Upload /\ lapsed \subseteq Upload
    /\ messages \subseteq [object : Upload, to : Chat, from : {"me", "forwarded"}]
    /\ forwards \in Nat /\ breaks \in Nat

\* Every message is about an upload that was sent and is stored as a whole; the
\* uploader's own goes to the chat that the object names, and there is one.
MessagesAreStored ==
    \A m \in messages :
        /\ Stage(m.object, "sent")
        /\ m.object \in blobs \cap metas
        /\ m.from = "me" => m.to = upload[m.object].chat
        /\ \E n \in messages : n.object = m.object /\ n.from = "me"

\* As long as nothing was discarded while being sent, the draft on screen is the one
\* that is being uploaded, and none that was sent before.
OneCallPerDraft ==
    /\ sending => draft # Neither
    /\ draft # Neither => draft \in prepared
    /\ \A u \in Upload : Stage(u, "putting") => sending /\ upload[u].draft = draft
    /\ \A u, v \in Upload : Stage(u, "putting") /\ Stage(v, "putting") => u = v
    /\ \A u \in Upload : Stage(u, "sent") =>
            upload[u].draft \in prepared /\ upload[u].draft # draft
    /\ \A u, v \in Upload :
            Stage(u, "sent") /\ Stage(v, "sent") /\ upload[u].draft = upload[v].draft
                => u = v

\* The inductive invariant of both theorems.
AttachmentsInv ==
    /\ AttachmentsTypeOK
    /\ MessagesAreStored
    /\ recalled = {} => OneCallPerDraft

-----------------------------------------------------------------------------
LEMMA InitInv == AttachmentsInit => AttachmentsInv
<1> SUFFICES ASSUME AttachmentsInit PROVE AttachmentsInv
    OBVIOUS
<1>1. \A u \in Upload : upload[u] = Unused /\ Unused.stage = "unused"
    BY DEF AttachmentsInit, Unused
<1>2. AttachmentsTypeOK
    BY DEF AttachmentsInit, AttachmentsTypeOK
<1>3. MessagesAreStored
    BY DEF AttachmentsInit, MessagesAreStored
<1>4. OneCallPerDraft
    BY <1>1 DEF AttachmentsInit, OneCallPerDraft, Stage
<1>5. QED
    BY <1>2, <1>3, <1>4 DEF AttachmentsInv

\* A step that leaves uploads and messages alone loses nothing of what is stored.
LEMMA QuietStep ==
    ASSUME MessagesAreStored, blobs \subseteq blobs', metas \subseteq metas',
           UNCHANGED <<upload, messages>>
    PROVE  MessagesAreStored'
BY DEF MessagesAreStored, Stage

LEMMA ComposerInv ==
    ASSUME AttachmentsInv,
           \/ \E c \in Chat : Select(c)
           \/ \E d \in Draft : prepareAttachmentDraft(d)
           \/ cancelAttachmentDraft
    PROVE  AttachmentsInv'
<1> USE DEF AttachmentsInv
<1>1. MessagesAreStored'
    BY QuietStep DEF Select, prepareAttachmentDraft, cancelAttachmentDraft, storedVars, sentVars
<1>2. ASSUME NEW c \in Chat, Select(c) PROVE AttachmentsInv'
    BY <1>1, <1>2 DEF Select, storedVars, sentVars, AttachmentsTypeOK, OneCallPerDraft, Stage
<1>3. ASSUME NEW d \in Draft, prepareAttachmentDraft(d) PROVE AttachmentsInv'
    <2>1. AttachmentsTypeOK'
        BY <1>3 DEF prepareAttachmentDraft, storedVars, sentVars, AttachmentsTypeOK
    <2>2. recalled' = {} => OneCallPerDraft'
        BY <1>3, AttachmentsAssumption
        DEF prepareAttachmentDraft, OneCallPerDraft, Stage, AttachmentsTypeOK
    <2>3. QED
        BY <1>1, <2>1, <2>2
<1>4. ASSUME cancelAttachmentDraft PROVE AttachmentsInv'
    <2>1. AttachmentsTypeOK'
        BY <1>4 DEF cancelAttachmentDraft, storedVars, sentVars, AttachmentsTypeOK
    <2>2. recalled' = {} => OneCallPerDraft'
        BY <1>4, AttachmentsAssumption
        DEF cancelAttachmentDraft, OneCallPerDraft, Stage, AttachmentsTypeOK
    <2>3. QED
        BY <1>1, <2>1, <2>2
<1>5. QED
    BY <1>2, <1>3, <1>4

LEMMA SendInv ==
    ASSUME AttachmentsInv, NEW u \in Upload, sendAttachmentDraft(u)
    PROVE  AttachmentsInv'
<1> USE DEF AttachmentsInv
<1>1. upload[u] # [upload[u] EXCEPT !.stage = "sent"] /\ ~Stage(u, "sent")
    BY DEF sendAttachmentDraft, Stage, Unused
<1>2. AttachmentsTypeOK'
    BY DEF sendAttachmentDraft, storedVars, sentVars, AttachmentsTypeOK, UploadCalls, Stages
<1>3. \A v \in Upload : v # u => upload'[v] = upload[v]
    BY DEF sendAttachmentDraft, AttachmentsTypeOK
<1>4. upload'[u] = [stage |-> "putting", draft |-> draft, chat |-> inView]
    BY DEF sendAttachmentDraft, AttachmentsTypeOK
<1>5. MessagesAreStored'
    BY <1>1, <1>3 DEF sendAttachmentDraft, storedVars, sentVars, MessagesAreStored, Stage,
                      AttachmentsTypeOK
<1>6. recalled' = {} => OneCallPerDraft'
    BY <1>3, <1>4 DEF sendAttachmentDraft, OneCallPerDraft, Stage, AttachmentsTypeOK
<1>7. QED
    BY <1>2, <1>5, <1>6

\* A stage changes, and nothing else of an upload.
LEMMA BecomesStage ==
    ASSUME AttachmentsTypeOK, NEW u \in Upload, NEW s \in Stages, Becomes(u, s),
           upload[u] # Unused
    PROVE  /\ upload' \in [Upload -> {Unused} \cup UploadCalls]
           /\ \A v \in Upload : v # u => upload'[v] = upload[v]
           /\ upload[u] \in UploadCalls /\ upload'[u].stage = s
           /\ upload'[u].draft = upload[u].draft /\ upload'[u].chat = upload[u].chat
<1>1. upload[u] \in UploadCalls
    BY DEF AttachmentsTypeOK
<1>2. [upload[u] EXCEPT !.stage = s] \in UploadCalls
    BY <1>1 DEF UploadCalls
<1>3. QED
    BY <1>1, <1>2 DEF Becomes, AttachmentsTypeOK, UploadCalls

LEMMA UploadedInv ==
    ASSUME AttachmentsInv, NEW u \in Upload, Uploaded(u)
    PROVE  AttachmentsInv'
<1> USE DEF AttachmentsInv
<1>1. upload[u] # Unused /\ Becomes(u, "sent") /\ "sent" \in Stages /\ Stage(u, "putting")
    BY DEF Uploaded, Stage, Unused, Stages
<1>2. /\ upload' \in [Upload -> {Unused} \cup UploadCalls]
      /\ \A v \in Upload : v # u => upload'[v] = upload[v]
      /\ upload[u] \in UploadCalls /\ upload'[u].stage = "sent"
      /\ upload'[u].draft = upload[u].draft /\ upload'[u].chat = upload[u].chat
    BY <1>1, BecomesStage
<1> DEFINE new == [object |-> u, to |-> upload[u].chat, from |-> "me"]
<1>3. messages' = messages \cup {new} /\ new \in [object : Upload, to : Chat, from : {"me", "forwarded"}]
    BY <1>2 DEF Uploaded, UploadCalls
<1>4. AttachmentsTypeOK'
    BY <1>2, <1>3 DEF Uploaded, storedVars, AttachmentsTypeOK
<1>5. MessagesAreStored'
    <2>1. \A m \in messages : m.object # u
        BY <1>1 DEF MessagesAreStored, Stage
    <2>2. \A m \in messages : m.object \in Upload
        BY DEF AttachmentsTypeOK
    <2>3. u \in blobs \cap metas /\ blobs' = blobs /\ metas' = metas
        BY DEF Uploaded, Stored, storedVars
    <2>4. ASSUME NEW m \in messages
          PROVE  /\ upload'[m.object].stage = "sent" /\ m.object \in blobs' \cap metas'
                 /\ m.from = "me" => m.to = upload'[m.object].chat
                 /\ \E n \in messages' : n.object = m.object /\ n.from = "me"
        BY <1>2, <1>3, <2>1, <2>2, <2>3 DEF MessagesAreStored, Stage
    <2>5. /\ upload'[new.object].stage = "sent" /\ new.object \in blobs' \cap metas'
          /\ new.from = "me" => new.to = upload'[new.object].chat
          /\ \E n \in messages' : n.object = new.object /\ n.from = "me"
        BY <1>2, <1>3, <2>3
    <2>6. QED
        BY <1>3, <2>4, <2>5 DEF MessagesAreStored, Stage
<1>6. recalled' = {} => OneCallPerDraft'
    <2>1. SUFFICES ASSUME recalled = {} PROVE OneCallPerDraft'
        BY DEF Uploaded
    <2>2. OneCallPerDraft /\ upload[u].draft = draft /\ draft \in prepared
        BY <1>1, <2>1 DEF OneCallPerDraft
    <2>3. draft' = Neither /\ sending' = FALSE /\ prepared' = prepared /\ Neither \notin prepared
        BY AttachmentsAssumption DEF Uploaded, AttachmentsTypeOK
    <2>4. \A v \in Upload : upload'[v].stage # "putting"
        BY <1>1, <1>2, <2>2 DEF OneCallPerDraft, Stage
    <2>5. \A v \in Upload : upload'[v].stage = "sent" => upload'[v].draft \in prepared
        BY <1>2, <2>2 DEF OneCallPerDraft, Stage
    <2>6. \A v, w \in Upload :
            upload'[v].stage = "sent" /\ upload'[w].stage = "sent"
                /\ upload'[v].draft = upload'[w].draft => v = w
        BY <1>2, <2>2 DEF OneCallPerDraft, Stage
    <2>7. QED
        BY <2>3, <2>4, <2>5, <2>6 DEF OneCallPerDraft, Stage
<1>7. QED
    BY <1>4, <1>5, <1>6

LEMMA FailedInv ==
    ASSUME AttachmentsInv, NEW u \in Upload, Refused(u) \/ Unanswered(u)
    PROVE  AttachmentsInv'
<1> USE DEF AttachmentsInv
<1>1. upload[u] # Unused /\ Becomes(u, "failed") /\ "failed" \in Stages /\ Stage(u, "putting")
    BY DEF Refused, Unanswered, Stage, Unused, Stages
<1>2. /\ upload' \in [Upload -> {Unused} \cup UploadCalls]
      /\ \A v \in Upload : v # u => upload'[v] = upload[v]
      /\ upload[u] \in UploadCalls /\ upload'[u].stage = "failed"
      /\ upload'[u].draft = upload[u].draft /\ upload'[u].chat = upload[u].chat
    BY <1>1, BecomesStage
<1>3. AttachmentsTypeOK'
    <2>1. UNCHANGED <<inView, draft, prepared, recalled, blobs, metas, lapsed, messages, forwards>>
        BY DEF Refused, Unanswered, storedVars, composerVars
    <2>2. sending' \in BOOLEAN
        BY DEF Refused, Unanswered, composerVars, AttachmentsTypeOK
    <2>3. breaks' \in Nat
        BY DEF Refused, Unanswered, Break, AttachmentsTypeOK
    <2>4. QED
        BY <1>2, <2>1, <2>2, <2>3 DEF AttachmentsTypeOK
<1>4. UNCHANGED <<messages, blobs, metas, recalled, draft, prepared>>
    BY DEF Refused, Unanswered, storedVars, composerVars
<1>5. MessagesAreStored'
    <2>1. \A m \in messages : m.object # u /\ m.object \in Upload
        BY <1>1 DEF MessagesAreStored, Stage, AttachmentsTypeOK
    <2>2. QED
        BY <1>2, <1>4, <2>1 DEF MessagesAreStored, Stage
<1>6. recalled' = {} => OneCallPerDraft'
    <2>1. SUFFICES ASSUME recalled = {} PROVE OneCallPerDraft'
        BY <1>4
    <2>2. sending' => sending
        BY DEF Refused, Unanswered, composerVars
    <2>3. \A v \in Upload : upload'[v].stage # "putting"
        BY <1>1, <1>2, <2>1 DEF OneCallPerDraft, Stage
    <2>4. QED
        BY <1>2, <1>4, <2>1, <2>2, <2>3 DEF OneCallPerDraft, Stage
<1>7. QED
    BY <1>3, <1>5, <1>6

LEMMA StoreInv ==
    ASSUME AttachmentsInv, NEW u \in Upload,
           PutBlob(u) \/ PutMeta(u) \/ LatePut(u) \/ Lapse(u)
    PROVE  AttachmentsInv'
<1> USE DEF AttachmentsInv
<1>1. UNCHANGED <<composerVars, upload, sentVars>> /\ blobs \subseteq blobs' /\ metas \subseteq metas'
    BY DEF PutBlob, PutMeta, LatePut, Lapse
<1>2. AttachmentsTypeOK'
    <2>1. blobs' \subseteq Upload /\ metas' \subseteq Upload /\ lapsed' \subseteq Upload
        BY DEF PutBlob, PutMeta, LatePut, Lapse, AttachmentsTypeOK
    <2>2. QED
        BY <1>1, <2>1 DEF composerVars, sentVars, AttachmentsTypeOK
<1>3. MessagesAreStored'
    BY <1>1, QuietStep DEF sentVars
<1>4. recalled' = {} => OneCallPerDraft'
    BY <1>1 DEF OneCallPerDraft, Stage, composerVars
<1>5. QED
    BY <1>2, <1>3, <1>4

LEMMA ForwardInv ==
    ASSUME AttachmentsInv, NEW m \in messages, NEW c \in Chat, forwardMessageToChat(m, c)
    PROVE  AttachmentsInv'
<1> USE DEF AttachmentsInv
<1> DEFINE new == [object |-> m.object, to |-> c, from |-> "forwarded"]
<1>1. messages' = messages \cup {new} /\ new \in [object : Upload, to : Chat, from : {"me", "forwarded"}]
    BY DEF forwardMessageToChat, AttachmentsTypeOK
<1>2. UNCHANGED <<composerVars, upload, storedVars, breaks>>
    BY DEF forwardMessageToChat
<1>3. AttachmentsTypeOK'
    BY <1>1, <1>2 DEF forwardMessageToChat, composerVars, storedVars, AttachmentsTypeOK
<1>4. MessagesAreStored'
    BY <1>1, <1>2 DEF MessagesAreStored, Stage, storedVars
<1>5. recalled' = {} => OneCallPerDraft'
    BY <1>2 DEF OneCallPerDraft, Stage, composerVars
<1>6. QED
    BY <1>3, <1>4, <1>5

\* Whatever the order of uploads, answers, drafts and forwards, every message is about
\* a whole object, and a draft is in one call at a time.
THEOREM AttachmentsInvariant == AttachmentsSpec => []AttachmentsInv
<1>1. AttachmentsInv /\ [AttachmentsNext]_attachVars => AttachmentsInv'
    <2>1. SUFFICES ASSUME AttachmentsInv, [AttachmentsNext]_attachVars PROVE AttachmentsInv'
        OBVIOUS
    <2>2. CASE UNCHANGED attachVars
        BY <2>1, <2>2
        DEF attachVars, AttachmentsInv, AttachmentsTypeOK, MessagesAreStored, OneCallPerDraft, Stage
    <2>3. CASE AttachmentsNext
        BY <2>1, <2>3, ComposerInv, SendInv, UploadedInv, FailedInv, StoreInv, ForwardInv
        DEF AttachmentsNext
    <2>4. QED
        BY <2>1, <2>2, <2>3
<1>2. QED
    BY <1>1, InitInv, PTL DEF AttachmentsSpec

\* Whoever is sent an attachment by its uploader can open it while it is retained, and
\* nobody else is served a direct object.
THEOREM AttachmentsOpen == AttachmentsSpec => []AttachmentOpens
<1>1. AttachmentsInv => AttachmentOpens
    <2>1. SUFFICES ASSUME AttachmentsInv PROVE AttachmentOpens
        OBVIOUS
    <2>2. ASSUME NEW m \in messages, m.from = "me", NEW p \in Chat \ Group,
                 m.to \in Group \cup {p}, m.object \notin lapsed
          PROVE  serves(m.object, p)
        BY <2>1, <2>2 DEF AttachmentsInv, MessagesAreStored, serves, Party
    <2>3. ASSUME NEW u \in Upload, NEW p \in Chat \ Group, NEW m \in messages, m.object = u,
                 serves(u, p)
          PROVE  \E n \in messages : n.object = u /\ n.to \in Group \cup {p}
        <3>1. upload[u].chat \in Group \cup {p}
            BY <2>3, AttachmentsAssumption DEF serves, Party
        <3>2. PICK n \in messages : n.object = u /\ n.from = "me"
            BY <2>1, <2>3 DEF AttachmentsInv, MessagesAreStored
        <3>3. n.to = upload[u].chat
            BY <2>1, <3>2 DEF AttachmentsInv, MessagesAreStored
        <3>4. QED
            BY <3>1, <3>2, <3>3
    <2>4. QED
        BY <2>2, <2>3 DEF AttachmentOpens
<1>2. QED
    BY <1>1, AttachmentsInvariant, PTL

\* A file is sent once, unless it was discarded or replaced while being sent.
THEOREM DraftsSentOnce == AttachmentsSpec => []SentOnce
<1>1. AttachmentsInv => SentOnce
    BY DEF AttachmentsInv, OneCallPerDraft, SentOnce
<1>2. QED
    BY <1>1, AttachmentsInvariant, PTL

\* Sharing a file works once and for those it is for.
THEOREM SharingHolds == AttachmentsSpec => []AttachmentsHold
<1>1. AttachmentOpens /\ SentOnce => AttachmentsHold
    BY DEF AttachmentsHold
<1>2. QED
    BY <1>1, AttachmentsOpen, DraftsSentOnce, PTL

-----------------------------------------------------------------------------
(* The chat on the screen. *)

\* What is quoted is of the chat it is quoted in, as far as the property says.
QuoteBelongs(quote, c) ==
  /\ quote.about = NoBubble \/ quote.hasty \/ quote.about \in Clip \/ quote.about[1] = c
  /\ quote.names \in {Nowhere, c}
Begins == [phase : {"asking", "live", "over", "ready", "sent", "shown"}, room : Room,
           quote : [about : Bubble \cup Clip \cup {NoBubble}, names : Room \cup {Nowhere},
                    hasty : BOOLEAN],
           poll : BOOLEAN]

PanelShape ==
  /\ selectedChatId \in Room \cup {Nowhere}
  /\ onView \subseteq Bubble \cup Clip
  /\ DOMAIN wording = Room \X {"mine"}
  /\ editingMessageId \in (Room \X {"mine"}) \cup {NoBubble}
  /\ DOMAIN members = Circle
  /\ take \in [Clip -> {Unmade} \cup Begins]
  /\ mediaRecorder # Nowhere => mediaRecorder \in Clip /\ take[mediaRecorder] # Unmade

\* Once its list has appeared, the messages on view are those of the selected chat.
ViewFollows == ~Hasty => \A b \in onView \ Clip : b[1] = selectedChatId

\* Beside a message that is edited on view, what was typed was typed in its chat.
TextFollows ==
  editingMessageId \in onView => messageText \in {Nowhere, editingMessageId[1]}

\* What a clip quotes was quoted where it was begun.
QuotesFollow ==
  \A r \in Clip : take[r] # Unmade => QuoteBelongs(take[r].quote, take[r].room)

PanelInv == PanelShape /\ ViewFollows /\ TextFollows /\ QuotesFollow /\ ChatsStayApart

\* A message that is not a clip is of the chat its name tells.
LEMMA MessageRooms ==
    /\ Nowhere \notin Room \cup Clip /\ Owned \subseteq Circle /\ Circle \subseteq Room
    /\ NoBubble \notin Clip /\ NoBubble[1] = Nowhere
    /\ \A b \in Bubble : b \notin Clip /\ b[1] \in Room /\ b[2] \in {"mine", "theirs"} /\ b # NoBubble
    /\ \A b \in Room \X {"mine"} : b \in Bubble
<1>1. NoBubble \notin Clip /\ NoBubble[1] = Nowhere
    BY RoomsAssumption DEF NoBubble
<1>2. ASSUME NEW b \in Bubble
      PROVE  b \notin Clip /\ b[1] \in Room /\ b[2] \in {"mine", "theirs"} /\ b # NoBubble
    BY RoomsAssumption DEF NoBubble, Bubble
<1>3. QED
    BY <1>1, <1>2, RoomsAssumption DEF Bubble

\* It holds of an empty screen.
LEMMA PanelInvInit == PanelInit => PanelInv
<1> SUFFICES ASSUME PanelInit PROVE PanelInv
    OBVIOUS
<1>1. PanelShape
    BY RoomsAssumption DEF PanelInit, PanelShape, Unmade, NoBubble
<1>2. ViewFollows /\ TextFollows /\ QuotesFollow
    BY DEF PanelInit, ViewFollows, TextFollows, QuotesFollow, Unmade
<1>3. SaysWhatBelongs
    BY MessageRooms DEF PanelInit, SaysWhatBelongs, Silence, RoomOf
<1>4. ChatsStayApart
    BY <1>3, RoomsAssumption DEF PanelInit, ChatsStayApart, KeysStayInside, EditsBelong
<1>5. QED
    BY <1>1, <1>2, <1>4 DEF PanelInv

-----------------------------------------------------------------------------
(* Steps that leave the chat, its list and the clips as they are. *)

\* The chat, its messages on view, the edit and the clips stay, and what is typed is less.
Still ==
  /\ UNCHANGED <<selectedChatId, onView, listReads, editingMessageId, wording, members, clips>>
  /\ messageText' \in {messageText, Nowhere}
  /\ typingTo' \in {typingTo, Nowhere}

\* A step that leaves these alone keeps the invariant.
LEMMA StillStep ==
    ASSUME PanelInv, Still, SaysWhatBelongs'
    PROVE  PanelInv'
<1>1. PanelShape'
    BY DEF PanelInv, PanelShape, Still, clips
<1>2. ViewFollows' /\ TextFollows' /\ QuotesFollow'
    BY DEF PanelInv, ViewFollows, TextFollows, QuotesFollow, Still, Hasty, clips
<1>3. ChatsStayApart'
    BY DEF PanelInv, ChatsStayApart, KeysStayInside, EditsBelong, Still
<1>4. QED
    BY <1>1, <1>2, <1>3 DEF PanelInv

\* Saying nothing is in order.
LEMMA SilenceBelongs == said' = Silence => SaysWhatBelongs'
BY MessageRooms DEF SaysWhatBelongs, Silence, RoomOf

\* So is what is done to a message on view.
LEMMA DoingBelongs ==
    ASSUME PanelInv, NEW b \in onView, said' = Does(b), UNCHANGED take
    PROVE  SaysWhatBelongs'
BY MessageRooms DEF PanelInv, PanelShape, ViewFollows, SaysWhatBelongs, Does, Silence, RoomOf

\* A reply quotes what is on view, and names from the group it is sent to.
LEMMA ReplyBelongs == PanelInv => QuoteBelongs(replySnapshot, selectedChatId)
BY MessageRooms DEF PanelInv, PanelShape, ViewFollows, QuoteBelongs, replySnapshot, replyMessage,
                    groupMemberNames

\* What is said with such a quote is in order.
LEMMA SayingBelongs ==
    ASSUME NEW c, NEW quote, QuoteBelongs(quote, c), said' = Says(c, quote)
    PROVE  SaysWhatBelongs'
BY MessageRooms DEF QuoteBelongs, SaysWhatBelongs, Says, RoomOf

\* The steps that are like this.
LEMMA StillSteps ==
    ASSUME PanelInv,
           \/ \E c \in Room : prefAnswer(c) \/ settingAnswer(c) \/ askChatAction(c)
           \/ \E b \in onView : \/ onReply(b) \/ sendReactionToMessage(b) \/ pinMessage(b)
                             \/ openDeleteSheet(b)
           \/ \E kind \in {"setting", "poll"} : openSheet(kind)
           \/ \E u \in UNION {MembersOf[c] : c \in Circle} : tick(u)
           \/ onCancelReply \/ stopTyping \/ openReset \/ handleEscape \/ deleteMessageForMe
           \/ changeSetting
    PROVE  PanelInv'
<1>1. Still
    BY DEF Still, prefAnswer, settingAnswer, askChatAction, onReply, sendReactionToMessage,
       pinMessage,
           openDeleteSheet, openSheet, tick, onCancelReply, stopTyping, openReset, handleEscape,
           deleteMessageForMe, changeSetting, open, close, choice, loads, words, sheets, clips
<1>2. said' = Silence \/ \E b \in onView : said' = Does(b)
    BY DEF prefAnswer, settingAnswer, askChatAction, onReply, sendReactionToMessage, pinMessage,
           openDeleteSheet, openSheet, tick, onCancelReply, stopTyping, openReset, handleEscape,
           deleteMessageForMe, changeSetting
<1>3. SaysWhatBelongs'
    BY <1>1, <1>2, SilenceBelongs, DoingBelongs DEF Still, clips
<1>4. QED
    BY <1>1, <1>3, StillStep

\* Sending leaves the list alone too; the reply was in order.
LEMMA SendTextStep ==
    ASSUME PanelInv, sendText
    PROVE  PanelInv'
<1>1. Still
    BY DEF Still, sendText, submitMessage, choice, loads, sheets, clips
<1>2. SaysWhatBelongs'
    BY ReplyBelongs, SayingBelongs DEF sendText
<1>3. QED
    BY <1>1, <1>2, StillStep

\* Typing begins where the list has appeared, so that what is edited is of that chat.
LEMMA TypeTextStep ==
    ASSUME PanelInv, typeText
    PROVE  PanelInv'
<1>1. PanelShape' /\ ViewFollows' /\ QuotesFollow'
    BY DEF PanelInv, PanelShape, ViewFollows, QuotesFollow, Hasty, typeText, choice, loads,
       sheets, clips
<1>2. TextFollows'
    BY MessageRooms DEF PanelInv, PanelShape, ViewFollows, TextFollows, typeText, loads
<1>3. SaysWhatBelongs'
    BY SilenceBelongs DEF typeText
<1>4. ChatsStayApart'
    BY <1>3 DEF PanelInv, ChatsStayApart, KeysStayInside, EditsBelong, typeText, choice, sheets
<1>5. QED
    BY <1>1, <1>2, <1>4 DEF PanelInv

\* An edit takes its text from its own chat.
LEMMA EditStep ==
    ASSUME PanelInv, editMessage
    PROVE  PanelInv'
<1>1. PanelShape' /\ ViewFollows' /\ QuotesFollow'
    BY DEF PanelInv, PanelShape, ViewFollows, QuotesFollow, Hasty, editMessage, choice, loads,
       sheets, clips
<1>2. TextFollows'
    BY DEF TextFollows, editMessage, submitMessage
<1>3. SaysWhatBelongs'
    BY SilenceBelongs DEF editMessage
<1>4. EditsBelong'
    BY MessageRooms DEF PanelInv, PanelShape, TextFollows, ChatsStayApart, EditsBelong, editMessage,
                        submitMessage, RoomOf
<1>5. ChatsStayApart'
    BY <1>3, <1>4 DEF PanelInv, ChatsStayApart, KeysStayInside, editMessage, submitMessage,
       choice, sheets
<1>6. QED
    BY <1>1, <1>2, <1>5 DEF PanelInv

-----------------------------------------------------------------------------
(* Steps on which the composer follows. *)

\* The composer follows the edit, whatever comes on view or goes.
LEMMA Following ==
    ASSUME PanelInv, PanelShape', followEdit(messageText)
    PROVE  TextFollows'
<1>1. CASE editingMessageId' \in onView'
    <2>1. RoomOf(editingMessageId') = editingMessageId'[1]
        BY <1>1, MessageRooms DEF PanelShape, RoomOf
    <2>2. editingMessage' # <<>>
        BY <1>1 DEF editingMessage
    <2>3. CASE editingMessage' = editingMessage
        <3>1. editingMessageId \in onView /\ editingMessageId = editingMessageId'
            BY <1>1, <2>3 DEF editingMessage
        <3>2. QED
            BY <2>3, <3>1 DEF PanelInv, TextFollows, followEdit
    <2>4. QED
        BY <2>1, <2>2, <2>3 DEF TextFollows, followEdit
<1>2. QED
    BY <1>1 DEF TextFollows

\* Whatever else changes, such a step keeps what it does not touch.
LEMMA FollowStep ==
    ASSUME PanelInv, PanelShape', ViewFollows', followEdit(messageText), SaysWhatBelongs',
           UNCHANGED <<wording, members, clips>>, typingTo' \in {Nowhere, selectedChatId'}
    PROVE  PanelInv'
<1>1. TextFollows'
    BY Following
<1>2. QuotesFollow'
    BY DEF PanelInv, QuotesFollow, clips
<1>3. ChatsStayApart'
    BY DEF PanelInv, ChatsStayApart, KeysStayInside, EditsBelong
<1>4. QED
    BY <1>1, <1>2, <1>3 DEF PanelInv

\* A chat that is selected has its list asked for; without one the list is empty.
LEMMA MoveStep ==
    ASSUME PanelInv, NEW c \in Room \cup {Nowhere}, moveTo(c), followEdit(messageText),
           SaysWhatBelongs', UNCHANGED <<editingMessageId, wording, members, clips>>
    PROVE  PanelInv'
<1>1. PanelShape'
    BY DEF PanelInv, PanelShape, moveTo, clips
<1>2. ViewFollows'
    BY DEF ViewFollows, Hasty, moveTo
<1>3. typingTo' \in {Nowhere, selectedChatId'}
    BY DEF moveTo, typingCleanup
<1>4. QED
    BY <1>1, <1>2, <1>3, FollowStep

\* By the list, a search, an alert, or back.
LEMMA SelectSteps ==
    ASSUME PanelInv, onBack \/ \E c \in Room : openFromList(c) \/ openChatByChatId(c)
    PROVE  PanelInv'
<1>1. PICK c \in Room \cup {Nowhere} : select(c)
    BY DEF onBack, openFromList, openChatByChatId
<1>2. SaysWhatBelongs'
    BY <1>1, SilenceBelongs DEF select
<1>3. QED
    BY <1>1, <1>2, MoveStep DEF select, sheets

\* A chat that is archived or deleted is left.
LEMMA ConfirmStep ==
    ASSUME PanelInv, NEW erase, confirmChatAction(erase)
    PROVE  PanelInv'
<1>1. SaysWhatBelongs'
    BY SilenceBelongs DEF confirmChatAction
<1>2. CASE selectedChatId = dialog.room
    BY <1>1, <1>2, MoveStep DEF confirmChatAction
<1>3. CASE selectedChatId # dialog.room
    <2>1. PanelShape' /\ ViewFollows'
        BY <1>3 DEF PanelInv, PanelShape, ViewFollows, Hasty, confirmChatAction, loads, clips
    <2>2. typingTo' \in {Nowhere, selectedChatId'}
        BY <1>3 DEF PanelInv, ChatsStayApart, confirmChatAction
    <2>3. QED
        BY <1>1, <2>1, <2>2, FollowStep DEF confirmChatAction
<1>4. QED
    BY <1>2, <1>3

\* A list that comes for the selected chat is the chat's.
LEMMA ListAnswerStep ==
    ASSUME PanelInv, NEW c \in Room, listAnswer(c)
    PROVE  PanelInv'
<1>1. listed(c) \subseteq Bubble \cup Clip /\ \A b \in listed(c) \ Clip : b[1] = c
    BY MessageRooms DEF listed, RoomOf
<1>2. PanelShape'
    BY <1>1 DEF PanelInv, PanelShape, listAnswer, choice, sheets, clips
<1>3. ViewFollows'
    BY <1>1 DEF PanelInv, ViewFollows, Hasty, stillSelected, listAnswer, choice, RoomOf
<1>4. SaysWhatBelongs'
    BY SilenceBelongs DEF listAnswer
<1>5. QED
    BY <1>2, <1>3, <1>4, FollowStep DEF PanelInv, ChatsStayApart, listAnswer, choice, sheets

\* An edit that is begun, and a message deleted for everyone.
LEMMA EditAndUnsendSteps ==
    ASSUME PanelInv, unsendMessage \/ \E b \in onView : onEditMessage(b)
    PROVE  PanelInv'
<1>1. PanelShape' /\ ViewFollows'
    BY DEF PanelInv, PanelShape, ViewFollows, Hasty, unsendMessage, onEditMessage, choice, loads,
       clips
<1>2. SaysWhatBelongs'
    BY SilenceBelongs, DoingBelongs DEF onEditMessage, unsendMessage, clips
<1>3. QED
    BY <1>1, <1>2, FollowStep DEF PanelInv, ChatsStayApart, unsendMessage, onEditMessage, choice

\* An edit that is given up.
LEMMA CancelEditStep ==
    ASSUME PanelInv, handleCancelEdit
    PROVE  PanelInv'
<1>1. PanelShape' /\ ViewFollows' /\ QuotesFollow'
    BY DEF PanelInv, PanelShape, ViewFollows, QuotesFollow, Hasty, handleCancelEdit, choice,
       loads, sheets, clips
<1>2. TextFollows'
    BY DEF TextFollows, handleCancelEdit
<1>3. SaysWhatBelongs'
    BY SilenceBelongs DEF handleCancelEdit
<1>4. ChatsStayApart'
    BY <1>3 DEF PanelInv, ChatsStayApart, KeysStayInside, EditsBelong, handleCancelEdit, choice,
       sheets
<1>5. QED
    BY <1>1, <1>2, <1>4 DEF PanelInv

\* Only the group's own members get its new key.
LEMMA ResetStep ==
    ASSUME PanelInv, onResetGroupKey
    PROVE  PanelInv'
<1>1. PanelShape' /\ ViewFollows' /\ TextFollows' /\ QuotesFollow'
    BY DEF PanelInv, PanelShape, ViewFollows, TextFollows, QuotesFollow, Hasty, onResetGroupKey,
       choice,
           loads, words, clips
<1>2. KeysStayInside'
    BY DEF PanelInv, PanelShape, ChatsStayApart, KeysStayInside, onResetGroupKey, Kept
<1>3. SaysWhatBelongs'
    BY SilenceBelongs DEF onResetGroupKey
<1>4. ChatsStayApart'
    BY <1>2, <1>3 DEF PanelInv, ChatsStayApart, EditsBelong, onResetGroupKey, choice, words
<1>5. QED
    BY <1>1, <1>4 DEF PanelInv

-----------------------------------------------------------------------------
(* Clips. *)

\* Steps of clips leave the words alone, and quotes stay with the chats they are of.
LEMMA ClipStep ==
    ASSUME PanelInv, PanelShape', ViewFollows', QuotesFollow', SaysWhatBelongs', TextFollows',
           UNCHANGED <<selectedChatId, wording, members, typingTo>>
    PROVE  PanelInv'
BY DEF PanelInv, ChatsStayApart, KeysStayInside, EditsBelong

\* A clip that is begun is of the chat that is selected.
LEMMA BeginStep ==
    ASSUME PanelInv, Selected, NEW r \in Clip, NEW phase \in {"asking", "ready"}, NEW quote,
           QuoteBelongs(quote, selectedChatId),
           quote \in [about : Bubble \cup Clip \cup {NoBubble}, names : Room \cup {Nowhere},
                      hasty : BOOLEAN],
           Begun(r, phase, quote), UNCHANGED <<choice, loads, words, members, mediaRecorder>>
    PROVE  PanelInv'
<1>1. take'[r] # Unmade /\ take'[r] \in Begins
    BY DEF PanelInv, PanelShape, Begun, Begins, Selected, Unmade
<1>2. PanelShape'
    BY <1>1 DEF PanelInv, PanelShape, Begun, choice, loads, words
<1>3. ViewFollows' /\ TextFollows'
    BY DEF PanelInv, ViewFollows, TextFollows, Hasty, choice, loads, words
<1>4. QuotesFollow'
    BY DEF PanelInv, PanelShape, QuotesFollow, Begun, QuoteBelongs
<1>5. SaysWhatBelongs'
    BY SilenceBelongs DEF Begun
<1>6. QED
    BY <1>2, <1>3, <1>4, <1>5, ClipStep DEF choice, words

\* A clip that goes on stays of its chat, and keeps its quote.
LEMMA PhaseStep ==
    ASSUME PanelInv, NEW r \in Clip, take[r] # Unmade,
           NEW phase \in {"live", "over", "ready", "sent", "shown"}, Phase(r, phase),
           mediaRecorder' \in {mediaRecorder, r, Nowhere},
           UNCHANGED <<selectedChatId, editingMessageId, wording, members>>,
           onView' \subseteq onView \cup Clip
    PROVE  PanelShape' /\ QuotesFollow'
<1>1. take[r] \in Begins
    BY DEF PanelInv, PanelShape
<1>2. take'[r] = [take[r] EXCEPT !.phase = phase]
    BY DEF PanelInv, PanelShape, Phase
<1>3. /\ take'[r] \in Begins
      /\ take'[r].room = take[r].room /\ take'[r].quote = take[r].quote
    BY <1>1, <1>2 DEF Begins
<1>4. take'[r] # Unmade
    BY <1>1, <1>2 DEF Begins, Unmade
<1>5. /\ take' \in [Clip -> {Unmade} \cup Begins]
      /\ \A s \in Clip \ {r} : take'[s] = take[s]
    BY <1>3 DEF PanelInv, PanelShape, Phase
<1>6. mediaRecorder' # Nowhere => mediaRecorder' \in Clip /\ take'[mediaRecorder'] # Unmade
    BY <1>4, <1>5 DEF PanelInv, PanelShape
<1>7. PanelShape'
    BY <1>5, <1>6 DEF PanelInv, PanelShape
<1>8. QuotesFollow'
    BY <1>3, <1>5 DEF PanelInv, QuotesFollow
<1>9. QED
    BY <1>7, <1>8

\* What a clip's phase tells: it was begun.
LEMMA PhaseKnown ==
    ASSUME NEW r, take[r].phase # "none"
    PROVE  take[r] # Unmade
BY DEF Unmade

\* Recording: the microphone, the button to stop, the button to cancel.
LEMMA RecordingSteps ==
    ASSUME PanelInv, stopRecording \/ cancelRecording \/ \E r \in Clip : microphoneAnswers(r)
    PROVE  PanelInv'
<1>1. PICK r \in Clip, phase \in {"live", "over", "ready"} :
          take[r] # Unmade /\ Phase(r, phase) /\ mediaRecorder' \in {mediaRecorder, r, Nowhere}
    BY PhaseKnown DEF PanelInv, PanelShape, stopRecording, cancelRecording, microphoneAnswers
<1>2. UNCHANGED <<choice, loads, words, sheets>>
    BY DEF stopRecording, cancelRecording, microphoneAnswers
<1>3. PanelShape' /\ QuotesFollow'
    BY <1>1, <1>2, PhaseStep DEF choice, loads, words, sheets
<1>4. ViewFollows' /\ TextFollows'
    BY <1>2 DEF PanelInv, ViewFollows, TextFollows, Hasty, choice, loads, words
<1>5. SaysWhatBelongs'
    BY SilenceBelongs DEF stopRecording, cancelRecording, microphoneAnswers
<1>6. QED
    BY <1>2, <1>3, <1>4, <1>5, ClipStep DEF choice, words, sheets

\* A clip is sent to its chat.
LEMMA SendClipStep ==
    ASSUME PanelInv, NEW r \in Clip, sendVoiceNote(r)
    PROVE  PanelInv'
<1>1. take[r] # Unmade
    BY PhaseKnown DEF sendVoiceNote
<1>2. PanelShape' /\ QuotesFollow'
    BY <1>1, PhaseStep DEF sendVoiceNote, choice, loads, words, sheets
<1>3. ViewFollows' /\ TextFollows'
    BY DEF PanelInv, ViewFollows, TextFollows, Hasty, sendVoiceNote, choice, loads, words
<1>4. SaysWhatBelongs'
    <2>1. QuoteBelongs(take[r].quote, take[r].room)
        BY <1>1 DEF PanelInv, QuotesFollow
    <2>2. QED
        BY <2>1, SayingBelongs DEF sendVoiceNote, Addressee
<1>5. QED
    BY <1>2, <1>3, <1>4, ClipStep DEF sendVoiceNote, choice, words, sheets

\* It joins what is on view.
LEMMA AppendClipStep ==
    ASSUME PanelInv, NEW r \in Clip, appendClip(r)
    PROVE  PanelInv'
<1>1. take[r] # Unmade
    BY PhaseKnown DEF appendClip
<1>2. PanelShape' /\ QuotesFollow'
    BY <1>1, PhaseStep DEF appendClip, choice, sheets
<1>3. ViewFollows'
    BY DEF PanelInv, ViewFollows, Hasty, appendClip, choice
<1>4. TextFollows'
    BY MessageRooms DEF PanelInv, PanelShape, TextFollows, appendClip
<1>5. SaysWhatBelongs'
    BY SilenceBelongs DEF appendClip
<1>6. QED
    BY <1>2, <1>3, <1>4, <1>5, ClipStep DEF appendClip, choice, sheets

\* A voice note or a poll is begun.
LEMMA BeginSteps ==
    ASSUME PanelInv, NEW r \in Clip, startRecording(r) \/ sendPollMessage(r)
    PROVE  PanelInv'
<1>1. CASE startRecording(r)
    <2>1. replySnapshot \in [about : Bubble \cup Clip \cup {NoBubble}, names : Room \cup {Nowhere},
                             hasty : BOOLEAN]
        BY DEF PanelInv, PanelShape, replySnapshot, replyMessage, groupMemberNames, Hasty
    <2>2. QED
        BY <1>1, <2>1, ReplyBelongs, BeginStep DEF startRecording, Uncovered, sheets
<1>2. CASE sendPollMessage(r)
    <2>1. PICK quote : quote = [about |-> NoBubble, names |-> Nowhere, hasty |-> FALSE]
        OBVIOUS
    <2>2. /\ QuoteBelongs(quote, selectedChatId)
          /\ quote \in [about : Bubble \cup Clip \cup {NoBubble}, names : Room \cup {Nowhere},
                        hasty : BOOLEAN]
        BY <2>1 DEF QuoteBelongs
    <2>3. QED
        BY <1>2, <2>1, <2>2, BeginStep DEF sendPollMessage
<1>3. QED
    BY <1>1, <1>2

\* Every step keeps it.
LEMMA PanelInvNext == PanelInv /\ [PanelNext]_panelVars => PanelInv'
<1> SUFFICES ASSUME PanelInv, [PanelNext]_panelVars PROVE PanelInv'
    OBVIOUS
<1>1. CASE UNCHANGED panelVars
    <2>1. UNCHANGED <<choice, loads, words, sheets, clips, said>>
        BY <1>1 DEF panelVars
    <2>2. SaysWhatBelongs'
        BY <2>1 DEF PanelInv, ChatsStayApart, SaysWhatBelongs, RoomOf, clips
    <2>3. QED
        BY <2>1, <2>2, StillStep DEF Still, choice, loads, words, sheets
<1>2. CASE PanelNext
    BY <1>2, StillSteps, SendTextStep, TypeTextStep, EditStep, SelectSteps, ConfirmStep,
       ListAnswerStep, EditAndUnsendSteps, CancelEditStep, ResetStep, RecordingSteps,
       SendClipStep, AppendClipStep, BeginSteps DEF PanelNext
<1>3. QED
    BY <1>1, <1>2

\* Whichever way a person comes from one chat to another, and whatever was loading, open or
\* being recorded then, each chat gets what was meant for it (ChatPanel.tsx, Dashboard.tsx).
THEOREM ChatsStayApartHolds == PanelSpec => []ChatsStayApart
<1>1. PanelInv => ChatsStayApart
    BY DEF PanelInv
<1>2. QED
    BY <1>1, PanelInvInit, PanelInvNext, PTL DEF PanelSpec

===============================================================================
