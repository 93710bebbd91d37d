-------------------------------- MODULE Prekeys --------------------------------
(***************************************************************************)
(* Forward secrecy with prekeys: the relay's tables                        *)
(* (apps/relay/src/prekey-repository.ts), their owner's device             *)
(* (apps/web/src/lib/prekey-store.ts) and the messages sent under them     *)
(* (apps/web/src/lib/message-crypto.ts, packages/crypto/src/prekeys.ts).   *)
(*                                                                         *)
(* One owner.  A signed prekey is named by the day it was minted, a        *)
(* one-time prekey by its rank in the order of minting: 0 is none.         *)
(***************************************************************************)
EXTENDS Integers, FiniteSets

CONSTANTS
  Sender,         \* peers: each claims and sends one message at a time
  Reader,         \* overlapping runs of persistIncomingMessages
  LIFETIME,       \* SIGNED_PREKEY_LIFETIME_MS, in days
  RETENTION,      \* SIGNED_PREKEY_RETENTION_MS, in days
  QueueDays,      \* RELAY_QUEUE_TTL_SECONDS, in days
  Batch,          \* ONE_TIME_PREKEY_BATCH
  Threshold,      \* REPLENISH_THRESHOLD
  MaxStock,       \* MAX_ONE_TIME_PREKEYS
  MaxDay, MaxKeys, MaxCuts  \* bounds: of the clock, of minting, of failures

ASSUME PrekeysAssumption ==
  /\ {LIFETIME, RETENTION, QueueDays, Batch, Threshold, MaxStock} \subseteq Nat
  /\ {MaxDay, MaxKeys, MaxCuts} \subseteq Nat

VARIABLES
  day,
  published,   \* identity_prekeys.signed_prekey_id, or -1
  stock,       \* one_time_prekeys
  claim,       \* per sender: its claim transaction, then its bundle
  taken,       \* history: how many senders were given a one-time prekey
  signed,      \* the owner's signed prekeys (private halves)
  held,        \* its one-time prekeys (private halves)
  minted,      \* how many it has minted
  refresh,     \* a run of ensurePrekeysPublished
  mail,        \* messages under way or in the relay's queue
  inbox,       \* received, not yet stored
  reader,      \* per run: the message it is storing and how far it is
  stored,      \* messages in the owner's database
  cut,         \* history: messages whose keys were spent when the page was closed
  cuts

relayVars == <<published, stock, claim, taken>>
ownerVars == <<signed, held, minted, refresh>>
mailVars == <<mail, inbox, reader, stored, cut>>
preVars == <<day, relayVars, ownerVars, mailVars, cuts>>

Rest == [stage |-> "idle"]
Days == 0..MaxDay
OneTime == 1..MaxKeys
Messages == [spk : Days, opk : 0..MaxKeys, sent : Days]

PrekeysInit ==
  /\ day = 0 /\ published = -1 /\ stock = {} /\ cuts = 0
  /\ claim = [s \in Sender |-> Rest]
  /\ taken = [k \in OneTime |-> 0]
  /\ signed = {} /\ held = {} /\ minted = 0 /\ refresh = Rest
  /\ mail = {} /\ inbox = {} /\ stored = {} /\ cut = {}
  /\ reader = [r \in Reader |-> Rest]

-------------------------------------------------------------------------------
(* The owner's device. *)

Newest(S) == {d \in S : \A e \in S : e <= d}

\* The signed prekeys that stay: the current one, and those young enough.
Retained(S, current) == {d \in S : d = current \/ day - d <= RETENTION}

\* Mints a signed prekey when there is none or it has aged out, and retires old ones.
Renew ==
  /\ refresh = Rest
  /\ LET expired == \A d \in signed : day - d > LIFETIME
     IN \E current \in IF expired THEN {day} ELSE Newest(signed) :
          /\ signed' = Retained(signed \cup {current}, current)
          /\ refresh' = [stage |-> "renewed", spk |-> current, expired |-> expired]
  /\ UNCHANGED <<day, relayVars, held, minted, mailVars, cuts>>

\* The private halves are not on file when the batch is published.
TopUp_Unsaved(counted) ==
  /\ refresh.stage = "renewed"
  /\ minted + Batch <= MaxKeys
  /\ minted' = minted + Batch
  /\ refresh' = [stage |-> "publishing", spk |-> refresh.spk,
                 keys |-> (minted + 1)..(minted + Batch)]
  /\ UNCHANGED <<day, relayVars, signed, held, mailVars, cuts>>

\* Asks how many one-time prekeys are left, and keeps the private halves of a new
\* batch before publishing it.  A count the relay does not give is a shortage.
TopUp(counted) ==
  /\ refresh.stage = "renewed"
  /\ LET short == ~counted \/ Cardinality(stock) < Threshold
         batch == IF short THEN (minted + 1)..(minted + Batch) ELSE {}
     IN /\ minted + Cardinality(batch) <= MaxKeys
        /\ minted' = minted + Cardinality(batch)
        /\ held' = held \cup batch
        /\ refresh' = IF refresh.expired \/ short
                      THEN [stage |-> "publishing", spk |-> refresh.spk, keys |-> batch]
                      ELSE Rest
  /\ UNCHANGED <<day, relayVars, signed, mailVars, cuts>>

\* The request fails, or the page is closed: what was minted stays on the device.
FailRefresh ==
  /\ refresh # Rest
  /\ cuts < MaxCuts
  /\ cuts' = cuts + 1
  /\ refresh' = Rest
  /\ UNCHANGED <<day, relayVars, signed, held, minted, mailVars>>

-------------------------------------------------------------------------------
(* The relay. *)

\* Rows another transaction has locked.
Locked == {claim[s].opk : s \in {t \in Sender : claim[t].stage = "locked"}}

\* What a trim leaves: the MaxStock newest.
Trimmed(S) == {k \in S : Cardinality({l \in S : l > k}) < MaxStock}

\* The publish transaction: the signed prekey is replaced, the batch is added, and
\* the table is cut to the newest.
publish ==
  /\ refresh.stage = "publishing"
  /\ LET all == stock \cup refresh.keys
     IN /\ (all \ Trimmed(all)) \cap Locked = {}
        /\ stock' = Trimmed(all)
  /\ published' = refresh.spk
  /\ refresh' = Rest
  /\ UNCHANGED <<day, claim, taken, signed, held, minted, mailVars, cuts>>

\* FOR UPDATE SKIP LOCKED LIMIT 1, oldest first.
Free_Locked == stock
Free == stock \ Locked
Oldest(S) == IF S = {} THEN {0} ELSE {k \in S : \A l \in S : k <= l}

\* claimBundle, up to the row lock.
ClaimKey(s) ==
  /\ claim[s] = Rest
  /\ published # -1
  /\ \E k \in Oldest(Free) :
       claim' = [claim EXCEPT ![s] = [stage |-> "locked", spk |-> published, opk |-> k]]
  /\ UNCHANGED <<day, published, stock, taken, ownerVars, mailVars, cuts>>

\* The row is deleted, and the sender has the bundle.
claimBundle(s) ==
  /\ claim[s].stage = "locked"
  /\ LET k == claim[s].opk
     IN /\ stock' = stock \ {k}
        /\ taken' = IF k = 0 THEN taken ELSE [taken EXCEPT ![k] = @ + 1]
  /\ claim' = [claim EXCEPT ![s].stage = "bundle"]
  /\ UNCHANGED <<day, published, ownerVars, mailVars, cuts>>

\* The transaction rolls back, or the sender never gets or uses the bundle.
FailClaim(s) ==
  /\ claim[s] # Rest
  /\ cuts < MaxCuts
  /\ cuts' = cuts + 1
  /\ claim' = [claim EXCEPT ![s] = Rest]
  /\ UNCHANGED <<day, published, stock, taken, ownerVars, mailVars>>

-------------------------------------------------------------------------------
(* Messages. *)

encryptWithPrekeyBundle(s) ==
  /\ claim[s].stage = "bundle"
  /\ mail' = mail \cup {[spk |-> claim[s].spk, opk |-> claim[s].opk, sent |-> day]}
  /\ claim' = [claim EXCEPT ![s] = Rest]
  /\ UNCHANGED <<day, published, stock, taken, ownerVars, inbox, reader, stored, cut, cuts>>

Receive(m) ==
  /\ m \in mail
  /\ mail' = mail \ {m}
  /\ inbox' = inbox \cup {m}
  /\ UNCHANGED <<day, relayVars, ownerVars, reader, stored, cut, cuts>>

\* Both private halves are needed, and must be there.
Opens(m) == m.spk \in signed /\ (m.opk = 0 \/ m.opk \in held)

\* The one-time prekey of a message that did not open is deleted too.
decryptWithPrekeys_Burn(r, m) ==
  /\ reader[r] = Rest
  /\ m \in inbox \ stored
  /\ IF Opens(m)
     THEN /\ reader' = [reader EXCEPT ![r] = [stage |-> "opened", message |-> m]]
          /\ UNCHANGED <<inbox, held>>
     ELSE /\ inbox' = inbox \ {m}
          /\ held' = held \ {m.opk}
          /\ UNCHANGED reader
  /\ UNCHANGED <<day, relayVars, signed, minted, refresh, mail, stored, cut, cuts>>

\* decryptWithPrekeys: a message that does not open is skipped, and its keys stay.
decryptWithPrekeys(r, m) ==
  /\ reader[r] = Rest
  /\ m \in inbox \ stored
  /\ IF Opens(m)
     THEN reader' = [reader EXCEPT ![r] = [stage |-> "opened", message |-> m]] /\ UNCHANGED inbox
     ELSE inbox' = inbox \ {m} /\ UNCHANGED reader
  /\ UNCHANGED <<day, relayVars, ownerVars, mail, stored, cut, cuts>>

\* The one-time prekey stays.
consumePrekeys_Kept(r) ==
  /\ reader[r].stage = "opened"
  /\ reader' = [reader EXCEPT ![r].stage = "consumed"]
  /\ UNCHANGED <<day, relayVars, ownerVars, mail, inbox, stored, cut, cuts>>

\* The one-time prekey goes at once, the signed one on its own schedule.
consumePrekeys(r) ==
  /\ reader[r].stage = "opened"
  /\ held' = held \ {reader[r].message.opk}
  /\ reader' = [reader EXCEPT ![r].stage = "consumed"]
  /\ UNCHANGED <<day, relayVars, signed, minted, refresh, mail, inbox, stored, cut, cuts>>

PutMessage(r) ==
  /\ reader[r].stage = "consumed"
  /\ stored' = stored \cup {reader[r].message}
  /\ inbox' = inbox \ {reader[r].message}
  /\ reader' = [reader EXCEPT ![r] = Rest]
  /\ UNCHANGED <<day, relayVars, ownerVars, mail, cut, cuts>>

\* Messages whose one-time prekey is spent and that are still to be stored.
Spending == {reader[r].message : r \in {q \in Reader : reader[q].stage = "consumed"}}

\* What was received and not stored is gone with the page.
ClosePage ==
  /\ cuts < MaxCuts
  /\ cuts' = cuts + 1
  /\ cut' = cut \cup Spending
  /\ inbox' = {}
  /\ reader' = [r \in Reader |-> Rest]
  /\ refresh' = Rest
  /\ UNCHANGED <<day, relayVars, signed, held, minted, mail, stored>>

\* A day passes; the relay's queue forgets what is older than its limit.
Tick ==
  /\ day < MaxDay
  /\ day' = day + 1
  /\ mail' = {m \in mail : day + 1 - m.sent <= QueueDays}
  /\ UNCHANGED <<relayVars, ownerVars, inbox, reader, stored, cut, cuts>>

PrekeysNext ==
  \/ Renew \/ FailRefresh \/ publish \/ ClosePage \/ Tick
  \/ \E counted \in BOOLEAN : TopUp(counted)
  \/ \E s \in Sender : \/ ClaimKey(s) \/ claimBundle(s) \/ FailClaim(s)
                       \/ encryptWithPrekeyBundle(s)
  \/ \E m \in mail : Receive(m)
  \/ \E r \in Reader : \/ \E m \in inbox : decryptWithPrekeys(r, m)
                       \/ consumePrekeys(r) \/ PutMessage(r)

PrekeysSpec == PrekeysInit /\ [][PrekeysNext]_preVars

-------------------------------------------------------------------------------
(* Properties. *)

PrekeysTypeOK ==
  /\ day \in Days /\ published \in Days \cup {-1} /\ stock \subseteq OneTime
  /\ claim \in [Sender -> {Rest} \cup
                 [stage : {"locked", "bundle"}, spk : Days, opk : 0..MaxKeys]]
  /\ taken \in [OneTime -> Nat]
  /\ signed \subseteq Days /\ held \subseteq OneTime /\ minted \in 0..MaxKeys
  /\ refresh \in {Rest} \cup [stage : {"renewed"}, spk : Days, expired : BOOLEAN]
                  \cup [stage : {"publishing"}, spk : Days, keys : SUBSET OneTime]
  /\ mail \subseteq Messages /\ inbox \subseteq Messages
  /\ stored \subseteq Messages /\ cut \subseteq Messages
  /\ reader \in [Reader -> {Rest} \cup [stage : {"opened", "consumed"}, message : Messages]]
  /\ cuts \in 0..MaxCuts

\* However claims overlap, fail and race a publication, a one-time prekey goes to
\* one sender only (prekey-repository.ts:127); and one the relay can still hand out, or
\* that a message under way needs, is on its owner's device, whichever request failed.
OneTimeOnce ==
  /\ \A k \in OneTime : taken[k] <= 1
  /\ stock \subseteq held
  /\ \A m \in mail : m.opk = 0 \/ m.opk \in held

\* Once a message is stored nothing on the device opens it again
\* (packages/crypto/src/prekeys.ts:26); and a prekey is spent on a message only that was
\* stored, or is now to be: a failed decrypt does not burn it (message-crypto.ts:240), and
\* neither does a page closed before. A page closed between the two (`cut`) has lost
\* the message.
SpentIsStored ==
  /\ \A m \in stored : m.opk \notin held
  /\ \A k \in OneTime : taken[k] > 0 /\ k \notin held =>
       \E m \in stored \cup Spending \cup cut : m.opk = k
===============================================================================
