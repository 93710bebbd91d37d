# Nada in TLA+

Specifications, model-checking configurations and proofs for the parts of Nada
whose correctness depends on interleavings, ordering and failures: the relay
(`apps/relay/src`), which runs as several processes that share one Redis and one
PostgreSQL and coordinate only through them, and the web client
(`apps/web/src`), whose event handlers, awaits, timers and tabs interleave in one
browser.

Contents: [the system](#the-system), [modules and code](#modules-and-code),
[runs](#runs), [fairness](#fairness), [proofs](#proofs),
[divergences](#divergences-found), [limits of the models](#limits-of-the-models),
[not modelled](#not-modelled), [plan](#plan).

## The system

| Component | State it keeps | Operations | Talks to |
|---|---|---|---|
| Relay server, `server.ts` | sockets per identity, pending handshakes, heartbeat marks (all per process) | open, register, route, receipt, replay, teardown, heartbeat sweep | bus, queue, rate limiter, push |
| Offline queue, `queue.ts` | two Redis lists per recipient: queued and in-flight | enqueue, drain (claim), settle, restore | Redis command connection |
| Presence bus, `presence-bus.ts` | `tracked` set per process, Redis subscriptions | track, untrack, publish, callback | Redis subscriber and command connections |
| TTL cache, `ttl-cache.ts` | values with expiry, computations in flight | get, set, resolve, forget, clear | contest service, stats |
| Prekeys, `prekey-repository.ts`, `prekey-store.ts`, `message-crypto.ts`, `packages/crypto` | public halves in PostgreSQL, private halves in IndexedDB | renew, publish, claim, encrypt, open, spend | web client |
| Contest tables, `contest/repository.ts` | contests, participants, events, point ledger, reviews, winners | one statement or transaction each | contest engine |
| Contest engine, `contest/service.ts`, `scoring.ts`, `lifecycle.ts`, `admin-routes.ts` | a bounded job queue per process; everything else in the tables | ingest, claim and score, hold, release, reverse, disqualify, freeze, reconcile | tables, leaderboard, TTL cache |
| Contest risk, finalization and winners, `risk.ts`, `lifecycle.ts`, `repository.ts` | risk events and scores, final scores and ranks, winners | record, sum, resolve; rank, stage, review, pay | contest engine |
| Contest leaderboard, `contest/leaderboard.ts` | a sorted set in Redis | publish, remove, rebuild, read | contest engine |
| Monetization, `monetization-*.ts` | subscriptions, entry payments, seen Stripe events | webhook, join a paid contest, settle | Stripe, contest tables |
| Whispers, `whisper-*.ts` | echoes, reflections, likes, follows, ripples, notifications | look up, write, notify; delete | contest engine |
| Feed on a screen, `lib/whispers.ts`, `Dashboard.tsx` | the posts shown, the last entity tag | act first and tell the relay after, poll | whispers |
| Status posts, `status-*.ts`, `Dashboard.tsx`, `helpers.ts` | rows with sealed keys, the viewers' records | publish, delete, poll, expire | relay server |
| Attachments, `ChatPanel.tsx`, `media-upload.ts`, `upload-routes.ts`, `media-store.ts` | the composer's draft, objects and their sidecars | draft, upload, send, forward, download, expire | object store |
| Web socket store, `useSocketStore.ts` | the socket, inbound buffers, a reconnect timer | connect, disconnect, events, send | relay server |
| Messages on the pages, `Dashboard.tsx`, `helpers.ts` | message records in IndexedDB | compose, encrypt, flush, retry, receipts, delete; store what arrives | socket store |
| Groups, `group-membership.ts`, `message-crypto.ts`, `helpers.ts` | key epochs and member lists per device | send, flush, reset, join by link, persist | socket store |
| Local database, `local-database.ts`, `LocalDataRecovery.tsx` | IndexedDB at one of three versions, connections of several tabs | open, convert, retry, rescue, delete, reopen | |
| Chat panel, `ChatPanel.tsx`, `Dashboard.tsx` | the chat selected, its list and preferences, the composer, a dialog, a recorder | select, reply, edit, react, pin, ask and confirm, record, poll | database, socket store |
| Calls, `useCallStore.ts`, `webrtc.ts`, `Dashboard.tsx` | the call shown, media sessions, a ring timer | place, answer, end, signals, failures | relay server |

`PROJECT.json` lists every component with its sources, the unmodelled ones too.

### How they interact

* *Live delivery.* A handler in `server.ts` writes to the recipient's local
  sockets, then awaits `bus.publish`. Redis pushes the envelope to every
  instance subscribed to the recipient's channel and replies how many there
  were. If nobody was reached the handler awaits `queue.enqueue`, and last it
  sends the sender a receipt. Every `await` is a point where sockets open,
  register, drain and close.
* *Replay.* Registering a socket tracks its identity on the bus (`SUBSCRIBE`),
  then `drainQueuedMessages` claims the recipient's queue (one Lua script parks
  it in the in-flight list), writes to the socket, and settles (deletes the
  in-flight list) or restores (puts the rest back).
* *From page to page.* A message is a record in the sender's database before it is
  encrypted; it leaves by the handler that made it, by the flush after a
  reconnection, or by a retry, three tasks whose awaits interleave. On arrival it
  waits in a buffer of the socket store until an effect checks for it, stores it
  and sends a receipt; a page reload empties the buffer.
* *Keys.* A direct message takes a one-time prekey from the relay's table, which
  its owner filled; the owner's device opens the message and spends the key. A
  group message names the key epoch its device holds, and whoever reads it may
  learn from it a newer key and member list.
* *Scoring.* A product route emits a job into its process's bounded queue; the
  drain loop inserts a `PENDING` row under an idempotency key and calls
  `scoreEvent`, one transaction that locks the row (`SKIP LOCKED`), locks the
  earner, decides, and writes verdict and ledger. The sweeper, `reconcile` and
  `releaseHeldEvents` call `scoreEvent` too. `reverseEvent` runs when an
  interaction is undone, content is deleted, or a participant is disqualified.
  After the commit the standing is published to the leaderboard and caches are
  forgotten.
* *Lifecycle.* The contest moves ACTIVE → FROZEN → UNDER_REVIEW → FINALIZED (or
  CANCELLED): frozen by the sweeper at its deadline or by an admin, reviewed by
  `reconcile`, finalised by an admin while scoring, reversals and reviews may still
  hold rows.
* *Money.* Stripe delivers each event until it is answered with 200, to any
  instance; the handler claims the event in one statement and applies it in others.
* *Screens.* The feed is changed on screen before the relay knows, and replaced by
  polls whose answer may be "unchanged since the last one".

### What is hard, and what makes each part correct

* *Offline queue*: crashes and Redis failures between claim and settle, two devices
  replaying at once. Correct when nothing queued is destroyed before it is written
  or expires, order is oldest first, and a recipient that returns gets everything.
* *Bus and routing*: the verdict "offline everywhere" rests on a local look
  before an `await` and a subscription count after it. Correct when an
  acknowledged copy is somewhere safe, subscriptions follow sockets, nothing is
  written twice to a socket, and every sender learns an outcome.
* *Contest tables and engine*: four callers score one row; two locks are taken in
  opposite orders; caches are stale; jobs are lost. Correct when a `VALID` row is
  credited exactly once, the cached score equals the ledger, caps hold, a
  disqualified participant keeps nothing, lost interactions are recovered, and
  nothing stays `PENDING`.
* *Risk and finalization*: three callers recompute one sum, one of them under a lock;
  ranks are computed while others wait for the same rows. Correct when the score is
  the sum, and final standings are those of the ledger at the commit.
* *Leaderboard, TTL cache*: a value read before a write and stored after it.
* *Monetization*: retried, reordered and interrupted webhooks. Correct when the
  tables say what Stripe said, no event is acknowledged and forgotten, and no payment
  ends a disqualification.
* *Prekeys*: overlapping claims, failed publications, pages closed between opening a
  message and storing it. Correct when a one-time key goes to one sender, its owner
  can open what was sent under it, and nothing can once it is stored.
* *Client messaging*: overlapping tasks and effects around one record. Correct when
  only ciphertexts leave, what is shown as queued leaves, what arrives is stored,
  receipts are true and deletions hold.
* *Groups*: messages under older and newer keys in any order, while runs overlap.
  Correct when the removed stay out and the others go on reading.
* *Local database*: an upgrade that cannot be cancelled, other tabs and an old page in
  its way, a rescue before a deletion. Correct when neither rows nor identity are lost.
* *Calls*: microphone prompts and awaits between signals, timers and buttons. Correct
  when nobody talks alone and a call that is over leaves no microphone on.
* *Chat panel*: one panel serves every chat, and alerts change the chat above open
  dialogs, running recordings and loads. Correct when each chat gets what was meant for
  it and nothing of another one.
* *Whispers, feed, statuses, attachments*: look-ups that precede writes, screens ahead
  of the relay, deletions that race copies, two-part uploads.

## Modules and code

| Module | Models | Extends / uses |
|---|---|---|
| `RelayTypes` | the parties: identities, envelopes, instances, sockets | |
| `OfflineQueue` | the Redis commands and Lua scripts of `queue.ts` | `RelayTypes` |
| `QueueReplay` | `drainQueuedMessages` on any number of sockets and instances, with failures | `OfflineQueue`; implements `Mailbox` |
| `Mailbox` | abstract: what the offline queue promises | |
| `PresenceBus` | `presence-bus.ts`: `tracked`, subscriptions, the two connections | `RelayTypes` |
| `RelayDelivery` | sessions and routing of `server.ts`, composed with replay and bus | `QueueReplay`, `PresenceBus` |
| `ContestStore` | the contest tables and the statements run on them | |
| `ContestEngine` | jobs, drain loop, sweeper, scoring, reversal, admin routes | `ContestStore` |
| `ContestDesk` | a contest from its creation to its end: edits, rule versions, lifecycle, audit trail, entry | |
| `Scoring` | what an interaction is worth: limits, risk signals, challenges | |
| `Awards` | risk scores, finalization, winners | |
| `Leaderboard` | the sorted set beside the scores | |
| `TtlCache` | the in-process cache as its users drive it | |
| `Payments` | webhook, subscriptions, contest entry fees | |
| `Prekeys` | relay tables, owner's device, senders, messages | |
| `SocketClient` | the socket store | |
| `Wire` | what both pages see of the relay | |
| `Outbox` | direct messages on the sender's page | `SocketClient`, `Wire` |
| `Inbox` | messages and deletions on the recipient's page | `Wire` |
| `GroupKeys` | epochs and member lists on all devices of a group | |
| `LocalDatabase` | the IndexedDB database and its tabs | |
| `Calls` | one-to-one calls at both ends | |
| `FeedTypes` | the posts of the feed | |
| `Whispers` | requests that interleave on the feed's tables | `FeedTypes` |
| `FeedTables` | a feed repository call by call, as PostgreSQL answers | `FeedTypes` |
| `FeedMemory` | the repository of Maps a relay without a database uses | `FeedTypes`; implements `FeedTables` |
| `FeedClient` | the feed on a screen and the entity tags of its polls | |
| `Statuses` | a status on its two ways to a contact | |
| `Attachments` | composer, uploads, object store, forwarding | |
| `ChatScreen` | the panel that serves every chat, and what outlives a selection | |
| `MCQueueReplay`, `MCRelayDelivery`, `MCContestEngine` | instances of one specification | |
| `MCMessaging` | `Outbox` and `Inbox` composed over `Wire` | |
| `MCServices`, `MCClients` | instances of the parts that share no state: of the relay's services; of the pages and the feed | |
| `RelayDeliveryProofs` | theorems about `QueueReplay` and `RelayDelivery` | |
| `ContestEngineProofs`, `ContestDeskProofs` | theorems about the module of that name | |
| `WhispersProofs` | theorems about `Whispers` and `FeedClient` | |
| `ServicesProofs` | theorems about `Payments`, `Awards`, `Leaderboard`, `TtlCache`, `Scoring` | |
| `ClientProofs` | theorems about `Prekeys`, `Outbox` (with its `SocketClient`), `Inbox`, `Statuses`, `GroupKeys`, `Attachments`, `ChatScreen` | |
| `DeviceProofs` | theorems about `Calls` and `LocalDatabase` | |
| `FiniteSums` | lemmas about sums over finite sets | |

**Granularity.** In the relay an action is what the Node event loop runs between
two awaits, or one Redis command. In the contest engine it is what a task does
between two awaits, one SQL statement, or one transaction; `scoreEvent` and
`reverseEvent` are split where they wait for a row lock. On a page an action is one
handler or effect up to its next await; a promise that settles is an action of its
own.

**History variables** (`log`, `written`, `taken`, `applied`, ... named as such where
they are declared) are read by properties only. Some of them mark where the code
leaves a window open: `interrupted`, `late`, `overlapped`, `raced`, `disturbed`,
`crossed`, `muddled`, `mistaken` and the like hold what fell into it, and the
property then says that the window is the *only* way to go wrong. Each is listed
under [divergences](#divergences-found).

### OfflineQueue and QueueReplay

`queue[r]` and `inflight[r]` are the lists `relay_queue:<r>` and
`relay_queue_inflight:<r>`; `ClaimScript`, `RestoreScript`, `SettleDel` and
`PushEnvelope` are the two Lua scripts, the `DEL` and the `MULTI`. `pc[s]` is
where the `drainQueuedMessages` call of socket `s` is: claim sent (`Claim`), reply
on its way (`Replay` is the whole write loop and the choice between settle and
restore), second command sent (`Settle`, `Restore`). `ClaimFails` and
`SettleOrRestoreFails` are rejected commands, `Drop` a lost connection, `Crash`
a dead process, `Expire` a list's TTL.

`MemoryRelayQueue` performs the same list operations without awaits between them,
so its behaviours are among those of the Redis queue without failures.

`Mailbox` says what a recipient is promised: accepted envelopes are *owed* until
handed over, and only what was handed over or has outlived its TTL is forgotten.
`DurableSpec` maps `owed` to the union of the two Redis lists, so it says that
Redis alone, whatever crashes, keeps the obligations.

### PresenceBus and RelayDelivery

`tracked` is the bus's set and `subs` Redis's subscriptions; `pipe[i]` is the
subscriber connection, a FIFO; `PUBLISH` is on the command connection and may
overtake it. `inbox[i]` holds pushes whose callback has not run. `session[s]`
says in which of the server's maps a socket is. `route[e][r]` follows the routing
call of one copy: `Route` is a handler up to its first await (all recipients of a
group message at once), `RunPublish` Redis, `Judge` the code after the reply with
its own-subscription discount, `EnqueueOffline` the `RPUSH`, `SendReceipt` the
handler's last step. `Open`, `Register`, `RefuseHandshake`, `Lose` and `Teardown`
are the session handlers; `RunSubscriber` continues the register call that waited
for its `SUBSCRIBE`, also if its socket has closed meanwhile.

### ContestStore and ContestEngine

An element of `Event` is a real-world interaction; its idempotency key is a
function of it, so it also names its row. `row`, `points`, `ledger`, `score` and
`standing` are `qualification_status`, `points_awarded`, `contest_score_ledger`,
`current_score` and `eligibility_status`. `appendLedger` includes the unique index
that makes a second entry of one direction a no-op, and the clamp at zero.

A *worker* is one relay's drain loop or one admin request. `work[w]` is its task:
`todo` the events it works through, `due` the one it scores next, `seen` the
contest status it loaded, `snap` the points in the event records it loaded.
`tx[w]` is its open transaction and row locks follow from it (`RowFree`,
`EarnerFree`). `Claim`, `Decide`, `Settle` are `scoreEvent`; `Debit`, `Reverse`
are `reverseEvent`; `TakeJob` is the drain loop, `processSweep` the sweeper, the
rest are admin routes and the loops they start. `Deadlock` is PostgreSQL
aborting one of two transactions that wait for each other's row.

`seen` and `snap` are where the code acts on records read earlier; `ListedActive`
and `Member` are caches that may answer with an old value.

### Awards

`job[j]` is one open transaction: a score, a reversal or a disqualification holds the
participant's row from its beginning (`LockEarner`, `Review`), the cluster sweep
(`Flag`) and a reviewer's clearing of flags (`Clear`) take it when they write the risk
score (`CommitFlag`). `adds` are the uncommitted risk events, `clears` the resolved
ones, `sum` what will be written; `late` notes that somebody committed in between. `ranking` is `finalizeContest`: it locks the
contest, ranks what is committed, waits for participants' rows, and writes scores,
ranks and winners. `contest_winners` is then reviewed and paid.

### ContestDesk

`contest`, `versions`, `entrants` and `trail` are the rows of `contests`,
`contest_rule_versions`, `contest_participants` and of the status moves in
`contest_admin_audit`. `errand[e]` is a request between its look at the contest and its
writes: `update`, `finalizeContest`, `join` in its three statements, `reconcile` with the
record it loads. `dueMove` is what the sweep found due and has not moved yet, `cached`
the list of active contests an instance keeps, whose record names window and rule version
for whoever scores by it. `covered` is the window the last reconciliation replayed,
`frozenAt` when the contest was last frozen. `slips` notes what fell between such a look and its write.

### Scoring

`rows` are the recorded interactions with their verdicts, `flags` the risk events, `due`
the challenges a scoring transaction returned. Each query of the transaction is a set of
rows (`Pair`, `Acted`, `Since`, ...); `assessEventRisk`, `applyCaps` and `Verdict` are
the functions of those names and the body of `scoreEvent`. Interactions are recorded and
scored in any order, because jobs are lost and replayed and held ones released.

### Leaderboard and TtlCache

In `Leaderboard` a `writer` settles a score in Postgres, reads the standing and
publishes it, three steps; `removal` is a disqualification; `rebuilding[i]` reads
all scores, stages them under keys all instances share, and renames. In `TtlCache`,
`resolve` starts a computation that callers share (`inFlight`), `Query` is its read,
`Settle` its store with the eviction of the oldest entry; a write changes `truth` and
is followed by `forget`. `overtaken` are the computations whose answer was no longer
true when their key was forgotten, `stale` the keys one of them has stored since.

### Payments

`call[i]` is one webhook request: `claimStripeEvent` (insert or do nothing, committed
by itself), then `ensureUser` and `upsertSubscription`, or `settleEntryPayment`, then
the answer. `Join`, `createEntryPayment` and `CutJoin` are the paid entry and its
interruption between Stripe and the table; `disqualifyParticipant` and
`reinstateParticipant` move the same participant, and `banned` is who was disqualified
and not reinstated since.

### Prekeys

A signed prekey is named by the day it was minted, a one-time prekey by the order of
minting. `Renew`, `TopUp`, `publish` and `FailRefresh` are
`ensurePrekeysPublished`; `ClaimKey` takes the row lock of a claim (`SKIP LOCKED`),
`claimBundle` commits it. `decryptWithPrekeys`, `consumePrekeys` and `PutMessage` are
how a run stores a message; `ClosePage` falls between any two of them.

### SocketClient, Outbox, Wire, Inbox

A socket is named by the order of creation: its listeners outlive its place in the
store, so a late `close` event meets a newer socket. `ReportError` is a message that
cannot be read or the relay's `error` envelope: the status changes, the socket stays
open and registered, and no `connected` follows (`useSocketStore.ts:220`, `226`,
`343-346`). `Noticed` in `Outbox` is the
effect that asks for a flush when the connection is announced. `task[m]` is the
handler that awaits something about message `m` (`Encrypted`, `Save`), `flush` the
loop of `flushQueue` (`FlushOne` sends one, `FlushSave` writes its status), `Receipt`
and `SaveReceipt` the get-then-update of a status. `Wire` is the relay as the set of
messages and deletions it accepted: what it does with them is `RelayDelivery`, whose
`AcknowledgedIsSafe` is what `Inbox!Arrive` assumes. In `Inbox`, `run[r]` is one run
of the effect with its batch: `Check` (is it in the database, does it open), `Put`,
`Finish` (mark as processed and send receipts); `ReloadPage` ends it all.

### GroupKeys

One group on all its devices. `chat[d]` is the group record, `filed[d]` the table of
keys by epoch. `SendMessage` seals for the members of now, or stores the ciphertext in
`unsent` for `FlushUnsent`; `rotateGroupKeyForChat` is the owner's removal or rotation;
`copyGroupInvite` makes a link that carries the current key, `upsertGroupFromInvite`
follows it. A message carries the epoch it names, the key it is under, its writer and
the member list it was sealed for. A link carries the member list of whoever copied it;
`outdated` (history) marks one made from a list that a message had kept old. `Judge` is what a run of
`persistIncomingGroupMessages` decides (`keysToTry`, `judgeGroupMessage`), `Persist`
what it writes afterwards.

### LocalDatabase

IndexedDB's requests are a FIFO; an upgrade or deletion waits for every connection to
close. `main[t]` is startup or recovery in tab `t`, `repair[t][n]` the conversion of
attempt `n`, which may outlive its timeout. `page` is a page of the old build,
which can save rows, freeze, or close. `requests` is IndexedDB's queue; an open that
Dexie has given up is taken out of it (`TakenBack`).
`forfeited` and `mislaid` (history) mark the ways in which a repair gives the identity up.

### Calls

`onScreen[p]` is the store's call, `live[p]` the sessions whose microphone is on,
`pending[p]` what is awaited: the microphone (`dial`, `accept`), `calls.put`, or a
description (`Outstanding` are those that will still be taken). Signals to a person are a
FIFO. `muddled` holds the calls some step of
which met another call, because handlers do not compare call ids.

### FeedTables and FeedMemory

The repository of the feed exists twice: over PostgreSQL, and over Maps for a relay
without a database, which is also the one the relay's tests run on. `FeedTables` is the
first: a call changes the tables and leaves what it returned in `reply`, and each query
is a view of the tables. `FeedMemory` is the second, with the Maps and Sets it keeps.
`AnswersAlike` is stronger than a refinement that allows any call for any other:
`SameCall` says that a step of the Maps is *the same call with the same arguments* on
the tables, with the same result, and `ViewsAgree` that every query of either is
answered alike afterwards. Lists are compared as sets, cut where the limit cuts them:
the order is that of the stamps, and posts of one millisecond come in no order from the
tables (`FeedOrderAssumption`).

### Whispers, FeedClient, Statuses, Attachments

`Whispers`: a request looks its target up, writes and notifies, three statements;
`deleteEcho` and `deleteReflection` are one transaction each. `FeedClient`: a
poll is asked, answered (`listFeed` and its entity tag), its headers read and its body
applied; `writes` are the viewer's requests, whose effect is on screen already. Posts are
numbered by their authors' clocks, so a new one need not be the newest.
`Statuses`: a status goes as a sealed copy per contact (`letters`) and as a row the
contacts poll (`served`, `pageOf`); `deleteStatus` sends a tombstone and a request.
`Attachments`: `attachFile` uploads the blob, then its sidecar, then sends the message
with the chat of the call, while the composer keeps one draft for all chats;
`serves` is the download route's authorization.

### ChatScreen

`selectedChatId` changes by the list, a search or a link (`openFromList`), or by an alert
or a notification, which stand above an open `dialog` (`openChatByChatId`). Each
selection starts loads of messages and preferences (`listReads`, `prefReads`), whose
answers count only if the chat is still selected (`stillSelected`); what is read back
after a change of a setting counts always (`settingAnswer`). `onView` are the
bubbles in the panel, `messageText` is the chat the text was typed in, `wording[b]` whose
text an own message has. `take[r]` is a voice note or poll with the chat and quote of the
call, through microphone, reader and encryption. `said` is what a step told others.

## Runs

| Run | Expect | Question |
|---|---|---|
| `replay_solo` | pass | With one replay per recipient at a time, do the two lists keep every obligation in order through any three failures, and implement `Mailbox`? |
| `replay_concurrent_crash` | violation | Does that hold for two overlapping replays and a crash? |
| `delivery` | pass | Is an acknowledged copy safe, do subscriptions follow sockets, is nothing written twice? |
| `delivery_failures` | pass | With crashes and Redis failures, is no identity tracked without a subscription, and does every sender get an answer? |
| `hollow_delivery` | violation | Does "delivered" mean a socket was written to? |
| `stranded` | violation | Does an envelope wait in the queue only for an offline recipient? |
| `messaging` | pass | Does a message get from the sender's page over a failing connection to the recipient's database, as a ciphertext only, and are receipts true? |
| `services` | pass | The safety properties of the relay's services that share no state |
| `clients` | pass | The same of the pages' parts and of the feed |
| `relabelled` | violation | Does a group message name the epoch of the key it is under? |
| `contest` | pass | All safety properties of the contest engine, and that nothing stays `PENDING` |
| `late_score` | violation | Does a cancelled contest score nothing? |

**Properties.**

* Offline queue (`replay_solo`): `NothingDestroyed`, `OldestFirst`, `DurableSpec` (the
  refinement of `Mailbox`), `ReplayedIfReturning`.
* Routing (`delivery`, `delivery_failures`): `AcknowledgedIsSafe` — once a sender has a
  receipt, every copy was written, is queued, in a running replay or in an inbox,
  except copies only a subscription without an open socket took (that exception is
  what `hollow_delivery` shows). It is checked with lost sockets as the only
  failures: an accepted loss of Redis data or of a process holding an inbox would
  break it trivially. `PresenceFollowsSockets` holds while Redis answers; `NoPhantom`
  is what is left when it does not. `WrittenOnce`: no socket gets an echo.
  `AcknowledgedEventually`: every routed envelope gets its receipt.
* Pages (`messaging`): `OnlySealedIsSent`; `StaysConnected`, `QueuedIsRelayed` and
  `RelayedIsStored` are liveness. `QueuedIsRelayed` excepts by name a flush that ran too
  early or began too late, and a connection that stays open and in error (`Muted`).
* Contest engine (`contest`): `ValidIsCredited`, `ScoreMatchesLedger`,
  `ParticipantCapsHold`, `DisqualifiedHoldNothing`, `ReconciliationRecovers`,
  `PendingIsSettled`.
* `services`, `clients`, one or two for each part:

| Part | Module | Properties |
|---|---|---|
| `billing`, `entry` | `Payments` | `TablesMatchStripe`, `AckedIsHandled` |
| `prekeys` | `Prekeys` | `OneTimeOnce`, `SpentIsStored` |
| `link` | `SocketClient` | `QuietAfterDisconnect` |
| `recipient` | `Inbox` | `InboxHolds` (of `DeletionHolds` and `ReceiptIsStored`) |
| `threads`, `ripples`, `follows` | `Whispers` | `FeedHoldsTogether` (of `DeletedLeavesNothing` and `NoticeMatchesMark`) |
| `posts`, `people`, `notices` | `FeedMemory` | `AnswersAlike` |
| `board` | `Leaderboard` | `BoardIsCurrent` |
| `cache` | `TtlCache` | `ForgottenIsFresh` |
| `group` | `GroupKeys` | `KeysFollowMembers` |
| `database` | `LocalDatabase` | `DataSurvives` |
| `call` | `Calls` | `CallEndsCleanly` (of `NobodyTalksAlone` and two more) |
| `screen` | `FeedClient` | `UnchangedIsCurrent` |
| `status` | `Statuses` | `DeletedStatusIsGone` |
| `awards` | `Awards` | `RiskIsCurrent`, `FinalIsDefensible` |
| `scoring` | `Scoring` | `LimitsHold` (points of a pair, of a day, gaps, one's own posts) |
| `desk`, `doors` | `ContestDesk` | `ContestKeepsItsWord` (of `TrailTellsTheWay`, `ClosedIsClosed`, `FinalIsComplete`, `PlacesSuffice`, `ScoredAsWritten`, `PrizeAsAnnounced`) |
| `quotes`, `edits`, `sheets`, `clips` | `ChatScreen` | `ChatsStayApart` (of `SaysWhatBelongs`, `KeysStayInside`, `EditsBelong`, and whom typing is shown to) |
| `files` | `Attachments` | `AttachmentsHold` (of `AttachmentOpens` and `SentOnce`) |

`Init` chooses the part, and only that part's variables move: the run is the
disjoint union of the parts' state spaces, and an invariant of one says nothing new
about the others.

**Bounds, and why they are enough.**

* `replay_solo`: one recipient (recipients share no state), three envelopes (the
  fewest for which a restored one, a leftover and a newly queued one can be out
  of order), two sockets on two instances (a replay continued elsewhere), three
  failures of all four kinds (a failed replay, the failure of the one that
  recovers it, and one more). The proofs remove these bounds.
* `delivery`: three sockets of one recipient, two on one instance and one on
  another — the smallest arrangement with both a last and a not-last teardown
  and a remote instance — and a second recipient that never connects, so that a
  group message has one copy of each kind; two lost sockets, and any number of
  reconnections. The two sockets on one instance are interchangeable, hence the
  symmetry; the run has no liveness property.
* `delivery_failures`: one instance and two sockets with a limit of one (so that
  a device is refused), a message and a call signal (the two receipt rules), two
  failures.
* `messaging`: one message, three sockets, one failure of the connection, one retry, one
  run of the effect, any number of errors reported on an open socket. Messages are
  independent records; what they share is the flush and the connection, and the second
  socket is the one the flush runs on. Instead of the failure and the message, the
  application may be closed and opened again (`OpenedAgain`), which is what it takes for
  the close event of a replaced socket to meet its successor; four
  sockets and two failures over two mounts are in `clients`, for safety. Overlapping runs
  and reloads of the recipient's page are there too.
* `contest`: one participant with two interactions of three points against caps
  of two, so that every award is cut by a cap and the second one is at the daily
  limit; one relay and one admin request; one undo or deletion, one admin request,
  one failure. Each hazard of the list is a race of at most three workers over one
  row, and the relay's loop, an admin request and a rolled-back transaction are
  such a set.
* `late_score` allows two requests and no failure.
* `services`, `clients`: of everything that races there are two — requests, senders, runs, tabs,
  persons, transactions — and one failure; interchangeable ones are identified by
  symmetry (the run has no liveness property). By part:
  * `Payments`: two overlapping requests and one failure; a subscription's two events
    in both orders, or two sessions of one payer, one paid. `billing` and `entry` are
    apart because an event is about one or the other.
  * `Prekeys`: two senders, two runs, one batch of two keys of which the relay keeps
    one, two days; lifetimes and retention of zero days, so that everything expires on
    the second. A failure on the second day only with one message about. The proofs
    remove these bounds.
  * `SocketClient`: four sockets, two failures, two mounts.
  * `Inbox`: two messages, one of them unreadable, two runs, two deliveries of each,
    one reload.
  * `Whispers`: two users, an echo, a reply to it and a reply to that; likes of the
    reply, or a ripple, or likes of the echo and follows, two requests at once, one
    aborted.
  * `FeedMemory`: two users, two echoes, two reflections in one thread, one choice of
    mentions and marks, and previews of one reflection instead of two, so that each
    limit cuts something off; two times, before and after everything; two
    notifications. `posts`, `people` and `notices` are three slices of the calls,
    because no query reads tables of two slices but through the calls both contain.
  * `Leaderboard`: two participants, two instances, one lost command or expiry; an
    instance does not publish while it rebuilds, as another one does.
  * `TtlCache`: room for one of two keys, two computations, two writes.
  * `GroupKeys`: three devices, one reset, and three messages, or two and one link, or
    two whose runs overlap on one device. (`KeysFollowMembersHolds` is without bounds.)
  * `LocalDatabase`: two tabs and the old page, one row, three attempts in all, one
    deletion. (With two deletions and five attempts the identity can be lost, as
    `mislaid` says; the proof has no bounds.)
  * `Calls`: two persons, two calls (the second meets the first in every order), one
    lost signal.
  * `FeedClient`: two posts, of which one is the viewer's, pages of one post (so that
    each answer leaves something out), two polls, two acts of the viewer, one of them
    with a missed request.
  * `Statuses`: one status, two contacts (one who is removed and one who stays), one
    missed request.
  * `Awards`: two participants, one winner, two transactions besides the finalization,
    three in all, two risk events.
  * `Scoring`: six interactions between two people, of three kinds that count for one
    earner, at four times of a day of three units; every limit, signal and challenge of
    the small rules is reached by some of them; one undoing, review or release.
  * `ContestDesk`: a contest of one instant, then perhaps two, with one place, then
    perhaps two; two requests at once, three in all (an edit, a reconciliation and a
    finalization meet in every order), at the doors four; two interactions, two visitors;
    edits of either end of the window, of the places, the prize and the rules.
    `desk` and `doors` are apart because who enters scores nothing here.
  * `Attachments`: a group and two peers, two drafts, two calls, one forward, one failure.

  * `ChatScreen`: a direct chat and two groups, one of them the person's own, three
    selections (there, elsewhere and back), two clips. `quotes` has replies, reactions and
    settings, `edits` the composer, `sheets` the dialogs, `clips` recordings and polls in
    the two groups with two selections: a dialog covers the composer, and a recording
    takes the place of the text, so that what is apart does not meet but through the
    selection, the lists and preferences, which all four contain.

Deadlock checking is off in all runs in which the system may stop: every client may
be connected with nothing left to send, the contest may be over, a part may have
used up what its bounds allow. `replay_solo` and `replay_concurrent_crash` check it.

Every property has in `PROJECT.json` a *mutant*: an operator with a plausible bug,
defined beside the original, that violates it. The older modules mark them with
`Mutant` in the comment, the others name them `Original_WhatIsWrong`.

## Fairness

* `QueueReplay!FairSpec`: weak fairness on each drain under way. Redis answers and
  the event loop turns. No fairness on clients; `ReplayedIfReturning` *assumes* a
  client that claims again and again.
* `FairDeliverySpec`: weak fairness on replay, teardown, the subscriber pipe,
  callbacks, routing and receipts. A `close` event always fires in Node, a
  callback always runs. None on clients or failures.
* `ContestEngine!FairSpec`: weak fairness on what a worker has begun, on its next
  job, and on a sweep of orphaned rows (`service.ts:75-110` queues a sweep every minute; while
  the contest is active it lists those rows). None on product routes, admin requests, the deadline or
  failures.
* `MessagingSpec`: weak fairness on a socket's events, the reconnect timer, the effects
  that are due, promises that settle, and the first delivery of what the relay has
  accepted. Browsers run timers and effects, IndexedDB answers, and that a message is
  delivered is `RelayDelivery`'s matter. None on what people do, on failures, on second
  deliveries. Properties that need the user to stay say so (`mounted`).
* The other specifications state no fairness: their properties are invariants.

## Proofs

TLAPS checks the proof modules without gaps. The theorems hold for any values of the
constants that satisfy the named assumptions of the modules (`PartiesAssumption`,
`ReplayAssumption`, `DeliveryAssumption`, `StoreAssumption`, `EngineAssumption`,
`PaymentsAssumption`, `DeskAssumption`, `AwardsAssumption`, `LeaderboardAssumption`,
`TtlCacheAssumption`, `RulesAssumption`, `PrekeysAssumption`, `SocketAssumption`,
`OutboxAssumption`, `InboxAssumption`, `StatusesAssumption`, `GroupAssumption`,
`AttachmentsAssumption`, `PostsAssumption`, `WhispersAssumption`, `RoomsAssumption`,
`FeedClientAssumption`, `CallsAssumption`, `LocalDatabaseAssumption`), which TLC
evaluates in the runs. Most state types. The others follow the code: relays and admin requests are
different workers; an envelope has a recipient (`Recipients`; `.min(1)` at
`packages/types/src/index.ts:140`); a contest row and its edits have the numbers their
schemas ask for (`DeskAssumption`; `packages/types/src/contest.ts:313-329`); limits and
points are natural numbers and self-authored interactions are their earner's own
(`RulesAssumption`; `packages/types/src/contest.ts:118-190`, `whisper-routes.ts:166`,
`275`, `568`, `service.ts:303`); an echo and a reflection share no identifier, both
being random UUIDs (`PostsAssumption`; `Dashboard.tsx:2973`, `:3036`); a clip is no
message of a list and a group's members are people of some group (`RoomsAssumption`); a
post's time is above zero, which stands for no bound (`FeedClientAssumption`; `before` at
`Dashboard.tsx:3136`); "no call" is none (`CallsAssumption`); `Awards` has
finitely many participants, since ranks count them.

Every invariant below was an invariant of a TLC run before it was proved. Each paragraph
says why the property is not inductive and what carries it.

### Offline queue (`RelayDeliveryProofs`)

* `TypeCorrect`: `Spec => []TypeOK`.
* `SoloInvariant`: `Solo => (Spec => []SoloInv)`. `NothingDestroyed` alone is not
  inductive: settling deletes the in-flight list, and only `Parked` knows that
  all of it was written. `Parked` needs `OneReplay`, because it relates one
  socket's batch to a list all the recipient's sockets share; that is precisely
  what breaks in `replay_concurrent_crash`.
* `SoloNothingDestroyed` follows; `ReplayImplementsMailbox` is the refinement:
  each action is a step of `Mailbox` or a stutter under `SoloInv` (a write is
  `HandOver`, a settle or restore is `Forget`, an expiry is `Lapse`).
* `ConcurrentNothingDestroyed`: with any number of overlapping replays nothing is
  destroyed if no process crashes and no Redis command fails, because what is not
  in the queue is in some replay's memory (`ConcurrentInv`). Together with the
  violation run this says exactly which combination is needed for a loss.
* `SoloOldestFirst`: what a recipient can claim is in the order it was queued. Two
  lists are one order only together (`Ordered`: in-flight, then queue, is a part of the
  log in the log's order), and a restore puts a batch at the head of the queue, which
  keeps the order because the batch is the end of the in-flight list (`PutsBack`). The
  lemmas `OrderCut` and `OrderAppend` say which changes of a list keep its order.

### Routing (`RelayDeliveryProofs`)

* `DeliveryTypeCorrect`: the actions of `QueueReplay` keep their types by the lemmas above.
* `NoPhantomHolds`, and `PresenceFollows` while Redis answers. Neither property is
  inductive: both speak of instances whose commands have all run. What carries them is
  what Redis will have heard of an identity once it ran them: `Heard`, the newest
  command about it in the connection is a SUBSCRIBE, or there is none and it is
  subscribed; `Unheard`, the newest one is an UNSUBSCRIBE, or there is none and it is
  not. Tracked implies `Heard` also when Redis rejects a SUBSCRIBE, because the rejection
  untracks; not tracked implies `Unheard` only when it rejects none.
* `WrittenOnceHolds`, with crashes and Redis failures (`OnceInv`): a copy is written by its
  own instance before it is published (`LiveIsRouted`), is pushed to the others by the
  one `PUBLISH` (`PushedIsPublished`), and is in an inbox once (`NoneTwice`).
* `AcknowledgedHolds`, if no process crashes and no Redis command fails (either would lose
  what only one of them holds). `CopyInv` follows a copy: written here, pushed there,
  taken by a subscription without a socket, or in the log of what was queued; `AckInv`
  has the receipt come after every copy was judged. What was queued then stays safe by
  `ConcurrentInv`, which this composition keeps although a register call waits for Redis:
  that call starts a socket's replay only once (`CallInv`).

### Contest engine (`ContestEngineProofs`)

* `ValidIsCreditedHolds`, `DisqualifiedHoldNothingHolds`, from one inductive
  invariant `IInv`: `Shape` (types), `WorkerOK` for each worker, and the two
  properties. `WorkerOK` says what a worker's open work guarantees: a scoring
  transaction owns a `PENDING` row no other one scores; it has decided `VALID`
  only for a participant who is still eligible (the earner's row is locked, so a
  disqualification waits); an admin request reverses only rows that were `VALID`
  when listed. Without the first, two transactions could credit one row; without
  the second, a disqualification between decision and commit would miss it.
* Three lemmas carry the steps: `LocalStep` (one worker, no table), `RowStep` (a
  worker writes the one row it owns), `QuietStep` (none of it). Each action has its
  own lemma, which says which of the three it is.
* `ScoreMatchesLedgerHolds` (`BooksInv`): an account is its credits less its debits, and
  (`Balanced`) what its debits have left of its credits covers the rows that can still be
  debited, so that the clamp at zero in `appendLedger` never cuts anything off. A
  reversal debits the points of the record it loaded earlier, hence `Snapped`.
* `ParticipantCapsHoldAlways` (`CapsInv`): what a transaction has decided to award still
  fits when it commits (`Room`), because it holds its earner's row and no other
  transaction holds that (`OneLock`).
* `RecoversUnlessRefrozen`: `ReconciliationRecovers` in every behaviour in which no
  contest under review is frozen again while some request replays (`RefreezeWaits`), and
  `ReconciliationRecoversHolds` without that condition if there is one admin request at a
  time. `Recovering` says what a replay still has to come to. The condition is needed:
  with two requests TLC reaches a review that a replay from before the re-freeze began
  (see the divergences).

### Contest desk (`ContestDeskProofs`)

`ContestKeepsItsWordHolds`, from `DeskInv`. A request acts on the record it looked at, so
what it knows is true until the contest is edited, which counts edits (`LooksCurrent`,
`DueIsDue`); rule versions are only added (`VersionsStay`), the audit trail is a path of
the lifecycle that ends at the present status (`TrailLeads`), a review follows a freeze
and a replay that misses nothing (`ReviewIsCovered`), and an entry told of a free place
finds one if nobody came between (`PlacesKept`).

### The relay's other services (`ServicesProofs`)

* `PaymentsInvariant`, and from it `TablesFollowStripe` and `AcknowledgedIsHandled`.
  That nobody pays a disqualification off (`NobodyPaysABanOff`) is inductive with what it
  says of both ways out: a session that failed stays failed, and a paid fee stays paid. An
  event is answered with 200 when the claim finds it claimed, so "answered implies
  handled" needs `ClaimedIsHandled`: claimed implies applied, in hand or interrupted.
  `RequestsAreClaimed` says what a request in hand is about, and `OfferedIsRegistered`
  that a payment finds its participant.
* `AwardsInvariant`, then `RiskStaysCurrent` and `FinalStandingsDefensible`. `RowsApart`:
  one transaction holds a participant's row. `SumsCurrent`: a sum that will be written, by
  whoever holds the row or was not overtaken, is what the tables will say.
  `StandingsHold`: while finalization waits, the totals its ranks were computed from do
  not change, since every change of the ledger needs the contest's row, which it holds;
  that is why the ranks are those at the commit. That higher totals have lower ranks is a
  lemma about cardinalities.
* `BoardIsCurrentHolds`: `BoardInv` speaks of one player at a time, because a player a
  removal or an expiry disturbed says nothing about the others: what a writer has read
  (`WritersKnow`), a rebuild's snapshot (`RebuildsKnow`), the shared staging keys
  (`StagedKnows`) and the board (`BoardKnows`) are what the player's row says now.
* `ForgottenIsFreshHolds`: `CacheInv` adds the answers that are not stored yet
  (`AnswersAreFresh`: current, or overtaken, or about to be forgotten), that callers share
  computations of their own key (`SharesAreTheirs`), and that a key is in the map once
  (`Distinct`), without which an eviction could leave an older value behind. The theorem
  has the exception of the property: an entry that an overtaken computation stored
  after the forget (`stale`) is as old as its query.
* `LimitsAlwaysHold`: `Kept` states the limits of any table of rows. Interactions are scored
  out of order, and a limit on a past window could be broken by one scored late; it is not,
  because the queries have no upper end and so count what is later as well
  (`LatelyIn`, `TodayIn`, `Affordable`), which is also what the divergence about late
  scoring comes from.

### Pages (`ClientProofs`)

* `PrekeysInvariant`, then `OneTimeKeysOnce` and `SpentKeysAreStored`. A key's way is
  followed from the stock into a claim (`ClaimsApart`: two claims never hold one key,
  because the row is locked), into a message (`MessagesApart`: under one key there is one
  message, and the private half waits for it) and to its spending (`SpentIsKept`: what is
  gone from the device was taken by a message that is stored, that a run has just spent
  the key for (`Spending`), or that was lost when the page was closed between the two
  (`cut`); a page closed before leaves the key). `KeysAccounted` ties stock, device and what was given away together,
  also while a publication is under way.
* `OnlySealedIsSentHolds`, `QuietAfterDisconnectHolds` (`OutboxInv`): whatever works on a
  message works on one that has a record (`Recorded`), and what a flush has listed was
  sealed when it listed it and stays so (`SealedInFlush`).
* `InboxAlwaysHolds` (`InboxInv`): what a run has been through is in the database, but for
  the message it is at (`Covered`); only a run that was at a message when its deletion
  was applied can bring it back (`Remembered`).
* `DeletedStatusIsGoneHolds` (`StatusInv`): a deletion is on its way or nothing can publish
  the row again (`DeletionsAsked`); a tombstone is on its way or nothing of the status is
  left with its viewer or coming to it (`TombstonesWork`).
* `KeysFollowMembersHolds` (`GroupInv`), with overlapping runs and any number of resets. That holders can
  read needs what a device has on file and where it has it from (`Filing`), that the owner's
  epoch counts the resets (`OwnerCounts`), and what a message proves about its writer
  (`Mailing`), also while a run that judged it has not written yet (`Judging`). That the
  removed stay out follows a key through files, members, links and mail (`EntitledMail`,
  `EntitledHolders`), and is stated for groups in which nobody was misled and no runs crossed.
* `AttachmentsInvariant`, then `AttachmentsOpen` and `DraftsSentOnce`, together `SharingHolds`.
  `MessagesAreStored`: every message is about an upload that was sent and is stored as a
  whole, under the chat it names. `OneCallPerDraft`: while nothing was discarded during
  its upload, the draft on screen is the one being uploaded and none that was sent; it is
  stated under that condition because without it the property fails (see the divergences).
* `ChatsStayApartHolds` (`PanelInv`). `ViewFollows`: once its list has loaded, what is on
  view is of the selected chat. `TextFollows`: beside a message that is edited on view,
  what was typed was typed in its chat, which is why an edit keeps to its chat although
  the selection moves under it. `QuotesFollow`: a recording keeps the quote and the chat it
  was begun with, so it is sent where it was begun, however often the selection changes
  while it is recorded and sealed.

### Feed (`WhispersProofs`)

`FeedAlwaysHolds`, from `FeedInv`. A request looks up, writes and notifies in three
statements, so neither half of the property is inductive. `Founded`: what a request is
about to write hangs from something that is there (`Stands`, `Hangs`) or was deleted under
it. With it `NothingLoose`: so does everything in the tables, which a deletion keeps because
it takes along what hangs from the deleted. `Tallied` follows a like through its request:
before the write mark and notification agree, between write and notification the mark is
what the request made it and the one notification left to write is that of the mark
(`Halfway`), and one request is at it, unless the toggles tangled.

`UnchangedIsCurrentHolds`, from `ScreenInv`. The property compares the screen with the
relay when the relay would say "unchanged", which says nothing of the steps before; the
invariant compares the screen with the answer whose tag is remembered. While no body is
being read (`Settled`), what is shown and not in that answer is the viewer's own and on
its way or at the relay (`NewOnScreen`), what is in it and not shown is deleted or about to
be (`TagShown`), and a heart is as in the answer or as the viewer's requests will have it
(`HeartsFollow`). If then the answer is the page as it is and nothing is under way, the
three leave no difference. `OneReading` and `OneSwitch` say what the history of overlaps
rules out.

### Devices (`DeviceProofs`)

* `CallEndsCleanlyHolds`, from `CallInv`. `Roles`: whatever has to do with a call is at one
  of its ends, and at the right one. `Sound` is the protocol as the code keeps it, for each
  call that met no other one: what the caller's screen, microphone, timer and awaits can
  be (`CallerSound`), the callee's (`CalleeSound`), and how the ends hang together through
  the signals between them (`EndsSound`): who speaks is heard, will be, or will be told,
  and an end that somebody was told of is over. `Elsewhere` carries the steps of other
  calls: a step after which nobody sees or hears anything new of a call keeps it sound. An
  action must then be looked at for its own call only, and for the one on screen.
* `DataSurvivesHolds`, from `DatabaseInv`. `RepairsTell`: an upgrade that is still in the
  queue belongs to a conversion that has read its rows, and as long as the database is of
  the old version those are all that have to survive; this is what makes a late upgrade of an attempt
  that was given up harmless. `DeletionsTell`: while no repair lost the identity, who has
  asked for a deletion has the identity in hand and waits for it, once; so two deletions
  cannot follow one another. `VersionsTell` ties the version to the key of the group keys.
  The queue is a sequence of which only two things matter, what is in it and whether it is
  there once (`Holds`, `HoldsOnce`); the lemmas say what they become when a request is
  put in, served or taken out of the middle (`AppendHolds`, `TailHolds`, `RemoveHolds`).

### Sums (`FiniteSums`)

The SQL sums of the contest tables are `MapThenSumSet`, a fold, which TLAPS can only use
through its definition by a recursive function. `SumOver` names that function's value;
the lemmas say what a sum comes to when a summand is added, changed or removed and that
parts of a set sum to no more than the whole. Each is proved by induction over the size of
a set, written as the absence of a smallest counterexample (`LeastNumber`), since an
induction theorem with an operator parameter cannot be instantiated here.

### Model-checked only

* Everything temporal beyond safety: `ReplayedIfReturning`, `AcknowledgedEventually`,
  `PendingIsSettled`, `StaysConnected`, `QueuedIsRelayed`, `RelayedIsStored`. Liveness
  under fairness is out of the prover's reach.
* `AnswersAlike`: the notifications of both repositories are lists cut by filters of
  sequences and sorted by their stamps (`SelectSeq`, `SetToSortSeq`), of which what they
  return is known by induction over the list only, and that cannot be done here.
* What the violation runs check, which does not hold.

## Divergences found

Each of the first five is a run expected to be violated and an entry under "findings"
with the quoted line.

1. `replay_concurrent_crash`: two sockets of one recipient replay at once; the first
   settle deletes the in-flight copy the second relies on, and a crash then
   destroys its envelopes (`queue.ts:99` against `queue.ts:46-48`).
2. `hollow_delivery`: a remote subscription counts as a delivery although its only
   socket is closing (`server.ts:638` against `server.ts:627-629`).
3. `stranded`: a recipient that registers and drains between the offline verdict and
   the `RPUSH` does not get the envelope until it reconnects (`server.ts:673`
   against `presence-bus.ts:20-22`).
4. `relabelled`: a group message written while the relay is away is flushed after a
   reset with the group's new epoch around a ciphertext under the old key
   (`Dashboard.tsx:2306` against `helpers.ts:980`).
5. `late_score`: scoring tests the status in a record loaded earlier, so a cancelled
   contest can still score (`scoring.ts:160` against `scoring.ts:159`).

Seen while modelling, without a run of their own. Where a history variable excludes
them from a property, it is named.

* *Relay.* Two failed overlapping replays restore a backlog twice (`queue.ts:73`). A
  `PUBLISH` counted before an `UNSUBSCRIBE` arrives discounts one subscription too few
  (`presence-bus.ts:106`). A half-open socket counts as writable until the heartbeat
  terminates it (`server.ts:249`).
* *Contest.* The points of one piece of content are summed over all its earners under a
  lock on one of them, so that two can exceed the cap together (`scoring.ts:410` against
  `docs/contest-engine.md:128`). Liking again after un-liking never scores, its key being that of a
  `REVERSED` row (`whisper-routes.ts:434-435`). Content deleted while its interaction
  is queued or `PENDING` is scored afterwards (`repository.ts:869`, against
  `whisper-routes.ts:214`). A reversal that listed a row while it was held debits zero
  if the row is scored meanwhile (`scoring.ts:532`). A disqualification that crashes
  half-way leaves points until it is repeated (`admin-routes.ts:633`). A row whose
  scoring rolled back during `reconcile` is still `PENDING` at FINALIZED
  (`repository.ts:733`). A reversal after FINALIZED moves `current_score` away from
  `final_score`; reinstating does not give reversed points back; releasing held events
  after finalization rejects them (`service.ts:611`); of two overlapping reconciliations with a
  re-freeze between, the older replay moves the contest to review without having listed
  an interaction made meanwhile, although `docs/KNOWN_RISKS.md:384-390` has
  reconciliation make a contest complete (`RefreezeWaits`, under [proofs](#proofs)); a challenge award returned by a
  scoring transaction is lost in a crash after it (`service.ts:289`).
* *Contest desk.* An edit tests the status before its transaction, so that a contest
  finalized or cancelled meanwhile is edited (`closed`; `admin-routes.ts:167` against its
  message at line 170). Entry counts and inserts in different statements, so that two
  exceed the places (`crowded`; `routes.ts:243-252`); an edit may set the places below the
  number of entrants. Finalization stages the prize of the record the route read before
  its transaction (`prize`; `admin-routes.ts:379`). The sweep freezes a contest whose end
  was moved after it looked (trail entries by `late`; `service.ts:396`). An
  administrator's freeze before the end leaves interactions of the rest of the window
  out, unless they happened before the reconciliation; one whose window is moved after
  the reconciliation, at its end or its beginning (`admin-routes.ts:181`), is final
  without another: what is complete is the window replayed last (`covered`). `CONTEST_RECONCILED` is
  written to the audit even if the move to review failed (`admin-routes.ts:349`).
* *Scoring.* The queries of limits have no upper end: an interaction scored late counts
  those of later days too, may be refused for a limit they used up, and may meet the
  challenge of its day with them (`repository.ts:1014-1045`). A challenge awarded after
  the deadline is outside the window; one whose interactions are undone stays; the
  `points` a challenge states are not read (`scoring.ts:486`, `service.ts:294-310`).
* *Risk and finalization.* The sweep and the reviewer sum the risk before they lock the
  row, so one overwrites what the other or scoring added (`mistaken`;
  `service.ts:448`). A disqualification that commits while finalization waits for its
  row stays ranked, even as a winner (`outran`; `repository.ts:1607-1611`). Finalization
  and a scoring that holds its earner but has inserted nothing yet deadlock through the
  contest's row, and one is aborted; that is why `ContestEngine` may take
  `finalizeContest` as one step. Participants who still owe the fee are ranked. A
  `REJECTED` review may follow a `PAID` payout.
* *Leaderboard.* A score published to a board that has expired begins an incomplete
  board, which is not rebuilt (`disturbed`; against the comment at
  `leaderboard.ts:6-10`). A publication read before a disqualification puts the
  participant back. Rebuilds of two instances share their staging keys.
* *TTL cache.* A computation that had read before `forget` stores the old value after
  it, and drops a newer computation from the share (`stale`; `ttl-cache.ts:61-68`), so
  that the next read does not recompute it, against the comment at `ttl-cache.ts:74`.
* *Monetization.* The claim of an event is committed before it is handled: if handling
  fails or the process ends, the retry is a duplicate and answered with 200
  (`interrupted`; `monetization-routes.ts:312-334`). `ensureUser` writes the status of
  an older event over a newer one. A failed session settled after a disqualification moves
  the participant to pending payment, and a later paid one to eligible
  (`repository.ts:1831`; excepted in `NobodyPaysABanOff`).
* *Prekeys.* The keys of a message are deleted before it is stored: a page closed between
  the two has lost it (`cut`; `message-crypto.ts:241-248`). A message may wait in the queue for seven days, a retired signed prekey
  stays for less when it is rotated at the end of its life (`prekey-store.ts:31-35`). A publication that fails after
  minting is repeated at the next top-up only. The old signed prekey is deleted before
  the new one is published.
* *Pages.* What is sent on a socket that is open and not yet registered is marked sent
  and lost (`early`). A message saved as queued after the flush began waits for the
  next one (`late`). An `error` envelope, which the relay sends for every envelope it
  refuses (such as a reaction of more than eight code units, or a group message with no
  other member), and a message that cannot be read set the status to "error" on a
  connection that goes on working: the flush under way stops and no other begins, so that
  what is queued waits until the connection is lost or the application opened again
  (`Muted`; `useSocketStore.ts:343-346`, `Dashboard.tsx:2230`, `2247`). A close event of a replaced socket clears its successor's place
  (`orphaned`). A receipt's get-then-update can lower a status, and a flush can
  overwrite a later one. Deletions made while offline are not repeated; an edit of a
  sent message is local. A run that overlaps another, or a deletion that falls between
  a run's look-up and its put, brings a deleted message back (`overlapped`;
  `helpers.ts:752`). A deletion delivered before its message, which may be in the
  offline queue, updates no record, is not remembered, and the message is shown
  (`Dashboard.tsx:1428`). A reload drops what is in the buffers (`lost`).
* *Groups.* A message under a new key that overtakes its reset keeps a device from
  adopting the member list (`overtaken`). A device whose first message comes from
  another member takes that one for the owner (`misled`). Overlapping runs write
  older member lists and epochs over newer ones (`crossed`). Who joins by a link files
  the current key as epoch 1, and after another reset opens nothing that names the epoch
  of that key, which it holds (`keysToTry`, `groupKeyForEpoch`); two bounded epochs do
  not show it. A member who has the new key from a message that overtook the reset copies
  a link with the list from before it, and whoever joins by that link goes on sealing to
  the member who was removed (`outdated`). A late message can undo the deletion of a group.
* *Local database.* A blocked upgrade whose attempt was given up stays in the queue, and
  its late success leaves a connection that blocks the next one. A deletion reported as
  refused can still happen. After it, after a reopening that fails, or after a second
  rescue that fails, the identity that was to be kept is dropped (`forfeited`). A repair that
  finds no identity deletes nevertheless: while one tab has it in hand, a second finds
  none, and its deletion, granted after the first has restored it, takes it away for good
  (`mislaid`; `LocalDataRecovery.tsx:96` against the comment at lines 25-27). Rows an
  old page saves between the conversion's read and its write are lost (`lateRows`).
  `classifyDatabaseError` never answers "timeout".
* *Calls.* Answers, refusals and hang-ups are handled without comparing call ids, so
  those of an earlier call act on a later one (`muddled`). A ring timeout and a failed
  call tell the other end nothing. A hang-up while the microphone is being opened
  leaves it on. An offer is sent after its call was ended while being stored. A failed
  call on screen swallows an offer while the phone rings. The callee goes from active
  back to connecting (against the diagram at `useCallStore.ts:12-16`).
* *Whispers.* A look-up and the write after it are different statements: replies to
  what was just deleted remain (`raced`), and a like and its undoing leave a
  notification (`tangled`). Caches are invalidated before the write; `addRipple`
  invalidates none, against the comment at `whisper-repository.ts:499-503`.
* *Feed repositories.* The Maps list follows oldest first, the tables newest first
  (as sets they agree). A profile saved with an empty avatar loses the stored one, which
  the comment at `whisper-repository.ts:1110` says is kept.
* *Feed.* A write that fails leaves the optimistic screen, and the relay then answers
  "unchanged" (`missed`; `Dashboard.tsx:336`). So it does
  after a body that could not be read, whose tag is remembered before it is
  (`missed`; `whispers.ts:211-213`). Two answers read at once pair the newer
  tag with the older body; an older page answered before a deletion, or asked for before a
  newer answer was read, brings the post back (`Dashboard.tsx:3134`); likes of one post that
  overtake each other leave the screen and the relay apart, and the relay says
  "unchanged" (`mingled`; `Dashboard.tsx:3009-3023`). A post kept "locally" is dropped by the next full answer.
* *Statuses.* The tombstone goes to the contacts of now, not to the audience
  (`Dashboard.tsx:2892`). A deletion that overtakes its publication leaves the status
  served for a day (`undone`). A poll or a copy handled after the tombstone restores it
  (`outrun`).
* *Attachments.* What is forwarded out of a direct chat is refused to its new recipient.
  After cancelling a draft during its upload, the call's outcome acts on the next one,
  which can be sent twice or dropped (`recalled`). The draft stays when another chat is
  selected, and is sent there. A rejected fetch leaves the composer sending for ever.

* *Chat panel.* An edit that was begun in one chat and is submitted in another
  overwrites the first chat's message from a list in which it is not found: name, tags and
  quote are lost, against the comment at `Dashboard.tsx:2443`, and what was typed reaches nobody
  (`strayed`; `Dashboard.tsx:2440-2473`). Until the new list has loaded, the previous
  chat's bubbles stand under the new header and can be replied to or edited there
  (`hasty`). A voice note or poll joins the list on view when it is sent, whichever chat
  that shows (`Dashboard.tsx:2689`, `3771`). The id of a reply that is no longer on view
  goes into the envelope of another group. A dialog opened for one chat mutes, clears
  or blocks the one an alert led to. Text and tags typed in one group stay in the
  composer for the next, whose members the tags may not be (against the comment at
  `Dashboard.tsx:789-790`). A setting that is read back after the chat was left shows
  that chat's pins, clearing and wallpaper (`Dashboard.tsx:4870-4957`). A second press
  while the browser asks for the microphone starts a recorder nobody stops, despite
  "prevent double-start" (`ChatPanel.tsx:641`). Removing the wallpaper writes nothing.
  Deleting for everyone in a group tells the first other member only
  (`Dashboard.tsx:3970`). Blocking filters no messages, whatever `ChatPanel.tsx:1587` says.

## Limits of the models

Relay:

* Envelopes are opaque; schema validation, formatting, logging, rate-limit
  accounting, HTTP routes and push notifications are left out.
* The heartbeat is not modelled: a half-open connection looks open until `Lose`.
* Commands a crashed process had sent are executed before the crash or not at all;
  an order of commands across two calls of one connection is not assumed.
* A list's TTL (days) does not run out during a replay (milliseconds).
* `Redis = FALSE` (a bus without Redis) over-approximates the single-process mode,
  which has no break between verdict and queueing; no run uses it.
* `UNSUBSCRIBE` does not fail: a rejected one would leave a subscription without a tracked
  identity (`presence-bus.ts:89-92`), which takes envelopes as one whose sockets are all
  closing does (`hollow_delivery`).
* Where `SUBSCRIBE` is rejected and a later one accepted, a subscription may be left
  without a tracked identity; `NoPhantom` speaks of the other direction only.

Contest:

* `ContestEngine`: one contest that starts ACTIVE (what precedes is in `ContestDesk`); all interactions lie in its window and in one UTC
  day. Source and daily point caps are exact; the other rules are the choice
  `RiskOutcomes` (clear, hold, reject) and exact in `Scoring`, where one scoring is one
  step.
* A cached value may be any the cache held before a change, for ever; the queues
  of the instances are one set, so jobs are taken in any order, and identical
  queued jobs merge.
* One page per listing (at most 500 rows in the code); the age a row must have
  before it is swept is left out.
* Reads between a lock and the commit are done in `Decide`: the participant's row
  cannot change while it is locked, and other earners' rows still can before
  `Settle`.
* `finalizeContest` is one step in `ContestEngine`; `Awards` takes it apart, with one
  point per credit and one per risk event. What raises a risk event is a choice there.
* `ContestDesk`: what an interaction earns is what its rule version says; of the audit
  trail the moves of the status are kept; registration is open while the contest is.
* `owed` (history) forgets interactions that were undone or deleted.
* `Leaderboard` leaves out the hash of names and counts beside the sorted set, and what
  is published beside the score.

Money and keys:

* `Payments`: a Stripe event says what it is about, when, and one of five things;
  amounts, checkout pages and portals are left out. A session belongs to one identity.
* `Prekeys`: one owner; signatures and key agreement are what they promise; a message
  is opened by whoever holds the private halves it names. A clock in days.

Pages:

* `Outbox`, `Inbox`: text messages in direct chats. Edits, reactions, typing
  indicators and disappearing messages are left out; buffers do not overflow (500
  entries in the code).
* `GroupKeys`: one group, every identity key is known to every sender; deleting a
  group, the names members give and rows of the old format are left out.
* `LocalDatabase`: conversion and identity; the contents of other tables are left out.
* `Calls`: two persons; ICE candidates, mute, camera and group calls (which signal
  nothing) are left out; so are a microphone that fails after it opened and a database
  that refuses the record of an offer, after which the call fails.
* `FeedClient`: one relay whose caches answer truly, and an empty page is always sent in
  full (the relay tags it too); replies, profiles and the inbox of
  notifications are left out. `Whispers`: likes and ripples by the users that the
  configuration names; mentions in third-party posts and the merging of notifications
  of one kind are left out. The deletion of an echo is a transaction of six statements
  (`whisper-repository.ts:560-578`) taken as one step: what another request commits
  between two of them is what it may commit before or after the step, with `raced`.
* `Statuses`: one author; comments, reactions and views are left out.
* `ChatScreen`: one message of the person and one of somebody else per chat, and no
  others arrive (`Inbox` has those); nobody types faster than a list loads; a text and an
  edit are one step (`Outbox` takes the sending apart); read marks, the disappearing
  timer, a blocked composer, searching and viewers are left out.
* `Attachments`: one uploader; preparing and encrypting a file are one step with its
  selection; voice notes take the same way.

## Not modelled

* The web interface's components, view state, layout and formatting (`NadaMobileUI.tsx`,
  `ProfilePage.tsx`, `WhispersFeed.tsx`, the other screens, what of `ChatPanel.tsx` only
  draws, and `packages/ui`): they render what the modelled handlers and stores hold.
  With styles and forms they are more than half of the implementation's lines, which is
  why the share of the code these modules stand for stays well below a third.
* Schemas, validation and identity proofs: stateless checks of one request.
* Rate limits: one Lua script around a plugin's decision; `trySend`'s verdict is in
  `RelayDelivery`.
* Push notifications: calls to an external service whose result is ignored.
* Statistics and admin
  listings: reads, or single statements without a partner to race with.
* Migrations, configuration and start-up: once, under a lock.
* The crypto package's functions over libsodium: pure.

## Plan

Done, in this order: `OfflineQueue`, `QueueReplay`, `Mailbox` and their proofs;
`PresenceBus`, `RelayDelivery`; `ContestStore`, `ContestEngine` and their proofs; the
client (`SocketClient`, `Outbox`, `Inbox`, `GroupKeys`, `LocalDatabase`, `Calls`,
`FeedClient`, `Statuses`, `Attachments`, `ChatScreen`); the relay's other tables (`Payments`,
`Prekeys`, `Whispers`, `FeedTables`, `FeedMemory`, `Leaderboard`, `TtlCache`, `Awards`,
`Scoring`, `ContestDesk`); proofs of `Payments`, `Prekeys`, `Awards`, `Attachments`; of
`RelayDelivery` its types and presence; then `WrittenOnce` and `AcknowledgedIsSafe`,
`OldestFirst`, the three remaining invariants of `ContestEngine` with the lemmas about
sums, and the theorems about `ContestDesk`, `Scoring`, `Leaderboard`, `TtlCache`,
`Outbox`, `Inbox`, `Statuses`, `GroupKeys` and `Whispers`; at last those about `ChatScreen`,
`FeedClient`, `Calls` and `LocalDatabase`.

Next, in order:

1. `AnswersAlike`, once its filters of sequences are written as functions the prover can
   unfold.
2. A scoreboard (each interaction credited at most once, its credit taken back at most
   once) as the abstract specification `ContestEngine` implements; what the offline queue
   and the bus promise together as the one `RelayDelivery` implements.
3. A condition on `ContestEngine` weaker than `RefreezeWaits`.
4. `TtlCache` in place of "arbitrarily stale" in `ContestEngine`; comments and reactions
   of statuses; group calls if they come to signal.
