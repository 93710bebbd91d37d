----------------------------- MODULE LocalDatabase -----------------------------
(***************************************************************************)
(* Opening, repairing and deleting the web client's local database         *)
(* (apps/web/src/lib/local-database.ts, components/LocalDataRecovery.tsx)  *)
(* while other tabs, and a page of a build older than group key epochs,    *)
(* hold it.                                                                *)
(*                                                                         *)
(* IndexedDB serves the requests for one database in order; an upgrade or  *)
(* a deletion waits until every connection is closed and cannot be taken   *)
(* back.  Dexie closes a connection that stands in the way, a connection   *)
(* opened beneath it stays.                                                *)
(***************************************************************************)
EXTENDS Naturals, Sequences, FiniteSets, SequencesExt

CONSTANTS
  Tab,
  Row,       \* group keys
  MaxTries,     \* bound: attempts of a tab to open the database
  MaxDeletions  \* bound: deletions asked for

ASSUME LocalDatabaseAssumption == MaxTries \in Nat \ {0} /\ MaxDeletions \in Nat

VARIABLES
  idb,      \* version, how groupKeys is keyed, its rows, whether identity is there
  page,     \* the old page's connection: "open", "frozen" or "closed"
  conns,    \* the tabs' connections
  requests, \* of IndexedDB, served in order
  main,     \* per tab: where startup or recovery stands
  tries,
  repair,   \* per tab and attempt: its repairLegacyGroupKeys, which may outlive it
  resets, \* how often a tab asked for a deletion
  inHand,   \* tabs that hold the rescued identity
  saved,   \* history: rows that were saved
  lateRows,     \* history: rows the old page saved after a repair had read the rest
  forfeited, \* history: the identity was given up, as the actions below say
  mislaid  \* history: a repair found no identity and deleted all the same

localVars == <<idb, page, conns, requests, main, tries, repair, resets, inHand, saved, lateRows,
               forfeited, mislaid>>

\* The native versions: before epochs, LEGACY_BRIDGE_IDB_VERSION, and the current one.
Legacy == 1
Bridge == 2
Current == 3
NoDatabase == [version |-> 0, keyed |-> "none", rows |-> {}, identity |-> FALSE]
Untried == [stage |-> "none"]

LocalInit ==
  /\ \E rows \in SUBSET Row :
       /\ idb = [version |-> Legacy, keyed |-> "group", rows |-> rows, identity |-> TRUE]
       /\ saved = rows
  /\ page \in {"open", "frozen", "closed"}
  /\ conns = {} /\ requests = <<>>
  /\ main = [t \in Tab |-> "start"] /\ tries = [t \in Tab |-> 0]
  /\ repair = [t \in Tab |-> [n \in 1..MaxTries |-> Untried]]
  /\ resets = 0 /\ inHand = {} /\ lateRows = {} /\ forfeited = FALSE
  /\ mislaid = FALSE

Conn(t, kind) == [tab |-> t, kind |-> kind, try |-> 0]
Probe(t, n) == [tab |-> t, kind |-> "probe", try |-> n]
Ask(op, t, n) == [op |-> op, tab |-> t, try |-> n]
Unheld == conns = {} /\ page = "closed"
Asked(op, t) == \E i \in DOMAIN requests : requests[i].op = op /\ requests[i].tab = t
Head1(op) == requests # <<>> /\ Head(requests).op = op

\* What the head request asks needs every connection to be closed.
NeedsAll ==
  /\ requests # <<>>
  /\ \/ Head(requests).op = "delete" /\ idb.version > 0
     \/ Head(requests).op = "dexie" /\ idb.version < Current /\ idb.version > 0
     \/ Head(requests).op = "bridge"
        /\ idb.version < repair[Head(requests).tab][Head(requests).try].target

-------------------------------------------------------------------------------
(* A tab opens the database: openLocalDatabase, again on "Try again". *)

\* nadaDb.open: an open that is pending or has succeeded is not repeated.
OpenDexie(t, queue) ==
  /\ main' = [main EXCEPT ![t] = "opening"]
  /\ requests' = IF Asked("dexie", t) \/ Conn(t, "dexie") \in conns
                 THEN queue ELSE Append(queue, Ask("dexie", t, 0))

\* databases() tells whether there is anything to repair.
Attempt(t, queue, present) ==
  /\ tries' = [tries EXCEPT ![t] = @ + 1]
  /\ IF present
     THEN /\ repair' = [repair EXCEPT ![t][tries[t] + 1] = [stage |-> "probing"]]
          /\ main' = [main EXCEPT ![t] = "repairing"]
          /\ requests' = Append(queue, Ask("probe", t, tries[t] + 1))
     ELSE OpenDexie(t, queue) /\ UNCHANGED repair

Start(t) ==
  /\ main[t] \in {"start", "failed"}
  /\ tries[t] < MaxTries
  /\ Attempt(t, requests, idb.version > 0)
  /\ UNCHANGED <<resets, idb, page, conns, inHand, saved, lateRows, forfeited, mislaid>>

\* The database is there, or opening it without a version creates an empty one.
Opened == IF idb.version = 0 THEN [NoDatabase EXCEPT !.version = Legacy] ELSE idb

GrantProbe ==
  /\ Head1("probe")
  /\ LET r == Head(requests)
     IN /\ conns' = conns \cup {Probe(r.tab, r.try)}
        /\ repair' = [repair EXCEPT ![r.tab][r.try] = [stage |-> "reading"]]
  /\ idb' = Opened
  /\ requests' = Tail(requests)
  /\ UNCHANGED <<resets, page, main, tries, inHand, saved, lateRows, forfeited, mislaid>>

\* A store is converted whatever its key is.
NeedsRepair_Always == idb.keyed # "none"

\* The store still has the old primary key.
NeedsRepair == idb.keyed = "group"

\* The rows are read and the connection is closed; the conversion asks for another.
ReadRows(t, n) ==
  /\ repair[t][n].stage = "reading"
  /\ conns' = conns \ {Probe(t, n)}
  /\ IF NeedsRepair
     THEN /\ repair' = [repair EXCEPT ![t][n] =
               [stage |-> "converting", rows |-> idb.rows,
                target |-> IF idb.version + 1 > Bridge THEN idb.version + 1 ELSE Bridge]]
          /\ requests' = Append(requests, Ask("bridge", t, n))
     ELSE repair' = [repair EXCEPT ![t][n] = [stage |-> "done"]] /\ UNCHANGED requests
  /\ UNCHANGED <<resets, idb, page, main, tries, inHand, saved, lateRows, forfeited, mislaid>>

\* The store is made anew from the rows that were read.  When the repair has given up
\* in the meantime, nobody closes the connection.
GrantBridge ==
  /\ Head1("bridge")
  /\ LET r == Head(requests)
         p == repair[r.tab][r.try]
     IN /\ idb.version < p.target => Unheld
        /\ idb' = IF idb.version < p.target
                 THEN [idb EXCEPT !.version = p.target, !.keyed = "epoch", !.rows = p.rows] ELSE idb
        /\ conns' = IF p.stage = "rejected" /\ idb.version <= p.target
                    THEN conns \cup {Conn(r.tab, "leaked")} ELSE conns
        /\ repair' = [repair EXCEPT ![r.tab][r.try].stage = IF @ = "rejected" THEN @ ELSE "done"]
  /\ requests' = Tail(requests)
  /\ UNCHANGED <<resets, page, main, tries, inHand, saved, lateRows, forfeited, mislaid>>

\* BLOCKED_WAIT_MS: the promise is rejected, the request is not withdrawn.
BlockedBridge ==
  /\ Head1("bridge") /\ NeedsAll /\ ~Unheld
  /\ LET r == Head(requests)
     IN /\ repair[r.tab][r.try].stage = "converting"
        /\ repair' = [repair EXCEPT ![r.tab][r.try].stage = "rejected"]
        /\ main' = IF main[r.tab] = "repairing" /\ tries[r.tab] = r.try
                   THEN [main EXCEPT ![r.tab] = "failed"] ELSE main
        /\ forfeited' = (forfeited \/ (main'[r.tab] # main[r.tab] /\ r.tab \in inHand))
        /\ inHand' = IF main'[r.tab] # main[r.tab] THEN inHand \ {r.tab} ELSE inHand
  /\ UNCHANGED <<resets, idb, page, conns, requests, tries, saved, lateRows, mislaid>>

\* The repair is done, has failed, or takes more than REPAIR_TIMEOUT_MS and goes on by
\* itself.
Proceed(t) ==
  /\ main[t] = "repairing"
  /\ OpenDexie(t, requests)
  /\ UNCHANGED <<resets, idb, page, conns, tries, repair, inHand, saved, lateRows,
                 forfeited, mislaid>>

\* Dexie upgrades to the current schema, and cannot when the primary key is the old one.
GrantDexie ==
  /\ Head1("dexie")
  /\ LET t == Head(requests).tab
     IN IF idb.keyed = "group" /\ idb.version < Current
        THEN /\ Unheld
             /\ main' = [main EXCEPT ![t] = IF @ = "opening" THEN "failed" ELSE @]
             /\ forfeited' = (forfeited \/ t \in inHand)
             /\ inHand' = inHand \ {t}
             /\ UNCHANGED <<idb, conns>>
        ELSE /\ NeedsAll => Unheld
             /\ idb' = IF idb.version < Current
                      THEN [idb EXCEPT !.version = Current, !.keyed = "epoch"] ELSE idb
             /\ conns' = conns \cup {Conn(t, "dexie")}
             /\ UNCHANGED <<main, inHand, forfeited>>
  /\ requests' = Tail(requests)
  /\ UNCHANGED <<resets, page, tries, repair, saved, lateRows, mislaid>>

\* The rescued identity is thrown away.
OpenDone_Dropped(t) ==
  /\ main[t] = "opening" /\ Conn(t, "dexie") \in conns
  /\ main' = [main EXCEPT ![t] = "open"]
  /\ inHand' = inHand \ {t}
  /\ UNCHANGED <<resets, idb, page, conns, requests, tries, repair, saved, lateRows,
                 forfeited, mislaid>>

\* Open; a recovery puts the rescued identity back.
OpenDone(t) ==
  /\ main[t] = "opening" /\ Conn(t, "dexie") \in conns
  /\ main' = [main EXCEPT ![t] = "open"]
  /\ idb' = IF t \in inHand THEN [idb EXCEPT !.identity = TRUE] ELSE idb
  /\ inHand' = inHand \ {t}
  /\ UNCHANGED <<resets, page, conns, requests, tries, repair, saved, lateRows, forfeited, mislaid>>

\* OPEN_TIMEOUT_MS.  A recovery that cannot reopen drops what it rescued.
OpenTimeout(t) ==
  /\ main[t] = "opening"
  /\ main' = [main EXCEPT ![t] = "failed"]
  /\ forfeited' = (forfeited \/ t \in inHand)
  /\ inHand' = inHand \ {t}
  /\ UNCHANGED <<resets, idb, page, conns, requests, tries, repair, saved, lateRows, mislaid>>

-------------------------------------------------------------------------------
(* Repair local storage, offered once a retry has failed; and erasing the identity. *)

runRepair(t) ==
  /\ main[t] = "failed" /\ tries[t] \in 2..(MaxTries - 1)
  /\ main' = [main EXCEPT ![t] = "rescuing"]
  /\ requests' = Append(requests, Ask("rescue", t, tries[t]))
  /\ resets < MaxDeletions
  /\ resets' = resets + 1
  /\ UNCHANGED <<idb, page, conns, tries, repair, inHand, saved, lateRows, forfeited, mislaid>>

\* An open that Dexie has asked for and no longer wants.
TakenBack(queue, r) ==
  LET at == {i \in 1..Len(queue) : queue[i] = r}
  IN IF at = {} THEN queue ELSE RemoveAt(queue, CHOOSE i \in at : TRUE)

\* nadaDb.close, then the deletion is asked for.
Deleting(t, queue) ==
  /\ main' = [main EXCEPT ![t] = "deleting"]
  /\ conns' = conns \ {Conn(t, "dexie")}
  /\ requests' = Append(TakenBack(queue, Ask("dexie", t, 0)), Ask("delete", t, tries[t]))

\* The identity is read; a rescue that timed out leaves its connection behind.
GrantRescue ==
  /\ Head1("rescue")
  /\ idb' = Opened
  /\ LET t == Head(requests).tab
     IN IF main[t] = "rescuing"
        THEN /\ inHand' = IF idb.identity THEN inHand \cup {t} ELSE inHand
             /\ mislaid' = (mislaid \/ ~idb.identity)
             /\ Deleting(t, Tail(requests))
        ELSE /\ conns' = conns \cup {Conn(t, "leaked")}
             /\ requests' = Tail(requests)
             /\ UNCHANGED <<inHand, main, mislaid>>
  /\ UNCHANGED <<resets, page, tries, repair, saved, lateRows, forfeited>>

\* The deletion goes on without an identity to restore.
RescueTimeout(t) ==
  /\ main[t] = "rescuing"
  /\ forfeited' = TRUE
  /\ Deleting(t, requests)
  /\ UNCHANGED <<resets, idb, page, tries, repair, inHand, saved, lateRows, mislaid>>

eraseIdentity(t) ==
  /\ main[t] = "open" /\ tries[t] < MaxTries
  /\ forfeited' = TRUE
  /\ Deleting(t, requests)
  /\ resets < MaxDeletions
  /\ resets' = resets + 1
  /\ UNCHANGED <<idb, page, tries, repair, inHand, saved, lateRows, mislaid>>

\* Deleted, for whoever still waits for it: the tab starts again from nothing.
GrantDelete ==
  /\ Head1("delete") /\ (NeedsAll => Unheld)
  /\ idb' = NoDatabase
  /\ saved' = {} /\ lateRows' = {}
  /\ LET t == Head(requests).tab
     IN IF main[t] = "deleting" THEN Attempt(t, Tail(requests), FALSE)
        ELSE requests' = Tail(requests) /\ UNCHANGED <<main, tries, repair>>
  /\ UNCHANGED <<resets, page, conns, inHand, forfeited, mislaid>>

\* Blocked, or too late: reported as failed and not withdrawn; what was rescued is
\* dropped.
RefuseDelete(t) ==
  /\ main[t] = "deleting"
  /\ (Head1("delete") /\ Head(requests).tab = t) => ~Unheld
  /\ main' = [main EXCEPT ![t] = "failed"]
  /\ forfeited' = (forfeited \/ t \in inHand)
  /\ inHand' = inHand \ {t}
  /\ UNCHANGED <<resets, idb, page, conns, requests, tries, repair, saved, lateRows, mislaid>>

-------------------------------------------------------------------------------
(* What else happens to connections and rows. *)

\* versionchange: Dexie closes, and so does the old page unless the browser froze it;
\* a leaked connection may be collected as garbage.
Yield ==
  \/ /\ NeedsAll
     /\ \E c \in conns : c.kind = "dexie" /\ conns' = conns \ {c}
     /\ UNCHANGED page
  \/ \E c \in conns : c.kind = "leaked" /\ conns' = conns \ {c} /\ UNCHANGED page
  \/ page # "closed" /\ page' = "closed" /\ UNCHANGED conns

LoseConnection ==
  /\ Yield
  /\ UNCHANGED <<resets, idb, requests, main, tries, repair, inHand, saved, lateRows,
                 forfeited, mislaid>>

\* A tab whose connection went away opens it again when it next needs it.
Reopen(t) ==
  /\ main[t] = "open" /\ Conn(t, "dexie") \notin conns /\ ~Asked("dexie", t)
  /\ requests' = Append(requests, Ask("dexie", t, 0))
  /\ UNCHANGED <<resets, idb, page, conns, main, tries, repair, inHand, saved, lateRows,
                 forfeited, mislaid>>

SaveRow(row) ==
  /\ row \notin saved
  /\ \/ /\ page = "open" /\ idb.keyed = "group"
        /\ lateRows' = IF \E t \in Tab, n \in 1..MaxTries :
                        repair[t][n].stage \in {"converting", "rejected"}
                   THEN lateRows \cup {row} ELSE lateRows
     \/ /\ \E t \in Tab : main[t] = "open" /\ Conn(t, "dexie") \in conns
        /\ UNCHANGED lateRows
  /\ idb' = [idb EXCEPT !.rows = @ \cup {row}]
  /\ saved' = saved \cup {row}
  /\ UNCHANGED <<resets, page, conns, requests, main, tries, repair, inHand, forfeited, mislaid>>

LocalNext ==
  \/ \E t \in Tab :
       \/ Start(t) \/ Proceed(t) \/ OpenDone(t) \/ OpenTimeout(t) \/ runRepair(t)
       \/ RescueTimeout(t) \/ eraseIdentity(t) \/ RefuseDelete(t) \/ Reopen(t)
       \/ \E n \in 1..MaxTries : ReadRows(t, n)
  \/ GrantProbe \/ GrantBridge \/ BlockedBridge \/ GrantDexie \/ GrantRescue \/ GrantDelete
  \/ LoseConnection \/ \E row \in Row : SaveRow(row)

LocalSpec == LocalInit /\ [][LocalNext]_localVars

-------------------------------------------------------------------------------
(* Properties. *)

\* A conversion preserves every row, whichever tabs convert, time out or try again,
\* except one the old page saved after the rows were read (local-database.ts:231).
RowsSurvive == saved \ lateRows \subseteq idb.rows

\* A repair costs message history and not the account: the identity is in the database
\* or in the hands of the tab that rescued it, unless the rescue itself timed out, or
\* the deletion was reported as refused, or the database did not reopen
\* (LocalDataRecovery.tsx:95).
RepairKeepsAccount == ~forfeited => idb.identity \/ inHand # {}

\* So it is, unless a repair also found no identity, which another tab may have had in
\* hand, and asked for a deletion nevertheless (LocalDataRecovery.tsx:96).
IdentitySurvives == ~mislaid => RepairKeepsAccount

\* Neither what was saved nor who its owner is gets lost (local-database.ts:231,
\* LocalDataRecovery.tsx:95).
DataSurvives == RowsSurvive /\ IdentitySurvives
===============================================================================
