---------------------------- MODULE RecordCache -----------------------------
(***************************************************************************)
(* One record in one browser tab: the reactive cell and queueLoad of       *)
(* packages/vue/src/table.js, applyChange, syncNow, login's and sync's     *)
(* resetLocalState of packages/vue/src/index.js, the persistent cache, and *)
(* a reload of the page between any two steps.                             *)
(*                                                                         *)
(* The server is ideal here (module ChangeLog has its real write path): a  *)
(* write changes the document and the log at once, and the clock of the    *)
(* change log is its length.  The record has one field, whose value is the *)
(* position of the change that wrote it, so a value is also a version.     *)
(*                                                                         *)
(* The server answers a request some awaits after it read the database, so *)
(* the answers of concurrent requests arrive in any order.                 *)
(*                                                                         *)
(* Calls on the cache take effect in the order they are made; the code     *)
(* behind an await on one runs later, and other handlers run in between.   *)
(* Only cache.clear() has a step of its own, for the reload that comes     *)
(* before it takes effect; what happens between call and effect then looks *)
(* as if it came before the call or after it.                              *)
(***************************************************************************)
EXTENDS Integers, Sequences, FiniteSets

CONSTANTS
    ForeignActions,  \* what other sessions do to the record
    OwnActions,      \* what this tab does to it
    Resets,          \* whether the server may answer sync with a reset
    Logins,          \* whether the user logs in (again) during the behaviour
    Reloads,         \* whether the page may be reloaded
    Failures,        \* whether requests and the cache may fail
    Attempts,        \* how often queueLoad asks the server (3 in the code)
    MaxLog           \* bound on the number of changes

ASSUME CacheActions ==
    /\ ForeignActions \subseteq {"insert", "update", "delete"}
    /\ OwnActions \subseteq {"insert", "update", "delete"}
ASSUME CacheFlags == {Resets, Logins, Reloads, Failures} \subseteq BOOLEAN
ASSUME CacheBounds == Attempts \in Nat \ {0} /\ MaxLog \in Nat \ {0}

VARIABLES
    doc,     \* the stored document, or None
    log,     \* the change log, oldest first
    cell,    \* tables[table][id], or NoCell
    cache,   \* the record's entry in the persistent cache, or None
    load,    \* the queueLoad in progress
    sync,    \* the syncNow in progress
    login,   \* the resetLocalState of a login in progress
    own,     \* this tab's changes whose replies are on their way
    time1,   \* state.sync.time1
    stored,  \* the cursor in metaStorage
    lapses,  \* ghost: the known ways to diverge that have happened
    applied  \* ghost: the newest changes applied, of this tab and of others

server == <<doc, log>>
ghosts == <<lapses, applied>>
vars == <<doc, log, cell, cache, load, sync, login, own, time1, stored, ghosts>>

None == 0
Version == 1 .. MaxLog
Value == Version \cup {None}
Position == 0 .. MaxLog

Change == [action : {"insert", "update", "delete"}, own : BOOLEAN, v : Version]

NoCell == [there |-> FALSE, val |-> None, loaded |-> FALSE, stale |-> FALSE]
FreshCell == [NoCell EXCEPT !.there = TRUE]
Cell == [there : BOOLEAN, val : Value, loaded : BOOLEAN, stale : BOOLEAN]

\* target: the cell the load fills is still the one in the table.
NoLoad == [stage |-> "idle", val |-> None, target |-> FALSE, attempt |-> 0]
Load == [stage : {"idle", "reading", "asked", "served"}, val : Value,
         target : BOOLEAN, attempt : 0 .. Attempts]

\* from: the cursor asked with, then the last row of the reply that is applied.
NoSync == [stage |-> "idle", from |-> 0, to |-> 0]
SyncStage == {"idle", "asked", "applying", "reset", "clearing", "cleared", "retrying"}

NoLogin == [stage |-> "idle", to |-> 0]

\* The ways the code is known to let a tab diverge; see the ghost's updates.
Lapse == {"attempts", "deleteRace", "echo", "swapped", "lostReply", "cacheFailed",
          "resetRace", "resetCrash", "loginRace"}

TypeOK ==
    /\ doc \in Value
    /\ log \in Seq(Change) /\ Len(log) <= MaxLog
    /\ cell \in Cell
    /\ cache \in Value
    /\ load \in Load
    /\ sync \in [stage : SyncStage, from : Position, to : Position]
    /\ login \in [stage : {"idle", "clearing", "cleared"}, to : Position]
    /\ own \subseteq Version
    /\ time1 \in Position /\ stored \in Position
    /\ lapses \subseteq Lapse
    /\ applied \in [own : Value, foreign : Value]

\* A page opened for the first time on a server that has the record: it has
\* synchronised once, and nothing is loaded yet.
Init ==
    /\ doc = 1
    /\ log = <<[action |-> "insert", own |-> FALSE, v |-> 1]>>
    /\ cell = NoCell /\ cache = None
    /\ load = NoLoad /\ sync = NoSync /\ login = NoLogin /\ own = {}
    /\ time1 = 1 /\ stored = 1
    /\ lapses = {}
    /\ applied = [own |-> None, foreign |-> 1]

-----------------------------------------------------------------------------
(* The server.                                                             *)

Now == Len(log)

\* insertOne refuses an _id that exists; the other two never refuse.
Accepts(action) == action = "insert" => doc = None

Commit(action, mine) ==
    /\ Now < MaxLog
    /\ Accepts(action)
    /\ log' = Append(log, [action |-> action, own |-> mine, v |-> Now + 1])
    /\ doc' = IF action = "delete" THEN None ELSE Now + 1

ForeignWrite(action) ==
    /\ Commit(action, FALSE)
    /\ UNCHANGED <<cell, cache, load, sync, login, own, time1, stored, ghosts>>

-----------------------------------------------------------------------------
(* applyChange: the cell, then the cache, in one turn of the event loop.   *)
(* When the cache rejects its part, the cell has the change all the same.  *)

\* applyReactiveChange and the flags around it.  A delete takes the cell out of
\* the table, and with it the target of a load in progress.
\* Seeded defect: a change of a record that is being loaded is not marked.
CellAfter_NotStale(c) ==
    CASE c.action = "delete" -> NoCell
      [] c.action = "insert" ->
            [there |-> TRUE, val |-> c.v, loaded |-> TRUE, stale |-> cell.stale]
      [] c.action = "update" ->
            IF ~cell.there THEN cell ELSE [cell EXCEPT !.val = c.v]
CellAfter(c) ==
    CASE c.action = "delete" -> NoCell
      [] c.action = "insert" ->
            [there |-> TRUE, val |-> c.v, loaded |-> TRUE, stale |-> cell.stale]
      [] c.action = "update" ->
            IF ~cell.there THEN cell
            ELSE [cell EXCEPT !.val = c.v, !.stale = @ \/ ~cell.loaded]

\* writeCache: an update of a record that is not loaded evicts its old copy.
CacheAfter(c) ==
    CASE c.action = "delete" -> None
      [] c.action = "insert" -> c.v
      [] c.action = "update" -> IF cell.loaded THEN c.v ELSE None

\* The load in progress when the table's cell is deleted or created anew.
LoadAfter(c) ==
    IF c.action = "delete" THEN [load EXCEPT !.target = FALSE] ELSE load

\* A load in progress is told of updates only, not of a delete or an insert.
DeleteRace(c) ==
    IF c.action # "update" /\ load.stage # "idle" THEN {"deleteRace"} ELSE {}

\* A change of this tab and one of another session are applied in the other
\* order than the log has them.
Echo(c) ==
    IF (IF c.own THEN applied.foreign ELSE applied.own) > c.v THEN {"echo"} ELSE {}

\* So are two of this tab.
Swapped(c) == IF c.own /\ applied.own > c.v THEN {"swapped"} ELSE {}

Newer(v, w) == IF v < w THEN w ELSE v

ApplyChange(c) ==
    /\ cell' = CellAfter(c)
    /\ load' = LoadAfter(c)
    /\ applied' = IF c.own THEN [applied EXCEPT !.own = Newer(@, c.v)]
                  ELSE [applied EXCEPT !.foreign = Newer(@, c.v)]

LapsesOf(c) == DeleteRace(c) \cup Echo(c) \cup Swapped(c)

-----------------------------------------------------------------------------
(* load and queueLoad.                                                     *)

StartLoad(c) ==
    /\ cell' = c
    /\ load' = [stage |-> "reading", val |-> cache, target |-> TRUE, attempt |-> 0]

\* load(id) from a component: makes the cell, and queues a load unless the
\* record is loaded or another load is in progress.
LoadRecord ==
    LET c == IF cell.there THEN cell ELSE FreshCell IN
    /\ ~cell.loaded
    /\ \/ load.stage = "idle" /\ StartLoad(c)
       \/ load.stage # "idle" /\ ~cell.there /\ cell' = c /\ load' = load
    /\ UNCHANGED <<server, cache, sync, login, own, time1, stored, ghosts>>

\* The flags of the object queueLoad fills; an object out of the table has no
\* reader and gets no change.
TargetStale == load.target /\ cell.stale

Fill(v) ==
    IF load.target THEN [cell EXCEPT !.val = v, !.loaded = TRUE] ELSE cell

Unstale == IF load.target THEN [cell EXCEPT !.stale = FALSE] ELSE cell

\* cache.get has answered, with the copy the cache had when it was asked.
CopyUsable == load.val # None /\ ~TargetStale

UseCached ==
    /\ load.stage = "reading" /\ CopyUsable
    /\ cell' = Fill(load.val)
    /\ load' = NoLoad
    /\ UNCHANGED <<server, cache, sync, login, own, time1, stored, ghosts>>

\* No usable copy: ask the server, if authorized.
AskServer ==
    /\ load.stage = "reading" /\ ~CopyUsable
    /\ cell' = Unstale
    /\ load' = [load EXCEPT !.stage = "asked", !.val = None, !.attempt = 1]
    /\ UNCHANGED <<server, cache, sync, login, own, time1, stored, ghosts>>

\* The cache or the request fails, or the tab is not authorized: the record stays
\* as it is, until a retry.
LoadFails ==
    /\ Failures /\ load.stage # "idle"
    /\ load' = NoLoad
    /\ UNCHANGED <<server, cell, cache, sync, login, own, time1, stored, ghosts>>

ServeLoad ==
    /\ load.stage = "asked"
    /\ load' = [load EXCEPT !.stage = "served", !.val = doc]
    /\ UNCHANGED <<server, cell, cache, sync, login, own, time1, stored, ghosts>>

\* A change came while the reply was on its way: read again.
\* Seeded defect: the attempts are not counted against the limit.
RetryLoad_Unlimited ==
    /\ load.stage = "served" /\ TargetStale
    /\ cell' = Unstale
    /\ load' = [load EXCEPT !.stage = "asked", !.val = None, !.attempt = @ + 1]
    /\ UNCHANGED <<server, cache, sync, login, own, time1, stored, ghosts>>
RetryLoad ==
    /\ load.stage = "served" /\ TargetStale /\ load.attempt < Attempts
    /\ cell' = Unstale
    /\ load' = [load EXCEPT !.stage = "asked", !.val = None, !.attempt = @ + 1]
    /\ UNCHANGED <<server, cache, sync, login, own, time1, stored, ghosts>>

\* The reply is taken: into the target, and into the cache (unless that rejects it)
\* whatever became of the target.
FinishLoad ==
    /\ load.stage = "served" /\ (TargetStale => load.attempt = Attempts)
    /\ cell' = IF load.val = None THEN Unstale
               ELSE IF load.target THEN [Fill(load.val) EXCEPT !.stale = FALSE]
               ELSE cell
    /\ \/ cache' = IF load.val = None THEN cache ELSE load.val
       \/ Failures /\ cache' = cache
    /\ load' = NoLoad
    /\ lapses' = lapses \cup (IF TargetStale THEN {"attempts"} ELSE {})
    /\ UNCHANGED <<server, sync, login, own, time1, stored, applied>>

-----------------------------------------------------------------------------
(* update, add and remove: the change of the reply is applied at once.     *)
(* Any number of writes may be under way; a request that has not reached   *)
(* the database has done nothing, and one that is refused does nothing.    *)

OwnWrite(action) ==
    /\ Commit(action, TRUE)
    /\ own' = own \cup {Now + 1}
    /\ UNCHANGED <<cell, cache, load, sync, login, time1, stored, ghosts>>

\* The cache keeps an old copy, and no sync returns the change.
CacheFailed == IF cache # None THEN {"cacheFailed"} ELSE {}

WriteReplies ==
    /\ \E p \in own :
        /\ own' = own \ {p}
        /\ ApplyChange(log[p])
        /\ \/ /\ cache' = CacheAfter(log[p])
              /\ lapses' = lapses \cup LapsesOf(log[p])
           \/ /\ Failures /\ cache' = cache
              /\ lapses' = lapses \cup LapsesOf(log[p]) \cup CacheFailed
    /\ UNCHANGED <<server, sync, login, time1, stored>>

\* The answer does not come before the timeout, or comes to a page that is gone: the
\* change is made and logged as this session's own, and no sync returns it.
LostReply(writes) == IF writes # {} THEN {"lostReply"} ELSE {}

WriteFails ==
    /\ Failures
    /\ \E p \in own : own' = own \ {p} /\ lapses' = lapses \cup LostReply({p})
    /\ UNCHANGED <<server, cell, cache, load, sync, login, time1, stored, applied>>

-----------------------------------------------------------------------------
(* syncNow.                                                                *)

SyncNow ==
    /\ sync.stage = "idle"
    /\ sync' = [NoSync EXCEPT !.stage = "asked", !.from = time1]
    /\ UNCHANGED <<server, cell, cache, load, login, own, time1, stored, ghosts>>

ServeSync ==
    /\ sync.stage = "asked"
    /\ sync' = [sync EXCEPT !.stage = "applying", !.to = Now]
    /\ UNCHANGED <<server, cell, cache, load, login, own, time1, stored, ghosts>>

ServeReset ==
    /\ Resets /\ sync.stage = "asked" /\ sync.from < Now
    /\ sync' = [sync EXCEPT !.stage = "reset", !.to = Now]
    /\ UNCHANGED <<server, cell, cache, load, login, own, time1, stored, ghosts>>

\* The rows of the reply that are still to be applied: the log only grows, so they
\* are where they were when it was read.
Rows == {p \in sync.from + 1 .. sync.to : ~log[p].own}

\* One change of the reply; the loop awaits the cache before the next, and ends the
\* run if the cache rejects it: the changes come again.
ApplyNext ==
    /\ sync.stage = "applying"
    /\ \E p \in Rows :
        /\ \A q \in Rows : p <= q
        /\ ApplyChange(log[p]) /\ lapses' = lapses \cup LapsesOf(log[p])
        /\ \/ cache' = CacheAfter(log[p]) /\ sync' = [sync EXCEPT !.from = p]
           \/ Failures /\ cache' = cache /\ sync' = NoSync
    /\ UNCHANGED <<server, login, own, time1, stored>>

\* All of them: the cursor moves, in memory and in metaStorage.
FinishSync ==
    /\ sync.stage = "applying" /\ Rows = {}
    /\ time1' = sync.to /\ stored' = sync.to
    /\ sync' = NoSync
    /\ UNCHANGED <<server, cell, cache, load, login, own, ghosts>>

\* The request fails, or cache.clear() does.
SyncFails ==
    /\ Failures /\ sync.stage \in {"asked", "clearing"}
    /\ sync' = NoSync
    /\ UNCHANGED <<server, cell, cache, load, login, own, time1, stored, ghosts>>

-----------------------------------------------------------------------------
(* resetLocalState, for a reset reply and for a login.  It stores the new  *)
(* cursor, awaits cache.clear(), then moves the cursor and empties the     *)
(* records; retryUnloadedTables queues a load of every record that is not  *)
(* loaded and has none in progress.                                        *)

\* resetRecord: the record keeps its place and loses its data and flags.
Emptied == IF cell.there THEN FreshCell ELSE cell

RetryUnloaded ==
    IF Emptied.there /\ ~Emptied.loaded /\ load.stage = "idle"
    THEN StartLoad(Emptied)
    ELSE cell' = Emptied /\ load' = load

\* When the records are emptied, a load is in progress or has finished since the
\* cache was, or a reply of this tab's write is on its way: what it brings may
\* be older than the new cursor.
ResetRace ==
    IF load.stage # "idle" \/ cache # None \/ own # {}
    THEN {"resetRace"} ELSE {}

StartSyncReset ==
    /\ sync.stage = "reset"
    /\ stored' = sync.to
    /\ sync' = [sync EXCEPT !.stage = "clearing"]
    /\ UNCHANGED <<server, cell, cache, load, login, own, time1, ghosts>>

ClearForSync ==
    /\ sync.stage = "clearing"
    /\ cache' = None
    /\ sync' = [sync EXCEPT !.stage = "cleared"]
    /\ UNCHANGED <<server, cell, load, login, own, time1, stored, ghosts>>

FinishSyncReset ==
    /\ sync.stage = "cleared"
    /\ time1' = sync.to
    /\ RetryUnloaded
    /\ sync' = [sync EXCEPT !.stage = "retrying"]
    /\ lapses' = lapses \cup ResetRace
    /\ UNCHANGED <<server, cache, login, own, stored, applied>>

\* The retried loads are awaited, then the loop asks again from the new cursor.
ResumeSync ==
    /\ sync.stage = "retrying" /\ load.stage = "idle"
    /\ sync' = [NoSync EXCEPT !.stage = "asked", !.from = time1]
    /\ UNCHANGED <<server, cell, cache, load, login, own, time1, stored, ghosts>>

StartLogin ==
    /\ Logins /\ login.stage = "idle"
    /\ stored' = Now
    /\ login' = [stage |-> "clearing", to |-> Now]
    /\ UNCHANGED <<server, cell, cache, load, sync, own, time1, ghosts>>

ClearForLogin ==
    /\ login.stage = "clearing"
    /\ cache' = None
    /\ login' = [login EXCEPT !.stage = "cleared"]
    /\ UNCHANGED <<server, cell, load, sync, own, time1, stored, ghosts>>

\* cache.clear() rejects: the cursor stored is ahead of that in memory.
LoginFails ==
    /\ Failures /\ login.stage = "clearing"
    /\ login' = NoLogin
    /\ UNCHANGED <<server, cell, cache, load, sync, own, time1, stored, ghosts>>

\* A run of syncNow that began before the login's end goes on after it.
LoginRace == IF sync.stage # "idle" THEN {"loginRace"} ELSE {}

FinishLogin ==
    /\ login.stage = "cleared"
    /\ time1' = login.to
    /\ RetryUnloaded
    /\ login' = NoLogin
    /\ lapses' = lapses \cup ResetRace \cup LoginRace
    /\ UNCHANGED <<server, cache, sync, own, stored, applied>>

-----------------------------------------------------------------------------
\* A reset's or a login's cursor is stored and not yet in memory, and the cache still
\* or again holds an old record.
ResetCrash == IF stored > time1 /\ cache # None THEN {"resetCrash"} ELSE {}

\* The page is reloaded (or its process dies): memory is lost, the cache and
\* metaStorage stay.
Reload ==
    /\ Reloads
    /\ cell' = NoCell
    /\ load' = NoLoad /\ sync' = NoSync /\ login' = NoLogin /\ own' = {}
    /\ time1' = stored
    /\ lapses' = lapses \cup LostReply(own) \cup ResetCrash
    /\ UNCHANGED <<server, cache, stored, applied>>

Next ==
    \/ \E a \in ForeignActions : ForeignWrite(a)
    \/ LoadRecord \/ UseCached \/ AskServer \/ LoadFails
    \/ ServeLoad \/ RetryLoad \/ FinishLoad
    \/ \E a \in OwnActions : OwnWrite(a)
    \/ WriteReplies \/ WriteFails
    \/ SyncNow \/ ServeSync \/ ServeReset \/ ApplyNext \/ FinishSync \/ SyncFails
    \/ StartSyncReset \/ ClearForSync \/ FinishSyncReset \/ ResumeSync
    \/ StartLogin \/ ClearForLogin \/ LoginFails \/ FinishLogin
    \/ Reload

Spec == Init /\ [][Next]_vars

-----------------------------------------------------------------------------
(* Properties.                                                             *)

\* Nothing is under way and the cursor is at the end of the log.
CaughtUp ==
    /\ load.stage = "idle" /\ sync.stage = "idle" /\ login.stage = "idle"
    /\ own = {}
    /\ time1 = Now

\* A tab that has caught up shows the stored document: a record marked loaded
\* has its current value (unless a load used up its attempts, or the replies of two
\* of its own writes crossed).
ShowsStored ==
    CaughtUp /\ lapses \cap {"attempts", "swapped"} = {} => (cell.loaded => cell.val = doc)

\* A tab to which none of the listed lapses happened, and that has caught up,
\* shows the stored document, and its persistent cache keeps no older copy (which
\* the next page load would show and no sync would correct), whatever changes,
\* cache reads, replies, failures, resets, logins and page loads overlapped on
\* the way: there is no further way to diverge.
ConvergesUnlessLapsed ==
    CaughtUp /\ lapses = {} =>
        (cell.loaded => cell.val = doc) /\ (cache # None => cache = doc)

=============================================================================
