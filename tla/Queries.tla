------------------------------- MODULE Queries --------------------------------
(***************************************************************************)
(* One count or id query of one tab: an entry of countRef or idsRef in     *)
(* packages/vue/src/table.js (the two are the same code), its debounced    *)
(* refreshes, its copy in the persistent cache, and what announces changes *)
(* to it: syncNow, applyChange, resetLocalState and the retries of         *)
(* packages/vue/src/index.js.  A page reload may come between any two      *)
(* steps.                                                                  *)
(*                                                                         *)
(* The server is ideal (modules ChangeLog and Sync have the real one).     *)
(* Every write of the table changes the result of the query; the result    *)
(* and the log both are the number of writes so far, so that a value is    *)
(* the version it was computed at.  A refresh is answered by the version   *)
(* current when the server gets to it, and replies come in any order.      *)
(* Calls on the cache take effect when they are made, as in RecordCache.   *)
(***************************************************************************)
EXTENDS Integers, Sequences, SequencesExt

CONSTANTS
    MaxVersion,   \* bound on the writes of the table
    MaxInFlight,  \* bound on the refreshes under way at once
    Worlds        \* the environments to consider; each a set of what may happen

ASSUME QueryBounds == MaxVersion \in Nat \ {0} /\ MaxInFlight \in Nat \ {0}
ASSUME QueryWorlds ==
    Worlds \subseteq SUBSET {"ownWrites", "resets", "logins", "reloads", "failures",
                      "closes"}

VARIABLES
    world,     \* what may happen in this behaviour, chosen at the start:
               \* this tab writes, the server answers sync with a reset, the user
               \* logs in (again), the page is reloaded, requests fail or time
               \* out, the connection is lost
    version,   \* the server: the version of the query's result
    mine,      \* the versions written by this tab's session
    auth,      \* state.auth.status is "authorized"
    entry,     \* the entry of countRefs
    timer,     \* entry.timer is armed
    inflight,  \* the refreshes under way, in the order they were begun
    reading,   \* the readCachedQuery in progress
    cache,     \* the query's entry in the persistent cache, or None
    run,       \* the syncNow in progress
    login,     \* the resetLocalState of a login in progress
    retry,     \* the retryUnloadedTables that authByHash has still to do
    own,       \* this tab's writes in progress
    time1,     \* state.sync.time1
    stored,    \* the cursor in metaStorage
    lapses     \* ghost: the known ways to stay behind that have happened

vars == <<world, version, mine, auth, entry, timer, inflight, reading, cache, run, login,
          retry, own, time1, stored, lapses>>
clock == <<world, version, mine>>
query == <<entry, timer, inflight, reading, cache>>
session == <<auth, run, login, retry, own, time1, stored>>

None == 0
Version == 1 .. MaxVersion
Value == Version \cup {None}

\* known: ghost, the newest version the entry was told of or has shown.
NoEntry == [there |-> FALSE, value |-> None, loaded |-> FALSE, known |-> None]
FreshEntry == [NoEntry EXCEPT !.there = TRUE]

\* passed: ghost, a refresh begun later has ended or was not even sent.  awaited: a sync run waits.
Refresh == [stage : {"asked", "served", "lost"}, val : Value, passed : BOOLEAN,
            awaited : BOOLEAN]

NotReading == [on |-> FALSE, val |-> None]
Idle == [stage |-> "idle", from |-> None, to |-> None, more |-> FALSE, changed |-> FALSE]
NoLogin == [stage |-> "idle", to |-> None]

\* asked: a write that the server has not got to; those under way are served in any
\* order, so one at a time will do.  orphan: the same, of a connection or a page that is
\* gone.  done: those served whose reply is not yet applied, however many.
NoWrite == [asked |-> FALSE, orphan |-> FALSE, done |-> {}]

\* The ways the code is known to leave a query behind; see the ghost's updates.
Lapse == {"overtaken", "lateCache", "openedLate", "abandonedRun", "lostReply", "unannounced"}

QueryTypeOK ==
    /\ world \in Worlds
    /\ version \in Version /\ mine \subseteq Version
    /\ auth \in BOOLEAN /\ timer \in BOOLEAN
    /\ entry \in [there : BOOLEAN, value : Value, loaded : BOOLEAN, known : Value]
    /\ inflight \in Seq(Refresh) /\ Len(inflight) <= MaxInFlight
    /\ reading \in [on : BOOLEAN, val : Value]
    /\ cache \in Value
    /\ run \in [stage : {"idle", "asked", "window", "reset", "clearing", "retrying", "lost"},
                from : Value, to : Value, more : BOOLEAN, changed : BOOLEAN]
    /\ login \in [stage : {"idle", "clearing"}, to : Value]
    /\ retry \in {"none", "afterSync", "due"}
    /\ own \in [asked : BOOLEAN, orphan : BOOLEAN, done : SUBSET Version]
    /\ time1 \in Version /\ stored \in Version
    /\ lapses \subseteq Lapse
    /\ ~entry.there => entry = NoEntry /\ ~timer /\ inflight = <<>> /\ ~reading.on
    /\ run.stage = "retrying" \/ \A i \in DOMAIN inflight : ~inflight[i].awaited

\* A page opened for the first time, synchronised with a server that has data.
Init ==
    /\ world \in Worlds
    /\ version = 1 /\ mine = {}
    /\ auth = FALSE
    /\ entry = NoEntry /\ timer = FALSE /\ inflight = <<>> /\ reading = NotReading
    /\ cache = None
    /\ run = Idle /\ login = NoLogin /\ retry = "none" /\ own = NoWrite
    /\ time1 = 1 /\ stored = 1
    /\ lapses = {}

-----------------------------------------------------------------------------
(* The server.                                                             *)

Commit(mineToo) ==
    /\ version < MaxVersion
    /\ version' = version + 1
    /\ mine' = IF mineToo THEN mine \cup {version + 1} ELSE mine
    /\ UNCHANGED world

ForeignWrite == Commit(FALSE) /\ UNCHANGED <<query, session, lapses>>

\* Versions in (from, to] that a sync returns.
Returned(from, to) == (from + 1 .. to) \ mine

\* A version after v that no sync from the cursor t on will return.
Untold(v, t) == \E w \in v + 1 .. version : w <= t \/ w \in mine

-----------------------------------------------------------------------------
(* entry.refresh, as a change of the entry and of the refreshes under way. *)

\* Unauthorized, a refresh only marks the entry.
Refreshing(e, signedIn, awaited) ==
    IF signedIn
    THEN /\ Len(inflight) < MaxInFlight
         /\ entry' = e
         /\ inflight' = Append(inflight, [stage |-> "asked", val |-> None,
                                          passed |-> FALSE, awaited |-> awaited])
    ELSE /\ entry' = [e EXCEPT !.loaded = FALSE]
         /\ inflight' = [i \in DOMAIN inflight |-> [inflight[i] EXCEPT !.passed = TRUE]]

\* __retryUnloaded: a refresh of an entry that is not loaded.
RetryUnloaded(e, signedIn, awaited) ==
    IF e.there /\ ~e.loaded THEN Refreshing(e, signedIn, awaited)
    ELSE entry' = e /\ UNCHANGED inflight

ServeRefresh(i) ==
    /\ inflight[i].stage = "asked"
    /\ inflight' = [inflight EXCEPT ![i].stage = "served", ![i].val = version]
    /\ UNCHANGED <<clock, entry, timer, reading, cache, session, lapses>>

\* The i-th refresh ends: those begun before it have been passed by.
Ended(i) ==
    RemoveAt([j \in DOMAIN inflight |->
                IF j < i THEN [inflight[j] EXCEPT !.passed = TRUE] ELSE inflight[j]], i)

Newest(a, b) == IF a > b THEN a ELSE b

\* The reply is shown, whatever came after the request, and stored.
TakeReply(i) ==
    /\ inflight[i].stage = "served"
    /\ LET v == inflight[i].val IN
       /\ entry' = [entry EXCEPT !.value = v, !.loaded = TRUE, !.known = Newest(@, v)]
       /\ cache' = v
       /\ lapses' = lapses \cup (IF inflight[i].passed THEN {"overtaken"} ELSE {})
    /\ inflight' = Ended(i)
    /\ UNCHANGED <<clock, timer, reading, session>>

\* The reply is shown but the cache refuses it.
CacheRefuses(i) ==
    /\ "failures" \in world
    /\ inflight[i].stage = "served"
    /\ LET v == inflight[i].val IN
       entry' = [entry EXCEPT !.value = v, !.loaded = FALSE, !.known = Newest(@, v)]
    /\ inflight' = Ended(i)
    /\ UNCHANGED <<clock, timer, reading, cache, session, lapses>>

RefreshFails(i) ==
    /\ "failures" \in world \/ inflight[i].stage = "lost"
    /\ entry' = [entry EXCEPT !.loaded = FALSE]
    /\ inflight' = Ended(i)
    /\ UNCHANGED <<clock, timer, reading, cache, session, lapses>>

-----------------------------------------------------------------------------
(* scheduleCountRefresh, its timer, and clearAllCountRefs.                 *)

\* The entry is told of the versions up to v.
Scheduled(v) ==
    /\ entry' = IF entry.there
                THEN [entry EXCEPT !.loaded = FALSE, !.known = Newest(@, v)] ELSE entry
    /\ timer' = entry.there

TimerFires ==
    /\ timer
    /\ timer' = FALSE
    /\ Refreshing(entry, auth, FALSE)
    /\ UNCHANGED <<clock, reading, cache, session, lapses>>

\* What was shown is gone with everything else a reset drops.
Cleared(v) ==
    IF entry.there THEN [FreshEntry EXCEPT !.known = Newest(entry.known, v)] ELSE entry

-----------------------------------------------------------------------------
(* countRef and readCachedQuery.                                           *)

\* A component asks for the query for the first time on this page.
Open ==
    /\ ~entry.there
    /\ entry' = FreshEntry
    /\ reading' = [on |-> TRUE, val |-> cache]
    /\ lapses' = lapses \cup
        (IF cache # None /\ Untold(cache, time1) THEN {"openedLate"} ELSE {})
    /\ UNCHANGED <<clock, timer, inflight, cache, session>>

\* Older than what the entry knows, with nothing under way to replace it.
CachedTooLate ==
    reading.val < entry.known /\ ~timer /\ inflight = <<>>

\* The cached value is shown, whatever came meanwhile.
UseCached ==
    /\ reading.on /\ reading.val # None
    /\ entry' = [entry EXCEPT !.value = reading.val, !.loaded = TRUE]
    /\ reading' = NotReading
    /\ lapses' = lapses \cup (IF CachedTooLate THEN {"lateCache"} ELSE {})
    /\ UNCHANGED <<clock, timer, inflight, cache, session>>

\* refreshMissingQuery.
MissCached ==
    /\ reading.on /\ reading.val = None
    /\ IF ~entry.loaded /\ auth THEN Refreshing(entry, auth, FALSE)
       ELSE UNCHANGED <<entry, inflight>>
    /\ reading' = NotReading
    /\ UNCHANGED <<clock, timer, cache, session, lapses>>

-----------------------------------------------------------------------------
(* syncNow.                                                                *)

Asking(from, changed) ==
    [Idle EXCEPT !.stage = IF auth THEN "asked" ELSE "lost", !.from = from, !.changed = changed]

SyncNow ==
    /\ auth /\ run.stage = "idle"
    /\ run' = Asking(time1, FALSE)
    /\ UNCHANGED <<clock, query, auth, login, retry, own, time1, stored, lapses>>

\* A window is a span of time: it may end before the newest version, be empty,
\* and not be the last though nothing comes after it.
ServeWindow ==
    /\ run.stage = "asked"
    /\ \E to \in run.from .. version, more \in BOOLEAN :
        /\ to < version => more
        /\ run' = [run EXCEPT !.stage = "window", !.to = to, !.more = more]
    /\ UNCHANGED <<clock, query, auth, login, retry, own, time1, stored, lapses>>

ServeReset ==
    /\ "resets" \in world
    /\ run.stage = "asked" /\ run.from < version
    /\ run' = [run EXCEPT !.stage = "reset", !.to = version]
    /\ UNCHANGED <<clock, query, auth, login, retry, own, time1, stored, lapses>>

Changed == run.changed \/ Returned(run.from, run.to) # {}

MoveCursor == time1' = run.to /\ stored' = run.to

\* The changes of a window that is not the last are announced with the last.
NextWindow ==
    /\ run.stage = "window" /\ run.more
    /\ MoveCursor
    /\ run' = Asking(run.to, Changed)
    /\ UNCHANGED <<clock, query, auth, login, retry, own, lapses>>

\* authByHash goes on to retry once the run it awaits has ended.
RunSucceeds ==
    /\ run.stage = "window" /\ ~run.more
    /\ MoveCursor
    /\ IF Changed THEN Scheduled(run.to) ELSE UNCHANGED <<entry, timer>>
    /\ run' = Idle
    /\ retry' = IF retry = "afterSync" THEN "due" ELSE retry
    /\ UNCHANGED <<clock, inflight, reading, cache, auth, login, own, lapses>>

\* A request, the cache while a reply is applied, or cache.clear() of a reset.
\* authByHash takes the failure for its own and signs the tab out.
RunFails ==
    /\ \/ "failures" \in world /\ run.stage \in {"asked", "window", "reset", "clearing"}
       \/ run.stage = "lost"
    /\ run' = Idle
    /\ auth' = IF retry = "afterSync" THEN FALSE ELSE auth
    /\ retry' = IF retry = "afterSync" THEN "none" ELSE retry
    /\ lapses' = lapses \cup (IF run.changed THEN {"abandonedRun"} ELSE {})
    /\ UNCHANGED <<clock, query, login, own, time1, stored>>

-----------------------------------------------------------------------------
(* resetLocalState of a sync reset: the cursor is stored, the cache is     *)
(* cleared, and only then memory is; unloaded queries are asked for again, *)
(* and the run goes on when they have answered.                            *)

BeginReset ==
    /\ run.stage = "reset"
    /\ stored' = run.to
    /\ run' = [run EXCEPT !.stage = "clearing"]
    /\ UNCHANGED <<clock, query, auth, login, retry, own, time1, lapses>>

\* Seeded defect: the entry stays loaded.
ClearForReset_Kept ==
    /\ run.stage = "clearing"
    /\ cache' = None /\ time1' = run.to
    /\ timer' = FALSE
    /\ RetryUnloaded([Cleared(run.to) EXCEPT !.loaded = entry.loaded], auth, TRUE)
    /\ run' = [run EXCEPT !.stage = "retrying"]
    /\ UNCHANGED <<clock, reading, auth, login, retry, own, stored, lapses>>
ClearForReset ==
    /\ run.stage = "clearing"
    /\ cache' = None /\ time1' = run.to
    /\ timer' = FALSE
    /\ RetryUnloaded(Cleared(run.to), auth, TRUE)
    /\ run' = [run EXCEPT !.stage = "retrying"]
    /\ UNCHANGED <<clock, reading, auth, login, retry, own, stored, lapses>>

\* Seeded defect: the run does not wait for the queries.
GoOn_AtOnce ==
    /\ run.stage = "retrying"
    /\ run' = Asking(time1, run.changed)
    /\ UNCHANGED <<clock, query, auth, login, retry, own, time1, stored, lapses>>
GoOn ==
    /\ run.stage = "retrying"
    /\ \A i \in DOMAIN inflight : ~inflight[i].awaited
    /\ run' = Asking(time1, run.changed)
    /\ UNCHANGED <<clock, query, auth, login, retry, own, time1, stored, lapses>>

-----------------------------------------------------------------------------
(* Signing in (module Session has the details) and losing the connection.  *)

\* authByHash: authorized, then the sync, then the retry.
SignIn ==
    /\ ~auth /\ retry = "none"
    /\ auth' = TRUE
    /\ retry' = "afterSync"
    /\ run' = IF run.stage = "idle"
              THEN [Idle EXCEPT !.stage = "asked", !.from = time1] ELSE run
    /\ UNCHANGED <<clock, query, login, own, time1, stored, lapses>>

RetryAfterSignIn ==
    /\ retry = "due"
    /\ retry' = "none"
    /\ RetryUnloaded(entry, auth, FALSE)
    /\ UNCHANGED <<clock, timer, reading, cache, auth, run, login, own, time1, stored, lapses>>

\* login: the cursor is set to the present, and everything before it dropped.
BeginLogin ==
    /\ "logins" \in world
    /\ login.stage = "idle"
    /\ login' = [stage |-> "clearing", to |-> version]
    /\ stored' = version
    /\ UNCHANGED <<clock, query, auth, run, retry, own, time1, lapses>>

FinishLogin ==
    /\ login.stage = "clearing"
    /\ cache' = None /\ time1' = login.to
    /\ timer' = FALSE
    /\ auth' = TRUE
    /\ RetryUnloaded(Cleared(login.to), TRUE, FALSE)
    /\ login' = NoLogin
    /\ UNCHANGED <<clock, reading, run, retry, own, stored, lapses>>

\* The cache cannot be cleared: the cursor stays stored.
LoginFails ==
    /\ "failures" \in world
    /\ login.stage = "clearing"
    /\ login' = NoLogin
    /\ UNCHANGED <<clock, query, auth, run, retry, own, time1, stored, lapses>>

\* What the server has not got to it may still do.
Orphaned == [NoWrite EXCEPT !.orphan = own.asked \/ own.orphan]

\* Replies do not come over another connection than their request.
Disconnect ==
    /\ "closes" \in world
    /\ auth
    /\ auth' = FALSE
    /\ inflight' = [i \in DOMAIN inflight |->
                        [inflight[i] EXCEPT !.stage = "lost", !.val = None]]
    /\ run' = IF run.stage \in {"asked", "window", "reset"}
              THEN [run EXCEPT !.stage = "lost", !.to = None, !.more = FALSE] ELSE run
    /\ \E arrived \in SUBSET own.done :
        /\ own' = [Orphaned EXCEPT !.done = arrived]
        /\ lapses' = lapses \cup (IF arrived # own.done THEN {"lostReply"} ELSE {})
    /\ UNCHANGED <<clock, entry, timer, reading, cache, login, retry, time1, stored>>

-----------------------------------------------------------------------------
(* update, add and remove, whose reply announces the change at once.       *)

StartWrite ==
    /\ "ownWrites" \in world
    /\ auth /\ ~own.asked
    /\ own' = [own EXCEPT !.asked = TRUE]
    /\ UNCHANGED <<clock, query, auth, run, login, retry, time1, stored, lapses>>

ServeWrite ==
    /\ Commit(TRUE)
    /\ \/ /\ own.asked
          /\ own' = [own EXCEPT !.asked = FALSE, !.done = @ \cup {version + 1}]
          /\ UNCHANGED lapses
       \/ /\ own.orphan
          /\ own' = [own EXCEPT !.orphan = FALSE]
          /\ lapses' = lapses \cup {"lostReply"}
    /\ UNCHANGED <<query, auth, run, login, retry, time1, stored>>

\* Replies come in any order.
WriteReplies ==
    /\ \E v \in own.done :
        /\ Scheduled(v)
        /\ own' = [own EXCEPT !.done = @ \ {v}]
    /\ UNCHANGED <<clock, inflight, reading, cache, auth, run, login, retry, time1, stored,
                   lapses>>

\* The cache refuses the changed record: the change is never announced, and a sync
\* does not return it.
ReplyUnannounced ==
    /\ "failures" \in world
    /\ \E v \in own.done : own' = [own EXCEPT !.done = @ \ {v}]
    /\ lapses' = lapses \cup {"unannounced"}
    /\ UNCHANGED <<clock, query, auth, run, login, retry, time1, stored>>

\* Refused, or never received.
WriteFails ==
    /\ \/ own.asked /\ own' = [own EXCEPT !.asked = FALSE]
       \/ own.orphan /\ own' = [own EXCEPT !.orphan = FALSE]
    /\ UNCHANGED <<clock, query, auth, run, login, retry, time1, stored, lapses>>

-----------------------------------------------------------------------------
(* The page is reloaded: what is left is the cache and the stored cursor.  *)

Reload ==
    /\ "reloads" \in world
    /\ entry' = NoEntry /\ timer' = FALSE /\ inflight' = <<>> /\ reading' = NotReading
    /\ run' = Idle /\ login' = NoLogin /\ retry' = "none" /\ auth' = FALSE
    /\ time1' = stored
    /\ own' = Orphaned
    /\ lapses' = lapses \cup (IF own.done # {} THEN {"lostReply"} ELSE {})
    /\ UNCHANGED <<clock, cache, stored>>

Next ==
    \/ ForeignWrite
    \/ Open \/ UseCached \/ MissCached \/ TimerFires
    \/ \E i \in DOMAIN inflight :
        ServeRefresh(i) \/ TakeReply(i) \/ CacheRefuses(i) \/ RefreshFails(i)
    \/ SyncNow \/ ServeWindow \/ NextWindow \/ RunSucceeds \/ RunFails
    \/ ServeReset \/ BeginReset \/ ClearForReset \/ GoOn
    \/ SignIn \/ RetryAfterSignIn \/ BeginLogin \/ FinishLogin \/ LoginFails \/ Disconnect
    \/ StartWrite \/ ServeWrite \/ WriteReplies \/ ReplyUnannounced \/ WriteFails
    \/ Reload

Spec == Init /\ [][Next]_vars

-----------------------------------------------------------------------------
(* Properties.                                                             *)

\* Nothing is under way in the tab, and it has been told of every change.
AtRest ==
    /\ auth /\ entry.there /\ ~timer /\ inflight = <<>> /\ ~reading.on
    /\ run = Idle /\ login = NoLogin /\ retry = "none" /\ ~own.asked /\ own.done = {}
    /\ Returned(time1, version) = {}

\* A tab at rest that takes a query for loaded shows the stored result, and so
\* does what it has cached, unless one of the lapses happened: the answer of an older
\* refresh came last (table.js:124); the cached value came after newer ones
\* (table.js:402); the query was opened with a cached value older than a cursor
\* that has moved on without it (table.js:400, index.js:120); a run failed with
\* announcements outstanding (index.js:125); the reply of a write was lost; the cache
\* refused the record a write had changed (index.js:156).
QueryIsCurrent ==
    AtRest /\ entry.loaded /\ lapses = {} =>
        entry.value = version /\ cache \in {None, version}
=============================================================================
