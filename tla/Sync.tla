-------------------------------- MODULE Sync --------------------------------
(***************************************************************************)
(* Time-window synchronisation: the sync method of packages/server-mongo   *)
(* and syncNow, login and the resets of packages/vue, over the change log  *)
(* of module ChangeLog.                                                    *)
(*                                                                         *)
(* Each session holds a cursor, time1.  A run of syncNow asks for the rows *)
(* in (time1, to], applies the reply and stores `to`, until the server has *)
(* no more; a cursor that is too old makes the client drop what it holds   *)
(* and start from `to`.  The server picks `to` before it reads the log,    *)
(* while writes are in flight.                                             *)
(*                                                                         *)
(* All sessions are authorized and may read every row (the access filter   *)
(* on changes is outside this module).                                     *)
(***************************************************************************)
EXTENDS ChangeLog

CONSTANTS
    MaxSyncWindow,   \* MAX_SYNC_WINDOW_MS
    MaxSyncAge,      \* MAX_SYNC_AGE_MS
    Skews            \* how far a client's clock may be from the server's

ASSUME WindowAssumption ==
    /\ MaxSyncWindow \in Nat \ {0}
    /\ MaxSyncAge \in Nat
ASSUME SkewAssumption == Skews \subseteq Int
\* The epoch, the cursor of a client that never synced, is always too old.
ASSUME EpochAssumption == FirstTime > MaxSyncAge

VARIABLES
    time1,      \* state.sync.time1 of every session
    run,        \* the call of syncNow in progress (syncPromise)
    login,      \* the client clock a login in progress took, or NoLogin
    got,        \* ghost: rows applied since the client's data were dropped
    torn,       \* ghost: those a failed run left applied beyond the cursor
    since,      \* ghost: cursor or clock when they were dropped
    blind       \* ghost: times read while a row could still land on them

clientVars == <<time1, run, login, got, torn, since, blind>>
vars == <<logVars, clientVars>>

Epoch == 0
NoLogin == -1

\* open and began are ghosts: the times of the window that were blind when the
\* log was read, and the clock when the run began.
Idle == [stage |-> "idle", from |-> 0, to |-> 0, rows |-> {}, more |-> FALSE,
         open |-> {}, began |-> 0]

Run == [stage : {"idle", "asked", "windowed", "found", "reset", "clearing", "retrying"},
        from : Nat, to : Nat, rows : SUBSET Row, more : BOOLEAN,
        open : SUBSET Nat, began : Nat]

SyncTypeOK ==
    /\ time1 \in [Sessions -> Nat]
    /\ run \in [Sessions -> Run]
    /\ login \in [Sessions -> Nat \cup {NoLogin}]
    /\ got \in [Sessions -> SUBSET Row]
    /\ torn \in [Sessions -> SUBSET Row]
    /\ since \in [Sessions -> Nat]
    /\ blind \in [Sessions -> SUBSET Nat]

TypeOK == LogTypeOK /\ SyncTypeOK

Init ==
    /\ LogInit
    /\ time1 = [s \in Sessions |-> Epoch]
    /\ run = [s \in Sessions |-> Idle]
    /\ login = [s \in Sessions |-> NoLogin]
    /\ got = [s \in Sessions |-> {}]
    /\ torn = [s \in Sessions |-> {}]
    /\ since = [s \in Sessions |-> Epoch]
    /\ blind = [s \in Sessions |-> {}]

-----------------------------------------------------------------------------
(* The window and the query of one sync request.                           *)

TooOld(from, at) == at - from > MaxSyncAge

WindowEnd(from, at) ==
    IF at < from + MaxSyncWindow THEN at ELSE from + MaxSyncWindow

\* Seeded defect: the last window of a run is reported as unfinished too.
HasMore_Always(from, at) == WindowEnd(from, at) <= at
\* Seeded defect: hasMore is never set.
HasMore_Never(from, at) == FALSE
HasMore(from, at) == WindowEnd(from, at) < at

\* createdAt: { $gt: from, $lte: to }
\* Seeded defect: $gte in place of $gt.
InWindow_Inclusive(t, from, to) == from <= t /\ t <= to
\* Seeded defect: $lt in place of $lte.
InWindow_Exclusive(t, from, to) == from < t /\ t < to
InWindow(t, from, to) == from < t /\ t <= to

\* sessionId: { $ne: caller }; a row without a sessionId goes to everyone.
Foreign(r, s) == r.by # s

RowsFor(s, from, to) ==
    {r \in log : InWindow(r.createdAt, from, to) /\ Foreign(r, s)}

\* A write in flight whose row will carry the time t.
Pending(t) ==
    \E w \in writes : w.stamp = t /\ (w.action = "delete" => w.stage = "appending")

\* Rows of time t may still be appended: the clock has not passed t, or a write
\* stamped t has not reached the log.
MayStillLand(t) == t >= now \/ Pending(t)

-----------------------------------------------------------------------------
(* One run of syncNow.                                                     *)

\* syncNow outside a run starts one, with the cursor of this moment.
\* Seeded defect: a request reaches back a millisecond, even from the epoch.
Ask_Overlapping(from, began) ==
    [Idle EXCEPT !.stage = "asked", !.from = from - 1, !.began = began]
Ask(from, began) ==
    [Idle EXCEPT !.stage = "asked", !.from = from, !.began = began]

StartRun(s, from) == run' = [run EXCEPT ![s] = Ask(from, now)]

SyncNow(s) ==
    /\ run[s].stage = "idle"
    /\ StartRun(s, time1[s])
    /\ UNCHANGED <<logVars, time1, login, got, torn, since, blind>>

\* forceResync: the cursor becomes the epoch, then syncNow, which joins the run
\* in progress if there is one.
ForceResync(s) ==
    /\ time1' = [time1 EXCEPT ![s] = Epoch]
    /\ IF run[s].stage = "idle" THEN StartRun(s, Epoch)
                                ELSE run' = run
    /\ UNCHANGED <<logVars, login, got, torn, since, blind>>

\* The server reads its clock and decides the window, or that the cursor is too
\* old and the client must reset.
ServeWindow(s) ==
    LET from == run[s].from IN
    /\ run[s].stage = "asked"
    /\ run' = [run EXCEPT ![s] =
        IF TooOld(from, now)
        THEN [@ EXCEPT !.stage = "reset", !.to = now]
        ELSE [@ EXCEPT !.stage = "windowed", !.to = WindowEnd(from, now),
                       !.more = HasMore(from, now)]]
    /\ UNCHANGED <<logVars, time1, login, got, torn, since, blind>>

\* ... and then reads the log.
FindRows(s) ==
    LET from == run[s].from
        to == run[s].to IN
    /\ run[s].stage = "windowed"
    /\ run' = [run EXCEPT ![s] =
        [@ EXCEPT !.stage = "found", !.rows = RowsFor(s, from, to),
                  !.open = {t \in from + 1 .. to : MayStillLand(t)}]]
    /\ UNCHANGED <<logVars, time1, login, got, torn, since, blind>>

\* The rows of a reply are applied one after the other, each with an await on the
\* cache.
IsFirst(r, R) == \A x \in R \ {r} : Precedes(r, x)

ApplyRow(s, r) ==
    /\ run[s].stage = "found"
    /\ r \in run[s].rows /\ IsFirst(r, run[s].rows)
    /\ got' = [got EXCEPT ![s] = @ \cup {r}]
    /\ run' = [run EXCEPT ![s].rows = @ \ {r}]
    /\ UNCHANGED <<logVars, time1, login, torn, since, blind>>

\* After the last of them the cursor moves to `to`, and the loop asks again from
\* there while the server has more.
NextCursor(s) == run[s].to

ApplyReply(s) ==
    /\ run[s].stage = "found" /\ run[s].rows = {}
    /\ time1' = [time1 EXCEPT ![s] = NextCursor(s)]
    /\ blind' = [blind EXCEPT ![s] = @ \cup run[s].open]
    /\ torn' = [torn EXCEPT ![s] = {r \in @ : r.createdAt > NextCursor(s)}]
    /\ run' = [run EXCEPT ![s] =
        IF @.more THEN Ask(NextCursor(s), @.began) ELSE Idle]
    /\ UNCHANGED <<logVars, login, got, since>>

\* A reset reply: resetLocalState awaits cache.clear() ...
StartClear(s) ==
    /\ run[s].stage = "reset"
    /\ run' = [run EXCEPT ![s].stage = "clearing"]
    /\ UNCHANGED <<logVars, time1, login, got, torn, since, blind>>

\* ... then moves the cursor and empties the records; retryUnloadedTables is
\* awaited ...
FinishReset(s) ==
    /\ run[s].stage = "clearing"
    /\ time1' = [time1 EXCEPT ![s] = run[s].to]
    /\ since' = [since EXCEPT ![s] = run[s].to]
    /\ got' = [got EXCEPT ![s] = {}]
    /\ torn' = [torn EXCEPT ![s] = {}]
    /\ run' = [run EXCEPT ![s].stage = "retrying"]
    /\ blind' = [blind EXCEPT ![s] = {t \in @ : t > run[s].to}]
    /\ UNCHANGED <<logVars, login>>

\* ... and the loop asks again, from where the cursor is by then.
GoOn(s) ==
    /\ run[s].stage = "retrying"
    /\ run' = [run EXCEPT ![s] = Ask(time1[s], @.began)]
    /\ UNCHANGED <<logVars, time1, login, got, torn, since, blind>>

\* What session s holds beyond its cursor.  A cursor at the epoch brings a reset
\* before anything else.
Beyond(s) == {r \in got[s] : time1[s] # Epoch /\ r.createdAt > time1[s]}

\* The request or its reply is lost, times out or is refused, or the cache or a
\* retried table fails: the run ends in error and the cursor stays, with the rows
\* of the reply that were applied beyond it.
RunFails(s) ==
    /\ run[s].stage # "idle"
    /\ run' = [run EXCEPT ![s] = Idle]
    /\ torn' = [torn EXCEPT ![s] = Beyond(s)]
    /\ UNCHANGED <<logVars, time1, login, got, since, blind>>

-----------------------------------------------------------------------------
(* login: the new cursor is the client's clock, taken when the server's    *)
(* answer arrives and put in force after cache.clear().  It does not wait  *)
(* for a run in progress, nor stop it.                                     *)

StartLogin(s, skew) ==
    /\ login[s] = NoLogin
    /\ now + skew >= 0
    /\ login' = [login EXCEPT ![s] = now + skew]
    /\ UNCHANGED <<logVars, time1, run, got, torn, since, blind>>

FinishLogin(s) ==
    /\ login[s] # NoLogin
    /\ time1' = [time1 EXCEPT ![s] = login[s]]
    /\ since' = [since EXCEPT ![s] = now]
    /\ got' = [got EXCEPT ![s] = {}]
    /\ torn' = [torn EXCEPT ![s] = {}]
    /\ blind' = [blind EXCEPT ![s] = {t \in @ : t > now} \cup (now + 1 .. login[s])]
    /\ login' = [login EXCEPT ![s] = NoLogin]
    /\ UNCHANGED <<logVars, run>>

-----------------------------------------------------------------------------
ServerStep == LogNext /\ UNCHANGED clientVars

Next ==
    \/ ServerStep
    \/ \E s \in Sessions : SyncNow(s)
    \/ \E s \in Sessions : ForceResync(s)
    \/ \E s \in Sessions : ServeWindow(s)
    \/ \E s \in Sessions : FindRows(s)
    \/ \E s \in Sessions : \E r \in run[s].rows : ApplyRow(s, r)
    \/ \E s \in Sessions : ApplyReply(s)
    \/ \E s \in Sessions : StartClear(s)
    \/ \E s \in Sessions : FinishReset(s)
    \/ \E s \in Sessions : GoOn(s)
    \/ \E s \in Sessions : RunFails(s)
    \/ \E s \in Sessions, skew \in Skews : StartLogin(s, skew)
    \/ \E s \in Sessions : FinishLogin(s)

Spec == Init /\ [][Next]_vars

\* The request, the query and the reply of a run are always answered: fairness
\* of the socket, the database and the event loop, none of the failures.
RunSteps(s) ==
    \/ ServeWindow(s) \/ FindRows(s)
    \/ \E r \in run[s].rows : ApplyRow(s, r)
    \/ ApplyReply(s) \/ StartClear(s) \/ FinishReset(s) \/ GoOn(s)

Fairness == \A s \in Sessions : WF_vars(RunSteps(s))

FairSpec == Spec /\ Fairness

-----------------------------------------------------------------------------
(* Properties.                                                             *)

\* The cursor has passed a row of another session without delivering it.
Missed(s, r) ==
    /\ Foreign(r, s)
    /\ since[s] < r.createdAt /\ r.createdAt <= time1[s]
    /\ r \notin got[s]

\* Consecutive windows tile time: a change is skipped only if its row landed
\* after a window over its time was read, while its write was in flight or the
\* clock had not moved on, or if a client clock ahead of the server's put the
\* cursor past it.
MissedOnlyIfBlind ==
    \A s \in Sessions : \A r \in log : Missed(s, r) => r.createdAt \in blind[s]

\* What the protocol's documentation promises instead: no change is missed
\* across consecutive calls of sync.
NothingMissed == \A s \in Sessions : \A r \in log : ~Missed(s, r)

\* No change is applied twice by a session that has not dropped its data in
\* between, whatever runs fail, restart or overlap a login, except those that a run
\* which failed in the middle of a reply left applied beyond the cursor.
NeverTwice ==
    [][\A s \in Sessions : \A r \in run[s].rows :
          ApplyRow(s, r) /\ r \in got[s] => r \in torn[s]]_vars

\* A run that ends normally leaves the cursor at or after the moment it began
\* (every window was asked for), and never ahead of the server's clock, so a
\* cursor that a fast client clock put in the future comes back.
RunReachesPresent ==
    [][\A s \in Sessions : ApplyReply(s) =>
        /\ time1'[s] <= now
        /\ run'[s].stage = "idle" => time1'[s] >= run[s].began]_vars

\* The times of the writes in flight whose rows carry a stamp.
PendingTimes ==
    {w.stamp : w \in {x \in writes : x.action = "delete" => x.stage = "appending"}}

\* A reply that was read counts as such until it is applied or lost.
Excused ==
    [s \in Sessions |-> blind[s] \cup (IF run[s].stage = "found" THEN run[s].open ELSE {})]

Feed == INSTANCE ChangeFeed WITH
    pending <- PendingTimes, cursor <- time1, held <- got,
    loose <- torn, excused <- Excused

\* Windows, resets, failures, logins and joined runs together are the feed of module
\* ChangeFeed: changes come in order and once, but for those a failed run left beyond
\* the cursor; a cursor leaves nothing behind but what landed on a time while it was
\* read; and a session's data go only when it begins anew
\* (index.js:354-454, vue index.js:95-165).
ImplementsFeed == Feed!Spec

\* Every run ends, once the clock stands still, unless resynchronisations are forced
\* or users log in for ever: resets and windows do not follow each other by themselves.
RunsEnd ==
    \A s \in Sessions :
        \/ run[s].stage # "idle" ~> run[s].stage = "idle"
        \/ []<><<ForceResync(s)>>_vars
        \/ []<><<FinishLogin(s)>>_vars

-----------------------------------------------------------------------------
(* The inductive invariant behind MissedOnlyIfBlind and NeverTwice.        *)

InFlight == {"asked", "windowed", "found"}

\* The rows of time t are final and session s has those it should get.
Delivered(s, t) ==
    /\ ~MayStillLand(t)
    /\ \A r \in log : r.createdAt = t /\ Foreign(r, s) => r \in got[s]

\* Every time between the last drop of data and x is delivered or blind.
CoveredUpTo(s, x) ==
    \A t \in since[s] + 1 .. x : t \in blind[s] \/ Delivered(s, t)

\* A reply in hand and what was applied of it hold every row of its window since the
\* last drop of data, except at its open times.
ReplyComplete(s) ==
    \A t \in run[s].from + 1 .. run[s].to :
        \/ t \in run[s].open
        \/ t <= since[s]
        \/ /\ ~MayStillLand(t)
           /\ \A r \in log :
                r.createdAt = t /\ Foreign(r, s) => r \in run[s].rows \cup got[s]

\* Neither the drop of data nor the end of a reset or a window is in the future.
ClocksBehind ==
    \A s \in Sessions :
        /\ since[s] <= now
        /\ run[s].stage \in {"reset", "clearing", "windowed", "found"} => run[s].to <= now

SessionCovered(s) ==
    /\ CoveredUpTo(s, time1[s])
    /\ run[s].stage \in InFlight => CoveredUpTo(s, run[s].from)
    /\ run[s].stage = "found" => ReplyComplete(s)

Covered == \A s \in Sessions : SessionCovered(s)

\* No row is from the future.
RowsPast ==
    /\ FirstTime <= now
    /\ \A w \in writes : w.stamp <= now
    /\ \A r \in log : r.createdAt <= now
    /\ \A s \in Sessions : got[s] \subseteq log

\* What session s holds and no failed run left beyond the cursor.
Firm(s) == got[s] \ torn[s]

FirmUpTo(s, x) == \A r \in Firm(s) : r.createdAt <= x

\* The cursor and the request in flight are at or after everything the session holds
\* firmly, unless they were put back to the epoch, which no window starts from; only
\* the rows applied of a reply in hand are beyond the cursor, and they precede those
\* that are left.
SessionPastHeld(s) ==
    /\ time1[s] # Epoch =>
          IF run[s].stage = "found"
          THEN \A r \in Firm(s) :
                  r.createdAt <= time1[s] \/ InWindow(r.createdAt, run[s].from, run[s].to)
          ELSE FirmUpTo(s, time1[s])
    /\ run[s].stage = "asked" /\ run[s].from # Epoch => FirmUpTo(s, run[s].from)
    /\ run[s].stage = "windowed" => FirmUpTo(s, run[s].from)
    /\ run[s].stage \in {"windowed", "found"} => FirmUpTo(s, run[s].to)
    /\ run[s].stage = "found" =>
          \A r \in run[s].rows :
              /\ r \in log /\ InWindow(r.createdAt, run[s].from, run[s].to)
              /\ Foreign(r, s)
              /\ \A h \in Firm(s) : Precedes(h, r)

CursorPastHeld == \A s \in Sessions : SessionPastHeld(s)

IInv == TypeOK /\ ClocksBehind /\ Covered /\ RowsPast /\ CursorPastHeld

=============================================================================
