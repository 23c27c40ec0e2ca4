-------------------------- MODULE RecordCacheProofs ---------------------------
(***************************************************************************)
(* A tab that has caught up shows the stored document and caches no other, *)
(* unless one of the named lapses happened: for any number of changes and  *)
(* attempts, and whatever writes, loads, syncs, resets, logins, failures   *)
(* and page loads overlapped.                                              *)
(*                                                                         *)
(* A value is pending if each later change will still be applied to it, by *)
(* a sync or by the reply of a write of this tab.  As long as nothing      *)
(* lapsed, whatever the tab shows, caches or is about to take is pending.  *)
(***************************************************************************)
EXTENDS RecordCache, SequenceTheorems, TLAPS

-----------------------------------------------------------------------------
(* The invariant.                                                          *)

\* Where this tab's syncs go on: rows up to here will not come again.
Front == IF sync.stage = "applying" THEN sync.from ELSE time1

\* The value is one the document had, and each later change of log l will still be
\* applied: by a sync that goes on from f, or by one of the replies o to this tab.
IsPending(l, o, f, v) ==
    /\ v \in 1 .. Len(l) /\ l[v].action # "delete"
    /\ \A p \in v + 1 .. Len(l) :
        IF l[p].own THEN p \in o ELSE p > f
Pending(v) == IsPending(log, own, Front, v)

\* Cells, copies and replies that are not marked for another read.
CellPending == cell.loaded => cell.there /\ Pending(cell.val)
CachePending == cache # None => Pending(cache)
LoadPending ==
    load.stage \in {"reading", "served"} /\ load.val # None /\ ~cell.stale =>
        Pending(load.val)

\* A load in progress fills the cell in the table, which is not loaded meanwhile.
LoadHasTarget ==
    load.stage # "idle" => load.target /\ cell.there /\ ~cell.loaded

\* Every change of this tab is applied, but those whose replies are on their way;
\* what other sessions changed after one of these comes later, or has come before it.
OwnApplied ==
    \A p \in 1 .. Now : log[p].own => p <= applied.own \/ p \in own
RepliesBehind ==
    \A v \in own : \A p \in v + 1 .. Now :
        ~log[p].own => p > Front \/ p <= applied.foreign

Converging ==
    /\ CellPending /\ CachePending /\ LoadPending /\ LoadHasTarget
    /\ OwnApplied /\ RepliesBehind

\* What holds whatever lapsed: the log counts its changes, the document is what its
\* last change left, and no cursor is past its end.
LogInv ==
    /\ Now > 0 /\ \A p \in 1 .. Now : log[p].v = p
    /\ doc = IF log[Now].action = "delete" THEN None ELSE Now
CursorsInv ==
    /\ time1 <= Now /\ stored <= Now /\ sync.to <= Now /\ login.to <= Now
    /\ sync.stage \in {"asked", "applying"} => sync.from <= Now
    /\ applied.own <= Now /\ applied.foreign <= Now
    /\ \A p \in own : p \in 1 .. Now /\ log[p].own
\* A run goes on from the cursor in memory, unless a login has moved it.
RunFrom ==
    /\ sync.stage = "asked" => sync.from = time1
    /\ sync.stage = "applying" => time1 <= sync.from /\ sync.from <= sync.to

\* A state before any lapse.
Calm == TypeOK /\ LogInv /\ CursorsInv /\ RunFrom /\ Converging

CacheInv ==
    /\ TypeOK /\ LogInv /\ CursorsInv
    /\ lapses = {} => RunFrom /\ Converging

-----------------------------------------------------------------------------
(* Numbers, and the log.                                                   *)

LEMMA CacheNumbers ==
    /\ Version \subseteq Nat \ {0} /\ Version \subseteq Value /\ Value \subseteq Nat
    /\ Position \subseteq Nat /\ Value \subseteq Position /\ Position \subseteq Value
    /\ None = 0 /\ None \in Value /\ 0 \in Position /\ 1 \in Version /\ MaxLog \in Nat
    /\ \A n \in Nat : n <= MaxLog => n \in Position
    /\ \A n \in Nat \ {0} : n <= MaxLog => n \in Version
BY CacheBounds DEF Version, Value, Position, None

LEMMA LogType ==
    ASSUME log \in Seq(Change), Len(log) <= MaxLog
    PROVE  /\ Now \in Nat /\ Now \in Position
           /\ \A p \in 1 .. Now : log[p] \in Change /\ p \in Version
<1>1. Len(log) \in Nat /\ \A p \in 1 .. Len(log) : log[p] \in Change
  BY LenProperties, ElementOfSeq
<1>2. MaxLog \in Nat
  BY CacheNumbers
<1> QED
  BY <1>1, <1>2 DEF Now, Position, Version

\* A change goes to the end of the log, and the document is what it leaves.
LEMMA CommitLog ==
    ASSUME log \in Seq(Change), Len(log) <= MaxLog, LogInv,
           NEW action \in {"insert", "update", "delete"}, NEW mine \in BOOLEAN,
           Commit(action, mine)
    PROVE  /\ log' \in Seq(Change) /\ Len(log') <= MaxLog /\ LogInv' /\ doc' \in Value
           /\ Now' = Now + 1 /\ Now + 1 \in Version
           /\ \A p \in 1 .. Now : log'[p] = log[p]
           /\ log'[Now + 1] = [action |-> action, own |-> mine, v |-> Now + 1]
<1> DEFINE c == [action |-> action, own |-> mine, v |-> Now + 1]
<1>0. Now \in Nat /\ \A p \in 1 .. Now : log[p] \in Change
  BY LogType
<1>1. Now < MaxLog /\ log' = Append(log, c) /\ doc' = IF action = "delete" THEN None ELSE Now + 1
  BY DEF Commit
<1>2. Now + 1 \in Version /\ Now + 1 \in Value /\ Now + 1 <= MaxLog
  BY <1>0, <1>1, CacheNumbers
<1>3. c \in Change
  BY <1>2 DEF Change
<1> HIDE DEF c
<1>4. /\ log' \in Seq(Change) /\ Len(log') = Len(log) + 1
      /\ \A p \in 1 .. Len(log) : log'[p] = log[p]
      /\ log'[Len(log) + 1] = c
  BY <1>1, <1>3, AppendProperties
<1>5. /\ Now' = Now + 1 /\ log'[Now + 1] = c
      /\ \A p \in 1 .. Now : log'[p] = log[p]
  BY <1>4 DEF Now
<1>6. log'[Now + 1].v = Now + 1 /\ log'[Now + 1].action = action
  BY <1>5 DEF c
<1>7. LogInv'
  <2>1. ASSUME NEW p \in 1 .. Now + 1 PROVE log'[p].v = p
    <3>1. p = Now + 1 \/ p \in 1 .. Now
      BY <1>0
    <3> QED
      BY <1>5, <1>6, <3>1 DEF LogInv
  <2> QED
    BY <1>0, <1>1, <1>5, <1>6, <2>1 DEF LogInv
<1>8. doc' \in Value
  BY <1>1, <1>2, CacheNumbers
<1> QED
  BY <1>2, <1>4, <1>5, <1>7, <1>8 DEF Now, c

-----------------------------------------------------------------------------
(* Types, step by step.                                                    *)

SyncType == [stage : SyncStage, from : Position, to : Position]
LoginType == [stage : {"idle", "clearing", "cleared"}, to : Position]

LEMMA Constants ==
    /\ NoCell \in Cell /\ FreshCell \in Cell
    /\ NoLoad \in Load /\ NoSync \in SyncType /\ NoLogin \in LoginType
    /\ 1 \in 0 .. Attempts /\ 0 \in 0 .. Attempts /\ Attempts \in Nat
<1>1. 1 \in 0 .. Attempts /\ 0 \in 0 .. Attempts /\ Attempts \in Nat
  BY CacheBounds
<1>2. NoCell \in Cell /\ FreshCell \in Cell
  BY CacheNumbers DEF NoCell, FreshCell, Cell
<1>3. NoLoad \in Load
  BY <1>1, CacheNumbers DEF NoLoad, Load
<1>4. NoSync \in SyncType /\ NoLogin \in LoginType
  BY CacheNumbers DEF NoSync, SyncType, SyncStage, NoLogin, LoginType
<1> QED
  BY <1>1, <1>2, <1>3, <1>4

LEMMA Initially == Init => CacheInv
<1> SUFFICES ASSUME Init PROVE CacheInv
  OBVIOUS
<1> USE CacheNumbers
<1> DEFINE c == [action |-> "insert", own |-> FALSE, v |-> 1]
<1>0. c \in Change
  BY DEF Change
<1>1. log = <<c>> /\ log \in Seq(Change) /\ Len(log) = 1 /\ log[1] = c
  BY <1>0 DEF Init
<1>2. Now = 1
  BY <1>1 DEF Now
<1>3. TypeOK
  <2>1. Len(log) <= MaxLog
    BY <1>1, CacheBounds
  <2>2. applied \in [own : Value, foreign : Value] /\ lapses \subseteq Lapse
    BY DEF Init
  <2> QED
    BY <1>1, <2>1, <2>2, Constants DEF Init, TypeOK, SyncType, LoginType
<1>4. LogInv
  BY <1>1, <1>2 DEF LogInv, Init
<1>5. CursorsInv
  BY <1>2 DEF CursorsInv, Init, NoSync, NoLogin
<1>6. RunFrom
  BY DEF RunFrom, Init, NoSync
<1>7. CellPending /\ CachePending /\ LoadPending /\ LoadHasTarget
  BY DEF Init, CellPending, CachePending, LoadPending, LoadHasTarget, NoCell, NoLoad
<1>8. OwnApplied /\ RepliesBehind
  BY <1>1, <1>2 DEF OwnApplied, RepliesBehind, Init
<1> QED
  BY <1>3, <1>4, <1>5, <1>6, <1>7, <1>8 DEF CacheInv, Converging

\* What a change makes of the cell, the cache and the load.
LEMMA ApplyTypes ==
    ASSUME cell \in Cell, load \in Load, applied \in [own : Value, foreign : Value],
           NEW c \in Change, ApplyChange(c)
    PROVE  /\ cell' \in Cell /\ CacheAfter(c) \in Value /\ load' \in Load
           /\ applied' \in [own : Value, foreign : Value] /\ LapsesOf(c) \subseteq Lapse
<1> USE CacheNumbers
<1>1. c.action \in {"insert", "update", "delete"} /\ c.v \in Version /\ c.v \in Value
  BY DEF Change
<1>2. cell' \in Cell
  <2>1. cell' = CellAfter(c)
    BY DEF ApplyChange
  <2>2. CellAfter(c) \in Cell
    BY <1>1, Constants DEF CellAfter, Cell
  <2> QED
    BY <2>1, <2>2
<1>3. CacheAfter(c) \in Value
  BY <1>1 DEF CacheAfter
<1>4. load' \in Load
  BY DEF ApplyChange, LoadAfter, Load
<1>5. applied' \in [own : Value, foreign : Value]
  BY <1>1 DEF ApplyChange, Newer
<1>6. LapsesOf(c) \subseteq Lapse
  BY DEF LapsesOf, Echo, Swapped, DeleteRace, Lapse
<1> QED
  BY <1>2, <1>3, <1>4, <1>5, <1>6

\* What begins a load, and what empties the cell for one.
LEMMA LoadTypes ==
    ASSUME cell \in Cell, cache \in Value, load \in Load
    PROVE  /\ \A c \in Cell : StartLoad(c) => cell' \in Cell /\ load' \in Load
           /\ Emptied \in Cell /\ (~Emptied.loaded \/ ~Emptied.there)
           /\ RetryUnloaded => cell' \in Cell /\ load' \in Load
<1>1. ASSUME NEW c \in Cell, StartLoad(c) PROVE cell' \in Cell /\ load' \in Load
  BY <1>1, Constants DEF StartLoad, Load
<1>2. Emptied \in Cell /\ (~Emptied.loaded \/ ~Emptied.there)
  BY Constants DEF Emptied, FreshCell, NoCell
<1>3. ASSUME RetryUnloaded PROVE cell' \in Cell /\ load' \in Load
  BY <1>1, <1>2, <1>3 DEF RetryUnloaded
<1> QED
  BY <1>1, <1>2, <1>3

LEMMA TypeStep == TypeOK /\ LogInv /\ CursorsInv /\ [Next]_vars => TypeOK'
<1> SUFFICES ASSUME TypeOK, LogInv, CursorsInv, [Next]_vars PROVE TypeOK'
  OBVIOUS
<1> USE CacheNumbers DEF server, ghosts
<1>0. /\ doc \in Value /\ log \in Seq(Change) /\ Len(log) <= MaxLog
      /\ cell \in Cell /\ cache \in Value /\ load \in Load /\ sync \in SyncType
      /\ login \in LoginType /\ own \subseteq Version /\ time1 \in Position
      /\ stored \in Position /\ lapses \subseteq Lapse
      /\ applied \in [own : Value, foreign : Value]
  BY DEF TypeOK, SyncType, LoginType
<1>n. /\ Now \in Nat /\ Now \in Position
      /\ \A p \in 1 .. Now : log[p] \in Change /\ p \in Version
  BY <1>0, LogType
<1>t. /\ doc' \in Value /\ log' \in Seq(Change) /\ Len(log') <= MaxLog
      /\ cell' \in Cell /\ cache' \in Value /\ load' \in Load /\ sync' \in SyncType
      /\ login' \in LoginType /\ own' \subseteq Version /\ time1' \in Position
      /\ stored' \in Position /\ lapses' \subseteq Lapse
      /\ applied' \in [own : Value, foreign : Value]
      => TypeOK'
  BY DEF TypeOK, SyncType, LoginType
<1>1. ASSUME NEW a \in ForeignActions, ForeignWrite(a) PROVE TypeOK'
  <2>1. a \in {"insert", "update", "delete"}
    BY CacheActions
  <2> QED
    BY <1>0, <1>1, <1>t, <2>1, CommitLog DEF ForeignWrite
<1>2. CASE LoadRecord
  <2> DEFINE c == IF cell.there THEN cell ELSE FreshCell
  <2>1. c \in Cell
    BY <1>0, Constants
  <2>2. StartLoad(c) \/ (cell' = c /\ load' = load)
    BY <1>2 DEF LoadRecord
  <2> HIDE DEF c
  <2>3. cell' \in Cell /\ load' \in Load
    BY <1>0, <2>1, <2>2, LoadTypes
  <2> QED
    BY <1>0, <1>2, <1>t, <2>3 DEF LoadRecord
<1>3. CASE UseCached \/ AskServer \/ LoadFails \/ ServeLoad \/ RetryLoad \/ FinishLoad
  <2>1. cell' \in Cell
    BY <1>0, <1>3 DEF UseCached, AskServer, LoadFails, ServeLoad, RetryLoad, FinishLoad,
                     Fill, Unstale, Cell, Load
  <2>2. load' \in Load
    <3>1. CASE AskServer \/ RetryLoad
      <4>1. PICK n \in {1, load.attempt + 1} :
                load' = [load EXCEPT !.stage = "asked", !.val = None, !.attempt = n]
                /\ (n = 1 \/ load.attempt < Attempts)
        BY <3>1 DEF AskServer, RetryLoad
      <4>2. n \in 0 .. Attempts
        BY <1>0, <4>1, Constants DEF Load
      <4> QED
        BY <1>0, <4>1, <4>2 DEF Load
    <3>2. CASE ServeLoad
      BY <1>0, <3>2 DEF ServeLoad, Load
    <3>3. CASE UseCached \/ LoadFails \/ FinishLoad
      BY <3>3, Constants DEF UseCached, LoadFails, FinishLoad
    <3> QED
      BY <1>3, <3>1, <3>2, <3>3
  <2>3. cache' \in Value /\ lapses' \subseteq Lapse
    BY <1>0, <1>3 DEF UseCached, AskServer, LoadFails, ServeLoad, RetryLoad, FinishLoad,
                     Load, Lapse
  <2>4. UNCHANGED <<server, sync, login, own, time1, stored, applied>>
    BY <1>3 DEF UseCached, AskServer, LoadFails, ServeLoad, RetryLoad, FinishLoad
  <2> QED
    BY <1>0, <1>t, <2>1, <2>2, <2>3, <2>4
<1>4. ASSUME NEW a \in OwnActions, OwnWrite(a) PROVE TypeOK'
  <2>1. a \in {"insert", "update", "delete"}
    BY CacheActions
  <2>2. Commit(a, TRUE) /\ own' = own \cup {Now + 1}
    BY <1>4 DEF OwnWrite
  <2>3. /\ log' \in Seq(Change) /\ Len(log') <= MaxLog /\ doc' \in Value /\ Now + 1 \in Version
    BY <1>0, <2>1, <2>2, CommitLog
  <2>4. own' \subseteq Version
    BY <1>0, <2>2, <2>3
  <2> QED
    BY <1>0, <1>4, <1>t, <2>3, <2>4 DEF OwnWrite
<1>5. CASE WriteReplies
  <2>1. PICK p \in own :
           /\ own' = own \ {p} /\ ApplyChange(log[p])
           /\ cache' \in {cache, CacheAfter(log[p])}
           /\ lapses' \subseteq lapses \cup LapsesOf(log[p]) \cup CacheFailed
    BY <1>5 DEF WriteReplies
  <2>2. p \in 1 .. Now /\ log[p] \in Change
    BY <1>n, <2>1 DEF CursorsInv
  <2>3. /\ cell' \in Cell /\ CacheAfter(log[p]) \in Value /\ load' \in Load
        /\ applied' \in [own : Value, foreign : Value] /\ LapsesOf(log[p]) \subseteq Lapse
    BY <1>0, <2>1, <2>2, ApplyTypes
  <2>4. CacheFailed \subseteq Lapse
    BY DEF CacheFailed, Lapse
  <2>5. cache' \in Value /\ lapses' \subseteq Lapse /\ own' \subseteq Version
    BY <1>0, <2>1, <2>3, <2>4
  <2> QED
    BY <1>0, <1>5, <1>t, <2>3, <2>5 DEF WriteReplies
<1>6. CASE WriteFails
  <2>1. lapses' \subseteq Lapse /\ own' \subseteq Version
    BY <1>0, <1>6 DEF WriteFails, LostReply, Lapse
  <2> QED
    BY <1>0, <1>6, <1>t, <2>1 DEF WriteFails
<1>7. CASE ApplyNext
  <2>1. PICK p \in Rows :
           /\ ApplyChange(log[p]) /\ lapses' = lapses \cup LapsesOf(log[p])
           /\ cache' \in {cache, CacheAfter(log[p])}
           /\ sync' \in {NoSync, [sync EXCEPT !.from = p]}
    BY <1>7 DEF ApplyNext
  <2>2. p \in 1 .. Now /\ log[p] \in Change /\ p \in Position
    BY <1>0, <1>n, <2>1 DEF Rows, CursorsInv, SyncType
  <2>3. sync' \in SyncType
    BY <1>0, <2>1, <2>2, Constants DEF SyncType
  <2>4. /\ cell' \in Cell /\ CacheAfter(log[p]) \in Value /\ load' \in Load
        /\ applied' \in [own : Value, foreign : Value] /\ LapsesOf(log[p]) \subseteq Lapse
    BY <1>0, <2>1, <2>2, ApplyTypes
  <2>5. cache' \in Value /\ lapses' \subseteq Lapse
    BY <1>0, <2>1, <2>4
  <2> QED
    BY <1>0, <1>7, <1>t, <2>3, <2>4, <2>5 DEF ApplyNext
<1>8. CASE SyncNow \/ ServeSync \/ ServeReset \/ FinishSync \/ SyncFails \/ StartSyncReset
           \/ ResumeSync
  <2>1. sync' \in SyncType /\ time1' \in Position /\ stored' \in Position
    BY <1>0, <1>8, <1>n, Constants
       DEF SyncNow, ServeSync, ServeReset, FinishSync, SyncFails, StartSyncReset,
           ResumeSync, SyncType, SyncStage, NoSync
  <2>2. UNCHANGED <<server, cell, cache, load, login, own, ghosts>>
    BY <1>8 DEF SyncNow, ServeSync, ServeReset, FinishSync, SyncFails, StartSyncReset,
                ResumeSync
  <2> QED
    BY <1>0, <1>t, <2>1, <2>2
<1>9. CASE ClearForSync \/ ClearForLogin \/ StartLogin \/ LoginFails
  <2>1. stored' \in Position /\ cache' \in Value
    BY <1>0, <1>9, <1>n DEF ClearForSync, ClearForLogin, StartLogin, LoginFails
  <2>2. sync' \in SyncType
    BY <1>0, <1>9 DEF ClearForSync, ClearForLogin, StartLogin, LoginFails, SyncType, SyncStage
  <2>3. login' \in LoginType
    BY <1>0, <1>9, <1>n, Constants
       DEF ClearForSync, ClearForLogin, StartLogin, LoginFails, LoginType
  <2>4. UNCHANGED <<server, cell, load, own, time1, ghosts>>
    BY <1>9 DEF ClearForSync, ClearForLogin, StartLogin, LoginFails
  <2> QED
    BY <1>0, <1>t, <2>1, <2>2, <2>3, <2>4
<1>10. CASE FinishSyncReset \/ FinishLogin
  <2>1. RetryUnloaded
    BY <1>10 DEF FinishSyncReset, FinishLogin
  <2>2. cell' \in Cell /\ load' \in Load
    BY <1>0, <2>1, LoadTypes
  <2>3. /\ sync' \in SyncType /\ login' \in LoginType /\ time1' \in Position
        /\ lapses' \subseteq Lapse
    BY <1>0, <1>10, Constants
       DEF FinishSyncReset, FinishLogin, SyncType, SyncStage, LoginType, ResetRace,
           LoginRace, Lapse
  <2>4. UNCHANGED <<server, cache, own, stored, applied>>
    BY <1>10 DEF FinishSyncReset, FinishLogin
  <2> QED
    BY <1>0, <1>t, <2>2, <2>3, <2>4
<1>11. CASE Reload
  <2>1. lapses' \subseteq Lapse
    BY <1>0, <1>11 DEF Reload, LostReply, ResetCrash, Lapse
  <2> QED
    BY <1>0, <1>11, <1>t, <2>1, Constants DEF Reload
<1>12. CASE UNCHANGED vars
  BY <1>0, <1>12, <1>t DEF vars
<1> QED
  BY <1>1, <1>2, <1>3, <1>4, <1>5, <1>6, <1>7, <1>8, <1>9, <1>10, <1>11, <1>12 DEF Next

-----------------------------------------------------------------------------
(* The log and the cursors, step by step.                                  *)

LEMMA CursorsStep == TypeOK /\ LogInv /\ CursorsInv /\ [Next]_vars => LogInv' /\ CursorsInv'
<1> SUFFICES ASSUME TypeOK, LogInv, CursorsInv, [Next]_vars PROVE LogInv' /\ CursorsInv'
  OBVIOUS
<1> USE DEF server, ghosts
<1>0. /\ log \in Seq(Change) /\ Len(log) <= MaxLog
      /\ cell \in Cell /\ load \in Load /\ sync \in SyncType /\ login \in LoginType
      /\ time1 \in Nat /\ stored \in Nat
      /\ sync.from \in Nat /\ sync.to \in Nat /\ login.to \in Nat
      /\ lapses \subseteq Lapse /\ applied \in [own : Value, foreign : Value]
      /\ applied.own \in Nat /\ applied.foreign \in Nat
  BY CacheNumbers DEF TypeOK, SyncType, LoginType
<1>n. Now \in Nat /\ \A p \in 1 .. Now : log[p] \in Change
  BY <1>0, LogType
<1>s. UNCHANGED server => LogInv' /\ Now' = Now
  BY DEF LogInv, Now
<1>1. ASSUME NEW a \in {"insert", "update", "delete"}, NEW mine \in BOOLEAN, Commit(a, mine),
             UNCHANGED <<sync, login, time1, stored, applied>>,
             own' = IF mine THEN own \cup {Now + 1} ELSE own
      PROVE  LogInv' /\ CursorsInv'
  <2>1. /\ LogInv' /\ Now' = Now + 1
        /\ \A p \in 1 .. Now : log'[p] = log[p]
        /\ log'[Now + 1] = [action |-> a, own |-> mine, v |-> Now + 1]
    BY <1>0, <1>1, CommitLog
  <2>2. ASSUME NEW p \in own' PROVE p \in 1 .. Now + 1 /\ log'[p].own
    <3>1. CASE p \in own
      BY <1>n, <2>1, <3>1 DEF CursorsInv
    <3>2. CASE p \notin own
      BY <1>1, <1>n, <2>1, <2>2, <3>2
    <3> QED
      BY <3>1, <3>2
  <2> QED
    BY <1>0, <1>1, <1>n, <2>1, <2>2 DEF CursorsInv
<1>2. ASSUME NEW a \in ForeignActions, ForeignWrite(a) PROVE LogInv' /\ CursorsInv'
  <2>1. a \in {"insert", "update", "delete"}
    BY CacheActions
  <2>2. Commit(a, FALSE) /\ UNCHANGED <<sync, login, time1, stored, applied, own>>
    BY <1>2 DEF ForeignWrite
  <2> QED
    BY <1>1, <2>1, <2>2
<1>3. ASSUME NEW a \in OwnActions, OwnWrite(a) PROVE LogInv' /\ CursorsInv'
  <2>1. a \in {"insert", "update", "delete"}
    BY CacheActions
  <2>2. /\ Commit(a, TRUE) /\ UNCHANGED <<sync, login, time1, stored, applied>>
        /\ own' = own \cup {Now + 1}
    BY <1>3 DEF OwnWrite
  <2> QED
    BY <1>1, <2>1, <2>2
<1>4. CASE \/ LoadRecord \/ UseCached \/ AskServer \/ LoadFails
           \/ ServeLoad \/ RetryLoad \/ FinishLoad \/ UNCHANGED vars
  <2>1. UNCHANGED <<server, sync, login, own, time1, stored, applied>>
    BY <1>4 DEF LoadRecord, UseCached, AskServer, LoadFails, ServeLoad, RetryLoad,
                FinishLoad, vars
  <2> QED
    BY <1>s, <2>1 DEF CursorsInv
<1>5. ASSUME NEW p \in 1 .. Now, ApplyChange(log[p])
      PROVE  applied'.own <= Now /\ applied'.foreign <= Now
  BY <1>0, <1>5 DEF ApplyChange, Newer, CursorsInv, LogInv
<1>6. CASE WriteReplies
  <2>1. PICK p \in own : ApplyChange(log[p]) /\ own' = own \ {p}
    BY <1>6 DEF WriteReplies
  <2>2. UNCHANGED <<server, sync, login, time1, stored>>
    BY <1>6 DEF WriteReplies
  <2>3. applied'.own <= Now /\ applied'.foreign <= Now
    BY <1>5, <2>1 DEF CursorsInv
  <2> QED
    BY <1>s, <2>1, <2>2, <2>3 DEF CursorsInv
<1>7. CASE WriteFails
  <2>1. UNCHANGED <<server, sync, login, time1, stored, applied>> /\ own' \subseteq own
    BY <1>7 DEF WriteFails
  <2> QED
    BY <1>s, <2>1 DEF CursorsInv
<1>8. CASE ApplyNext
  <2>1. PICK p \in Rows : ApplyChange(log[p]) /\ sync' \in {NoSync, [sync EXCEPT !.from = p]}
    BY <1>8 DEF ApplyNext
  <2>2. p \in 1 .. Now
    BY <1>0, <1>n, <2>1 DEF Rows, CursorsInv
  <2>3. applied'.own <= Now /\ applied'.foreign <= Now
    BY <1>5, <2>1, <2>2
  <2>4. UNCHANGED <<server, login, own, time1, stored>>
    BY <1>8 DEF ApplyNext
  <2>5. CASE sync' = NoSync
    BY <1>n, <1>s, <2>3, <2>4, <2>5 DEF CursorsInv, NoSync
  <2>6. CASE sync' = [sync EXCEPT !.from = p]
    <3>1. sync'.from = p /\ sync'.to = sync.to
      BY <1>0, <2>6 DEF SyncType
    <3> QED
      BY <1>n, <1>s, <2>2, <2>3, <2>4, <3>1 DEF CursorsInv
  <2> QED
    BY <2>1, <2>5, <2>6
<1>9. CASE SyncNow \/ ServeSync \/ ServeReset \/ FinishSync \/ SyncFails \/ StartSyncReset
           \/ ClearForSync \/ FinishSyncReset \/ ResumeSync
  <2>1. /\ UNCHANGED <<server, login, own, applied>>
        /\ time1' \in {time1, sync.to} /\ stored' \in {stored, sync.to}
    BY <1>9 DEF SyncNow, ServeSync, ServeReset, FinishSync, SyncFails, StartSyncReset,
                ClearForSync, FinishSyncReset, ResumeSync
  <2>2. /\ sync'.to \in {0, sync.to, Now}
        /\ sync'.stage \in {"asked", "applying"} => sync'.from \in {time1, sync.from}
        /\ sync'.stage = "applying" => sync.stage = "asked"
        /\ sync'.stage = "asked" => sync'.from = time1
    <3>1. CASE SyncNow \/ ResumeSync
      <4>1. sync' = [stage |-> "asked", from |-> time1, to |-> 0]
        BY <3>1 DEF SyncNow, ResumeSync, NoSync
      <4> QED
        BY <4>1
    <3>2. CASE FinishSync \/ SyncFails
      BY <3>2 DEF FinishSync, SyncFails, NoSync
    <3>3. CASE ServeSync
      BY <1>0, <3>3 DEF ServeSync, SyncType
    <3>4. CASE ServeReset \/ StartSyncReset \/ ClearForSync \/ FinishSyncReset
      BY <1>0, <3>4 DEF ServeReset, StartSyncReset, ClearForSync, FinishSyncReset, SyncType
    <3> QED
      BY <1>9, <3>1, <3>2, <3>3, <3>4
  <2>3. sync'.stage \in {"asked", "applying"} => sync'.from <= Now
    <3>1. sync'.stage = "applying" => sync'.from \in {time1, sync.from} /\ sync.from <= Now
      BY <2>2 DEF CursorsInv
    <3> QED
      BY <2>2, <3>1 DEF CursorsInv
  <2> QED
    BY <1>n, <1>s, <2>1, <2>2, <2>3 DEF CursorsInv
<1>10. CASE StartLogin \/ ClearForLogin \/ LoginFails \/ FinishLogin
  <2>1. /\ UNCHANGED <<server, sync, own, applied>>
        /\ time1' \in {time1, login.to} /\ stored' \in {stored, Now}
    BY <1>10 DEF StartLogin, ClearForLogin, LoginFails, FinishLogin
  <2>2. login'.to \in {0, login.to, Now}
    BY <1>0, <1>10 DEF StartLogin, ClearForLogin, LoginFails, FinishLogin, NoLogin, LoginType
  <2> QED
    BY <1>n, <1>s, <2>1, <2>2 DEF CursorsInv
<1>11. CASE Reload
  <2>1. /\ UNCHANGED <<server, applied, stored>> /\ time1' = stored
        /\ sync' = NoSync /\ login' = NoLogin /\ own' = {}
    BY <1>11 DEF Reload
  <2> QED
    BY <1>n, <1>s, <2>1 DEF CursorsInv, NoSync, NoLogin
<1> QED
  BY <1>2, <1>3, <1>4, <1>6, <1>7, <1>8, <1>9, <1>10, <1>11 DEF Next

-----------------------------------------------------------------------------
(* What stays pending.                                                     *)

\* The numbers and the stages of a state.
LEMMA Facts ==
    ASSUME TypeOK
    PROVE  /\ Now \in Nat /\ Now = Len(log) /\ \A p \in 1 .. Now : log[p] \in Change
           /\ cell \in Cell /\ cache \in Nat /\ load \in Load /\ load.val \in Nat
           /\ sync \in SyncType /\ login \in LoginType /\ own \subseteq Nat
           /\ time1 \in Nat /\ stored \in Nat /\ sync.from \in Nat /\ sync.to \in Nat
           /\ login.to \in Nat /\ Front \in Nat /\ None = 0
           /\ applied.own \in Nat /\ applied.foreign \in Nat
           /\ applied \in [own : Value, foreign : Value]
<1>1. log \in Seq(Change) /\ Len(log) <= MaxLog
  BY DEF TypeOK
<1>2. Now \in Nat /\ Now = Len(log) /\ \A p \in 1 .. Now : log[p] \in Change
  BY <1>1, LogType DEF Now
<1>3. /\ cell \in Cell /\ cache \in Nat /\ load \in Load
      /\ sync \in SyncType /\ login \in LoginType /\ own \subseteq Nat
      /\ time1 \in Nat /\ stored \in Nat /\ None = 0
      /\ applied \in [own : Value, foreign : Value]
  BY CacheNumbers DEF TypeOK, SyncType, LoginType
<1>4. /\ load.val \in Nat /\ sync.from \in Nat /\ sync.to \in Nat /\ login.to \in Nat
      /\ applied.own \in Nat /\ applied.foreign \in Nat
  BY <1>3, CacheNumbers DEF SyncType, LoginType, Load
<1>5. Front \in Nat
  BY <1>3, <1>4 DEF Front
<1> QED
  BY <1>2, <1>3, <1>4, <1>5

\* The front may pass the changes of this tab, and only them.
LEMMA PendingStays ==
    ASSUME NEW l, NEW o, NEW o2, NEW f, NEW g, NEW v, IsPending(l, o, f, v),
           o \subseteq o2, v \in Nat, Len(l) \in Nat,
           \A p \in 1 .. Len(l) : ~l[p].own /\ p > f => p > g
    PROVE  IsPending(l, o2, g, v)
<1>1. \A p \in v + 1 .. Len(l) : p \in 1 .. Len(l)
  OBVIOUS
<1> QED
  BY <1>1 DEF IsPending

\* The log grows, by a change another session or this tab made.
LEMMA PendingGrows ==
    ASSUME NEW l, NEW m, NEW o, NEW o2, NEW f \in Nat, NEW v, IsPending(l, o, f, v),
           v \in Nat, Len(l) \in Nat, Len(m) = Len(l) + 1, f <= Len(l),
           \A p \in 1 .. Len(l) : m[p] = l[p],
           o \subseteq o2, m[Len(l) + 1].own => Len(l) + 1 \in o2
    PROVE  IsPending(m, o2, f, v)
<1>1. v \in 1 .. Len(m) /\ v \in 1 .. Len(l) /\ m[v].action # "delete"
  BY DEF IsPending
<1>2. ASSUME NEW p \in v + 1 .. Len(m)
      PROVE  IF m[p].own THEN p \in o2 ELSE p > f
  <2>1. CASE p = Len(l) + 1
    BY <2>1
  <2>2. CASE p # Len(l) + 1
    <3>1. p \in v + 1 .. Len(l) /\ p \in 1 .. Len(l) /\ m[p] = l[p]
      BY <2>2
    <3>2. IF l[p].own THEN p \in o ELSE p > f
      BY <3>1 DEF IsPending
    <3> QED
      BY <3>1, <3>2
  <2> QED
    BY <2>1, <2>2
<1> QED
  BY <1>1, <1>2 DEF IsPending

\* The document is pending: no change comes after it.
LEMMA DocPending ==
    ASSUME TypeOK, LogInv, doc # None
    PROVE  Pending(doc) /\ doc = Now
<1>1. doc = Now /\ log[Now].action # "delete" /\ Now > 0
  BY DEF LogInv
<1> QED
  BY <1>1, Facts DEF Pending, IsPending

\* Steps that leave the log and the changes applied as they are, and pass no change
\* of another session: every value stays pending.
LEMMA Unmoved ==
    ASSUME Calm, TypeOK', log' = log, applied' = applied, own' = own,
           \A p \in 1 .. Now : ~log[p].own /\ p > Front => p > Front'
    PROVE  /\ \A v \in Nat : Pending(v) => IsPending(log', own', Front', v)
           /\ OwnApplied' /\ RepliesBehind'
<1>1. TypeOK /\ CursorsInv /\ OwnApplied /\ RepliesBehind /\ Now' = Now
  BY DEF Calm, Converging, Now
<1>2. \A v \in Nat : Pending(v) => IsPending(log', own', Front', v)
  BY <1>1, Facts, PendingStays DEF Pending
<1>3. OwnApplied'
  BY <1>1 DEF OwnApplied
<1>4. RepliesBehind'
  <2> SUFFICES ASSUME NEW v \in own, NEW p \in v + 1 .. Now, ~log[p].own
               PROVE  p > Front' \/ p <= applied.foreign
    BY <1>1 DEF RepliesBehind
  <2>1. v \in 1 .. Now
    BY <1>1 DEF CursorsInv
  <2>2. (p > Front \/ p <= applied.foreign) /\ p \in 1 .. Now
    BY <1>1, <2>1, Facts DEF RepliesBehind
  <2> QED
    BY <2>2
<1> QED
  BY <1>2, <1>3, <1>4

-----------------------------------------------------------------------------
(* Each step, as long as nothing lapsed.                                   *)

LEMMA LoadSteps ==
    ASSUME Calm, TypeOK', lapses' = {},
           \/ LoadRecord \/ UseCached \/ AskServer \/ LoadFails
           \/ ServeLoad \/ RetryLoad \/ FinishLoad
    PROVE  RunFrom' /\ Converging'
<1> USE DEF server, ghosts
<1>0. /\ TypeOK /\ LogInv /\ RunFrom /\ CellPending /\ CachePending /\ LoadPending
      /\ LoadHasTarget
  BY DEF Calm, Converging
<1>1. UNCHANGED <<server, sync, login, own, time1, stored, applied>>
  BY DEF LoadRecord, UseCached, AskServer, LoadFails, ServeLoad, RetryLoad, FinishLoad
<1>2. Front' = Front /\ RunFrom'
  BY <1>0, <1>1 DEF Front, RunFrom
<1> DEFINE P(v) == IsPending(log', own', Front', v)
<1>3. (\A v \in Nat : Pending(v) => P(v)) /\ OwnApplied' /\ RepliesBehind'
  BY <1>1, <1>2, Unmoved
<1>4. /\ cell.loaded => cell.there /\ P(cell.val)
      /\ cache # None => P(cache)
      /\ load.stage \in {"reading", "served"} /\ load.val # None /\ ~cell.stale => P(load.val)
      /\ doc # None => P(doc)
  <2>1. cell.val \in Nat /\ doc \in Nat
    BY <1>0, CacheNumbers DEF TypeOK, Cell
  <2> QED
    BY <1>0, <1>3, <2>1, DocPending, Facts DEF CellPending, CachePending, LoadPending
<1> HIDE DEF P
<1>5. cell \in Cell /\ load \in Load
  BY <1>0, Facts
<1>6. /\ cell'.loaded => cell'.there /\ P(cell'.val)
      /\ cache' # None => P(cache')
      /\ load'.stage \in {"reading", "served"} /\ load'.val # None /\ ~cell'.stale =>
            P(load'.val)
      /\ LoadHasTarget'
  <2>1. CASE LoadRecord
    <3>1. load.stage = "idle" /\ ~cell.loaded
          /\ StartLoad(IF cell.there THEN cell ELSE FreshCell) /\ cache' = cache
      BY <1>0, <2>1 DEF LoadRecord, LoadHasTarget
    <3>2. cell' = IF cell.there THEN cell ELSE FreshCell
      BY <3>1 DEF StartLoad
    <3>3. cell'.there /\ ~cell'.loaded
      BY <1>5, <3>1, <3>2 DEF FreshCell, NoCell
    <3>4. load' = [stage |-> "reading", val |-> cache, target |-> TRUE, attempt |-> 0]
      BY <3>1 DEF StartLoad
    <3> QED
      BY <1>4, <3>1, <3>3, <3>4 DEF LoadHasTarget
  <2>2. CASE UseCached
    <3>1. load.target /\ cell.there /\ load.val # None /\ ~cell.stale /\ load.stage = "reading"
      BY <1>0, <2>2 DEF UseCached, LoadHasTarget, CopyUsable, TargetStale
    <3>2. cell' = [cell EXCEPT !.val = load.val, !.loaded = TRUE] /\ load' = NoLoad
          /\ cache' = cache
      BY <2>2, <3>1 DEF UseCached, Fill
    <3>3. cell'.there /\ cell'.val = load.val /\ load'.stage = "idle"
      BY <1>5, <3>1, <3>2 DEF Cell, NoLoad
    <3> QED
      BY <1>4, <3>1, <3>2, <3>3 DEF LoadHasTarget
  <2>3. CASE AskServer \/ RetryLoad
    <3>1. load.target /\ cell.there /\ ~cell.loaded
      BY <1>0, <2>3 DEF AskServer, RetryLoad, LoadHasTarget
    <3>2. cell' = [cell EXCEPT !.stale = FALSE] /\ cache' = cache
      BY <2>3, <3>1 DEF AskServer, RetryLoad, Unstale
    <3>3. load'.stage = "asked" /\ load'.target = load.target
      BY <1>5, <2>3 DEF AskServer, RetryLoad, Load
    <3>4. cell'.there /\ ~cell'.loaded
      BY <1>5, <3>1, <3>2 DEF Cell
    <3> QED
      BY <1>4, <3>1, <3>2, <3>3, <3>4 DEF LoadHasTarget
  <2>4. CASE LoadFails
    BY <1>4, <2>4 DEF LoadFails, NoLoad, LoadHasTarget
  <2>5. CASE ServeLoad
    <3>1. load'.val = doc /\ load'.target = load.target /\ load.stage = "asked"
          /\ cell' = cell /\ cache' = cache
      BY <1>5, <2>5 DEF ServeLoad, Load
    <3> QED
      BY <1>0, <1>4, <3>1 DEF LoadHasTarget
  <2>6. CASE FinishLoad
    <3>1. load.target /\ cell.there /\ ~cell.loaded /\ load.stage = "served" /\ load' = NoLoad
      BY <1>0, <2>6 DEF FinishLoad, LoadHasTarget
    <3>2. ~cell.stale
      BY <2>6, <3>1 DEF FinishLoad, TargetStale
    <3>3. CASE load.val = None
      <4>1. cell' = [cell EXCEPT !.stale = FALSE] /\ cache' = cache
        BY <2>6, <3>1, <3>3 DEF FinishLoad, Unstale
      <4>2. ~cell'.loaded
        BY <1>5, <3>1, <4>1 DEF Cell
      <4> QED
        BY <1>4, <3>1, <4>1, <4>2 DEF NoLoad, LoadHasTarget
    <3>4. CASE load.val # None
      <4>1. cell' = [[cell EXCEPT !.val = load.val, !.loaded = TRUE] EXCEPT !.stale = FALSE]
            /\ cache' \in {cache, load.val}
        BY <2>6, <3>1, <3>4 DEF FinishLoad, Fill
      <4>2. cell'.there /\ cell'.val = load.val
        BY <1>5, <3>1, <4>1 DEF Cell
      <4> QED
        BY <1>4, <3>1, <3>2, <3>4, <4>1, <4>2 DEF NoLoad, LoadHasTarget
    <3> QED
      BY <3>3, <3>4
  <2> QED
    BY <2>1, <2>2, <2>3, <2>4, <2>5, <2>6
<1>7. CellPending' /\ CachePending' /\ LoadPending'
  BY <1>6 DEF P, CellPending, CachePending, LoadPending, Pending
<1> QED
  BY <1>2, <1>3, <1>6, <1>7 DEF Converging

\* The log grows: by another session's change, or by one of this tab.
LEMMA WriteSteps ==
    ASSUME Calm, TypeOK', lapses' = {},
           \/ \E a \in ForeignActions : ForeignWrite(a)
           \/ \E a \in OwnActions : OwnWrite(a)
    PROVE  RunFrom' /\ Converging'
<1> USE DEF server, ghosts
<1>0. /\ TypeOK /\ LogInv /\ CursorsInv /\ RunFrom /\ CellPending /\ CachePending
      /\ LoadPending /\ LoadHasTarget /\ OwnApplied /\ RepliesBehind
  BY DEF Calm, Converging
<1>1. UNCHANGED <<cell, cache, load, sync, login, time1, stored, applied>>
  BY DEF ForeignWrite, OwnWrite
<1>2. Front' = Front /\ RunFrom' /\ LoadHasTarget'
  BY <1>0, <1>1 DEF Front, RunFrom, LoadHasTarget
<1>3. PICK a \in {"insert", "update", "delete"}, mine \in BOOLEAN :
         Commit(a, mine) /\ own' = IF mine THEN own \cup {Now + 1} ELSE own
  BY CacheActions DEF ForeignWrite, OwnWrite
<1>4. /\ Now' = Now + 1 /\ log'[Now + 1].own = mine
      /\ \A p \in 1 .. Now : log'[p] = log[p]
  <2>1. log \in Seq(Change) /\ Len(log) <= MaxLog
    BY <1>0 DEF TypeOK
  <2>2. /\ Now' = Now + 1 /\ \A p \in 1 .. Now : log'[p] = log[p]
        /\ log'[Now + 1] = [action |-> a, own |-> mine, v |-> Now + 1]
    BY <1>0, <1>3, <2>1, CommitLog
  <2> QED
    BY <2>2
<1>5. /\ Now \in Nat /\ Now = Len(log) /\ Len(log') = Len(log) + 1
      /\ Front \in Nat /\ Front <= Now
  BY <1>0, <1>4, Facts DEF Now, Front, CursorsInv
<1>6. ASSUME NEW v \in Nat, Pending(v) PROVE IsPending(log', own', Front', v)
  BY <1>2, <1>3, <1>4, <1>5, <1>6, PendingGrows DEF Pending
<1>7. CellPending' /\ CachePending' /\ LoadPending'
  <2>1. cell.val \in Nat /\ cache \in Nat /\ load.val \in Nat
    BY <1>0, CacheNumbers, Facts DEF TypeOK, Cell
  <2> QED
    BY <1>0, <1>1, <1>6, <2>1 DEF CellPending, CachePending, LoadPending, Pending
<1>8. OwnApplied'
  <2> SUFFICES ASSUME NEW p \in 1 .. Now + 1, log'[p].own
               PROVE  p <= applied.own \/ p \in own'
    BY <1>1, <1>4 DEF OwnApplied
  <2>1. CASE p = Now + 1
    BY <1>3, <1>4, <2>1
  <2>2. CASE p \in 1 .. Now
    BY <1>0, <1>3, <1>4, <2>2 DEF OwnApplied
  <2> QED
    BY <1>5, <2>1, <2>2
<1>9. RepliesBehind'
  <2> SUFFICES ASSUME NEW v \in own', NEW p \in v + 1 .. Now + 1, ~log'[p].own
               PROVE  p > Front \/ p <= applied.foreign
    BY <1>1, <1>2, <1>4 DEF RepliesBehind
  <2>1. (v \in own /\ v \in 1 .. Now) \/ v = Now + 1
    BY <1>0, <1>3 DEF CursorsInv
  <2>2. CASE p = Now + 1
    BY <1>5, <2>2
  <2>3. CASE p # Now + 1
    <3>1. v \in own /\ p \in v + 1 .. Now /\ p \in 1 .. Now
      BY <1>5, <2>1, <2>3
    <3> QED
      BY <1>0, <1>4, <3>1 DEF RepliesBehind
  <2> QED
    BY <2>2, <2>3
<1> QED
  BY <1>2, <1>7, <1>8, <1>9 DEF Converging

\* The steps of a run or a login that change no record, and a reply that is lost.
LEMMA CursorSteps ==
    ASSUME Calm, TypeOK', lapses' = {},
           \/ WriteFails
           \/ SyncNow \/ ServeSync \/ ServeReset \/ FinishSync \/ SyncFails
           \/ StartSyncReset \/ ClearForSync \/ ResumeSync
           \/ StartLogin \/ ClearForLogin \/ LoginFails \/ UNCHANGED vars
    PROVE  RunFrom' /\ Converging'
<1> USE DEF server, ghosts
<1>0. /\ TypeOK /\ CursorsInv /\ RunFrom /\ CellPending /\ CachePending
      /\ LoadPending /\ LoadHasTarget
      /\ Now \in Nat /\ time1 \in Nat /\ sync.from \in Nat /\ sync.to \in Nat
      /\ sync \in SyncType /\ login \in LoginType
      /\ cache \in Nat /\ load.val \in Nat /\ cell.val \in Nat
  BY Facts, CacheNumbers DEF Calm, Converging, TypeOK, Cell
<1>1. ~WriteFails
  BY DEF WriteFails, LostReply
<1>2. UNCHANGED <<server, cell, load, own, applied>> /\ cache' \in {cache, None}
  BY <1>1 DEF SyncNow, ServeSync, ServeReset, FinishSync, SyncFails, StartSyncReset,
              ClearForSync, ResumeSync, StartLogin, ClearForLogin, LoginFails, vars
<1>3. /\ \A p \in 1 .. Now : ~log[p].own /\ p > Front => p > Front'
      /\ RunFrom'
  <2>1. CASE ClearForLogin \/ StartLogin \/ LoginFails \/ UNCHANGED vars
    <3>1. UNCHANGED <<sync, time1>>
      BY <2>1 DEF ClearForLogin, StartLogin, LoginFails, vars
    <3> QED
      BY <1>0, <3>1 DEF Front, RunFrom
  <2>2. CASE SyncNow \/ ResumeSync
    <3>1. sync' = [stage |-> "asked", from |-> time1, to |-> 0]
      BY <2>2 DEF SyncNow, ResumeSync, NoSync
    <3>2. sync.stage \in {"idle", "retrying"} /\ time1' = time1
      BY <2>2 DEF SyncNow, ResumeSync
    <3> QED
      BY <1>0, <3>1, <3>2 DEF Front, RunFrom
  <2>3. CASE ServeSync
    <3>1. /\ sync'.stage = "applying" /\ sync'.from = sync.from /\ sync'.to = Now
          /\ sync.stage = "asked" /\ time1' = time1
      BY <1>0, <2>3 DEF ServeSync, SyncType
    <3>2. sync.from = time1 /\ time1 <= Now
      BY <1>0, <3>1 DEF RunFrom, CursorsInv
    <3> QED
      BY <1>0, <3>1, <3>2 DEF Front, RunFrom
  <2>4. CASE FinishSync
    <3>1. /\ sync'.stage = "idle" /\ sync.stage = "applying" /\ time1' = sync.to
          /\ Rows = {}
      BY <2>4 DEF FinishSync, NoSync
    <3>2. \A p \in sync.from + 1 .. sync.to : log[p].own
      BY <3>1 DEF Rows
    <3>3. Front = sync.from /\ Front' = sync.to
      BY <3>1 DEF Front
    <3>4. ASSUME NEW p \in 1 .. Now, ~log[p].own, p > Front PROVE p > Front'
      BY <1>0, <3>2, <3>3, <3>4
    <3> QED
      BY <3>1, <3>4 DEF RunFrom
  <2>5. CASE ServeReset \/ SyncFails \/ StartSyncReset \/ ClearForSync
    <3>1. /\ sync.stage \in {"asked", "reset", "clearing"} /\ time1' = time1
          /\ sync'.stage \in {"idle", "reset", "clearing", "cleared"}
      <4>1. CASE SyncFails
        BY <4>1 DEF SyncFails, NoSync
      <4>2. CASE ServeReset \/ StartSyncReset \/ ClearForSync
        BY <1>0, <4>2 DEF ServeReset, StartSyncReset, ClearForSync, SyncType
      <4> QED
        BY <2>5, <4>1, <4>2
    <3> QED
      BY <1>0, <3>1 DEF Front, RunFrom
  <2> QED
    BY <1>1, <2>1, <2>2, <2>3, <2>4, <2>5
<1>4. (\A v \in Nat : Pending(v) => IsPending(log', own', Front', v)) /\ OwnApplied' /\ RepliesBehind'
  BY <1>2, <1>3, Unmoved
<1>5. CellPending' /\ CachePending' /\ LoadPending' /\ LoadHasTarget'
  BY <1>0, <1>2, <1>4 DEF CellPending, CachePending, LoadPending, LoadHasTarget, Pending
<1> QED
  BY <1>3, <1>4, <1>5 DEF Converging

\* The records are emptied for a new cursor, or memory is lost: nothing is loaded then,
\* and nothing is on its way.
LEMMA ResetSteps ==
    ASSUME Calm, TypeOK', lapses' = {}, FinishSyncReset \/ FinishLogin
    PROVE  RunFrom' /\ Converging'
<1> USE DEF server, ghosts
<1>0. /\ TypeOK /\ RunFrom /\ OwnApplied
      /\ cell \in Cell /\ sync \in SyncType
  BY Facts DEF Calm, Converging
<1>1. /\ UNCHANGED <<server, cache, own, stored, applied>> /\ RetryUnloaded
      /\ ResetRace = {}
  BY DEF FinishSyncReset, FinishLogin
<1>2. load.stage = "idle" /\ cache = None /\ own = {}
  BY <1>1 DEF ResetRace
<1>3. cell' = Emptied /\ ~Emptied.loaded
  <2>1. cell' = Emptied
    BY <1>1 DEF RetryUnloaded, StartLoad
  <2>2. ~Emptied.loaded
    <3>1. CASE cell.there
      BY <3>1 DEF Emptied, FreshCell, NoCell
    <3>2. CASE ~cell.there
      BY <1>0, <1>2, <3>2 DEF Emptied, Calm, Converging, CellPending
    <3> QED
      BY <3>1, <3>2
  <2> QED
    BY <2>1, <2>2
<1>4. \/ load' = load
      \/ /\ load' = [stage |-> "reading", val |-> cache, target |-> TRUE, attempt |-> 0]
         /\ Emptied.there
  BY <1>1 DEF RetryUnloaded, StartLoad
<1>5. CellPending' /\ CachePending' /\ LoadPending' /\ LoadHasTarget'
  BY <1>1, <1>2, <1>3, <1>4 DEF CellPending, CachePending, LoadPending, LoadHasTarget
<1>6. OwnApplied' /\ RepliesBehind'
  BY <1>0, <1>1, <1>2 DEF OwnApplied, RepliesBehind, Now
<1>7. RunFrom'
  <2>1. CASE FinishSyncReset
    <3>1. sync'.stage = "retrying"
      BY <1>0, <2>1 DEF FinishSyncReset, SyncType
    <3> QED
      BY <3>1 DEF RunFrom
  <2>2. CASE FinishLogin
    <3>1. sync.stage = "idle" /\ sync' = sync
      BY <2>2 DEF FinishLogin, LoginRace
    <3> QED
      BY <3>1 DEF RunFrom
  <2> QED
    BY <2>1, <2>2
<1> QED
  BY <1>5, <1>6, <1>7 DEF Converging

\* What survives is the cache, and the cursor it goes with.
LEMMA ReloadStep ==
    ASSUME Calm, TypeOK', lapses' = {}, Reload
    PROVE  RunFrom' /\ Converging'
<1> USE DEF server, ghosts
<1>0. /\ TypeOK /\ RunFrom /\ CachePending /\ OwnApplied
      /\ cache \in Nat /\ Now \in Nat /\ time1 \in Nat /\ stored \in Nat /\ sync.from \in Nat
  BY Facts DEF Calm, Converging
<1>1. /\ cell' = NoCell /\ load' = NoLoad /\ sync' = NoSync /\ own' = {}
      /\ time1' = stored /\ UNCHANGED <<server, cache, applied>>
      /\ LostReply(own) = {} /\ ResetCrash = {}
  BY DEF Reload
<1>2. own = {}
  BY <1>1 DEF LostReply
<1>3. OwnApplied' /\ RepliesBehind'
  BY <1>0, <1>1, <1>2 DEF OwnApplied, RepliesBehind, Now
<1>4. CellPending' /\ LoadPending' /\ LoadHasTarget' /\ RunFrom'
  BY <1>1 DEF CellPending, LoadPending, LoadHasTarget, RunFrom, NoCell, NoLoad, NoSync
<1>5. CachePending'
  <2>1. CASE cache = None
    BY <1>1, <2>1 DEF CachePending
  <2>2. CASE cache # None
    <3>1. stored <= time1 /\ time1 <= Front
      BY <1>0, <1>1, <2>2 DEF ResetCrash, RunFrom, Front
    <3>2. Front' = stored
      BY <1>1 DEF Front, NoSync
    <3>3. \A p \in 1 .. Now : ~log[p].own /\ p > Front => p > Front'
      BY <1>0, <3>1, <3>2, Facts
    <3>4. \A v \in Nat : Pending(v) => IsPending(log', own', Front', v)
      BY <1>1, <1>2, <3>3, Unmoved
    <3> QED
      BY <1>0, <1>1, <2>2, <3>4 DEF CachePending, Pending
  <2> QED
    BY <2>1, <2>2
<1> QED
  BY <1>3, <1>4, <1>5 DEF Converging

\* One change applied, by the loop of syncNow or for the reply of a write.  The only
\* value the tab is left with is the change's own, or the copy in a cache that rejected
\* it; the rest is gone, or is marked for another read.
LEMMA ChangeApplied ==
    ASSUME Calm, TypeOK', NEW c \in Change, ApplyChange(c), LapsesOf(c) = {}, log' = log,
           \/ cache' = CacheAfter(c)
           \/ cache' = cache /\ (cache # None => IsPending(log', own', Front', cache)),
           c.action # "delete" => IsPending(log', own', Front', c.v)
    PROVE  CellPending' /\ CachePending' /\ LoadPending' /\ LoadHasTarget'
<1>0. /\ LoadHasTarget /\ cell \in Cell /\ load \in Load
      /\ c.action \in {"insert", "update", "delete"}
  BY Facts DEF Calm, Converging, Change
<1>1. cell' = CellAfter(c) /\ load' = LoadAfter(c)
  BY DEF ApplyChange
<1>2. c.action # "update" => load.stage = "idle"
  BY DEF LapsesOf, DeleteRace
<1> DEFINE P == IsPending(log', own', Front', c.v)
<1>3. /\ cell'.loaded => cell'.there /\ cell'.val = c.v /\ c.action # "delete"
      /\ CacheAfter(c) # None => CacheAfter(c) = c.v /\ c.action # "delete"
      /\ load'.stage # "idle" =>
            load'.target /\ cell'.there /\ ~cell'.loaded /\ cell'.stale
  <2>1. CASE c.action = "delete"
    <3>1. cell' = NoCell /\ CacheAfter(c) = None
      BY <1>1, <2>1 DEF CellAfter, CacheAfter
    <3>2. load'.stage = "idle"
      BY <1>0, <1>1, <1>2, <2>1 DEF LoadAfter, Load
    <3> QED
      BY <3>1, <3>2 DEF NoCell
  <2>2. CASE c.action = "insert"
    <3>1. /\ cell' = [there |-> TRUE, val |-> c.v, loaded |-> TRUE, stale |-> cell.stale]
          /\ CacheAfter(c) = c.v /\ load' = load
      BY <1>1, <2>2 DEF CellAfter, CacheAfter, LoadAfter
    <3> QED
      BY <1>2, <2>2, <3>1
  <2>3. CASE c.action = "update"
    <3>1. load' = load /\ CacheAfter(c) = IF cell.loaded THEN c.v ELSE None
      BY <1>1, <2>3 DEF CacheAfter, LoadAfter
    <3>2. CASE cell.there
      <4>1. cell' = [cell EXCEPT !.val = c.v, !.stale = cell.stale \/ ~cell.loaded]
        BY <1>1, <2>3, <3>2 DEF CellAfter
      <4>2. /\ cell'.there = cell.there /\ cell'.val = c.v /\ cell'.loaded = cell.loaded
            /\ ~cell.loaded => cell'.stale
        BY <1>0, <4>1 DEF Cell
      <4> QED
        BY <1>0, <2>3, <3>1, <3>2, <4>2 DEF LoadHasTarget
    <3>3. CASE ~cell.there
      <4>1. cell' = cell
        BY <1>1, <2>3, <3>3 DEF CellAfter
      <4>2. ~cell.loaded
        BY <3>3 DEF Calm, Converging, CellPending
      <4> QED
        BY <1>0, <2>3, <3>1, <3>3, <4>1, <4>2 DEF LoadHasTarget
    <3> QED
      BY <3>2, <3>3
  <2> QED
    BY <1>0, <2>1, <2>2, <2>3
<1>4. c.action # "delete" => P
  OBVIOUS
<1> HIDE DEF P
<1>5. /\ cell'.loaded => cell'.there /\ IsPending(log', own', Front', cell'.val)
      /\ cache' # None => IsPending(log', own', Front', cache')
  BY <1>3, <1>4 DEF P
<1> QED
  BY <1>3, <1>5 DEF CellPending, CachePending, LoadPending, LoadHasTarget, Pending

LEMMA ReplyStep ==
    ASSUME Calm, TypeOK', lapses' = {}, WriteReplies
    PROVE  RunFrom' /\ Converging'
<1> USE DEF server, ghosts
<1>0. /\ TypeOK /\ LogInv /\ CursorsInv /\ RunFrom /\ OwnApplied /\ RepliesBehind
      /\ Now \in Nat /\ Now = Len(log) /\ own \subseteq Nat
      /\ applied \in [own : Value, foreign : Value]
      /\ applied.own \in Nat /\ applied.foreign \in Nat
  BY Facts DEF Calm, Converging
<1>1. PICK v \in own :
         /\ own' = own \ {v} /\ ApplyChange(log[v]) /\ LapsesOf(log[v]) = {}
         /\ cache' = CacheAfter(log[v]) \/ (cache' = cache /\ cache = None)
  <2>1. PICK v \in own :
           /\ own' = own \ {v} /\ ApplyChange(log[v])
           /\ \/ cache' = CacheAfter(log[v]) /\ lapses' = lapses \cup LapsesOf(log[v])
              \/ /\ cache' = cache
                 /\ lapses' = lapses \cup LapsesOf(log[v]) \cup CacheFailed
    BY DEF WriteReplies
  <2>2. LapsesOf(log[v]) = {}
    BY <2>1
  <2>3. CacheFailed = {} => cache = None
    BY DEF CacheFailed
  <2> QED
    BY <2>1, <2>2, <2>3
<1>2. UNCHANGED <<server, sync, login, time1, stored>>
  BY DEF WriteReplies
<1>3. v \in 1 .. Now /\ log[v] \in Change /\ log[v].own /\ log[v].v = v
  BY <1>0, Facts DEF CursorsInv, LogInv
<1>4. Front' = Front /\ RunFrom' /\ Now' = Now
  BY <1>0, <1>2 DEF Front, RunFrom, Now
<1>5. applied.foreign <= v /\ applied.own <= v /\ applied'.own = v
  <2>1. Echo(log[v]) = {} /\ Swapped(log[v]) = {}
    BY <1>1 DEF LapsesOf
  <2>2. ~(applied.foreign > v) /\ ~(applied.own > v)
    BY <1>3, <2>1 DEF Echo, Swapped
  <2>3. applied' = [applied EXCEPT !.own = IF applied.own < v THEN v ELSE applied.own]
    BY <1>1, <1>3 DEF ApplyChange, Newer
  <2> QED
    BY <1>0, <1>3, <2>2, <2>3
<1>6. \A p \in v + 1 .. Now : IF log[p].own THEN p \in own' ELSE p > Front
  <2> SUFFICES ASSUME NEW p \in v + 1 .. Now
               PROVE  IF log[p].own THEN p \in own' ELSE p > Front
    OBVIOUS
  <2>1. p \in 1 .. Now /\ p > v
    BY <1>0, <1>3
  <2>2. CASE log[p].own
    BY <1>0, <1>1, <1>3, <1>5, <2>1, <2>2 DEF OwnApplied
  <2>3. CASE ~log[p].own
    BY <1>0, <1>3, <1>5, <2>1, <2>3 DEF RepliesBehind
  <2> QED
    BY <2>2, <2>3
<1>7. log[v].action # "delete" => IsPending(log', own', Front', log[v].v)
  BY <1>0, <1>2, <1>3, <1>4, <1>6 DEF IsPending
<1>8. CellPending' /\ CachePending' /\ LoadPending' /\ LoadHasTarget'
  BY <1>1, <1>2, <1>3, <1>7, ChangeApplied
<1>9. OwnApplied'
  <2> SUFFICES ASSUME NEW p \in 1 .. Now, log[p].own PROVE p <= v \/ p \in own'
    BY <1>2, <1>4, <1>5 DEF OwnApplied
  <2> QED
    BY <1>0, <1>3, <1>6
<1>10. RepliesBehind'
  <2>1. applied'.foreign = applied.foreign
    BY <1>0, <1>1, <1>3 DEF ApplyChange
  <2> QED
    BY <1>0, <1>1, <1>2, <1>4, <2>1 DEF RepliesBehind
<1> QED
  BY <1>4, <1>8, <1>9, <1>10 DEF Converging

LEMMA ApplyStep ==
    ASSUME Calm, TypeOK', lapses' = {}, ApplyNext
    PROVE  RunFrom' /\ Converging'
<1> USE DEF server, ghosts
<1>0. /\ TypeOK /\ LogInv /\ CursorsInv /\ RunFrom /\ OwnApplied /\ RepliesBehind /\ CachePending
      /\ Now \in Nat /\ Now = Len(log) /\ sync \in SyncType /\ own \subseteq Nat
      /\ applied \in [own : Value, foreign : Value] /\ cache \in Nat
      /\ applied.own \in Nat /\ applied.foreign \in Nat
      /\ sync.from \in Nat /\ sync.to \in Nat /\ time1 \in Nat
  BY Facts DEF Calm, Converging
<1>1. PICK p \in Rows :
         /\ \A q \in Rows : p <= q
         /\ ApplyChange(log[p]) /\ lapses' = lapses \cup LapsesOf(log[p])
         /\ \/ cache' = CacheAfter(log[p]) /\ sync' = [sync EXCEPT !.from = p]
            \/ cache' = cache /\ sync' = NoSync
  BY DEF ApplyNext
<1>2. /\ sync.stage = "applying" /\ UNCHANGED <<server, login, own, time1, stored>>
      /\ LapsesOf(log[p]) = {}
  BY <1>1 DEF ApplyNext
<1>3. p \in sync.from + 1 .. sync.to /\ ~log[p].own /\ p \in 1 .. Now
  BY <1>0, <1>1 DEF Rows, CursorsInv
<1>4. log[p] \in Change /\ log[p].v = p
  BY <1>0, <1>3, Facts DEF LogInv
<1>5. /\ Front = sync.from /\ Now' = Now /\ Front' \in Nat /\ Front' <= p
      /\ cache' = CacheAfter(log[p]) \/ (cache' = cache /\ Front' <= Front)
      /\ RunFrom'
  <2>1. Front = sync.from /\ Now' = Now /\ time1 <= sync.from /\ sync.from <= sync.to
    BY <1>0, <1>2 DEF Front, Now, RunFrom
  <2>2. CASE sync' = NoSync /\ cache' = cache
    <3>1. Front' = time1 /\ RunFrom'
      BY <1>2, <2>2 DEF Front, RunFrom, NoSync
    <3> QED
      BY <1>0, <1>3, <2>1, <2>2, <3>1
  <2>3. CASE sync' = [sync EXCEPT !.from = p] /\ cache' = CacheAfter(log[p])
    <3>1. sync'.stage = "applying" /\ sync'.from = p /\ sync'.to = sync.to
      BY <1>0, <1>2, <2>3 DEF SyncType
    <3>2. Front' = p /\ RunFrom'
      BY <1>0, <1>2, <1>3, <2>1, <3>1 DEF Front, RunFrom
    <3> QED
      BY <1>3, <2>1, <2>3, <3>2
  <2> QED
    BY <1>1, <2>2, <2>3
<1>6. /\ applied.own <= p /\ applied'.own = applied.own
      /\ applied'.foreign \in Nat /\ applied'.foreign >= applied.foreign /\ applied'.foreign >= p
  <2>1. Echo(log[p]) = {}
    BY <1>2 DEF LapsesOf
  <2>2. ~(applied.own > p)
    BY <1>3, <1>4, <2>1 DEF Echo
  <2>3. applied' = [applied EXCEPT !.foreign = IF applied.foreign < p THEN p ELSE applied.foreign]
    BY <1>1, <1>3, <1>4 DEF ApplyChange, Newer
  <2> QED
    BY <1>0, <1>3, <2>2, <2>3
<1>7. log[p].action # "delete" => IsPending(log', own', Front', log[p].v)
  <2>1. ASSUME NEW q \in p + 1 .. Now, log[q].own PROVE q \in own
    BY <1>0, <1>3, <1>6, <2>1 DEF OwnApplied
  <2>2. \A q \in p + 1 .. Now : q > Front'
    BY <1>0, <1>3, <1>5
  <2> QED
    BY <1>0, <1>2, <1>3, <1>4, <2>1, <2>2 DEF IsPending
<1>8. cache' = cache /\ Front' <= Front /\ cache # None => IsPending(log', own', Front', cache)
  <2> SUFFICES ASSUME Front' <= Front, cache # None PROVE IsPending(log', own', Front', cache)
    OBVIOUS
  <2>1. IsPending(log, own, Front, cache) /\ Front \in Nat
    BY <1>0, Facts DEF CachePending, Pending
  <2>2. \A q \in 1 .. Len(log) : ~log[q].own /\ q > Front => q > Front'
    BY <1>5, <2>1
  <2> QED
    BY <1>0, <1>2, <2>1, <2>2, PendingStays
<1>9. CellPending' /\ CachePending' /\ LoadPending' /\ LoadHasTarget'
  BY <1>1, <1>2, <1>4, <1>5, <1>7, <1>8, ChangeApplied
<1>10. OwnApplied'
  BY <1>0, <1>2, <1>5, <1>6 DEF OwnApplied
<1>11. RepliesBehind'
  <2> SUFFICES ASSUME NEW v \in own, NEW q \in v + 1 .. Now, ~log[q].own
               PROVE  q > Front' \/ q <= applied'.foreign
    BY <1>2, <1>5 DEF RepliesBehind
  <2>1. q \in Nat /\ Front \in Nat /\ p \in Nat /\ (q > Front \/ q <= applied.foreign)
    BY <1>0, <1>3, Facts DEF RepliesBehind
  <2>2. CASE q <= applied.foreign
    BY <1>0, <1>6, <2>1, <2>2
  <2>3. CASE q > Front /\ q <= p
    BY <1>6, <2>1, <2>3
  <2>4. CASE q > p
    BY <1>5, <2>1, <2>4
  <2> QED
    BY <2>1, <2>2, <2>3, <2>4
<1> QED
  BY <1>5, <1>9, <1>10, <1>11 DEF Converging

-----------------------------------------------------------------------------
(* The theorems.                                                           *)

\* No step forgets a lapse.
LEMMA LapsesGrow == [Next]_vars => lapses \subseteq lapses'
BY DEF Next, vars, ghosts, ForeignWrite, LoadRecord, UseCached, AskServer, LoadFails,
       ServeLoad, RetryLoad, FinishLoad, OwnWrite, WriteReplies, WriteFails,
       SyncNow, ServeSync, ServeReset, ApplyNext, FinishSync, SyncFails, StartSyncReset,
       ClearForSync, FinishSyncReset, ResumeSync, StartLogin, ClearForLogin, LoginFails,
       FinishLogin, Reload

LEMMA CacheInvStep == CacheInv /\ [Next]_vars => CacheInv'
<1> SUFFICES ASSUME CacheInv, [Next]_vars PROVE CacheInv'
  OBVIOUS
<1>1. TypeOK' /\ LogInv' /\ CursorsInv'
  BY TypeStep, CursorsStep DEF CacheInv
<1>2. ASSUME lapses' = {} PROVE RunFrom' /\ Converging'
  <2>1. Calm
    BY <1>2, LapsesGrow DEF CacheInv, Calm
  <2> QED
    BY <1>1, <1>2, <2>1, LoadSteps, WriteSteps, CursorSteps, ResetSteps, ReloadStep,
       ReplyStep, ApplyStep DEF Next
<1> QED
  BY <1>1, <1>2 DEF CacheInv

LEMMA AlwaysCacheInv == Spec => []CacheInv
<1>1. Init => CacheInv
  BY Initially
<1>2. CacheInv /\ [Next]_vars => CacheInv'
  BY CacheInvStep
<1> QED
  BY <1>1, <1>2, PTL DEF Spec

\* Whatever the overlap of loads, syncs, writes, resets, logins and page loads, the
\* attempts of queueLoad stay within their limit, and no handler leaves its stages.
THEOREM CacheTypes == Spec => []TypeOK
<1>1. CacheInv => TypeOK
  BY DEF CacheInv
<1> QED
  BY <1>1, AlwaysCacheInv, PTL

\* A tab that has caught up shows the stored document and caches no other version,
\* unless one of the named lapses happened: there is no further way to diverge in
\* applyChange, queueLoad, syncNow and resetLocalState.
THEOREM CacheConverges == Spec => []ConvergesUnlessLapsed
<1>1. CacheInv => ConvergesUnlessLapsed
  <2> SUFFICES ASSUME CacheInv, CaughtUp, lapses = {}
               PROVE  (cell.loaded => cell.val = doc) /\ (cache # None => cache = doc)
    BY DEF ConvergesUnlessLapsed
  <2>1. TypeOK /\ LogInv /\ CellPending /\ CachePending
    BY DEF CacheInv, Converging
  <2>2. Front = Now /\ own = {} /\ Now \in Nat /\ Now = Len(log)
    BY <2>1, Facts DEF CaughtUp, Front
  <2>3. ASSUME NEW v, Pending(v) PROVE v = doc
    <3>1. v \in 1 .. Now /\ log[v].action # "delete"
      BY <2>2, <2>3 DEF Pending, IsPending
    <3>2. \A p \in v + 1 .. Now : FALSE
      BY <2>2, <2>3, <3>1 DEF Pending, IsPending
    <3>3. v = Now
      BY <2>2, <3>1, <3>2
    <3> QED
      BY <2>1, <3>1, <3>3 DEF LogInv
  <2> QED
    BY <2>1, <2>3 DEF CellPending, CachePending
<1> QED
  BY <1>1, AlwaysCacheInv, PTL
=============================================================================
