----------------------------- MODULE SyncProofs ------------------------------
(***************************************************************************)
(* What holds of module Sync for every number of sessions, documents and   *)
(* writes, every window length, maximal age and clock skew.                *)
(***************************************************************************)
EXTENDS Sync, ChangeLogProofs

-----------------------------------------------------------------------------
(* Type correctness.                                                       *)

\* The window a request gets, and the clock arithmetic around it.
LEMMA WindowEndType ==
    ASSUME NEW from \in Nat, NEW at \in Nat
    PROVE  /\ WindowEnd(from, at) \in Nat
           /\ WindowEnd(from, at) <= at
           /\ from <= WindowEnd(from, at) \/ WindowEnd(from, at) = at
BY WindowAssumption DEF WindowEnd

\* Every step of a client or of the server's sync keeps the types.
LEMMA SyncTypeStep ==
    ASSUME TypeOK, [Next]_vars
    PROVE  TypeOK'
<1> USE DEF TypeOK, SyncTypeOK
<1> Idle \in Run
  BY DEF Idle, Run
<1>ask. \A from \in Nat, began \in Nat : Ask(from, began) \in Run
  BY DEF Ask, Idle, Run
<1>now. now \in Nat
  BY DEF LogTypeOK
<1>log. UNCHANGED logVars => LogTypeOK'
  BY DEF LogTypeOK, logVars
<1>1. CASE ServerStep
  BY <1>1, LogTypeStep DEF ServerStep, clientVars
<1>2. ASSUME NEW s \in Sessions, SyncNow(s) PROVE TypeOK'
  BY <1>2, <1>ask, <1>now, <1>log DEF SyncNow, StartRun
<1>3. ASSUME NEW s \in Sessions, ForceResync(s) PROVE TypeOK'
  BY <1>3, <1>ask, <1>now, <1>log DEF ForceResync, StartRun, Epoch
<1>4. ASSUME NEW s \in Sessions, ServeWindow(s) PROVE TypeOK'
  <2>1. run[s] \in Run /\ run[s].from \in Nat
    BY DEF Run
  <2>2. WindowEnd(run[s].from, now) \in Nat
    BY <2>1, <1>now, WindowEndType
  <2>3. HasMore(run[s].from, now) \in BOOLEAN
    BY DEF HasMore
  <2>4. [run[s] EXCEPT !.stage = "reset", !.to = now] \in Run
    BY <2>1, <1>now DEF Run
  <2>5. [run[s] EXCEPT !.stage = "windowed", !.to = WindowEnd(run[s].from, now),
                       !.more = HasMore(run[s].from, now)] \in Run
    BY <2>1, <2>2, <2>3 DEF Run
  <2>6. run' \in [Sessions -> Run]
    BY <1>4, <2>4, <2>5 DEF ServeWindow
  <2> QED
    BY <1>4, <2>6, <1>log DEF ServeWindow
<1>5. ASSUME NEW s \in Sessions, FindRows(s) PROVE TypeOK'
  <2>1. run[s] \in Run
    OBVIOUS
  <2>2. RowsFor(s, run[s].from, run[s].to) \in SUBSET Row
    BY DEF RowsFor, LogTypeOK
  <2>3. {t \in run[s].from + 1 .. run[s].to : MayStillLand(t)} \in SUBSET Nat
    BY <2>1 DEF Run
  <2>4. [run[s] EXCEPT !.stage = "found",
             !.rows = RowsFor(s, run[s].from, run[s].to),
             !.open = {t \in run[s].from + 1 .. run[s].to : MayStillLand(t)}] \in Run
    BY <2>1, <2>2, <2>3 DEF Run
  <2>5. run' \in [Sessions -> Run]
    BY <1>5, <2>4 DEF FindRows
  <2> QED
    BY <1>5, <2>5, <1>log DEF FindRows
<1>6. ASSUME NEW s \in Sessions, ApplyReply(s) PROVE TypeOK'
  <2>1. /\ run[s] \in Run /\ run[s].to \in Nat /\ run[s].began \in Nat
        /\ run[s].rows \in SUBSET Row /\ run[s].open \in SUBSET Nat
    BY DEF Run
  <2>2. run' \in [Sessions -> Run]
    BY <1>6, <2>1, <1>ask DEF ApplyReply, NextCursor
  <2>3. {r \in torn[s] : r.createdAt > run[s].to} \in SUBSET Row
    OBVIOUS
  <2>4. /\ torn' \in [Sessions -> SUBSET Row]
        /\ blind' \in [Sessions -> SUBSET Nat]
        /\ time1' \in [Sessions -> Nat]
    BY <1>6, <2>1, <2>3 DEF ApplyReply, NextCursor
  <2> QED
    BY <1>6, <2>2, <2>4, <1>log DEF ApplyReply
<1>13. ASSUME NEW s \in Sessions, NEW r \in run[s].rows, ApplyRow(s, r) PROVE TypeOK'
  <2>1. run[s] \in Run /\ run[s].rows \in SUBSET Row
    BY DEF Run
  <2>2. [run[s] EXCEPT !.rows = run[s].rows \ {r}] \in Run
    BY <2>1 DEF Run
  <2>3. run' = [run EXCEPT ![s] = [run[s] EXCEPT !.rows = run[s].rows \ {r}]]
    BY <1>13 DEF ApplyRow
  <2>4. run' \in [Sessions -> Run]
    BY <2>2, <2>3
  <2>5. got' \in [Sessions -> SUBSET Row]
    BY <1>13, <2>1 DEF ApplyRow
  <2> QED
    BY <1>13, <2>4, <2>5, <1>log DEF ApplyRow
<1>14. ASSUME NEW s \in Sessions, GoOn(s) PROVE TypeOK'
  <2>1. run[s].began \in Nat
    BY DEF Run
  <2> QED
    BY <1>14, <2>1, <1>ask, <1>log DEF GoOn
<1>7. ASSUME NEW s \in Sessions, StartClear(s) PROVE TypeOK'
  <2>1. [run[s] EXCEPT !.stage = "clearing"] \in Run
    BY DEF Run
  <2>2. run' = [run EXCEPT ![s] = [run[s] EXCEPT !.stage = "clearing"]]
    BY <1>7 DEF StartClear
  <2> QED
    BY <1>7, <2>1, <2>2, <1>log DEF StartClear
<1>8. ASSUME NEW s \in Sessions, FinishReset(s) PROVE TypeOK'
  <2>1. run[s].to \in Nat /\ [run[s] EXCEPT !.stage = "retrying"] \in Run
    BY DEF Run
  <2>2. run' \in [Sessions -> Run]
    BY <1>8, <2>1 DEF FinishReset
  <2>3. {t \in blind[s] : t > run[s].to} \in SUBSET Nat
    OBVIOUS
  <2> QED
    BY <1>8, <2>1, <2>2, <2>3, <1>log DEF FinishReset
<1>9. ASSUME NEW s \in Sessions, RunFails(s) PROVE TypeOK'
  <2>1. Beyond(s) \in SUBSET Row
    BY DEF Beyond
  <2> QED
    BY <1>9, <2>1, <1>log DEF RunFails
<1>10. ASSUME NEW s \in Sessions, NEW skew \in Skews, StartLogin(s, skew)
       PROVE  TypeOK'
  <2>1. now + skew \in Nat
    BY <1>10, <1>now, SkewAssumption DEF StartLogin
  <2> QED
    BY <1>10, <2>1, <1>log DEF StartLogin
<1>11. ASSUME NEW s \in Sessions, FinishLogin(s) PROVE TypeOK'
  <2>1. login[s] \in Nat
    BY <1>11 DEF FinishLogin
  <2>2. ({t \in blind[s] : t > now} \cup (now + 1 .. login[s])) \in SUBSET Nat
    BY <2>1, <1>now
  <2>3. login' \in [Sessions -> Nat \cup {NoLogin}]
    BY <1>11 DEF FinishLogin
  <2> QED
    BY <1>11, <2>1, <2>2, <2>3, <1>now, <1>log DEF FinishLogin
<1>12. CASE UNCHANGED vars
  BY <1>12, <1>log DEF vars, clientVars
<1> QED
  BY <1>1, <1>2, <1>3, <1>4, <1>5, <1>6, <1>7, <1>8, <1>9, <1>10, <1>11, <1>12, <1>13,
     <1>14
  DEF Next

LEMMA InitType == Init => TypeOK
BY TimeAssumption
DEF Init, LogInit, TypeOK, LogTypeOK, SyncTypeOK, Idle, Run, Epoch

\* Every reachable state is well typed: the server's collections, the writes in
\* flight and each client's cursor, run and login.
THEOREM TypeCorrect == Spec => []TypeOK
<1>1. Init => TypeOK
  BY InitType
<1>2. TypeOK /\ [Next]_vars => TypeOK'
  BY SyncTypeStep
<1> QED
  BY <1>1, <1>2, PTL DEF Spec

-----------------------------------------------------------------------------
(* No change is missed, except at the blind times.                         *)

\* Once no row of time t can land any more, no step of the server lands one or
\* makes one possible again.
LEMMA SettledStaysSettled ==
    ASSUME LogTypeOK, LogNext, NEW t \in Nat, ~MayStillLand(t)
    PROVE  /\ ~MayStillLand(t)'
           /\ \A r \in log' : r.createdAt = t => r \in log
<1> USE DEF LogTypeOK, MayStillLand, Pending
<1>0. t < now /\ now \in Nat /\ writes \subseteq Write
  OBVIOUS
<1>w. \A w \in writes : w.stamp = t => w.action = "delete" /\ w.stage # "appending"
  OBVIOUS
<1>1. ASSUME NEW q \in Requests, NEW s \in Writers, NEW a \in Actions,
             NEW i \in Ids, NEW p \in Payload(a), BeginWrite(q, s, a, i, p)
      PROVE  ~MayStillLand(t)' /\ log' = log
  BY <1>1, <1>0, <1>w DEF BeginWrite
<1>2. ASSUME NEW w \in writes, Reject(w) PROVE ~MayStillLand(t)' /\ log' = log
  BY <1>2, <1>0, <1>w DEF Reject
<1>3. ASSUME NEW w \in writes, ApplyUpdate(w)
      PROVE  ~MayStillLand(t)' /\ log' = log
  <2> DEFINE v == [w EXCEPT !.stage = "appending"]
  <2>1. v.stamp = w.stamp /\ v.action = w.action
    BY DEF Write
  <2>2. writes' = (writes \ {w}) \cup {v} /\ now' = now /\ log' = log
    BY <1>3 DEF ApplyUpdate, Advance
  <2>3. w.action = "update"
    BY <1>3 DEF ApplyUpdate
  <2> QED
    BY <2>1, <2>2, <2>3, <1>0, <1>w
<1>4. ASSUME NEW w \in writes, ApplyInsert(w)
      PROVE  ~MayStillLand(t)' /\ log' = log
  <2> DEFINE v == [w EXCEPT !.stage = "appending"]
  <2>1. v.stamp = w.stamp /\ v.action = w.action
    BY DEF Write
  <2>2. writes' = (writes \ {w}) \cup {v} /\ now' = now /\ log' = log
    BY <1>4 DEF ApplyInsert, Advance
  <2>3. w.action = "insert"
    BY <1>4 DEF ApplyInsert
  <2> QED
    BY <2>1, <2>2, <2>3, <1>0, <1>w
<1>5. ASSUME NEW w \in writes, ApplyDelete(w)
      PROVE  ~MayStillLand(t)' /\ log' = log
  <2> DEFINE v == [w EXCEPT !.stage = "applied"]
  <2>1. v.stamp = w.stamp /\ v.action = w.action /\ v.stage = "applied"
    BY DEF Write
  <2>2. writes' = (writes \ {w}) \cup {v} /\ now' = now /\ log' = log
    BY <1>5 DEF ApplyDelete, Advance
  <2>3. w.action = "delete"
    BY <1>5 DEF ApplyDelete
  <2> QED
    BY <2>1, <2>2, <2>3, <1>0, <1>w
<1>6. ASSUME NEW w \in writes, StampDelete(w)
      PROVE  ~MayStillLand(t)' /\ log' = log
  <2> DEFINE v == [w EXCEPT !.stage = "appending", !.stamp = now]
  <2>1. v.stamp = now
    BY DEF Write
  <2>2. writes' = (writes \ {w}) \cup {v} /\ now' = now /\ log' = log
    BY <1>6 DEF StampDelete
  <2> HIDE DEF v
  <2>3. ASSUME NEW x \in writes', x.stamp = t
        PROVE  x.action = "delete" /\ x.stage # "appending"
    BY <2>1, <2>2, <2>3, <1>0, <1>w
  <2> QED
    BY <2>2, <2>3, <1>0
<1>7. ASSUME NEW w \in writes, NEW k \in Keys, AppendLog(w, k)
      PROVE  ~MayStillLand(t)' /\ \A r \in log' : r.createdAt = t => r \in log
  <2>1. w.stamp # t
    BY <1>7, <1>w DEF AppendLog
  <2>2. RowOf(w, k).createdAt # t
    BY <2>1 DEF RowOf
  <2> QED
    BY <1>7, <2>2, <1>0, <1>w DEF AppendLog
<1>8. ASSUME NEW w \in writes, FailAppend(w)
      PROVE  ~MayStillLand(t)' /\ log' = log
  BY <1>8, <1>0, <1>w DEF FailAppend
<1>9. CASE Tick
  BY <1>9, <1>0, <1>w DEF Tick
<1> QED
  BY <1>1, <1>2, <1>3, <1>4, <1>5, <1>6, <1>7, <1>8, <1>9 DEF LogNext

\* The clock never goes back.
LEMMA ClockForward ==
    ASSUME LogTypeOK, LogNext
    PROVE  now' \in Nat /\ now <= now'
<1>1. now \in Nat
  BY DEF LogTypeOK
<1>2. Tick => now' = now + 1
  BY DEF Tick
<1>3. ~Tick => now' = now
  BY DEF LogNext, BeginWrite, Reject, ApplyUpdate, ApplyInsert, ApplyDelete,
         StampDelete, AppendLog, FailAppend
<1> QED
  BY <1>1, <1>2, <1>3

\* Steps of a client leave the log and the writes in flight alone.
LEMMA LogUnchanged ==
    ASSUME UNCHANGED logVars
    PROVE  /\ \A t \in Nat : MayStillLand(t)' <=> MayStillLand(t)
           /\ log' = log /\ now' = now /\ writes' = writes
BY DEF logVars, MayStillLand, Pending

LEMMA ClocksBehindStep ==
    ASSUME TypeOK, ClocksBehind, [Next]_vars
    PROVE  ClocksBehind'
<1> USE DEF TypeOK, LogTypeOK, SyncTypeOK, ClocksBehind
<1>now. now \in Nat /\ \A s \in Sessions : since[s] \in Nat /\ run[s].to \in Nat
  BY DEF Run
<1>1. CASE ServerStep
  <2>1. now' \in Nat /\ now <= now'
    BY <1>1, ClockForward DEF ServerStep
  <2> QED
    BY <1>1, <2>1, <1>now DEF ServerStep, clientVars
<1>2. ASSUME NEW s \in Sessions, SyncNow(s) PROVE ClocksBehind'
  BY <1>2, <1>now DEF SyncNow, StartRun, Ask, Idle, logVars
<1>3. ASSUME NEW s \in Sessions, ForceResync(s) PROVE ClocksBehind'
  BY <1>3, <1>now DEF ForceResync, StartRun, Ask, Idle, logVars
<1>4. ASSUME NEW s \in Sessions, ServeWindow(s) PROVE ClocksBehind'
  <2>0. WindowEnd(run[s].from, now) <= now
    BY <1>now, WindowEndType DEF Run
  <2>1. run'[s].to = now \/ run'[s].to = WindowEnd(run[s].from, now)
    BY <1>4 DEF ServeWindow, Run
  <2>2. \A x \in Sessions \ {s} : run'[x] = run[x]
    BY <1>4 DEF ServeWindow
  <2>3. now' = now /\ since' = since
    BY <1>4 DEF ServeWindow, logVars
  <2>4. run'[s].to <= now
    BY <2>0, <2>1, <1>now
  <2> QED
    BY <2>2, <2>3, <2>4, <1>now
<1>5. ASSUME NEW s \in Sessions, FindRows(s) PROVE ClocksBehind'
  <2>1. run'[s].to = run[s].to /\ run[s].stage = "windowed"
    BY <1>5 DEF FindRows, Run
  <2>2. \A x \in Sessions \ {s} : run'[x] = run[x]
    BY <1>5 DEF FindRows
  <2>3. now' = now /\ since' = since
    BY <1>5 DEF FindRows, logVars
  <2> QED
    BY <2>1, <2>2, <2>3, <1>now
<1>6. ASSUME NEW s \in Sessions, ApplyReply(s) PROVE ClocksBehind'
  BY <1>6, <1>now DEF ApplyReply, Ask, Idle, logVars
<1>13. ASSUME NEW s \in Sessions, NEW r \in run[s].rows, ApplyRow(s, r)
       PROVE  ClocksBehind'
  <2>1. run'[s].to = run[s].to /\ run[s].stage = "found" /\ run'[s].stage = "found"
    BY <1>13 DEF ApplyRow, Run
  <2>2. \A x \in Sessions \ {s} : run'[x] = run[x]
    BY <1>13 DEF ApplyRow
  <2>3. now' = now /\ since' = since
    BY <1>13 DEF ApplyRow, logVars
  <2> QED
    BY <2>1, <2>2, <2>3, <1>now
<1>14. ASSUME NEW s \in Sessions, GoOn(s) PROVE ClocksBehind'
  BY <1>14, <1>now DEF GoOn, Ask, Idle, logVars
<1>7. ASSUME NEW s \in Sessions, StartClear(s) PROVE ClocksBehind'
  <2>1. run'[s].to = run[s].to
    BY <1>7 DEF StartClear, Run
  <2>2. \A x \in Sessions \ {s} : run'[x] = run[x]
    BY <1>7 DEF StartClear
  <2>3. now' = now /\ since' = since /\ run[s].stage = "reset"
    BY <1>7 DEF StartClear, logVars
  <2> QED
    BY <2>1, <2>2, <2>3, <1>now
<1>8. ASSUME NEW s \in Sessions, FinishReset(s) PROVE ClocksBehind'
  <2>1. run'[s].stage = "retrying"
    BY <1>8 DEF FinishReset, Run
  <2> QED
    BY <1>8, <2>1, <1>now DEF FinishReset, logVars
<1>9. ASSUME NEW s \in Sessions, RunFails(s) PROVE ClocksBehind'
  BY <1>9, <1>now DEF RunFails, Idle, logVars
<1>10. ASSUME NEW s \in Sessions, NEW skew \in Skews, StartLogin(s, skew)
       PROVE  ClocksBehind'
  BY <1>10, <1>now DEF StartLogin, logVars
<1>11. ASSUME NEW s \in Sessions, FinishLogin(s) PROVE ClocksBehind'
  BY <1>11, <1>now DEF FinishLogin, logVars
<1>12. CASE UNCHANGED vars
  BY <1>12 DEF vars, clientVars, logVars
<1> QED
  BY <1>1, <1>2, <1>3, <1>4, <1>5, <1>6, <1>7, <1>8, <1>9, <1>10, <1>11, <1>12, <1>13,
     <1>14
  DEF Next

\* What a step never does: land a row at a time that was settled, or unsettle it.
SettledKept ==
    \A t \in Nat : ~MayStillLand(t) =>
        /\ ~MayStillLand(t)'
        /\ \A r \in log' : r.createdAt = t => r \in log

LEMMA EveryStepKeepsSettled ==
    ASSUME TypeOK, [Next]_vars
    PROVE  SettledKept
<1>1. LogNext \/ UNCHANGED logVars
  BY DEF Next, ServerStep, SyncNow, ForceResync, ServeWindow, FindRows,
         ApplyRow, ApplyReply, StartClear, FinishReset, GoOn, RunFails, StartLogin,
         FinishLogin, vars
<1>2. CASE LogNext
  BY <1>2, SettledStaysSettled DEF SettledKept, TypeOK
<1>3. CASE UNCHANGED logVars
  BY <1>3, LogUnchanged DEF SettledKept
<1> QED
  BY <1>1, <1>2, <1>3

\* What is covered stays covered while the session's data are not dropped.
LEMMA CoveredKept ==
    ASSUME TypeOK, SettledKept, NEW s \in Sessions, NEW x \in Nat,
           CoveredUpTo(s, x), since'[s] = since[s],
           got[s] \subseteq got'[s], blind[s] \subseteq blind'[s]
    PROVE  \A t \in since'[s] + 1 .. x : t \in blind'[s] \/ Delivered(s, t)'
<1>1. SUFFICES ASSUME NEW t \in since[s] + 1 .. x, t \notin blind[s]
               PROVE  Delivered(s, t)'
  OBVIOUS
<1>2. t \in Nat /\ Delivered(s, t)
  BY <1>1 DEF CoveredUpTo, TypeOK, SyncTypeOK
<1>3. ~MayStillLand(t)' /\ \A r \in log' : r.createdAt = t => r \in log
  BY <1>2 DEF Delivered, SettledKept
<1> QED
  BY <1>2, <1>3 DEF Delivered, Foreign

LEMMA SessionKept ==
    ASSUME TypeOK, SettledKept, NEW s \in Sessions, SessionCovered(s),
           time1'[s] = time1[s], run'[s] = run[s], since'[s] = since[s],
           got'[s] = got[s], blind'[s] = blind[s]
    PROVE  SessionCovered(s)'
<1>1. time1[s] \in Nat /\ run[s].from \in Nat
  BY DEF TypeOK, SyncTypeOK, Run
<1>2. CoveredUpTo(s, time1[s])'
  BY <1>1, CoveredKept DEF SessionCovered, CoveredUpTo
<1>3. run[s].stage \in InFlight => CoveredUpTo(s, run[s].from)'
  BY <1>1, CoveredKept DEF SessionCovered, CoveredUpTo
<1>4. run[s].stage = "found" => ReplyComplete(s)'
  <2>1. SUFFICES ASSUME run[s].stage = "found",
                        NEW t \in run[s].from + 1 .. run[s].to,
                        t \notin run[s].open, ~(t <= since[s])
                 PROVE  /\ ~MayStillLand(t)'
                        /\ \A r \in log' :
                            r.createdAt = t /\ Foreign(r, s) => r \in run[s].rows \cup got[s]
    BY DEF ReplyComplete
  <2>2. /\ t \in Nat /\ ~MayStillLand(t)
        /\ \A r \in log :
              r.createdAt = t /\ Foreign(r, s) => r \in run[s].rows \cup got[s]
    BY <1>1, <2>1 DEF SessionCovered, ReplyComplete
  <2> QED
    BY <2>2 DEF SettledKept
<1> QED
  BY <1>2, <1>3, <1>4 DEF SessionCovered

LEMMA CoveredStep ==
    ASSUME TypeOK, ClocksBehind, Covered, [Next]_vars
    PROVE  Covered'
<1> USE DEF Covered
<1>kept. SettledKept
  BY EveryStepKeepsSettled
<1>type. \A s \in Sessions :
            /\ time1[s] \in Nat /\ since[s] \in Nat /\ got[s] \subseteq Row
            /\ run[s].from \in Nat /\ run[s].to \in Nat /\ run[s].open \subseteq Nat
            /\ blind[s] \subseteq Nat /\ now \in Nat
  BY DEF TypeOK, SyncTypeOK, Run, LogTypeOK
<1>fun. /\ DOMAIN run = Sessions /\ DOMAIN time1 = Sessions /\ DOMAIN got = Sessions
        /\ DOMAIN since = Sessions /\ DOMAIN blind = Sessions
  BY DEF TypeOK, SyncTypeOK
<1>1. CASE ServerStep
  BY <1>1, <1>kept, SessionKept DEF ServerStep, clientVars
<1>2. ASSUME NEW s \in Sessions, SyncNow(s) PROVE Covered'
  <2>1. \A x \in Sessions \ {s} : SessionCovered(x)'
    BY <1>2, <1>kept, SessionKept DEF SyncNow, StartRun
  <2>2. /\ time1' = time1 /\ since' = since /\ got' = got /\ blind' = blind
        /\ run'[s].stage = "asked" /\ run'[s].from = time1[s]
    BY <1>2, <1>fun DEF SyncNow, StartRun, Ask, Idle
  <2>3. \A t \in since'[s] + 1 .. time1[s] : t \in blind'[s] \/ Delivered(s, t)'
    BY <2>2, <1>kept, <1>type, CoveredKept DEF SessionCovered
  <2> QED
    BY <2>1, <2>2, <2>3 DEF SessionCovered, CoveredUpTo
<1>3. ASSUME NEW s \in Sessions, ForceResync(s) PROVE Covered'
  <2>0. \A x \in Sessions \ {s} :
            /\ time1'[x] = time1[x] /\ run'[x] = run[x] /\ since'[x] = since[x]
            /\ got'[x] = got[x] /\ blind'[x] = blind[x]
    BY <1>3, <1>fun DEF ForceResync, StartRun
  <2>1. \A x \in Sessions \ {s} : SessionCovered(x)'
    BY <2>0, <1>kept, SessionKept
  <2>2. time1'[s] = 0 /\ since' = since /\ got' = got /\ blind' = blind
    BY <1>3, <1>fun DEF ForceResync, Epoch
  <2>3. CoveredUpTo(s, time1[s])'
    BY <2>2, <1>type DEF CoveredUpTo
  <2>4. CASE run' = run
    <3>1. run[s].stage \in InFlight => CoveredUpTo(s, run[s].from)'
      BY <2>2, <2>4, <1>kept, <1>type, CoveredKept
      DEF SessionCovered, CoveredUpTo
    <3>2. run[s].stage = "found" => ReplyComplete(s)'
      <4>1. ASSUME run[s].stage = "found",
                   NEW t \in run[s].from + 1 .. run[s].to, t \notin run[s].open,
                   ~(t <= since[s])
            PROVE  /\ ~MayStillLand(t)'
                   /\ \A r \in log' :
                        r.createdAt = t /\ Foreign(r, s) => r \in run[s].rows \cup got[s]
        BY <4>1, <1>type, <1>kept DEF SessionCovered, ReplyComplete, SettledKept
      <4> QED
        BY <4>1, <2>2, <2>4 DEF ReplyComplete
    <3> QED
      BY <2>1, <2>3, <2>4, <3>1, <3>2 DEF SessionCovered
  <2>5. CASE run' # run
    <3>1. run'[s].stage = "asked" /\ run'[s].from = 0
      BY <1>3, <2>5, <1>fun DEF ForceResync, StartRun, Ask, Idle, Epoch
    <3>2. CoveredUpTo(s, run[s].from)'
      BY <3>1, <2>2, <1>type DEF CoveredUpTo
    <3> QED
      BY <2>1, <2>3, <3>1, <3>2 DEF SessionCovered
  <2> QED
    BY <2>4, <2>5
<1>4. ASSUME NEW s \in Sessions, ServeWindow(s) PROVE Covered'
  <2>1. \A x \in Sessions \ {s} : SessionCovered(x)'
    BY <1>4, <1>kept, SessionKept DEF ServeWindow
  <2>2. /\ time1' = time1 /\ since' = since /\ got' = got /\ blind' = blind
        /\ run'[s].stage \in {"reset", "windowed"} /\ run'[s].from = run[s].from
        /\ run[s].stage = "asked"
    BY <1>4, <1>fun DEF ServeWindow, TypeOK, SyncTypeOK, Run
  <2>3. \A t \in since'[s] + 1 .. time1[s] : t \in blind'[s] \/ Delivered(s, t)'
    BY <2>2, <1>kept, <1>type, CoveredKept DEF SessionCovered
  <2>4. \A t \in since'[s] + 1 .. run[s].from : t \in blind'[s] \/ Delivered(s, t)'
    BY <2>2, <1>kept, <1>type, CoveredKept DEF SessionCovered, InFlight
  <2> QED
    BY <2>1, <2>2, <2>3, <2>4 DEF SessionCovered, CoveredUpTo
<1>5. ASSUME NEW s \in Sessions, FindRows(s) PROVE Covered'
  <2>0. \A x \in Sessions \ {s} :
            /\ time1'[x] = time1[x] /\ run'[x] = run[x] /\ since'[x] = since[x]
            /\ got'[x] = got[x] /\ blind'[x] = blind[x]
    BY <1>5, <1>fun DEF FindRows
  <2>1. \A x \in Sessions \ {s} : SessionCovered(x)'
    BY <2>0, <1>kept, SessionKept
  <2>2. /\ time1' = time1 /\ since' = since /\ got' = got /\ blind' = blind
        /\ run'[s].stage = "found" /\ run'[s].from = run[s].from
        /\ run'[s].to = run[s].to
        /\ run'[s].rows = RowsFor(s, run[s].from, run[s].to)
        /\ run'[s].open = {t \in run[s].from + 1 .. run[s].to : MayStillLand(t)}
        /\ run[s].stage = "windowed"
    BY <1>5, <1>fun DEF FindRows, TypeOK, SyncTypeOK, Run
  <2>3. \A t \in since'[s] + 1 .. time1[s] : t \in blind'[s] \/ Delivered(s, t)'
    BY <2>2, <1>kept, <1>type, CoveredKept DEF SessionCovered
  <2>4. \A t \in since'[s] + 1 .. run[s].from : t \in blind'[s] \/ Delivered(s, t)'
    BY <2>2, <1>kept, <1>type, CoveredKept DEF SessionCovered, InFlight
  <2>5. ReplyComplete(s)'
    <3>1. SUFFICES ASSUME NEW t \in run[s].from + 1 .. run[s].to, ~MayStillLand(t)
                   PROVE  /\ ~MayStillLand(t)'
                          /\ \A r \in log' : r.createdAt = t /\ Foreign(r, s)
                                               => r \in run'[s].rows
      BY <2>2 DEF ReplyComplete
    <3>2. t \in Nat /\ InWindow(t, run[s].from, run[s].to)
      BY <1>type DEF InWindow
    <3>3. ~MayStillLand(t)' /\ \A r \in log' : r.createdAt = t => r \in log
      BY <3>1, <3>2, <1>kept DEF SettledKept
    <3> QED
      BY <2>2, <3>2, <3>3 DEF RowsFor
  <2> QED
    BY <2>1, <2>2, <2>3, <2>4, <2>5 DEF SessionCovered, CoveredUpTo
<1>6. ASSUME NEW s \in Sessions, ApplyReply(s) PROVE Covered'
  <2>1. \A x \in Sessions \ {s} : SessionCovered(x)'
    BY <1>6, <1>kept, SessionKept DEF ApplyReply
  <2>2. /\ time1'[s] = run[s].to /\ since' = since
        /\ got' = got /\ blind'[s] = blind[s] \cup run[s].open
        /\ run[s].stage = "found" /\ run[s].rows = {}
        /\ run'[s].stage \in {"asked", "idle"}
        /\ run'[s].stage = "asked" => run'[s].from = run[s].to
    BY <1>6, <1>fun DEF ApplyReply, NextCursor, Ask, Idle
  <2>3. \A t \in since'[s] + 1 .. run[s].from : t \in blind'[s] \/ Delivered(s, t)'
    BY <2>2, <1>kept, <1>type, CoveredKept DEF SessionCovered, InFlight
  <2>4. ASSUME NEW t \in run[s].from + 1 .. run[s].to, t \notin run[s].open,
               ~(t <= since[s])
        PROVE  Delivered(s, t)'
    <3>1. /\ t \in Nat /\ ~MayStillLand(t)
          /\ \A r \in log : r.createdAt = t /\ Foreign(r, s) => r \in got[s]
      BY <2>2, <2>4, <1>type DEF SessionCovered, ReplyComplete
    <3>2. ~MayStillLand(t)' /\ \A r \in log' : r.createdAt = t => r \in log
      BY <3>1, <1>kept DEF SettledKept
    <3> QED
      BY <2>2, <3>1, <3>2 DEF Delivered, Foreign
  <2>5. \A t \in since'[s] + 1 .. run[s].to : t \in blind'[s] \/ Delivered(s, t)'
    BY <2>2, <2>3, <2>4, <1>type
  <2> QED
    BY <2>1, <2>2, <2>5 DEF SessionCovered, CoveredUpTo, InFlight
<1>13. ASSUME NEW s \in Sessions, NEW row \in run[s].rows, ApplyRow(s, row)
       PROVE  Covered'
  <2>0. \A x \in Sessions \ {s} :
            /\ time1'[x] = time1[x] /\ run'[x] = run[x] /\ since'[x] = since[x]
            /\ got'[x] = got[x] /\ blind'[x] = blind[x]
    BY <1>13, <1>fun DEF ApplyRow
  <2>1. \A x \in Sessions \ {s} : SessionCovered(x)'
    BY <2>0, <1>kept, SessionKept
  <2>2. /\ time1' = time1 /\ since' = since /\ blind' = blind
        /\ got'[s] = got[s] \cup {row} /\ run[s].stage = "found"
        /\ run'[s] = [run[s] EXCEPT !.rows = @ \ {row}]
    BY <1>13, <1>fun DEF ApplyRow
  <2>3. /\ run'[s].stage = "found" /\ run'[s].from = run[s].from /\ run'[s].to = run[s].to
        /\ run'[s].open = run[s].open /\ run'[s].rows = run[s].rows \ {row}
    BY <2>2 DEF TypeOK, SyncTypeOK, Run
  <2>4. \A t \in since'[s] + 1 .. time1[s] : t \in blind'[s] \/ Delivered(s, t)'
    BY <2>2, <1>kept, <1>type, CoveredKept DEF SessionCovered
  <2>5. \A t \in since'[s] + 1 .. run[s].from : t \in blind'[s] \/ Delivered(s, t)'
    BY <2>2, <1>kept, <1>type, CoveredKept DEF SessionCovered, InFlight
  <2>6. ReplyComplete(s)'
    <3>1. ASSUME NEW t \in run[s].from + 1 .. run[s].to, t \notin run[s].open,
                 ~(t <= since[s])
          PROVE  /\ ~MayStillLand(t)'
                 /\ \A r \in log' : r.createdAt = t /\ Foreign(r, s) =>
                        r \in (run[s].rows \ {row}) \cup (got[s] \cup {row})
      <4>1. /\ t \in Nat /\ ~MayStillLand(t)
            /\ \A r \in log :
                  r.createdAt = t /\ Foreign(r, s) => r \in run[s].rows \cup got[s]
        BY <2>2, <3>1, <1>type DEF SessionCovered, ReplyComplete
      <4> QED
        BY <4>1, <1>kept DEF SettledKept
    <3> QED
      BY <2>2, <2>3, <3>1 DEF ReplyComplete
  <2> QED
    BY <2>1, <2>2, <2>3, <2>4, <2>5, <2>6 DEF SessionCovered, CoveredUpTo
<1>14. ASSUME NEW s \in Sessions, GoOn(s) PROVE Covered'
  <2>0. \A x \in Sessions \ {s} :
            /\ time1'[x] = time1[x] /\ run'[x] = run[x] /\ since'[x] = since[x]
            /\ got'[x] = got[x] /\ blind'[x] = blind[x]
    BY <1>14, <1>fun DEF GoOn
  <2>1. \A x \in Sessions \ {s} : SessionCovered(x)'
    BY <2>0, <1>kept, SessionKept
  <2>2. /\ time1' = time1 /\ since' = since /\ got' = got /\ blind' = blind
        /\ run'[s].stage = "asked" /\ run'[s].from = time1[s]
    BY <1>14, <1>fun DEF GoOn, Ask, Idle
  <2>3. \A t \in since'[s] + 1 .. time1[s] : t \in blind'[s] \/ Delivered(s, t)'
    BY <2>2, <1>kept, <1>type, CoveredKept DEF SessionCovered
  <2> QED
    BY <2>1, <2>2, <2>3 DEF SessionCovered, CoveredUpTo
<1>7. ASSUME NEW s \in Sessions, StartClear(s) PROVE Covered'
  <2>1. \A x \in Sessions \ {s} : SessionCovered(x)'
    BY <1>7, <1>kept, SessionKept DEF StartClear
  <2>2. /\ time1' = time1 /\ since' = since /\ got' = got /\ blind' = blind
        /\ run'[s].stage = "clearing"
    BY <1>7, <1>fun DEF StartClear, TypeOK, SyncTypeOK, Run
  <2>3. \A t \in since'[s] + 1 .. time1[s] : t \in blind'[s] \/ Delivered(s, t)'
    BY <2>2, <1>kept, <1>type, CoveredKept DEF SessionCovered
  <2> QED
    BY <2>1, <2>2, <2>3 DEF SessionCovered, CoveredUpTo, InFlight
<1>8. ASSUME NEW s \in Sessions, FinishReset(s) PROVE Covered'
  <2>0. \A x \in Sessions \ {s} :
            /\ time1'[x] = time1[x] /\ run'[x] = run[x] /\ since'[x] = since[x]
            /\ got'[x] = got[x] /\ blind'[x] = blind[x]
    BY <1>8, <1>fun DEF FinishReset
  <2>1. \A x \in Sessions \ {s} : SessionCovered(x)'
    BY <2>0, <1>kept, SessionKept
  <2>2. /\ time1'[s] = run[s].to /\ since'[s] = run[s].to
        /\ run'[s].stage = "retrying"
    BY <1>8, <1>fun DEF FinishReset, TypeOK, SyncTypeOK, Run
  <2> QED
    BY <2>1, <2>2, <1>type DEF SessionCovered, CoveredUpTo, InFlight
<1>9. ASSUME NEW s \in Sessions, RunFails(s) PROVE Covered'
  <2>1. \A x \in Sessions \ {s} : SessionCovered(x)'
    BY <1>9, <1>kept, SessionKept DEF RunFails
  <2>2. /\ time1' = time1 /\ since' = since /\ got' = got /\ blind' = blind
        /\ run'[s].stage = "idle"
    BY <1>9, <1>fun DEF RunFails, Idle
  <2>3. \A t \in since'[s] + 1 .. time1[s] : t \in blind'[s] \/ Delivered(s, t)'
    BY <2>2, <1>kept, <1>type, CoveredKept DEF SessionCovered
  <2> QED
    BY <2>1, <2>2, <2>3 DEF SessionCovered, CoveredUpTo, InFlight
<1>10. ASSUME NEW s \in Sessions, NEW skew \in Skews, StartLogin(s, skew)
       PROVE  Covered'
  BY <1>10, <1>kept, SessionKept DEF StartLogin
<1>11. ASSUME NEW s \in Sessions, FinishLogin(s) PROVE Covered'
  <2>0. \A x \in Sessions \ {s} :
            /\ time1'[x] = time1[x] /\ run'[x] = run[x] /\ since'[x] = since[x]
            /\ got'[x] = got[x] /\ blind'[x] = blind[x]
    BY <1>11, <1>fun DEF FinishLogin
  <2>1. \A x \in Sessions \ {s} : SessionCovered(x)'
    BY <2>0, <1>kept, SessionKept
  <2>2. /\ time1'[s] = login[s] /\ since'[s] = now /\ run' = run
        /\ blind'[s] = {t \in blind[s] : t > now} \cup (now + 1 .. login[s])
        /\ login[s] \in Nat
    BY <1>11, <1>fun DEF FinishLogin, TypeOK, SyncTypeOK
  <2>3. CoveredUpTo(s, time1[s])'
    BY <2>2 DEF CoveredUpTo
  <2>4. run[s].stage \in InFlight => CoveredUpTo(s, run[s].from)'
    <3>1. SUFFICES ASSUME run[s].stage \in InFlight,
                          NEW t \in now + 1 .. run[s].from
                   PROVE  t \in blind'[s]
      BY <2>2 DEF CoveredUpTo
    <3>2. t \in since[s] + 1 .. run[s].from /\ t \in Nat /\ t > now
      BY <1>type DEF ClocksBehind
    <3>3. ~Delivered(s, t)
      BY <3>2, <1>type DEF Delivered, MayStillLand
    <3> QED
      BY <2>2, <3>1, <3>2, <3>3 DEF SessionCovered, CoveredUpTo
  <2>5. run[s].stage = "found" => ReplyComplete(s)'
    <3>1. run[s].stage = "found" =>
            \A t \in run[s].from + 1 .. run[s].to : t <= since'[s]
      BY <2>2, <1>type DEF ClocksBehind
    <3> QED
      BY <2>2, <3>1 DEF ReplyComplete
  <2> QED
    BY <2>1, <2>2, <2>3, <2>4, <2>5 DEF SessionCovered
<1>12. CASE UNCHANGED vars
  BY <1>12, <1>kept, SessionKept DEF vars, clientVars
<1> QED
  BY <1>1, <1>2, <1>3, <1>4, <1>5, <1>6, <1>7, <1>8, <1>9, <1>10, <1>11, <1>12, <1>13,
     <1>14
  DEF Next

LEMMA CoveredInit == Init => ClocksBehind /\ Covered
BY TimeAssumption
DEF Init, LogInit, ClocksBehind, Covered, SessionCovered, CoveredUpTo, Idle,
    InFlight, Epoch

LEMMA CoveredMeansNotMissed ==
    ASSUME TypeOK, Covered
    PROVE  MissedOnlyIfBlind
<1>1. SUFFICES ASSUME NEW s \in Sessions, NEW r \in log, Missed(s, r)
               PROVE  r.createdAt \in blind[s]
  BY DEF MissedOnlyIfBlind
<1>2. r.createdAt \in since[s] + 1 .. time1[s]
  BY <1>1 DEF Missed, TypeOK, LogTypeOK, SyncTypeOK, Row
<1> QED
  BY <1>1, <1>2 DEF Covered, SessionCovered, CoveredUpTo, Delivered, Missed

\* Whatever runs fail, restart, are forced or overlap a login, and however many
\* writes are in flight, the cursor of a session passes a change without
\* delivering it only at a time that was blind when its window was read.
THEOREM MissesAreBlind == Spec => []MissedOnlyIfBlind
<1>1. Init => TypeOK /\ ClocksBehind /\ Covered
  BY InitType, CoveredInit
<1>2. TypeOK /\ ClocksBehind /\ Covered /\ [Next]_vars
        => (TypeOK /\ ClocksBehind /\ Covered)'
  BY SyncTypeStep, ClocksBehindStep, CoveredStep
<1>3. TypeOK /\ ClocksBehind /\ Covered => MissedOnlyIfBlind
  BY CoveredMeansNotMissed
<1> QED
  BY <1>1, <1>2, <1>3, PTL DEF Spec

-----------------------------------------------------------------------------
(* No change is delivered twice.                                           *)

LEMMA RowsPastServer ==
    ASSUME TypeOK, RowsPast, ServerStep
    PROVE  RowsPast'
<1> USE DEF RowsPast
<1>0. /\ now \in Nat /\ FirstTime \in Nat
      /\ \A w \in writes : w \in Write /\ w.stamp \in Nat
      /\ \A r \in log : r.createdAt \in Nat
  BY TimeAssumption DEF TypeOK, LogTypeOK, Write, Row
<1>1. LogNext /\ got' = got
  BY DEF ServerStep, clientVars
<1>2. now' \in Nat /\ now <= now'
  BY <1>1, ClockForward DEF TypeOK
<1>3. ASSUME NEW w \in writes' PROVE w.stamp <= now \/ w.stamp = now'
  <2>1. ASSUME NEW v \in writes, NEW st \in {"appending", "applied"}
        PROVE  [v EXCEPT !.stage = st].stamp = v.stamp
    BY <1>0 DEF Write
  <2>2. ASSUME NEW v \in writes
        PROVE  [v EXCEPT !.stage = "appending", !.stamp = now].stamp = now
    BY <1>0 DEF Write
  <2>3. ASSUME NEW q \in Requests, NEW s \in Writers, NEW a \in Actions,
               NEW i \in Ids, NEW p \in Payload(a), BeginWrite(q, s, a, i, p)
        PROVE  w.stamp <= now
    BY <2>3, <1>0 DEF BeginWrite
  <2>4. ASSUME NEW v \in writes, ApplyUpdate(v) PROVE w.stamp <= now
    BY <2>4, <2>1 DEF ApplyUpdate, Advance
  <2>5. ASSUME NEW v \in writes, ApplyInsert(v) PROVE w.stamp <= now
    BY <2>5, <2>1 DEF ApplyInsert, Advance
  <2>6. ASSUME NEW v \in writes, ApplyDelete(v) PROVE w.stamp <= now
    BY <2>6, <2>1 DEF ApplyDelete, Advance
  <2>7. ASSUME NEW v \in writes, StampDelete(v) PROVE w.stamp <= now
    <3> DEFINE u == [v EXCEPT !.stage = "appending", !.stamp = now]
    <3>1. writes' = (writes \ {v}) \cup {u}
      BY <2>7 DEF StampDelete
    <3>2. u.stamp = now
      BY <2>2
    <3> HIDE DEF u
    <3> QED
      BY <3>1, <3>2, <1>0
  <2>8. ASSUME NEW v \in writes, NEW k \in Keys, AppendLog(v, k)
        PROVE  w.stamp <= now
    BY <2>8 DEF AppendLog
  <2>9. ASSUME NEW v \in writes, Reject(v) \/ FailAppend(v) PROVE w.stamp <= now
    BY <2>9 DEF Reject, FailAppend
  <2>10. Tick => w.stamp <= now
    BY DEF Tick
  <2> QED
    BY <1>1, <2>3, <2>4, <2>5, <2>6, <2>7, <2>8, <2>9, <2>10 DEF LogNext
<1>4. \A w \in writes' : w.stamp <= now'
  <2>1. ASSUME NEW w \in writes' PROVE w.stamp \in Nat
    BY <1>1, LogTypeStep DEF TypeOK, LogTypeOK, Write
  <2> QED
    BY <2>1, <1>0, <1>2, <1>3
<1>5. \A r \in log' : r \in log \/ r.createdAt <= now
  <2>1. ASSUME NEW w \in writes, NEW k \in Keys, AppendLog(w, k)
        PROVE  \A r \in log' : r \in log \/ r.createdAt <= now
    BY <2>1 DEF AppendLog, RowOf
  <2>2. (\A w \in writes, k \in Keys : ~AppendLog(w, k)) => log' = log
    BY <1>1 DEF LogNext, BeginWrite, Reject, ApplyUpdate, ApplyInsert,
                ApplyDelete, StampDelete, FailAppend, Tick
  <2> QED
    BY <2>1, <2>2
<1>6. \A r \in log' : r.createdAt <= now'
  <2>1. ASSUME NEW r \in log' PROVE r.createdAt \in Nat
    BY <1>1, LogTypeStep DEF TypeOK, LogTypeOK, Row
  <2> QED
    BY <2>1, <1>0, <1>2, <1>5
<1>7. log \subseteq log'
  BY <1>1 DEF LogNext, BeginWrite, Reject, ApplyUpdate, ApplyInsert,
              ApplyDelete, StampDelete, AppendLog, FailAppend, Tick
<1> QED
  BY <1>0, <1>1, <1>2, <1>4, <1>6, <1>7

LEMMA RowsPastStep ==
    ASSUME TypeOK, RowsPast, CursorPastHeld, [Next]_vars
    PROVE  RowsPast'
<1>1. CASE ServerStep
  BY <1>1, RowsPastServer
<1>2. CASE ~ServerStep
  <2>1. now' = now /\ log' = log /\ writes' = writes
    BY <1>2 DEF Next, SyncNow, ForceResync, ServeWindow, FindRows, ApplyRow,
       ApplyReply, StartClear, FinishReset, GoOn, RunFails, StartLogin, FinishLogin, logVars, vars
  <2>2. DOMAIN got = Sessions
    BY DEF TypeOK, SyncTypeOK
  <2>3. ASSUME NEW s \in Sessions, NEW r \in run[s].rows, ApplyRow(s, r)
        PROVE  \A x \in Sessions : got'[x] \subseteq log
    BY <2>3, <2>2
    DEF ApplyRow, CursorPastHeld, SessionPastHeld, RowsPast
  <2>4. ASSUME NEW s \in Sessions, FinishReset(s) \/ FinishLogin(s)
        PROVE  \A x \in Sessions : got'[x] \subseteq log
    BY <2>4, <2>2 DEF FinishReset, FinishLogin, RowsPast
  <2>5. (\A s \in Sessions : /\ \A r \in run[s].rows : ~ApplyRow(s, r)
                             /\ ~FinishReset(s) /\ ~FinishLogin(s))
           => got' = got
    BY <1>2 DEF Next, SyncNow, ForceResync, ServeWindow, FindRows, ApplyReply,
                StartClear, GoOn, RunFails, StartLogin, vars, clientVars
  <2> QED
    BY <2>1, <2>3, <2>4, <2>5 DEF RowsPast
<1> QED
  BY <1>1, <1>2

LEMMA PastHeldStep ==
    ASSUME TypeOK, RowsPast, CursorPastHeld, [Next]_vars
    PROVE  CursorPastHeld'
<1> USE DEF CursorPastHeld
<1>type. \A s \in Sessions :
            /\ time1[s] \in Nat /\ run[s].from \in Nat /\ run[s].to \in Nat
            /\ now \in Nat /\ run[s].rows \subseteq Row
            /\ \A r \in got[s] : r \in Row /\ r.createdAt \in Nat
            /\ \A r \in run[s].rows : r.createdAt \in Nat
  BY DEF TypeOK, SyncTypeOK, Run, LogTypeOK, Row
<1>fun. /\ DOMAIN run = Sessions /\ DOMAIN time1 = Sessions /\ DOMAIN got = Sessions
        /\ DOMAIN torn = Sessions
        /\ run \in [Sessions -> Run]
  BY DEF TypeOK, SyncTypeOK
<1>grow. log \subseteq log'
  BY DEF Next, ServerStep, LogNext, BeginWrite, Reject, ApplyUpdate, ApplyInsert,
         ApplyDelete, StampDelete, AppendLog, FailAppend, Tick, SyncNow,
         ForceResync, ServeWindow, FindRows, ApplyRow, ApplyReply, StartClear,
         FinishReset, GoOn, RunFails, StartLogin, FinishLogin, logVars, vars
<1>kept. ASSUME NEW x \in Sessions, time1'[x] = time1[x], run'[x] = run[x],
                got'[x] = got[x], torn'[x] = torn[x]
         PROVE  SessionPastHeld(x)'
  BY <1>kept, <1>grow DEF SessionPastHeld, FirmUpTo, Firm
\* A step of one client leaves the others as they are.
<1>one. ASSUME NEW s \in Sessions, SessionPastHeld(s)',
               \A x \in Sessions \ {s} :
                   /\ time1'[x] = time1[x] /\ run'[x] = run[x]
                   /\ got'[x] = got[x] /\ torn'[x] = torn[x]
        PROVE  CursorPastHeld'
  BY <1>one, <1>kept
<1>1. CASE ServerStep
  BY <1>1, <1>kept DEF ServerStep, clientVars
<1>2. ASSUME NEW s \in Sessions, SyncNow(s) \/ GoOn(s) PROVE CursorPastHeld'
  <2>1. /\ time1' = time1 /\ got' = got /\ torn' = torn
        /\ run[s].stage # "found"
        /\ run'[s].stage = "asked" /\ run'[s].from = time1[s]
        /\ \A x \in Sessions \ {s} : run'[x] = run[x]
    BY <1>2, <1>fun DEF SyncNow, GoOn, StartRun, Ask, Idle
  <2>2. SessionPastHeld(s)'
    BY <2>1 DEF SessionPastHeld, FirmUpTo, Firm
  <2> QED
    BY <1>one, <2>1, <2>2
<1>3. ASSUME NEW s \in Sessions, ForceResync(s) PROVE CursorPastHeld'
  <2>0. \A x \in Sessions \ {s} : time1'[x] = time1[x] /\ run'[x] = run[x]
    BY <1>3, <1>fun DEF ForceResync, StartRun
  <2>1. /\ time1'[s] = Epoch /\ got' = got /\ torn' = torn
        /\ run' = run \/ (run'[s].stage = "asked" /\ run'[s].from = Epoch)
    BY <1>3, <1>fun DEF ForceResync, StartRun, Ask, Idle
  <2>2. SessionPastHeld(s)'
    BY <2>1, <1>grow DEF SessionPastHeld, FirmUpTo, Firm
  <2> QED
    BY <1>one, <2>0, <2>1, <2>2
<1>4. ASSUME NEW s \in Sessions, ServeWindow(s) PROVE CursorPastHeld'
  <2>0. \A x \in Sessions \ {s} : run'[x] = run[x]
    BY <1>4, <1>fun DEF ServeWindow
  <2>1. time1' = time1 /\ got' = got /\ torn' = torn /\ run[s].stage = "asked"
    BY <1>4 DEF ServeWindow
  <2>2. CASE TooOld(run[s].from, now)
    <3>1. run'[s].stage = "reset"
      BY <1>4, <2>2, <1>fun DEF ServeWindow, Run
    <3>2. SessionPastHeld(s)'
      BY <2>1, <3>1 DEF SessionPastHeld, FirmUpTo, Firm
    <3> QED
      BY <1>one, <2>0, <2>1, <3>2
  <2>3. CASE ~TooOld(run[s].from, now)
    <3>1. /\ run'[s].stage = "windowed" /\ run'[s].from = run[s].from
          /\ run'[s].to = WindowEnd(run[s].from, now)
      BY <1>4, <2>3, <1>fun DEF ServeWindow, Run
    <3>2. run[s].from # Epoch
      BY <2>3, <1>type, EpochAssumption, TimeAssumption, WindowAssumption
      DEF TooOld, Epoch, RowsPast
    <3>3. FirmUpTo(s, run[s].from)
      BY <2>1, <3>2 DEF SessionPastHeld
    <3>4. \A r \in got[s] : r.createdAt <= now
      BY DEF RowsPast
    <3>5. \A r \in Firm(s) : r.createdAt <= WindowEnd(run[s].from, now)
      <4> DEFINE end == WindowEnd(run[s].from, now)
      <4>1. end \in Nat /\ (run[s].from <= end \/ end = now)
        BY <1>type, WindowEndType
      <4> HIDE DEF end
      <4>2. \A r \in Firm(s) : r.createdAt <= end
        BY <3>3, <3>4, <4>1, <1>type DEF FirmUpTo, Firm
      <4> QED
        BY <4>2 DEF end
    <3>6. SessionPastHeld(s)'
      BY <2>1, <3>1, <3>3, <3>5 DEF SessionPastHeld, FirmUpTo, Firm
    <3> QED
      BY <1>one, <2>0, <2>1, <3>6
  <2> QED
    BY <2>2, <2>3
<1>5. ASSUME NEW s \in Sessions, FindRows(s) PROVE CursorPastHeld'
  <2>0. \A x \in Sessions \ {s} : run'[x] = run[x]
    BY <1>5, <1>fun DEF FindRows
  <2>1. /\ time1' = time1 /\ got' = got /\ torn' = torn /\ run[s].stage = "windowed"
        /\ run'[s].stage = "found" /\ run'[s].from = run[s].from
        /\ run'[s].to = run[s].to
        /\ run'[s].rows = RowsFor(s, run[s].from, run[s].to)
    BY <1>5, <1>fun DEF FindRows, Run
  <2>2. ASSUME NEW r \in RowsFor(s, run[s].from, run[s].to)
        PROVE  /\ r \in log' /\ InWindow(r.createdAt, run[s].from, run[s].to)
               /\ Foreign(r, s)
               /\ \A h \in Firm(s) : Precedes(h, r)
    <3>1. /\ r \in log /\ run[s].from < r.createdAt
          /\ InWindow(r.createdAt, run[s].from, run[s].to) /\ Foreign(r, s)
      BY DEF RowsFor, InWindow
    <3>2. r.createdAt \in Nat
      BY <3>1 DEF TypeOK, LogTypeOK, Row
    <3>3. ASSUME NEW h \in Firm(s) PROVE Precedes(h, r)
      <4>1. h.createdAt <= run[s].from /\ h.createdAt \in Nat
        BY <2>1, <1>type DEF SessionPastHeld, FirmUpTo, Firm
      <4> QED
        BY <3>1, <3>2, <4>1, <1>type DEF Precedes
    <3> QED
      BY <3>1, <3>3, <1>grow
  <2>3. time1[s] # Epoch => FirmUpTo(s, time1[s])
    BY <2>1 DEF SessionPastHeld
  <2>4. FirmUpTo(s, run[s].to)
    BY <2>1 DEF SessionPastHeld
  <2>5. SessionPastHeld(s)'
    BY <2>1, <2>2, <2>3, <2>4 DEF SessionPastHeld, FirmUpTo, Firm, Foreign
  <2> QED
    BY <1>one, <2>0, <2>1, <2>5
<1>6. ASSUME NEW s \in Sessions, NEW row \in run[s].rows, ApplyRow(s, row)
      PROVE  CursorPastHeld'
  <2>0. \A x \in Sessions \ {s} : run'[x] = run[x] /\ got'[x] = got[x]
    BY <1>6, <1>fun DEF ApplyRow
  <2>1. /\ time1' = time1 /\ got'[s] = got[s] \cup {row} /\ torn' = torn
        /\ run[s].stage = "found"
        /\ run'[s] = [run[s] EXCEPT !.rows = @ \ {row}]
        /\ \A x \in run[s].rows \ {row} : Precedes(row, x)
    BY <1>6, <1>fun DEF ApplyRow, IsFirst
  <2>2. /\ run'[s].stage = "found" /\ run'[s].from = run[s].from
        /\ run'[s].to = run[s].to /\ run'[s].rows = run[s].rows \ {row}
    BY <2>1, <1>fun DEF Run
  <2>3. Firm(s)' \subseteq Firm(s) \cup {row}
    BY <2>1 DEF Firm
  <2>4. InWindow(row.createdAt, run[s].from, run[s].to) /\ row.createdAt <= run[s].to
    BY <2>1 DEF SessionPastHeld, InWindow
  <2>5. time1[s] # Epoch =>
          \A r \in Firm(s)' :
             r.createdAt <= time1[s] \/ InWindow(r.createdAt, run[s].from, run[s].to)
    BY <2>1, <2>3, <2>4 DEF SessionPastHeld
  <2>6. \A r \in Firm(s)' : r.createdAt <= run[s].to
    BY <2>1, <2>3, <2>4 DEF SessionPastHeld, FirmUpTo
  <2>7. \A r \in run[s].rows \ {row} :
            /\ r \in log' /\ InWindow(r.createdAt, run[s].from, run[s].to)
            /\ Foreign(r, s)
            /\ \A h \in Firm(s)' : Precedes(h, r)
    BY <2>1, <2>3, <1>grow DEF SessionPastHeld
  <2>8. SessionPastHeld(s)'
    BY <2>1, <2>2, <2>5, <2>6, <2>7 DEF SessionPastHeld, FirmUpTo, Foreign
  <2> QED
    BY <1>one, <2>0, <2>1, <2>8
<1>7. ASSUME NEW s \in Sessions, ApplyReply(s) PROVE CursorPastHeld'
  <2>0. \A x \in Sessions \ {s} :
            time1'[x] = time1[x] /\ run'[x] = run[x] /\ torn'[x] = torn[x]
    BY <1>7, <1>fun DEF ApplyReply
  <2>1. /\ time1'[s] = run[s].to /\ got' = got
        /\ torn'[s] = {r \in torn[s] : r.createdAt > run[s].to}
        /\ run[s].stage = "found"
        /\ run'[s].stage \in {"asked", "idle"}
        /\ run'[s].stage = "asked" => run'[s].from = run[s].to
    BY <1>7, <1>fun DEF ApplyReply, NextCursor, Ask, Idle
  <2>2. ASSUME NEW r \in Firm(s)' PROVE r.createdAt <= run[s].to
    <3>1. r \in got[s] /\ (r \in Firm(s) \/ ~(r.createdAt > run[s].to))
      BY <2>1 DEF Firm
    <3> QED
      BY <2>1, <3>1, <1>type DEF SessionPastHeld, FirmUpTo
  <2>3. SessionPastHeld(s)'
    BY <2>1, <2>2 DEF SessionPastHeld, FirmUpTo
  <2> QED
    BY <1>one, <2>0, <2>1, <2>3
<1>8. ASSUME NEW s \in Sessions, StartClear(s) PROVE CursorPastHeld'
  <2>1. /\ time1' = time1 /\ got' = got /\ torn' = torn /\ run'[s].stage = "clearing"
        /\ run[s].stage = "reset"
        /\ \A x \in Sessions \ {s} : run'[x] = run[x]
    BY <1>8, <1>fun DEF StartClear, Run
  <2>2. SessionPastHeld(s)'
    BY <2>1 DEF SessionPastHeld, FirmUpTo, Firm
  <2> QED
    BY <1>one, <2>1, <2>2
<1>9. ASSUME NEW s \in Sessions, FinishReset(s) PROVE CursorPastHeld'
  <2>0. \A x \in Sessions \ {s} :
            /\ time1'[x] = time1[x] /\ run'[x] = run[x]
            /\ got'[x] = got[x] /\ torn'[x] = torn[x]
    BY <1>9, <1>fun DEF FinishReset
  <2>1. got'[s] = {} /\ run'[s].stage = "retrying"
    BY <1>9, <1>fun DEF FinishReset, Run
  <2>2. SessionPastHeld(s)'
    BY <2>1 DEF SessionPastHeld, FirmUpTo, Firm
  <2> QED
    BY <1>one, <2>0, <2>2
<1>10. ASSUME NEW s \in Sessions, RunFails(s) PROVE CursorPastHeld'
  <2>1. /\ time1' = time1 /\ got' = got /\ run'[s].stage = "idle"
        /\ torn'[s] = {r \in got[s] : time1[s] # Epoch /\ r.createdAt > time1[s]}
        /\ \A x \in Sessions \ {s} : run'[x] = run[x] /\ torn'[x] = torn[x]
    BY <1>10, <1>fun DEF RunFails, Beyond, Idle
  <2>2. time1[s] # Epoch => \A r \in Firm(s)' : r.createdAt <= time1[s]
    BY <2>1, <1>type DEF Firm
  <2>3. SessionPastHeld(s)'
    BY <2>1, <2>2 DEF SessionPastHeld, FirmUpTo
  <2> QED
    BY <1>one, <2>1, <2>3
<1>11. ASSUME NEW s \in Sessions, FinishLogin(s) PROVE CursorPastHeld'
  <2>0. \A x \in Sessions \ {s} :
            time1'[x] = time1[x] /\ got'[x] = got[x] /\ torn'[x] = torn[x]
    BY <1>11, <1>fun DEF FinishLogin
  <2>1. got'[s] = {} /\ run' = run
    BY <1>11, <1>fun DEF FinishLogin
  <2>2. \A r \in run[s].rows : run[s].stage = "found" => r \in log'
    BY <1>grow DEF SessionPastHeld
  <2>3. SessionPastHeld(s)'
    BY <2>1, <2>2 DEF SessionPastHeld, FirmUpTo, Firm
  <2> QED
    BY <1>one, <2>0, <2>1, <2>3
<1>12. ASSUME NEW s \in Sessions, NEW skew \in Skews, StartLogin(s, skew)
       PROVE  CursorPastHeld'
  BY <1>12, <1>kept DEF StartLogin
<1>13. CASE UNCHANGED vars
  BY <1>13, <1>kept DEF vars, clientVars
<1> QED
  BY <1>1, <1>2, <1>3, <1>4, <1>5, <1>6, <1>7, <1>8, <1>9, <1>10, <1>11, <1>12, <1>13
  DEF Next

LEMMA PastHeldInit == Init => RowsPast /\ CursorPastHeld
BY TimeAssumption
DEF Init, LogInit, RowsPast, CursorPastHeld, SessionPastHeld, FirmUpTo, Firm, Idle,
    Epoch

\* No row is applied that the session already has, unless a run that failed in the
\* middle of a reply left it beyond the cursor: no change comes twice while the
\* client keeps its data and its runs end.
THEOREM NoChangeTwice == Spec => NeverTwice
<1>1. Init => TypeOK /\ RowsPast /\ CursorPastHeld
  BY InitType, PastHeldInit
<1>2. TypeOK /\ RowsPast /\ CursorPastHeld /\ [Next]_vars
        => (TypeOK /\ RowsPast /\ CursorPastHeld)'
  BY SyncTypeStep, RowsPastStep, PastHeldStep
<1>3. TypeOK /\ RowsPast /\ CursorPastHeld /\ [Next]_vars
        => [\A s \in Sessions : \A r \in run[s].rows :
                ApplyRow(s, r) /\ r \in got[s] => r \in torn[s]]_vars
  <2>1. ASSUME TypeOK, CursorPastHeld, NEW s \in Sessions, NEW r \in run[s].rows,
               ApplyRow(s, r)
        PROVE  r \notin Firm(s)
    <3>1. r \in Firm(s) => Precedes(r, r)
      BY <2>1 DEF ApplyRow, CursorPastHeld, SessionPastHeld
    <3>2. r \in Row
      BY <2>1 DEF TypeOK, SyncTypeOK, Run
    <3>3. r.createdAt \in Nat /\ r.key \in Nat
      BY <3>2, KeysAssumption DEF Row
    <3> QED
      BY <3>1, <3>3 DEF Precedes
  <2> QED
    BY <2>1 DEF Firm
<1> QED
  BY <1>1, <1>2, <1>3, PTL DEF Spec, NeverTwice

-----------------------------------------------------------------------------
(* A run reaches the present, and no further.                              *)

\* A run began in the past; the window it was given ends in the past, and the last
\* one not before the run began.
Reaches(r, at) ==
    /\ r.began <= at
    /\ r.stage \in {"windowed", "found"} => r.to <= at /\ (r.more \/ r.began <= r.to)

RunsReach == \A s \in Sessions : Reaches(run[s], now)

\* An idle run, and one that asks, reach as far as they began.
LEMMA AskReaches ==
    ASSUME NEW at \in Nat
    PROVE  /\ Reaches(Idle, at)
           /\ \A from, began \in Nat : began <= at => Reaches(Ask(from, began), at)
<1>1. Idle.began = 0 /\ Idle.stage = "idle"
  BY DEF Idle
<1>2. \A from, began \in Nat : Ask(from, began).began = began /\ Ask(from, began).stage = "asked"
  BY DEF Ask, Idle
<1> QED
  BY <1>1, <1>2 DEF Reaches

LEMMA RunsReachStep ==
    ASSUME TypeOK, RunsReach, [Next]_vars
    PROVE  RunsReach'
<1> USE DEF TypeOK, SyncTypeOK
<1>0. /\ now \in Nat
      /\ \A s \in Sessions : /\ run[s] \in Run /\ Reaches(run[s], now)
                             /\ run[s].from \in Nat /\ run[s].to \in Nat
                             /\ run[s].began \in Nat /\ time1[s] \in Nat
  BY DEF LogTypeOK, Run, RunsReach
<1>1. CASE ServerStep
  <2>1. now' \in Nat /\ now <= now' /\ run' = run
    BY <1>1, ClockForward DEF ServerStep, clientVars
  <2> QED
    BY <1>0, <2>1 DEF RunsReach, Reaches
\* A step of one client's run: the others stay, and so does the clock.
<1>2. ASSUME NEW s \in Sessions, NEW r, run' = [run EXCEPT ![s] = r], now' = now,
             Reaches(r, now)
      PROVE  RunsReach'
  BY <1>0, <1>2 DEF RunsReach
<1>3. UNCHANGED <<now, run>> => RunsReach'
  BY DEF RunsReach
<1>4. ASSUME NEW s \in Sessions, SyncNow(s) \/ ForceResync(s) PROVE RunsReach'
  <2>1. now' = now
    BY <1>4 DEF SyncNow, ForceResync, logVars
  <2>2. PICK from \in Nat : run' = run \/ run' = [run EXCEPT ![s] = Ask(from, now)]
    <3>1. CASE SyncNow(s)
      BY <1>0, <3>1 DEF SyncNow, StartRun
    <3>2. CASE ForceResync(s)
      BY <1>0, <3>2 DEF ForceResync, StartRun, Epoch
    <3> QED
      BY <1>4, <3>1, <3>2
  <2>3. Reaches(Ask(from, now), now)
    BY <1>0, AskReaches
  <2> QED
    BY <1>2, <1>3, <2>1, <2>2, <2>3
<1>5. ASSUME NEW s \in Sessions, ServeWindow(s) PROVE RunsReach'
  <2> DEFINE end == WindowEnd(run[s].from, now)
             more == HasMore(run[s].from, now)
             reset == [run[s] EXCEPT !.stage = "reset", !.to = now]
             windowed == [run[s] EXCEPT !.stage = "windowed", !.to = end, !.more = more]
  <2>1. end <= now /\ (more \/ end = now)
    <3>1. end \in Nat /\ end <= now
      BY <1>0, WindowEndType
    <3>2. more <=> end < now
      BY DEF HasMore
    <3> HIDE DEF end, more
    <3> QED
      BY <1>0, <3>1, <3>2
  <2>2. Reaches(reset, now)
    BY <1>0 DEF Reaches, Run
  <2>3. Reaches(windowed, now)
    <3>1. /\ windowed.began = run[s].began /\ windowed.to = end /\ windowed.more = more
      BY <1>0 DEF Run
    <3> HIDE DEF windowed
    <3> QED
      BY <1>0, <2>1, <3>1 DEF Reaches
  <2>4. now' = now /\ (run' = [run EXCEPT ![s] = reset] \/ run' = [run EXCEPT ![s] = windowed])
    BY <1>5 DEF ServeWindow, logVars
  <2> HIDE DEF reset, windowed
  <2> QED
    BY <1>2, <2>2, <2>3, <2>4
<1>6. ASSUME NEW s \in Sessions, FindRows(s) PROVE RunsReach'
  <2> DEFINE found == [run[s] EXCEPT !.stage = "found",
                          !.rows = RowsFor(s, run[s].from, run[s].to),
                          !.open = {t \in run[s].from + 1 .. run[s].to : MayStillLand(t)}]
  <2>1. run[s].stage = "windowed" /\ run' = [run EXCEPT ![s] = found] /\ now' = now
    BY <1>6 DEF FindRows, logVars
  <2>2. found.began = run[s].began /\ found.to = run[s].to /\ found.more = run[s].more
    BY <1>0 DEF Run
  <2> HIDE DEF found
  <2>3. Reaches(found, now)
    BY <1>0, <2>1, <2>2 DEF Reaches
  <2> QED
    BY <1>2, <2>1, <2>3
<1>7. ASSUME NEW s \in Sessions, ApplyReply(s) \/ GoOn(s) \/ RunFails(s)
      PROVE  RunsReach'
  <2>1. now' = now
    BY <1>7 DEF ApplyReply, GoOn, RunFails, logVars
  <2>2. \/ run' = [run EXCEPT ![s] = Ask(run[s].to, run[s].began)]
        \/ run' = [run EXCEPT ![s] = Ask(time1[s], run[s].began)]
        \/ run' = [run EXCEPT ![s] = Idle]
    BY <1>7 DEF ApplyReply, GoOn, RunFails, NextCursor
  <2>3. /\ Reaches(Ask(run[s].to, run[s].began), now)
        /\ Reaches(Ask(time1[s], run[s].began), now)
        /\ Reaches(Idle, now)
    BY <1>0, AskReaches DEF Reaches
  <2> QED
    BY <1>2, <2>1, <2>2, <2>3
<1>8. ASSUME NEW s \in Sessions, StartClear(s) \/ FinishReset(s) PROVE RunsReach'
  <2>1. PICK st \in {"clearing", "retrying"} : run' = [run EXCEPT ![s].stage = st]
    BY <1>8 DEF StartClear, FinishReset
  <2> DEFINE moved == [run[s] EXCEPT !.stage = st]
  <2>2. run' = [run EXCEPT ![s] = moved] /\ now' = now
    BY <1>8, <2>1 DEF StartClear, FinishReset, logVars
  <2>3. moved.began = run[s].began /\ moved.stage = st
    BY <1>0 DEF Run
  <2> HIDE DEF moved
  <2>4. Reaches(moved, now)
    BY <1>0, <2>3 DEF Reaches
  <2> QED
    BY <1>2, <2>2, <2>4
<1>10. ASSUME NEW s \in Sessions, NEW row \in run[s].rows, ApplyRow(s, row)
       PROVE  RunsReach'
  <2> DEFINE left == [run[s] EXCEPT !.rows = @ \ {row}]
  <2>1. run' = [run EXCEPT ![s] = left] /\ now' = now
    BY <1>10 DEF ApplyRow, logVars
  <2>2. /\ left.began = run[s].began /\ left.stage = run[s].stage
        /\ left.to = run[s].to /\ left.more = run[s].more
    BY <1>0 DEF Run
  <2> HIDE DEF left
  <2>3. Reaches(left, now)
    BY <1>0, <2>2 DEF Reaches
  <2> QED
    BY <1>2, <2>1, <2>3
<1>9. CASE \/ \E s \in Sessions, skew \in Skews : StartLogin(s, skew)
           \/ \E s \in Sessions : FinishLogin(s)
           \/ UNCHANGED vars
  BY <1>3, <1>9 DEF StartLogin, FinishLogin, vars, clientVars, logVars
<1> QED
  BY <1>1, <1>4, <1>5, <1>6, <1>7, <1>8, <1>9, <1>10 DEF Next

\* When a run ends with a reply, every window up to the moment it began was asked for;
\* and a cursor that was in the server's future comes back: no reply leaves it there.
THEOREM RunsReachThePresent == Spec => RunReachesPresent
<1>1. Init => TypeOK /\ RunsReach
  <2>1. Init => now \in Nat /\ \A s \in Sessions : run[s] = Idle
    BY InitType DEF Init, TypeOK, LogTypeOK
  <2> QED
    BY <2>1, InitType, AskReaches DEF RunsReach
<1>2. TypeOK /\ RunsReach /\ [Next]_vars => (TypeOK /\ RunsReach)'
  BY SyncTypeStep, RunsReachStep
<1>3. TypeOK /\ RunsReach /\ [Next]_vars
        => [\A s \in Sessions : ApplyReply(s) =>
                /\ time1'[s] <= now
                /\ run'[s].stage = "idle" => time1'[s] >= run[s].began]_vars
  <2>1. ASSUME TypeOK, RunsReach, NEW s \in Sessions, ApplyReply(s)
        PROVE  /\ time1'[s] <= now
               /\ run'[s].stage = "idle" => time1'[s] >= run[s].began
    <3>1. /\ run[s].stage = "found" /\ time1'[s] = run[s].to
          /\ run'[s] = IF run[s].more THEN Ask(run[s].to, run[s].began) ELSE Idle
      BY <2>1 DEF ApplyReply, NextCursor, TypeOK, SyncTypeOK
    <3>2. run[s].more => run'[s].stage = "asked"
      BY <3>1 DEF Ask, Idle
    <3>3. Reaches(run[s], now) /\ run[s].to \in Nat /\ run[s].began \in Nat
      BY <2>1 DEF RunsReach, TypeOK, SyncTypeOK, Run
    <3> QED
      BY <3>1, <3>2, <3>3 DEF Reaches
  <2> QED
    BY <2>1
<1> QED
  BY <1>1, <1>2, <1>3, PTL DEF Spec, RunReachesPresent

-----------------------------------------------------------------------------
(* Module Sync implements module ChangeFeed: every step of the protocol is *)
(* a step of the feed, or none.                                            *)

LEMMA IInvInit == Init => IInv
BY InitType, CoveredInit, PastHeldInit DEF IInv

LEMMA IInvStep == IInv /\ [Next]_vars => IInv'
BY SyncTypeStep, ClocksBehindStep, CoveredStep, RowsPastStep, PastHeldStep DEF IInv

-----------------------------------------------------------------------------
\* What the invariant says in the feed's terms.
LEMMA PromiseKept == IInv => Feed!Promise
<1> SUFFICES ASSUME IInv, NEW s \in Sessions
             PROVE  got[s] \subseteq log /\ Feed!Due(s) \subseteq got[s]
  BY DEF Feed!Promise
<1>1. got[s] \subseteq log
  BY DEF IInv, RowsPast
<1>2. ASSUME NEW r \in Feed!Due(s) PROVE r \in got[s]
  <2>1. /\ r \in log /\ r.by # s
        /\ since[s] < r.createdAt /\ r.createdAt <= time1[s]
        /\ r.createdAt \notin blind[s]
    BY DEF Feed!Due, Excused
  <2>2. since[s] \in Nat /\ time1[s] \in Nat /\ r.createdAt \in Nat
    BY <2>1 DEF IInv, TypeOK, SyncTypeOK, LogTypeOK, Row
  <2>3. r.createdAt \in since[s] + 1 .. time1[s]
    BY <2>1, <2>2
  <2>4. Delivered(s, r.createdAt)
    BY <2>1, <2>3 DEF IInv, Covered, SessionCovered, CoveredUpTo
  <2> QED
    BY <2>1, <2>4 DEF Delivered, Foreign
<1> QED
  BY <1>1, <1>2

LEMMA MayLandSame == \A t : MayStillLand(t) => Feed!MayLand(t)
BY DEF MayStillLand, Pending, Feed!MayLand, PendingTimes

-----------------------------------------------------------------------------
\* The server's steps.
LEMMA ServerMovesLog == IInv /\ ServerStep => Feed!LogMoves
<1> SUFFICES ASSUME IInv, ServerStep PROVE Feed!LogMoves
  OBVIOUS
<1>0. LogTypeOK /\ LogNext /\ UNCHANGED clientVars
  BY DEF IInv, TypeOK, ServerStep
<1>1. now <= now'
  BY <1>0, ClockForward
<1>2. UNCHANGED <<time1, since, got, Excused>>
  BY <1>0 DEF clientVars, Excused
<1>t. UNCHANGED torn
  BY <1>0 DEF clientVars
<1>w. writes \subseteq Write
  BY <1>0 DEF LogTypeOK
<1> DEFINE Moves == /\ PendingTimes' \subseteq PendingTimes \cup {now}
                    /\ log \subseteq log'
                    /\ \A r \in log' \ log : r.createdAt \in PendingTimes
<1>3. Moves
  <2>1. ASSUME NEW q \in Requests, NEW s \in Writers, NEW a \in Actions,
               NEW i \in Ids, NEW p \in Payload(a), BeginWrite(q, s, a, i, p)
        PROVE  Moves
    BY <2>1 DEF BeginWrite, PendingTimes
  <2>2. ASSUME NEW w \in writes, Reject(w) \/ FailAppend(w) PROVE Moves
    BY <2>2 DEF Reject, FailAppend, PendingTimes
  <2>3. ASSUME NEW w \in writes, ApplyUpdate(w) \/ ApplyInsert(w) PROVE Moves
    <3>1. w.action # "delete" /\ w.stamp \in PendingTimes
      BY <2>3 DEF ApplyUpdate, ApplyInsert, PendingTimes
    <3>2. log' = log /\ writes' = (writes \ {w}) \cup {[w EXCEPT !.stage = "appending"]}
      BY <2>3 DEF ApplyUpdate, ApplyInsert, Advance
    <3>3. [w EXCEPT !.stage = "appending"].stamp = w.stamp
      BY <1>w DEF Write
    <3> QED
      BY <3>1, <3>2, <3>3 DEF PendingTimes
  <2>4. ASSUME NEW w \in writes, ApplyDelete(w) PROVE Moves
    <3>1. log' = log /\ writes' = (writes \ {w}) \cup {[w EXCEPT !.stage = "applied"]}
      BY <2>4 DEF ApplyDelete, Advance
    <3>2. /\ [w EXCEPT !.stage = "applied"].action = "delete"
          /\ [w EXCEPT !.stage = "applied"].stage = "applied"
      BY <1>w, <2>4 DEF ApplyDelete, Write
    <3> QED
      BY <3>1, <3>2 DEF PendingTimes
  <2>5. ASSUME NEW w \in writes, StampDelete(w) PROVE Moves
    <3> DEFINE stamped == [w EXCEPT !.stage = "appending", !.stamp = now]
    <3>1. log' = log /\ writes' = (writes \ {w}) \cup {stamped}
      BY <2>5 DEF StampDelete
    <3>2. stamped.stamp = now
      BY <1>w DEF Write
    <3> QED
      BY <3>1, <3>2 DEF PendingTimes
  <2>6. ASSUME NEW w \in writes, NEW k \in Keys, AppendLog(w, k) PROVE Moves
    <3>1. log' = log \cup {RowOf(w, k)} /\ writes' = writes \ {w}
      BY <2>6 DEF AppendLog
    <3>2. RowOf(w, k).createdAt = w.stamp /\ w.stamp \in PendingTimes
      BY <2>6 DEF AppendLog, RowOf, PendingTimes
    <3> QED
      BY <3>1, <3>2 DEF PendingTimes
  <2>7. CASE Tick
    BY <2>7 DEF Tick, PendingTimes
  <2> QED
    BY <1>0, <2>1, <2>2, <2>3, <2>4, <2>5, <2>6, <2>7 DEF LogNext
<1> QED
  BY <1>1, <1>2, <1>3, <1>t DEF Feed!LogMoves, Feed!sessionVars

\* Nothing the feed knows of changes.
Unseen == UNCHANGED <<now, PendingTimes, log, time1, since, got, torn, Excused>>

\* What a session's step leaves alone, where the log stands still.
LEMMA LogStands == UNCHANGED logVars => UNCHANGED <<now, PendingTimes, log>>
BY DEF logVars, PendingTimes

\* A step of a run that neither comes to a reading nor applies or loses one.
LEMMA RunStepUnseen ==
    ASSUME IInv, NEW s \in Sessions,
           SyncNow(s) \/ ServeWindow(s) \/ StartClear(s) \/ GoOn(s)
           \/ \E skew \in Skews : StartLogin(s, skew)
    PROVE  Unseen
<1>1. UNCHANGED logVars /\ UNCHANGED <<time1, since, got, torn, blind>>
  BY DEF SyncNow, ServeWindow, StartClear, GoOn, StartLogin
<1>2. Excused' = Excused
  <2>0. run \in [Sessions -> Run]
    BY DEF IInv, TypeOK, SyncTypeOK
  <2>1. /\ \A x \in Sessions \ {s} : run'[x] = run[x]
        /\ run'[s] = run[s] \/ {run[s].stage, run'[s].stage} \cap {"found"} = {}
    BY <2>0 DEF SyncNow, StartRun, Ask, Idle, ServeWindow, StartClear, GoOn, StartLogin, Run
  <2> QED
    BY <1>1, <2>1 DEF Excused
<1> QED
  BY <1>1, <1>2, LogStands DEF Unseen

LEMMA ForceResyncRewinds ==
    ASSUME IInv, NEW s \in Sessions, ForceResync(s)
    PROVE  Feed!Rewind(s)
<1>1. UNCHANGED logVars /\ UNCHANGED <<since, got, torn, blind>>
      /\ time1' = [time1 EXCEPT ![s] = 0]
  BY DEF ForceResync, Epoch
<1>2. Excused' = Excused
  <2>0. run \in [Sessions -> Run]
    BY DEF IInv, TypeOK, SyncTypeOK
  <2>1. /\ \A x \in Sessions \ {s} : run'[x] = run[x]
        /\ run'[s] = run[s] \/ {run[s].stage, run'[s].stage} \cap {"found"} = {}
    BY <2>0 DEF ForceResync, StartRun, Ask, Idle
  <2> QED
    BY <1>1, <2>1 DEF Excused
<1> QED
  BY <1>1, <1>2, LogStands DEF Feed!Rewind

\* The log is read.
LEMMA FindRowsReads ==
    ASSUME IInv, NEW s \in Sessions, FindRows(s)
    PROVE  Feed!Read(s)
<1>0. run \in [Sessions -> Run]
  BY DEF IInv, TypeOK, SyncTypeOK
<1>1. UNCHANGED logVars /\ UNCHANGED <<time1, since, got, torn, blind>>
  BY DEF FindRows
<1>2. \A x \in Sessions \ {s} : run'[x] = run[x]
  BY <1>0 DEF FindRows
<1>3. \A x \in Sessions \ {s} : Excused'[x] = Excused[x]
  BY <1>1, <1>2 DEF Excused
<1>4. ASSUME NEW t \in Excused'[s] \ Excused[s] PROVE MayStillLand(t)
  <2>1. run'[s].open = {x \in run[s].from + 1 .. run[s].to : MayStillLand(x)}
    BY <1>0 DEF FindRows, Run
  <2>2. t \in run'[s].open
    BY <1>1, <1>4 DEF Excused
  <2> QED
    BY <2>1, <2>2
<1> QED
  BY <1>1, <1>3, <1>4, LogStands, MayLandSame DEF Feed!Read

\* What was read is lost, all of it or what was not applied yet.
LEMMA RunFailsGivesUp ==
    ASSUME IInv, NEW s \in Sessions, RunFails(s)
    PROVE  Feed!GiveUp(s)
<1>0. run \in [Sessions -> Run]
  BY DEF IInv, TypeOK, SyncTypeOK
<1>1. UNCHANGED logVars /\ UNCHANGED <<time1, since, got, blind>>
  BY DEF RunFails
<1>2. /\ \A x \in Sessions \ {s} : run'[x] = run[x]
      /\ run'[s].stage = "idle"
  BY <1>0 DEF RunFails, Idle
<1>3. \A x \in Sessions \ {s} : Excused'[x] = Excused[x]
  BY <1>1, <1>2 DEF Excused
<1>4. Excused'[s] \subseteq Excused[s]
  BY <1>1, <1>2 DEF Excused
<1>5. torn' = [torn EXCEPT ![s] = {h \in got[s] : time1[s] # 0 /\ h.createdAt > time1[s]}]
  BY DEF RunFails, Beyond, Epoch
<1> QED
  BY <1>1, <1>3, <1>4, <1>5, LogStands DEF Feed!GiveUp

\* A row is no older than all that was applied before and is still firm.
LEMMA ApplyRowDelivers ==
    ASSUME IInv, NEW s \in Sessions, NEW r \in run[s].rows, ApplyRow(s, r)
    PROVE  Feed!Deliver(s)
<1>0. /\ run \in [Sessions -> Run] /\ got \in [Sessions -> SUBSET Row]
      /\ r \in Row
  BY DEF IInv, TypeOK, SyncTypeOK, Run
<1>1. /\ run[s].stage = "found"
      /\ got' = [got EXCEPT ![s] = @ \cup {r}]
      /\ UNCHANGED logVars /\ UNCHANGED <<time1, torn, since, blind>>
      /\ run' = [run EXCEPT ![s] = [run[s] EXCEPT !.rows = @ \ {r}]]
  BY DEF ApplyRow
<1>2. \A x \in Sessions : run'[x].stage = run[x].stage /\ run'[x].open = run[x].open
  <2>1. [run[s] EXCEPT !.rows = @ \ {r}].stage = run[s].stage
        /\ [run[s] EXCEPT !.rows = @ \ {r}].open = run[s].open
    BY <1>0 DEF Run
  <2> QED
    BY <1>0, <1>1, <2>1
<1>3. Excused' = Excused
  BY <1>1, <1>2 DEF Excused
<1>4. /\ r \in log /\ r.by # s
      /\ \A h \in Firm(s) : Precedes(h, r)
  BY <1>1 DEF IInv, CursorPastHeld, SessionPastHeld, Foreign
<1>5. r.createdAt \in Nat /\ r.key \in Nat
  BY <1>0, KeysAssumption DEF Row
<1>6. r \notin got[s] \ torn[s]
  BY <1>4, <1>5 DEF Firm, Precedes
<1>7. ASSUME NEW h \in got[s] \ torn[s] PROVE h.createdAt <= r.createdAt
  <2>1. h \in Row /\ h.createdAt \in Nat
    BY <1>0 DEF Row
  <2> QED
    BY <1>4, <1>5, <2>1 DEF Firm, Precedes
<1> QED
  BY <1>1, <1>3, <1>4, <1>6, <1>7, LogStands DEF Feed!Deliver

\* The cursor moves over all that is firm.
LEMMA ApplyReplyMovesOn ==
    ASSUME IInv, NEW s \in Sessions, ApplyReply(s)
    PROVE  Feed!MoveOn(s)
<1>0. /\ run \in [Sessions -> Run] /\ time1 \in [Sessions -> Nat]
      /\ blind \in [Sessions -> SUBSET Nat]
  BY DEF IInv, TypeOK, SyncTypeOK
<1>1. /\ run[s].stage = "found"
      /\ UNCHANGED logVars /\ UNCHANGED <<since, got>>
      /\ time1'[s] = run[s].to
      /\ torn' = [torn EXCEPT ![s] = {h \in @ : h.createdAt > run[s].to}]
  BY <1>0 DEF ApplyReply, NextCursor
<1>2. \A x \in Sessions \ {s} :
          time1'[x] = time1[x] /\ run'[x] = run[x] /\ blind'[x] = blind[x]
  BY <1>0 DEF ApplyReply
<1>3. Excused' = Excused
  <2>1. run'[s].stage # "found" /\ blind'[s] = blind[s] \cup run[s].open
    BY <1>0 DEF ApplyReply, Ask, Idle
  <2> QED
    BY <1>1, <1>2, <2>1 DEF Excused
<1>4. \A h \in got[s] \ torn[s] : h.createdAt <= run[s].to
  BY <1>1 DEF IInv, CursorPastHeld, SessionPastHeld, FirmUpTo, Firm
<1> QED
  BY <1>1, <1>2, <1>3, <1>4, LogStands DEF Feed!MoveOn

\* A reset or a login is over.
LEMMA DropsBeginAnew ==
    ASSUME IInv, NEW s \in Sessions, FinishReset(s) \/ FinishLogin(s)
    PROVE  Feed!BeginAnew(s)
<1>0. /\ run \in [Sessions -> Run] /\ got \in [Sessions -> SUBSET Row]
      /\ time1 \in [Sessions -> Nat] /\ blind \in [Sessions -> SUBSET Nat]
      /\ since \in [Sessions -> Nat] /\ login \in [Sessions -> Nat \cup {NoLogin}]
      /\ now \in Nat
  BY DEF IInv, TypeOK, SyncTypeOK, LogTypeOK
<1>1. /\ UNCHANGED logVars /\ got' = [got EXCEPT ![s] = {}]
      /\ torn' = [torn EXCEPT ![s] = {}]
  BY DEF FinishReset, FinishLogin
<1>2. \A x \in Sessions \ {s} :
          /\ time1'[x] = time1[x] /\ since'[x] = since[x]
          /\ run'[x] = run[x] /\ blind'[x] = blind[x]
  BY <1>0 DEF FinishReset, FinishLogin
<1>3. \A x \in Sessions \ {s} : Excused'[x] = Excused[x]
  BY <1>2 DEF Excused
<1>4. since'[s] <= now
  <2>1. CASE FinishReset(s)
    BY <2>1, <1>0 DEF FinishReset, IInv, ClocksBehind
  <2>2. CASE FinishLogin(s)
    BY <2>2, <1>0 DEF FinishLogin
  <2> QED
    BY <2>1, <2>2
<1>5. ASSUME NEW t \in Excused'[s] \ Excused[s] PROVE MayStillLand(t)
  <2>1. t \in blind'[s] \ blind[s]
    <3>1. FinishReset(s) => run'[s].stage = "retrying"
      BY <1>0 DEF FinishReset, Run
    <3>2. FinishLogin(s) => run'[s] = run[s]
      BY DEF FinishLogin
    <3> QED
      BY <1>5, <3>1, <3>2 DEF Excused
  <2>2. CASE FinishReset(s)
    BY <2>1, <2>2, <1>0 DEF FinishReset
  <2>3. CASE FinishLogin(s)
    <3>1. login[s] \in Nat /\ t \in now + 1 .. login[s]
      BY <2>1, <2>3, <1>0 DEF FinishLogin
    <3> QED
      BY <3>1, <1>0 DEF MayStillLand
  <2> QED
    BY <2>2, <2>3
<1> QED
  BY <1>1, <1>2, <1>3, <1>4, <1>5, LogStands, MayLandSame DEF Feed!BeginAnew

-----------------------------------------------------------------------------
LEMMA InitFeed == Init => Feed!Init
BY DEF Init, LogInit, Feed!Init, PendingTimes, Excused, Idle, Epoch

LEMMA StepFeed == IInv /\ Feed!Promise' /\ [Next]_vars => [Feed!Next]_(Feed!vars)
<1> SUFFICES ASSUME IInv, Feed!Promise', [Next]_vars PROVE Feed!Next \/ UNCHANGED Feed!vars
  OBVIOUS
<1>1. Feed!Step \/ Unseen
  <2>1. CASE ServerStep
    BY <2>1, ServerMovesLog DEF Feed!Step
  <2>2. ASSUME NEW s \in Sessions,
               SyncNow(s) \/ ServeWindow(s) \/ StartClear(s) \/ GoOn(s)
               \/ \E skew \in Skews : StartLogin(s, skew)
        PROVE  Unseen
    BY <2>2, RunStepUnseen
  <2>3. ASSUME NEW s \in Sessions, ForceResync(s) PROVE Feed!Step
    BY <2>3, ForceResyncRewinds DEF Feed!Step
  <2>4. ASSUME NEW s \in Sessions, FindRows(s) \/ RunFails(s) PROVE Feed!Step
    BY <2>4, FindRowsReads, RunFailsGivesUp DEF Feed!Step
  <2>5. ASSUME NEW s \in Sessions, ApplyReply(s) PROVE Feed!Step
    BY <2>5, ApplyReplyMovesOn DEF Feed!Step
  <2>8. ASSUME NEW s \in Sessions, NEW r \in run[s].rows, ApplyRow(s, r) PROVE Feed!Step
    BY <2>8, ApplyRowDelivers DEF Feed!Step
  <2>6. ASSUME NEW s \in Sessions, FinishReset(s) \/ FinishLogin(s) PROVE Feed!Step
    BY <2>6, DropsBeginAnew DEF Feed!Step
  <2>7. CASE UNCHANGED vars
    BY <2>7 DEF vars, logVars, clientVars, Unseen, PendingTimes, Excused
  <2> QED
    BY <2>1, <2>2, <2>3, <2>4, <2>5, <2>6, <2>7, <2>8 DEF Next
<1> QED
  BY <1>1 DEF Feed!Next, Unseen, Feed!vars, Feed!sessionVars

\* The protocol of sync, with every window, reset, login and failed run, is the feed
\* that module ChangeFeed promises: in order, once, and with nothing left behind
\* the cursor but what landed on a time while it was read.
THEOREM SyncIsFeed == Spec => ImplementsFeed
<1>1. Init => IInv /\ Feed!Init
  BY IInvInit, InitFeed
<1>2. IInv /\ [Next]_vars => IInv'
  BY IInvStep
<1>3. IInv /\ Feed!Promise' /\ [Next]_vars => [Feed!Next]_(Feed!vars)
  BY StepFeed
<1> QED
  BY <1>1, <1>2, <1>3, PromiseKept, PTL DEF Spec, ImplementsFeed, Feed!Spec
=============================================================================
