--------------------------- MODULE TableReadsProofs ---------------------------
(***************************************************************************)
(* The loading keys of a tab, for any operations, keys, records and calls; *)
(* and a live count or id list, for any number of versions and refreshes.  *)
(***************************************************************************)
EXTENDS MCTableReads, FiniteSetTheorems, SequenceTheorems, TLAPS

-----------------------------------------------------------------------------
(* The invariant of the loading keys.                                      *)

\* The tokens of the operations under way under a key.
Current(k) == {running[o].token : o \in Under(k)}

\* What getKeyRef returns agrees with the key's set.
Counted(k) ==
    /\ IsFiniteSet(loadingByKey[k].tokens)
    /\ keyRefs[k].value = Cardinality(loadingByKey[k].tokens)
    /\ keyRefs[k].value <= keyRefs[k].max
    /\ loadingByKey[k].tokens = {} => keyRefs[k].max = 0

\* The set has no token of an operation that is over, and without a slip it has
\* all of them, each once.
Tracked(k) ==
    /\ loadingByKey[k].tokens \subseteq Current(k)
    /\ ~loadingByKey[k].there => loadingByKey[k].tokens = {}
    /\ slips[k] = {} =>
        /\ Current(k) \subseteq loadingByKey[k].tokens
        /\ \A o, p \in Under(k) : running[o].token = running[p].token => o = p

\* queueLoad loads a record once at a time.
LoadsHeld ==
    \A o \in Ops : running[o].token \in Records =>
        /\ running[o].token \in loading
        /\ \A p \in Ops : running[p].token = running[o].token => p = o

KeysInv ==
    /\ KeysTypeOK
    /\ \A k \in Keys : Counted(k)
    /\ \A k \in Keys : Tracked(k)
    /\ LoadsHeld

-----------------------------------------------------------------------------
(* Facts about the operators.                                              *)

LEMMA MaxOfTwo ==
    ASSUME NEW a \in Nat, NEW b \in Nat
    PROVE  Max({a, b}) \in {a, b} /\ Max({a, b}) >= a /\ Max({a, b}) >= b
<1>1. \E x \in {a, b} : \A y \in {a, b} : x >= y
  <2>1. CASE a >= b
    BY <2>1
  <2>2. CASE ~(a >= b)
    BY <2>2
  <2> QED
    BY <2>1, <2>2
<1> QED
  BY <1>1 DEF Max

\* trackPendingKey adds the token to the key's set, and counts it.
LEMMA PendingCounts ==
    ASSUME KeysTypeOK, \A j \in Keys : Counted(j),
           NEW k \in Keys \cup {NoKey}, NEW t \in Token, TrackPending(k, t)
    PROVE  /\ loadingByKey' \in [Keys -> [there : BOOLEAN, tokens : SUBSET Token]]
           /\ keyRefs' \in [Keys -> [value : Nat, max : Nat, start : BOOLEAN]]
           /\ \A j \in Keys : Counted(j)'
           /\ \A j \in Keys \ {k} : loadingByKey'[j] = loadingByKey[j]
           /\ k \in Keys => loadingByKey'[k] =
                  [there |-> TRUE, tokens |-> loadingByKey[k].tokens \cup {t}]
<1>1. CASE k = NoKey
  BY <1>1, KeysAssumption DEF TrackPending, KeysTypeOK, Counted
<1>2. CASE k \in Keys
  <2> DEFINE set == loadingByKey[k].tokens \cup {t}
             n == Cardinality(set)
  <2>0. k # NoKey
    BY <1>2, KeysAssumption
  <2>1. /\ loadingByKey \in [Keys -> [there : BOOLEAN, tokens : SUBSET Token]]
        /\ keyRefs \in [Keys -> [value : Nat, max : Nat, start : BOOLEAN]]
    BY DEF KeysTypeOK
  <2>2. set \subseteq Token /\ set # {}
    BY <1>2, <2>1
  <2>3. IsFiniteSet(set) /\ n \in Nat
    BY <1>2, FS_AddElement, FS_CardinalityType DEF Counted
  <2>4. /\ loadingByKey' = [loadingByKey EXCEPT ![k] = [there |-> TRUE, tokens |-> set]]
        /\ keyRefs' = IF t \in loadingByKey[k].tokens THEN keyRefs
               ELSE [keyRefs EXCEPT
                   ![k] = [value |-> n, max |-> Max({@.max, n}), start |-> TRUE]]
    BY <2>0 DEF TrackPending
  <2> HIDE DEF set, n
  <2>5. loadingByKey' \in [Keys -> [there : BOOLEAN, tokens : SUBSET Token]]
    BY <2>1, <2>2, <2>4
  <2>6. keyRefs[k].max \in Nat
    BY <1>2, <2>1
  <2>7. Max({keyRefs[k].max, n}) \in Nat /\ Max({keyRefs[k].max, n}) >= n
    BY <2>3, <2>6, MaxOfTwo
  <2>8. keyRefs' \in [Keys -> [value : Nat, max : Nat, start : BOOLEAN]]
    BY <2>1, <2>3, <2>4, <2>7
  <2>9. \A j \in Keys \ {k} : loadingByKey'[j] = loadingByKey[j] /\ keyRefs'[j] = keyRefs[j]
    BY <2>1, <2>4
  <2>10. loadingByKey'[k] = [there |-> TRUE, tokens |-> set]
    BY <1>2, <2>1, <2>4
  <2>11. Counted(k)'
    <3>1. CASE t \in loadingByKey[k].tokens
      <4>1. set = loadingByKey[k].tokens /\ keyRefs'[k] = keyRefs[k]
        BY <2>4, <3>1 DEF set
      <4> QED
        BY <1>2, <2>10, <4>1 DEF Counted
    <3>2. CASE t \notin loadingByKey[k].tokens
      <4>1. keyRefs'[k] = [value |-> n, max |-> Max({keyRefs[k].max, n}), start |-> TRUE]
        BY <1>2, <2>1, <2>4, <3>2
      <4> QED
        BY <2>2, <2>3, <2>7, <2>10, <4>1 DEF Counted, n
    <3> QED
      BY <3>1, <3>2
  <2>12. \A j \in Keys : Counted(j)'
    BY <2>9, <2>11 DEF Counted
  <2> QED
    BY <2>5, <2>8, <2>9, <2>10, <2>12 DEF set
<1> QED
  BY <1>1, <1>2

\* trackLoadedKey takes the token out, and the last one out ends the progress.
LEMMA LoadedCounts ==
    ASSUME KeysTypeOK, \A j \in Keys : Counted(j) /\ Tracked(j),
           NEW k \in Keys \cup {NoKey}, NEW t, TrackLoaded(k, t)
    PROVE  /\ loadingByKey' \in [Keys -> [there : BOOLEAN, tokens : SUBSET Token]]
           /\ keyRefs' \in [Keys -> [value : Nat, max : Nat, start : BOOLEAN]]
           /\ \A j \in Keys : Counted(j)'
           /\ \A j \in Keys \ {k} : loadingByKey'[j] = loadingByKey[j]
           /\ k \in Keys =>
                  /\ loadingByKey'[k].tokens = loadingByKey[k].tokens \ {t}
                  /\ loadingByKey'[k].there = loadingByKey[k].there
<1>1. CASE k = NoKey
  BY <1>1, KeysAssumption DEF TrackLoaded, KeysTypeOK, Counted
<1>2. CASE k \in Keys /\ ~loadingByKey[k].there
  <2>1. k # NoKey /\ loadingByKey[k].tokens = {}
    BY <1>2, KeysAssumption DEF Tracked
  <2>2. UNCHANGED <<loadingByKey, keyRefs>>
    BY <1>2 DEF TrackLoaded
  <2> QED
    BY <2>1, <2>2 DEF KeysTypeOK, Counted
<1>3. CASE k \in Keys /\ loadingByKey[k].there
  <2> DEFINE set == loadingByKey[k].tokens \ {t}
             n == Cardinality(set)
             m == IF set = {} THEN 0 ELSE keyRefs[k].max
  <2>1. /\ loadingByKey \in [Keys -> [there : BOOLEAN, tokens : SUBSET Token]]
        /\ keyRefs \in [Keys -> [value : Nat, max : Nat, start : BOOLEAN]]
    BY DEF KeysTypeOK
  <2>2. set \subseteq Token
    BY <1>3, <2>1
  <2>3. IsFiniteSet(loadingByKey[k].tokens) /\ set \subseteq loadingByKey[k].tokens
    BY <1>3 DEF Counted
  <2>4. IsFiniteSet(set) /\ n \in Nat /\ n <= Cardinality(loadingByKey[k].tokens)
    BY <2>3, FS_Subset, FS_CardinalityType
  <2>5. /\ loadingByKey' = [loadingByKey EXCEPT ![k].tokens = set]
        /\ keyRefs' = [keyRefs EXCEPT ![k].value = n, ![k].max = IF set = {} THEN 0 ELSE @]
    BY <1>3, KeysAssumption DEF TrackLoaded
  <2> HIDE DEF set, n
  <2>6. loadingByKey' \in [Keys -> [there : BOOLEAN, tokens : SUBSET Token]]
    BY <2>1, <2>2, <2>5
  <2>7. m \in Nat
    BY <1>3, <2>1
  <2>8. keyRefs' \in [Keys -> [value : Nat, max : Nat, start : BOOLEAN]]
    BY <2>1, <2>4, <2>5, <2>7
  <2>9. \A j \in Keys \ {k} : loadingByKey'[j] = loadingByKey[j] /\ keyRefs'[j] = keyRefs[j]
    BY <2>1, <2>5
  <2>10. loadingByKey'[k].tokens = set /\ loadingByKey'[k].there = loadingByKey[k].there
    BY <1>3, <2>1, <2>5
  <2>11. keyRefs'[k].value = n /\ keyRefs'[k].max = m
    BY <1>3, <2>1, <2>5
  <2>12. set = {} => n = 0
    BY FS_EmptySet DEF n
  <2>13. Counted(k)
    BY <1>3
  <2>14. n <= m
    BY <1>3, <2>1, <2>4, <2>12, <2>13 DEF Counted
  <2>15. Counted(k)'
    BY <2>4, <2>10, <2>11, <2>14 DEF Counted, n
  <2>16. \A j \in Keys : Counted(j)'
    BY <2>9, <2>15 DEF Counted
  <2> QED
    BY <2>6, <2>8, <2>9, <2>10, <2>16 DEF set
<1> QED
  BY <1>1, <1>2, <1>3

-----------------------------------------------------------------------------
(* The steps.                                                              *)

LEMMA KeysInitially == KeysInit => KeysInv
<1> SUFFICES ASSUME KeysInit PROVE KeysInv
  OBVIOUS
<1>1. KeysTypeOK
  BY DEF KeysInit, KeysTypeOK, NoSet, Zero
<1>a. \A k \in Keys : /\ loadingByKey[k] = NoSet /\ keyRefs[k] = Zero
                      /\ Under(k) = {} /\ Current(k) = {}
  BY DEF KeysInit, Under, Current
<1>b. IsFiniteSet({}) /\ Cardinality({}) = 0
  BY FS_EmptySet
<1>2. \A k \in Keys : Counted(k)
  BY <1>a, <1>b DEF Counted, NoSet, Zero
<1>3. \A k \in Keys : Tracked(k)
  BY <1>a DEF Tracked, NoSet
<1>4. LoadsHeld
  BY KeysAssumption DEF KeysInit, LoadsHeld, Nothing
<1> QED
  BY <1>1, <1>2, <1>3, <1>4 DEF KeysInv

LEMMA SlippedType ==
    ASSUME KeysTypeOK, NEW k \in Keys \cup {NoKey}, NEW what \in SUBSET Slip, Slipped(k, what)
    PROVE  /\ slips' \in [Keys -> SUBSET Slip]
           /\ \A j \in Keys : slips[j] \subseteq slips'[j]
           /\ k \in Keys => what \subseteq slips'[k]
BY KeysAssumption DEF KeysTypeOK, Slipped

\* An operation begins.
LEMMA BeginKeeps ==
    ASSUME KeysInv, NEW o \in Ops, NEW t \in Token, NEW k \in Keys \cup {NoKey},
           Begin(o, t, k)
    PROVE  /\ loadingByKey' \in [Keys -> [there : BOOLEAN, tokens : SUBSET Token]]
           /\ keyRefs' \in [Keys -> [value : Nat, max : Nat, start : BOOLEAN]]
           /\ running' \in [Ops -> [token : Token, key : Keys \cup {NoKey}] \cup {Nothing}]
           /\ slips' \in [Keys -> SUBSET Slip]
           /\ \A j \in Keys : Counted(j)' /\ Tracked(j)'
           /\ running'[o].token = t
           /\ \A p \in Ops \ {o} : running'[p] = running[p]
<1>0. KeysTypeOK /\ \A j \in Keys : Counted(j) /\ Tracked(j)
  BY DEF KeysInv
<1>1. /\ loadingByKey' \in [Keys -> [there : BOOLEAN, tokens : SUBSET Token]]
      /\ keyRefs' \in [Keys -> [value : Nat, max : Nat, start : BOOLEAN]]
      /\ \A j \in Keys : Counted(j)'
      /\ \A j \in Keys \ {k} : loadingByKey'[j] = loadingByKey[j]
      /\ k \in Keys => loadingByKey'[k] =
             [there |-> TRUE, tokens |-> loadingByKey[k].tokens \cup {t}]
  BY <1>0, PendingCounts DEF Begin
<1>2. /\ running \in [Ops -> [token : Token, key : Keys \cup {NoKey}] \cup {Nothing}]
      /\ running[o] = Nothing
      /\ running' = [running EXCEPT ![o] = [token |-> t, key |-> k]]
  BY <1>0 DEF Begin, KeysTypeOK
<1>3. /\ running' \in [Ops -> [token : Token, key : Keys \cup {NoKey}] \cup {Nothing}]
      /\ running'[o] = [token |-> t, key |-> k]
      /\ \A p \in Ops \ {o} : running'[p] = running[p]
  BY <1>2
<1>4. [token |-> t, key |-> k] # Nothing
  BY KeysAssumption DEF Nothing, Token
<1>5. /\ \A j \in Keys \ {k} : Under(j)' = Under(j)
      /\ k \in Keys => Under(k)' = Under(k) \cup {o} /\ o \notin Under(k)
  BY <1>2, <1>3, <1>4 DEF Under
<1>6. /\ slips' \in [Keys -> SUBSET Slip]
      /\ \A j \in Keys : slips[j] \subseteq slips'[j]
      /\ k \in Keys /\ Shares(k, t) => slips'[k] # {}
  <2>1. Slipped(k, IF Shares(k, t) THEN {"shared"} ELSE {})
    BY DEF Begin
  <2>2. (IF Shares(k, t) THEN {"shared"} ELSE {}) \subseteq Slip
    BY DEF Slip
  <2> QED
    BY <1>0, <2>1, <2>2, SlippedType
<1>7. ASSUME NEW j \in Keys \ {k} PROVE Tracked(j)'
  <2>1. \A p \in Under(j) : running'[p] = running[p]
    BY <1>2, <1>3 DEF Under, Nothing
  <2>2. Current(j)' = Current(j)
    BY <1>5, <2>1 DEF Current
  <2>3. slips'[j] = {} => slips[j] = {}
    BY <1>6
  <2> QED
    BY <1>0, <1>1, <1>5, <2>1, <2>2, <2>3 DEF Tracked
<1>8. ASSUME k \in Keys PROVE Tracked(k)'
  <2>1. \A p \in Under(k) : running'[p] = running[p]
    BY <1>8, <1>3, <1>5 DEF Under
  <2>2. Current(k)' = Current(k) \cup {t}
    BY <1>8, <1>3, <1>5, <2>1 DEF Current
  <2>3. ASSUME slips'[k] = {}
        PROVE  /\ Current(k)' \subseteq loadingByKey'[k].tokens
               /\ \A p, q \in Under(k)' : running'[p].token = running'[q].token => p = q
    <3>1. slips[k] = {} /\ ~Shares(k, t)
      BY <1>8, <1>6, <2>3
    <3>2. /\ Current(k) \subseteq loadingByKey[k].tokens
          /\ \A p, q \in Under(k) : running[p].token = running[q].token => p = q
      BY <1>0, <1>8, <3>1 DEF Tracked
    <3>3. \A p \in Under(k) : running'[p].token # running'[o].token
      BY <1>3, <2>1, <3>1 DEF Shares
    <3> QED
      BY <1>1, <1>5, <1>8, <2>1, <2>2, <3>2, <3>3
  <2>4. loadingByKey'[k].tokens \subseteq Current(k)'
    BY <1>0, <1>1, <1>8, <2>2 DEF Tracked
  <2> QED
    BY <1>1, <1>8, <2>3, <2>4 DEF Tracked
<1> QED
  BY <1>1, <1>3, <1>6, <1>7, <1>8

LEMMA BeginCallStep ==
    ASSUME KeysInv, NEW o \in Ops, NEW t \in Calls, NEW k \in Keys \cup {NoKey},
           BeginCall(o, t, k)
    PROVE  KeysInv'
<1>0. t \in Token /\ t \notin Records
  BY KeysAssumption DEF Token
<1>1. Begin(o, t, k) /\ UNCHANGED <<loading, loaded>>
  BY DEF BeginCall
<1>2. /\ \A p \in Ops \ {o} : running'[p] = running[p]
      /\ running'[o].token = t
  BY <1>0, <1>1, BeginKeeps
<1>3. LoadsHeld'
  BY <1>0, <1>1, <1>2 DEF LoadsHeld, KeysInv
<1> QED
  BY <1>0, <1>1, <1>3, BeginKeeps DEF KeysInv, KeysTypeOK

LEMMA BeginLoadStep ==
    ASSUME KeysInv, NEW o \in Ops, NEW r \in Records, NEW k \in Keys \cup {NoKey},
           BeginLoad(o, r, k)
    PROVE  KeysInv'
<1>0. r \in Token /\ r \notin loading
  BY DEF Token, BeginLoad
<1>1. Begin(o, r, k) /\ loading' = loading \cup {r} /\ UNCHANGED loaded
  BY DEF BeginLoad
<1>2. /\ \A p \in Ops \ {o} : running'[p] = running[p]
      /\ running'[o].token = r
  BY <1>0, <1>1, BeginKeeps
<1>3. LoadsHeld'
  BY <1>0, <1>1, <1>2 DEF LoadsHeld, KeysInv
<1> QED
  BY <1>0, <1>1, <1>3, BeginKeeps DEF KeysInv, KeysTypeOK

\* What keeps the operations keeps their tokens.
LEMMA SameOperations ==
    ASSUME UNCHANGED running
    PROVE  \A j : Under(j)' = Under(j) /\ Current(j)' = Current(j)
BY DEF Under, Current

LEMMA LoadAgainStep ==
    ASSUME KeysInv, NEW r \in Records, NEW k \in Keys, LoadAgain(r, k)
    PROVE  KeysInv'
<1>0. KeysTypeOK /\ (\A j \in Keys : Counted(j) /\ Tracked(j)) /\ LoadsHeld
  BY DEF KeysInv
<1>1. /\ TrackLoaded(k, r) /\ UNCHANGED <<running, loading, loaded>>
      /\ Slipped(k, IF r \in loading THEN {"again"} ELSE {})
  BY DEF LoadAgain
<1>2. /\ loadingByKey' \in [Keys -> [there : BOOLEAN, tokens : SUBSET Token]]
      /\ keyRefs' \in [Keys -> [value : Nat, max : Nat, start : BOOLEAN]]
      /\ \A j \in Keys : Counted(j)'
      /\ \A j \in Keys \ {k} : loadingByKey'[j] = loadingByKey[j]
      /\ loadingByKey'[k].tokens = loadingByKey[k].tokens \ {r}
      /\ loadingByKey'[k].there = loadingByKey[k].there
  BY <1>0, <1>1, LoadedCounts
<1>3. /\ slips' \in [Keys -> SUBSET Slip]
      /\ \A j \in Keys : slips[j] \subseteq slips'[j]
      /\ r \in loading => slips'[k] # {}
  <2>1. (IF r \in loading THEN {"again"} ELSE {}) \subseteq Slip
    BY DEF Slip
  <2> QED
    BY <1>0, <1>1, <2>1, SlippedType
<1>4. r \notin loading => r \notin Current(k)
  BY <1>0 DEF LoadsHeld, Current, Under
<1>5. ASSUME NEW j \in Keys PROVE Tracked(j)'
  <2>1. slips'[j] = {} => slips[j] = {} /\ (j = k => r \notin Current(k))
    BY <1>3, <1>4
  <2>2. /\ loadingByKey'[j].tokens \subseteq loadingByKey[j].tokens
        /\ loadingByKey[j].tokens \subseteq loadingByKey'[j].tokens \cup {r}
        /\ loadingByKey'[j].there = loadingByKey[j].there
        /\ j # k => loadingByKey'[j].tokens = loadingByKey[j].tokens
    BY <1>2
  <2> QED
    BY <1>0, <1>1, <2>1, <2>2, SameOperations DEF Tracked
<1>6. LoadsHeld'
  BY <1>0, <1>1 DEF LoadsHeld
<1> QED
  BY <1>0, <1>1, <1>2, <1>3, <1>5, <1>6 DEF KeysInv, KeysTypeOK

\* An operation ends.
LEMMA EndStep ==
    ASSUME KeysInv, NEW o \in Ops, NEW ok \in BOOLEAN, End(o, ok)
    PROVE  KeysInv'
<1>0. KeysTypeOK /\ (\A j \in Keys : Counted(j) /\ Tracked(j)) /\ LoadsHeld
  BY DEF KeysInv
<1>2. running \in [Ops -> [token : Token, key : Keys \cup {NoKey}] \cup {Nothing}]
  BY <1>0 DEF KeysTypeOK
<1>3. PICK t \in Token, k \in Keys \cup {NoKey} : running[o] = [token |-> t, key |-> k]
  BY <1>2 DEF End
<1>1. /\ running[o] # Nothing
      /\ running' = [running EXCEPT ![o] = Nothing]
      /\ loading' = loading \ {t}
      /\ loaded' = IF ok /\ t \in Records THEN loaded \cup {t} ELSE loaded
      /\ TrackLoaded(k, t)
      /\ UNCHANGED slips
  BY <1>3 DEF End
<1>4. /\ running'[o] = Nothing
      /\ \A p \in Ops \ {o} : running'[p] = running[p]
      /\ running' \in [Ops -> [token : Token, key : Keys \cup {NoKey}] \cup {Nothing}]
  BY <1>1, <1>2
<1>5. /\ loadingByKey' \in [Keys -> [there : BOOLEAN, tokens : SUBSET Token]]
      /\ keyRefs' \in [Keys -> [value : Nat, max : Nat, start : BOOLEAN]]
      /\ \A j \in Keys : Counted(j)'
      /\ \A j \in Keys \ {k} : loadingByKey'[j] = loadingByKey[j]
      /\ k \in Keys =>
             /\ loadingByKey'[k].tokens = loadingByKey[k].tokens \ {t}
             /\ loadingByKey'[k].there = loadingByKey[k].there
  BY <1>0, <1>1, <1>3, LoadedCounts
<1>6. \A j \in Keys : Under(j)' = Under(j) \ {o}
  BY <1>4 DEF Under
<1>7. ASSUME NEW j \in Keys \ {k} PROVE Tracked(j)'
  <2>1. o \notin Under(j)
    BY <1>3 DEF Under
  <2>2. Under(j)' = Under(j) /\ \A p \in Under(j) : running'[p] = running[p]
    BY <1>4, <1>6, <2>1 DEF Under
  <2>3. Current(j)' = Current(j)
    BY <2>2 DEF Current
  <2> QED
    BY <1>0, <1>1, <1>5, <2>2, <2>3 DEF Tracked
<1>8. ASSUME k \in Keys PROVE Tracked(k)'
  <2>1. o \in Under(k) /\ Under(k) \subseteq Ops
    BY <1>1, <1>3 DEF Under
  <2>2. \A p \in Under(k)' : p \in Under(k) /\ p # o /\ running'[p] = running[p]
    BY <1>4, <1>6, <1>8, <2>1
  <2>3. \A p \in Under(k) \ {o} : p \in Under(k)' /\ running'[p] = running[p]
    BY <1>4, <1>6, <1>8, <2>1
  <2>4. Current(k) \ {t} \subseteq Current(k)' /\ Current(k)' \subseteq Current(k)
    BY <1>3, <2>2, <2>3 DEF Current
  <2>5. ASSUME slips'[k] = {}
        PROVE  /\ Current(k)' \subseteq loadingByKey'[k].tokens
               /\ \A p, q \in Under(k)' : running'[p].token = running'[q].token => p = q
    <3>1. /\ Current(k) \subseteq loadingByKey[k].tokens
          /\ \A p, q \in Under(k) : running[p].token = running[q].token => p = q
      BY <1>0, <1>1, <1>8, <2>5 DEF Tracked
    <3>2. t \notin Current(k)'
      BY <1>3, <2>1, <2>2, <3>1 DEF Current
    <3> QED
      BY <1>5, <1>8, <2>2, <2>4, <3>1, <3>2
  <2> QED
    BY <1>0, <1>5, <1>8, <2>4, <2>5 DEF Tracked
<1>9. LoadsHeld'
  <2>1. ASSUME NEW p \in Ops, running'[p].token \in Records
        PROVE  /\ running'[p].token \in loading'
               /\ \A q \in Ops : running'[q].token = running'[p].token => q = p
    <3>1. p # o
      BY <1>4, <2>1, KeysAssumption DEF Nothing
    <3>2. running'[p] = running[p] /\ running[p].token \in Records
      BY <1>4, <2>1, <3>1
    <3>3. /\ running[p].token \in loading
          /\ \A q \in Ops : running[q].token = running[p].token => q = p
      BY <1>0, <3>2 DEF LoadsHeld
    <3>4. running[p].token # t
      BY <1>3, <3>1, <3>3
    <3>5. \A q \in Ops : running'[q].token = running'[p].token => q = p
      BY <1>4, <3>2, <3>3, KeysAssumption DEF Nothing
    <3> QED
      BY <1>1, <3>2, <3>3, <3>4, <3>5
  <2> QED
    BY <2>1 DEF LoadsHeld
<1>10. loading' \subseteq Records /\ loaded' \subseteq Records
       /\ slips' \in [Keys -> SUBSET Slip]
  BY <1>0, <1>1 DEF KeysTypeOK
<1> QED
  BY <1>4, <1>5, <1>7, <1>8, <1>9, <1>10 DEF KeysInv, KeysTypeOK

LEMMA UnloadStep ==
    ASSUME KeysInv, NEW r \in Records, Unload(r)
    PROVE  KeysInv'
<1>1. UNCHANGED <<loadingByKey, keyRefs, running, loading, slips>> /\ loaded' = loaded \ {r}
  BY DEF Unload
<1> QED
  BY <1>1, SameOperations DEF KeysInv, KeysTypeOK, Counted, Tracked, LoadsHeld

\* A key that is reset forgets the operations under way under it.
LEMMA ResetKeyStep ==
    ASSUME KeysInv, NEW k \in Keys, ResetKey(k)
    PROVE  KeysInv'
<1>0. KeysTypeOK /\ (\A j \in Keys : Counted(j) /\ Tracked(j)) /\ LoadsHeld
  BY DEF KeysInv
<1>1. /\ loadingByKey' = [loadingByKey EXCEPT ![k] = NoSet]
      /\ keyRefs' = [keyRefs EXCEPT ![k] = Zero]
      /\ Slipped(k, IF Under(k) # {} THEN {"reset"} ELSE {})
      /\ UNCHANGED <<running, loading, loaded>>
  BY DEF ResetKey
<1>2. /\ slips' \in [Keys -> SUBSET Slip]
      /\ \A j \in Keys : slips[j] \subseteq slips'[j]
      /\ Under(k) # {} => slips'[k] # {}
  <2>1. (IF Under(k) # {} THEN {"reset"} ELSE {}) \subseteq Slip
    BY DEF Slip
  <2> QED
    BY <1>0, <1>1, <2>1, SlippedType
<1>3. /\ loadingByKey' \in [Keys -> [there : BOOLEAN, tokens : SUBSET Token]]
      /\ keyRefs' \in [Keys -> [value : Nat, max : Nat, start : BOOLEAN]]
      /\ loadingByKey'[k] = NoSet /\ keyRefs'[k] = Zero
      /\ \A j \in Keys \ {k} : loadingByKey'[j] = loadingByKey[j] /\ keyRefs'[j] = keyRefs[j]
  BY <1>0, <1>1 DEF KeysTypeOK, NoSet, Zero
<1>4. Counted(k)' /\ Tracked(k)'
  <2>1. Counted(k)'
    BY <1>3, FS_EmptySet DEF Counted, NoSet, Zero
  <2>2. slips'[k] = {} => Under(k) = {} /\ Current(k) = {}
    BY <1>2 DEF Current
  <2> QED
    BY <1>1, <1>3, <2>1, <2>2, SameOperations DEF Tracked, NoSet
<1>5. ASSUME NEW j \in Keys \ {k} PROVE Counted(j)' /\ Tracked(j)'
  BY <1>0, <1>1, <1>2, <1>3, SameOperations DEF Counted, Tracked
<1> QED
  BY <1>0, <1>1, <1>2, <1>3, <1>4, <1>5 DEF KeysInv, KeysTypeOK, LoadsHeld

LEMMA KeysStep == KeysInv /\ [KeysNext]_keyVars => KeysInv'
<1> SUFFICES ASSUME KeysInv, [KeysNext]_keyVars PROVE KeysInv'
  OBVIOUS
<1>1. CASE UNCHANGED keyVars
  BY <1>1, SameOperations
     DEF keyVars, KeysInv, KeysTypeOK, Counted, Tracked, LoadsHeld
<1> QED
  BY <1>1, BeginCallStep, BeginLoadStep, LoadAgainStep, EndStep, UnloadStep, ResetKeyStep
     DEF KeysNext

-----------------------------------------------------------------------------
(* What the invariant says.                                                *)

LEMMA InvMeansQuiet == KeysInv => ReadyIsQuiet
<1> SUFFICES ASSUME KeysInv, NEW k \in Keys, slips[k] = {}
             PROVE  keyRefs[k].value = Cardinality(Current(k))
  BY DEF ReadyIsQuiet, Current
<1>1. loadingByKey[k].tokens = Current(k)
  BY DEF KeysInv, Tracked
<1> QED
  BY <1>1 DEF KeysInv, Counted

LEMMA InvMeansEnds == KeysInv => ProgressEnds
<1> SUFFICES ASSUME KeysInv, NEW k \in Keys
             PROVE  /\ Under(k) = {} => keyRefs[k].value = 0 /\ keyRefs[k].max = 0
                    /\ keyRefs[k].value <= keyRefs[k].max
  BY DEF ProgressEnds
<1>1. Under(k) = {} => loadingByKey[k].tokens = {}
  BY DEF KeysInv, Tracked, Current
<1> QED
  BY <1>1, FS_EmptySet DEF KeysInv, Counted

LEMMA TableStep == KeysInv /\ [TableNext]_<<part, vars, keyVars>> => KeysInv'
BY KeysStep DEF TableNext

\* A key that reports ready has no operation under way, and one that does not shows
\* how many are, for any operations that begin, fail and end in any order; unless
\* two had one token, a load was asked for again, or the key was reset meanwhile.
THEOREM KeysReportWhatRuns == TableSpec => []ReadyIsQuiet
<1>1. TableInit => KeysInv
  BY KeysInitially DEF TableInit
<1> QED
  BY <1>1, TableStep, InvMeansQuiet, PTL DEF TableSpec

\* Whatever tokens were shared, reset or reported early, the progress of a key ends
\* when its last operation does, and is never above one hundred percent.
THEOREM ProgressComesToAnEnd == TableSpec => []ProgressEnds
<1>1. TableInit => KeysInv
  BY KeysInitially DEF TableInit
<1> QED
  BY <1>1, TableStep, InvMeansEnds, PTL DEF TableSpec
-----------------------------------------------------------------------------
(* The query: what is true of it at every step.                            *)

\* A run that has still to move the cursor from run.from on.
Underway == run.stage \in {"asked", "window", "reset", "clearing"}

\* Every version after v is still to be announced by a sync of this tab.
Fresh(v) == \A w \in v + 1 .. version :
    w \notin mine /\ w > time1 /\ (Underway => w > run.from)

\* Or the run, or the reply of this tab's write, will announce one after v.
Good(v) ==
    \/ Fresh(v)
    \/ run.changed /\ run.stage # "retrying" /\ v < run.from
    \/ \E u \in own.done : v < u

Cursors ==
    /\ run.stage # "idle" => run.from \in Version
    /\ run.stage \in {"window", "reset", "clearing"} =>
        run.to \in Version /\ run.from <= run.to
    /\ run.stage = "idle" => run = Idle
    /\ login.stage = "clearing" => login.to \in Version

\* No cursor and nothing in the tab is newer than the server.
CursorsBehind ==
    /\ time1 <= version /\ stored <= version
    /\ run.from <= version /\ run.to <= version /\ login.to <= version
    /\ mine \subseteq 1 .. version
ShownBehind == cache <= version /\ entry.value <= version /\ reading.val <= version

\* No reply is older than the cached value that a component waits for.
RepliesBehind ==
    \A i \in DOMAIN inflight : inflight[i].stage = "served" =>
        inflight[i].val <= version /\ (reading.on => reading.val <= inflight[i].val)

\* A page that has not shown the query has not logged in since its cache was filled.
Cold == ~entry.there /\ cache # None /\ Underway => run.from <= time1

\* The cached value on its way is good, or known to be old when it comes.
CachedGood ==
    \A v \in Version : reading.on /\ reading.val = v =>
        /\ Good(v) \/ v < entry.known
        /\ cache \in {None, v} \/ v < entry.known

\* The answer of the last refresh is v, and no later one has ended.
Answers(v) ==
    /\ inflight # <<>>
    /\ LET last == inflight[Len(inflight)] IN
       last.stage = "served" /\ ~last.passed /\ last.val = v

\* It is good, or the timer will ask again.
LastGood == \A v \in Value : Answers(v) => timer \/ Good(v)

\* What is shown is good, or will be asked for again, or a reply will replace it.
ShownGood ==
    \A v \in Value : entry.loaded /\ entry.value = v =>
        \/ timer \/ inflight # <<>>
        \/ Good(v) /\ cache \in {None, v}

AllGood == CachedGood /\ LastGood /\ ShownGood

\* The entry, the run and the write in the types of the invariant.
EntryType == [there : BOOLEAN, value : Value, loaded : BOOLEAN, known : Value]
RunType ==
    [stage : {"idle", "asked", "window", "reset", "clearing", "retrying", "lost"},
     from : Value, to : Value, more : BOOLEAN, changed : BOOLEAN]

\* The types of the query, of the rest of the tab and of the server.
QueryPart ==
    /\ entry \in EntryType /\ timer \in BOOLEAN
    /\ inflight \in Seq(Refresh) /\ Len(inflight) <= MaxInFlight
    /\ reading \in [on : BOOLEAN, val : Value]
    /\ cache \in Value
    /\ ~entry.there => entry = NoEntry /\ ~timer /\ inflight = <<>> /\ ~reading.on
SessionPart ==
    /\ auth \in BOOLEAN
    /\ run \in RunType
    /\ login \in [stage : {"idle", "clearing"}, to : Value]
    /\ retry \in {"none", "afterSync", "due"}
    /\ own \in [asked : BOOLEAN, orphan : BOOLEAN, done : SUBSET Version]
    /\ time1 \in Version /\ stored \in Version
    /\ Cursors
ServerPart == world \in Worlds /\ version \in Version /\ mine \subseteq Version
Awaited == run.stage = "retrying" \/ \A i \in DOMAIN inflight : ~inflight[i].awaited

QueryTyped == QueryPart /\ SessionPart /\ ServerPart /\ Awaited /\ lapses \subseteq Lapse

QueryInv ==
    /\ QueryTyped /\ CursorsBehind /\ ShownBehind /\ RepliesBehind /\ Cold
    /\ lapses = {} => AllGood

-----------------------------------------------------------------------------
(* The queue of refreshes.                                                 *)

LEMMA NumbersOfVersions ==
    /\ Version \subseteq Nat \ {0} /\ Version \subseteq Value /\ Value \subseteq Nat
    /\ None = 0 /\ None \in Value /\ 1 \in Version
    /\ \A v \in Version : v < MaxVersion => v + 1 \in Version
BY QueryBounds DEF Version, Value, None

LEMMA QueueType ==
    ASSUME inflight \in Seq(Refresh)
    PROVE  /\ Len(inflight) \in Nat /\ DOMAIN inflight = 1 .. Len(inflight)
           /\ \A i \in DOMAIN inflight : inflight[i] \in Refresh
           /\ inflight = <<>> <=> Len(inflight) = 0
<1>1. /\ Len(inflight) \in Nat /\ DOMAIN inflight = 1 .. Len(inflight)
      /\ \A i \in DOMAIN inflight : inflight[i] \in Refresh
  BY LenProperties, ElementOfSeq
<1>2. inflight = <<>> <=> Len(inflight) = 0
  BY EmptySeq
<1> QED
  BY <1>1, <1>2

\* A function on 1 .. n is a sequence.
LEMMA QueueOf ==
    ASSUME NEW n \in Nat, NEW S, NEW f, f = [j \in 1 .. n |-> f[j]], \A j \in 1 .. n : f[j] \in S
    PROVE  f \in Seq(S) /\ Len(f) = n /\ DOMAIN f = 1 .. n
BY SMT

\* A refresh that ends leaves the later ones, and passes the earlier ones by.
LEMMA EndedQueue ==
    ASSUME inflight \in Seq(Refresh), NEW i \in DOMAIN inflight
    PROVE  /\ Ended(i) \in Seq(Refresh)
           /\ Len(Ended(i)) = Len(inflight) - 1
           /\ \A j \in 1 .. Len(inflight) - 1 :
                  Ended(i)[j] = IF j < i THEN [inflight[j] EXCEPT !.passed = TRUE]
                                ELSE inflight[j + 1]
<1> DEFINE marked == [j \in DOMAIN inflight |->
                         IF j < i THEN [inflight[j] EXCEPT !.passed = TRUE] ELSE inflight[j]]
           n == Len(inflight)
           before == SubSeq(marked, 1, i - 1)
           after == SubSeq(marked, i + 1, n)
<1>0. n \in Nat /\ DOMAIN inflight = 1 .. n /\ \A j \in 1 .. n : inflight[j] \in Refresh
  BY QueueType
<1>1. \A j \in 1 .. n : marked[j] \in Refresh
  BY <1>0 DEF Refresh
<1>2. marked \in Seq(Refresh) /\ Len(marked) = n
  BY <1>0, <1>1, QueueOf
<1>3. i \in 1 .. n
  BY <1>0
<1>4. \A j \in 1 .. n : marked[j] =
          IF j < i THEN [inflight[j] EXCEPT !.passed = TRUE] ELSE inflight[j]
  BY <1>0
<1> HIDE DEF marked, n
<1>5. /\ before \in Seq(Refresh) /\ Len(before) = i - 1
      /\ \A j \in 1 .. i - 1 : before[j] = marked[j]
  <2>1. \A j \in 1 .. i - 1 : marked[j] \in Refresh
    BY <1>0, <1>1, <1>3
  <2> QED
    BY <1>0, <1>3, <2>1, SubSeqProperties
<1>6. /\ after \in Seq(Refresh) /\ Len(after) = n - i
      /\ \A j \in 1 .. n - i : after[j] = marked[i + j]
  <2>1. \A j \in i + 1 .. n : marked[j] \in Refresh
    BY <1>0, <1>1, <1>3
  <2>2. /\ after \in Seq(Refresh)
        /\ Len(after) = IF i + 1 <= n THEN n - (i + 1) + 1 ELSE 0
        /\ \A j \in 1 .. n - (i + 1) + 1 : after[j] = marked[i + 1 + j - 1]
    <3> HIDE DEF after
    <3> QED
      BY <1>0, <1>3, <2>1, SubSeqProperties DEF after
  <2> QED
    BY <1>0, <1>3, <2>2
<1>7. Ended(i) = before \o after
  BY <1>2 DEF Ended, RemoveAt, marked
<1> HIDE DEF before, after
<1>8. /\ before \o after \in Seq(Refresh)
      /\ Len(before \o after) = Len(before) + Len(after)
      /\ \A j \in 1 .. Len(before) + Len(after) : (before \o after)[j] =
             IF j <= Len(before) THEN before[j] ELSE after[j - Len(before)]
  BY <1>5, <1>6, ConcatProperties
<1>9. ASSUME NEW j \in 1 .. n - 1
      PROVE  Ended(i)[j] = IF j < i THEN [inflight[j] EXCEPT !.passed = TRUE]
                           ELSE inflight[j + 1]
  <2>1. CASE j < i
    <3>1. Ended(i)[j] = marked[j] /\ j \in 1 .. n
      BY <1>0, <1>3, <1>5, <1>6, <1>7, <1>8, <2>1
    <3> QED
      BY <1>4, <2>1, <3>1
  <2>2. CASE ~(j < i)
    <3>1. Ended(i)[j] = marked[j + 1] /\ j + 1 \in 1 .. n /\ ~(j + 1 < i)
      BY <1>0, <1>3, <1>5, <1>6, <1>7, <1>8, <2>2
    <3> QED
      BY <1>4, <2>2, <3>1
  <2> QED
    BY <2>1, <2>2
<1>10. Ended(i) \in Seq(Refresh) /\ Len(Ended(i)) = n - 1
  BY <1>0, <1>3, <1>5, <1>6, <1>7, <1>8
<1> QED
  BY <1>9, <1>10 DEF n

\* What entry.refresh does: asked last, or not at all, and then the entry is not
\* loaded and every refresh under way is passed by.
LEMMA RefreshingQueue ==
    ASSUME inflight \in Seq(Refresh), Len(inflight) <= MaxInFlight,
           NEW e \in EntryType, NEW signedIn \in BOOLEAN, NEW awaited \in BOOLEAN,
           Refreshing(e, signedIn, awaited)
    PROVE  /\ inflight' \in Seq(Refresh) /\ Len(inflight') <= MaxInFlight
           /\ Len(inflight) <= Len(inflight')
           /\ entry' \in EntryType
           /\ entry'.there = e.there /\ entry'.value = e.value /\ entry'.known = e.known
           /\ entry'.loaded => e.loaded
           /\ \/ inflight'[Len(inflight')].stage = "asked" /\ inflight' # <<>>
              \/ /\ ~entry'.loaded /\ Len(inflight') = Len(inflight)
                 /\ \A i \in DOMAIN inflight' : inflight'[i].passed
           /\ \A i \in DOMAIN inflight' : inflight'[i].stage = "served" =>
                  /\ i \in DOMAIN inflight /\ inflight[i].stage = "served"
                  /\ inflight'[i].val = inflight[i].val
           /\ \A i \in DOMAIN inflight' : inflight'[i].awaited =>
                  awaited \/ (i \in DOMAIN inflight /\ inflight[i].awaited)
<1> DEFINE n == Len(inflight)
           new == [stage |-> "asked", val |-> None, passed |-> FALSE, awaited |-> awaited]
<1>0. n \in Nat /\ DOMAIN inflight = 1 .. n /\ \A j \in 1 .. n : inflight[j] \in Refresh
  BY QueueType
<1>1. CASE signedIn
  <2>1. entry' = e /\ inflight' = Append(inflight, new) /\ n < MaxInFlight
    BY <1>1 DEF Refreshing
  <2>2. new \in Refresh /\ new.stage = "asked" /\ new.awaited = awaited
    BY NumbersOfVersions DEF Refresh
  <2> HIDE DEF new, n
  <2>3. /\ inflight' \in Seq(Refresh) /\ Len(inflight') = n + 1
        /\ DOMAIN inflight' = 1 .. n + 1
        /\ inflight'[n + 1] = new
        /\ \A j \in 1 .. n : inflight'[j] = inflight[j]
    BY <1>0, <2>1, <2>2, AppendProperties DEF n
  <2>4. n + 1 <= MaxInFlight /\ inflight' # <<>>
    BY <1>0, <2>1, <2>3, QueryBounds, EmptySeq
  <2>5. \A i \in DOMAIN inflight' : i = n + 1 \/ i \in DOMAIN inflight
    BY <1>0, <2>3
  <2>6. \A i \in DOMAIN inflight' : inflight'[i] = IF i = n + 1 THEN new ELSE inflight[i]
    BY <1>0, <2>3, <2>5
  <2>7. inflight'[Len(inflight')].stage = "asked" /\ n <= Len(inflight')
    BY <1>0, <2>2, <2>3
  <2>8. /\ Len(inflight') <= MaxInFlight
        /\ entry' \in EntryType
        /\ entry'.there = e.there /\ entry'.value = e.value /\ entry'.known = e.known
        /\ entry'.loaded => e.loaded
    BY <2>1, <2>3, <2>4
  <2>9. \A i \in DOMAIN inflight' : inflight'[i].stage = "served" =>
            /\ i \in DOMAIN inflight /\ inflight[i].stage = "served"
            /\ inflight'[i].val = inflight[i].val
    BY <2>2, <2>5, <2>6
  <2>10. \A i \in DOMAIN inflight' : inflight'[i].awaited =>
            awaited \/ (i \in DOMAIN inflight /\ inflight[i].awaited)
    BY <2>2, <2>5, <2>6
  <2> QED
    BY <2>3, <2>4, <2>7, <2>8, <2>9, <2>10 DEF n
<1>2. CASE ~signedIn
  <2>1. /\ entry' = [e EXCEPT !.loaded = FALSE]
        /\ inflight' = [i \in DOMAIN inflight |-> [inflight[i] EXCEPT !.passed = TRUE]]
    BY <1>2 DEF Refreshing
  <2>2. \A i \in 1 .. n : /\ inflight'[i] \in Refresh
                          /\ inflight'[i].passed
                          /\ inflight'[i].stage = inflight[i].stage
                          /\ inflight'[i].val = inflight[i].val
                          /\ inflight'[i].awaited = inflight[i].awaited
    BY <1>0, <2>1 DEF Refresh
  <2> HIDE DEF n
  <2>3. inflight' \in Seq(Refresh) /\ Len(inflight') = n /\ DOMAIN inflight' = 1 .. n
    BY <1>0, <2>1, <2>2, QueueOf
  <2>4. /\ entry' \in EntryType /\ ~entry'.loaded
        /\ entry'.there = e.there /\ entry'.value = e.value /\ entry'.known = e.known
    BY <2>1 DEF EntryType
  <2> QED
    BY <1>0, <2>2, <2>3, <2>4 DEF n
<1> QED
  BY <1>1, <1>2

-----------------------------------------------------------------------------
(* The types, step by step.                                                *)

LEMMA QueryInitially == Init => QueryTyped
<1> SUFFICES ASSUME Init PROVE QueryTyped
  OBVIOUS
<1> USE NumbersOfVersions DEF Init
<1>1. QueryPart
  <2>1. inflight \in Seq(Refresh) /\ Len(inflight) = 0 /\ 0 <= MaxInFlight
    BY EmptySeq, QueryBounds
  <2>2. entry \in EntryType /\ reading \in [on : BOOLEAN, val : Value] /\ ~reading.on
    BY DEF EntryType, NoEntry, NotReading
  <2> QED
    BY <2>1, <2>2 DEF QueryPart
<1>2. SessionPart
  BY DEF SessionPart, Cursors, RunType, Idle, NoLogin, NoWrite
<1>3. ServerPart /\ Awaited /\ lapses \subseteq Lapse
  BY EmptySeq DEF ServerPart, Awaited
<1> QED
  BY <1>1, <1>2, <1>3 DEF QueryTyped

\* A step that leaves the query alone.
LEMMA QueryStands ==
    ASSUME QueryTyped, UNCHANGED query, SessionPart', ServerPart', lapses' \subseteq Lapse,
           run.stage = "retrying" => run'.stage = "retrying" \/ Awaited'
    PROVE  QueryTyped'
BY DEF QueryTyped, QueryPart, Awaited, query

\* The steps of the session that move no cursor and end no run.
LEMMA RunStepsTyped ==
    ASSUME QueryTyped,
           SyncNow \/ ServeWindow \/ NextWindow \/ ServeReset \/ BeginReset \/ GoOn
           \/ RunFails \/ SignIn \/ BeginLogin \/ LoginFails \/ StartWrite \/ WriteFails
           \/ ReplyUnannounced
    PROVE  QueryTyped'
<1> USE NumbersOfVersions DEF SessionPart, Cursors, RunType, clock, session
<1>0. SessionPart /\ ServerPart /\ lapses \subseteq Lapse
  BY DEF QueryTyped
<1>1. CASE SyncNow
  <2>1. SessionPart'
    BY <1>0, <1>1 DEF SyncNow, Asking, Idle
  <2> QED
    BY <1>0, <1>1, <2>1, QueryStands DEF SyncNow, ServerPart
<1>2. CASE ServeWindow
  <2>1. PICK to \in run.from .. version, more \in BOOLEAN :
            run' = [run EXCEPT !.stage = "window", !.to = to, !.more = more]
    BY <1>2 DEF ServeWindow
  <2>2. run.stage = "asked" /\ run.from \in Version /\ to \in Version /\ run.from <= to
    <3>1. run.stage = "asked" /\ run.from \in Version /\ version \in Version
      BY <1>0, <1>2 DEF ServeWindow, ServerPart
    <3> QED
      BY <2>1, <3>1, QueryBounds DEF Version
  <2>3. SessionPart'
    BY <1>0, <1>2, <2>1, <2>2 DEF ServeWindow
  <2> QED
    BY <1>0, <1>2, <2>2, <2>3, QueryStands DEF ServeWindow, ServerPart
<1>3. CASE NextWindow
  <2>1. SessionPart'
    BY <1>0, <1>3 DEF NextWindow, Asking, Idle, MoveCursor, Changed
  <2> QED
    BY <1>0, <1>3, <2>1, QueryStands DEF NextWindow, ServerPart
<1>4. CASE ServeReset
  <2>1. /\ run' = [run EXCEPT !.stage = "reset", !.to = version]
        /\ run.stage = "asked" /\ run.from < version /\ version \in Version
    BY <1>0, <1>4 DEF ServeReset, ServerPart
  <2>2. run.from \in Version /\ run.from <= version
    BY <1>0, <2>1
  <2>3. SessionPart'
    BY <1>0, <1>4, <2>1, <2>2 DEF ServeReset
  <2> QED
    BY <1>0, <1>4, <2>3, QueryStands DEF ServeReset, ServerPart
<1>5. CASE BeginReset
  <2>1. SessionPart'
    BY <1>0, <1>5 DEF BeginReset
  <2> QED
    BY <1>0, <1>5, <2>1, QueryStands DEF BeginReset, ServerPart
<1>6. CASE GoOn
  <2>1. SessionPart'
    BY <1>0, <1>6 DEF GoOn, Asking, Idle
  <2>2. Awaited'
    BY <1>6 DEF GoOn, Awaited, query
  <2> QED
    BY <1>0, <1>6, <2>1, <2>2, QueryStands DEF GoOn, ServerPart
<1>7. CASE RunFails
  <2>1. SessionPart'
    BY <1>0, <1>7 DEF RunFails, Idle
  <2>2. lapses' \subseteq Lapse /\ run.stage # "retrying"
    BY <1>0, <1>7 DEF RunFails, Lapse
  <2> QED
    BY <1>0, <1>7, <2>1, <2>2, QueryStands DEF RunFails, ServerPart
<1>8. CASE SignIn
  <2>1. SessionPart'
    BY <1>0, <1>8 DEF SignIn, Idle
  <2> QED
    BY <1>0, <1>8, <2>1, QueryStands DEF SignIn, ServerPart
<1>9. CASE BeginLogin
  <2>1. SessionPart'
    BY <1>0, <1>9 DEF BeginLogin, ServerPart
  <2> QED
    BY <1>0, <1>9, <2>1, QueryStands DEF BeginLogin, ServerPart
<1>10. CASE StartWrite
  <2>1. SessionPart'
    BY <1>0, <1>10 DEF StartWrite, NoWrite
  <2> QED
    BY <1>0, <1>10, <2>1, QueryStands DEF StartWrite, ServerPart
<1>11. CASE WriteFails
  <2>1. SessionPart'
    BY <1>0, <1>11 DEF WriteFails, NoWrite
  <2> QED
    BY <1>0, <1>11, <2>1, QueryStands DEF WriteFails, ServerPart
<1>12. CASE LoginFails
  <2>1. SessionPart'
    BY <1>0, <1>12 DEF LoginFails, NoLogin
  <2> QED
    BY <1>0, <1>12, <2>1, QueryStands DEF LoginFails, ServerPart
<1>13. CASE ReplyUnannounced
  <2>1. PICK u \in own.done : own' = [own EXCEPT !.done = @ \ {u}]
    BY <1>13 DEF ReplyUnannounced
  <2>2. own' \in [asked : BOOLEAN, orphan : BOOLEAN, done : SUBSET Version]
    BY <1>0, <2>1
  <2>3. SessionPart'
    BY <1>0, <1>13, <2>2 DEF ReplyUnannounced
  <2>4. lapses' \subseteq Lapse
    BY <1>0, <1>13 DEF ReplyUnannounced, Lapse
  <2> QED
    BY <1>0, <1>13, <2>3, <2>4, QueryStands DEF ReplyUnannounced, ServerPart
<1> QED
  BY <1>1, <1>2, <1>3, <1>4, <1>5, <1>6, <1>7, <1>8, <1>9, <1>10, <1>11, <1>12, <1>13

\* Writes of the server.
LEMMA CommitsTyped ==
    ASSUME QueryTyped, ForeignWrite \/ ServeWrite
    PROVE  QueryTyped'
<1> USE NumbersOfVersions
<1>0. SessionPart /\ ServerPart /\ lapses \subseteq Lapse
  BY DEF QueryTyped
<1>1. ServerPart' /\ version + 1 \in Version
  <2>1. version < MaxVersion /\ version' = version + 1 /\ mine' \subseteq mine \cup {version + 1}
        /\ UNCHANGED world
    BY DEF ForeignWrite, ServeWrite, Commit
  <2> QED
    BY <1>0, <2>1 DEF ServerPart
<1>2. CASE ForeignWrite
  <2>1. SessionPart'
    BY <1>0, <1>2 DEF ForeignWrite, SessionPart, Cursors, session
  <2> QED
    BY <1>0, <1>1, <1>2, <2>1, QueryStands DEF ForeignWrite, session
<1>3. CASE ServeWrite
  <2>1. SessionPart'
    <3>1. own' \in [asked : BOOLEAN, orphan : BOOLEAN, done : SUBSET Version]
      <4>1. CASE own' = [own EXCEPT !.asked = FALSE, !.done = @ \cup {version + 1}]
        BY <1>0, <1>1, <4>1 DEF SessionPart
      <4>2. CASE own' = [own EXCEPT !.orphan = FALSE]
        BY <1>0, <4>2 DEF SessionPart
      <4> QED
        BY <1>3, <4>1, <4>2 DEF ServeWrite
    <3> QED
      BY <1>0, <1>3, <3>1 DEF ServeWrite, SessionPart, Cursors
  <2> QED
    BY <1>0, <1>1, <1>3, <2>1, QueryStands DEF ServeWrite, Lapse
<1> QED
  BY <1>2, <1>3

\* A step of the query alone.
LEMMA SessionStands ==
    ASSUME QueryTyped, UNCHANGED <<clock, session>>, QueryPart', Awaited', lapses' \subseteq Lapse
    PROVE  QueryTyped'
BY DEF QueryTyped, SessionPart, Cursors, ServerPart, clock, session

\* A refresh of an entry that is there; nobody awaits it.
LEMMA RefreshTyped ==
    ASSUME QueryTyped, NEW e \in EntryType, e.there, Refreshing(e, auth, FALSE),
           timer' \in BOOLEAN, reading' \in [on : BOOLEAN, val : Value], cache' \in Value,
           run' = run
    PROVE  QueryPart' /\ Awaited'
<1>0. QueryPart /\ Awaited /\ auth \in BOOLEAN
  BY DEF QueryTyped, SessionPart
<1>1. /\ inflight' \in Seq(Refresh) /\ Len(inflight') <= MaxInFlight
      /\ entry' \in EntryType /\ entry'.there
      /\ \A i \in DOMAIN inflight' : inflight'[i].awaited =>
             i \in DOMAIN inflight /\ inflight[i].awaited
  BY <1>0, RefreshingQueue DEF QueryPart
<1>2. QueryPart'
  BY <1>1 DEF QueryPart
<1>3. Awaited'
  BY <1>0, <1>1 DEF Awaited
<1> QED
  BY <1>2, <1>3

\* The server answers the i-th refresh with the version it has.
LEMMA ServedQueue ==
    ASSUME inflight \in Seq(Refresh), version \in Value,
           NEW i \in DOMAIN inflight, ServeRefresh(i)
    PROVE  /\ inflight' \in Seq(Refresh) /\ Len(inflight') = Len(inflight)
           /\ DOMAIN inflight' = DOMAIN inflight
           /\ \A j \in DOMAIN inflight : j # i => inflight'[j] = inflight[j]
           /\ \A j \in DOMAIN inflight : inflight'[j].awaited = inflight[j].awaited
           /\ inflight'[i].val = version
<1> DEFINE r == [inflight[i] EXCEPT !.stage = "served", !.val = version]
<1>0. DOMAIN inflight = 1 .. Len(inflight) /\ inflight[i] \in Refresh
  BY QueueType
<1>1. r \in Refresh /\ r.val = version /\ r.awaited = inflight[i].awaited
  BY <1>0 DEF Refresh
<1>2. inflight' = [inflight EXCEPT ![i] = r]
  BY <1>0 DEF ServeRefresh
<1> HIDE DEF r
<1>3. /\ inflight' \in Seq(Refresh) /\ Len(inflight') = Len(inflight)
      /\ \A j \in 1 .. Len(inflight) : inflight'[j] = IF j = i THEN r ELSE inflight[j]
  BY <1>0, <1>1, <1>2, ExceptSeq
<1>4. DOMAIN inflight' = DOMAIN inflight
  BY <1>2
<1> QED
  BY <1>0, <1>1, <1>3, <1>4

\* A refresh goes on or ends.
LEMMA RefreshStepsTyped ==
    ASSUME QueryTyped, NEW i \in DOMAIN inflight,
           ServeRefresh(i) \/ TakeReply(i) \/ CacheRefuses(i) \/ RefreshFails(i)
    PROVE  QueryTyped'
<1> USE NumbersOfVersions
<1>0. QueryPart /\ Awaited /\ ServerPart /\ lapses \subseteq Lapse
  BY DEF QueryTyped
<1>q. /\ Len(inflight) \in Nat /\ DOMAIN inflight = 1 .. Len(inflight)
      /\ \A j \in DOMAIN inflight : inflight[j] \in Refresh
      /\ inflight # <<>> /\ entry.there
  BY <1>0, QueueType DEF QueryPart
<1>1. CASE ServeRefresh(i)
  <2>1. UNCHANGED <<clock, entry, timer, reading, cache, session, lapses>>
    BY <1>1 DEF ServeRefresh
  <2>2. /\ inflight' \in Seq(Refresh) /\ Len(inflight') = Len(inflight)
        /\ DOMAIN inflight' = DOMAIN inflight
        /\ \A j \in DOMAIN inflight : inflight'[j].awaited = inflight[j].awaited
    BY <1>0, <1>1, <1>q, ServedQueue DEF QueryPart, ServerPart
  <2>3. QueryPart'
    BY <1>0, <1>q, <2>1, <2>2 DEF QueryPart
  <2>4. Awaited'
    BY <1>0, <2>1, <2>2 DEF Awaited, session
  <2> QED
    BY <1>0, <2>1, <2>3, <2>4, SessionStands
<1>2. CASE TakeReply(i) \/ CacheRefuses(i) \/ RefreshFails(i)
  <2>1. inflight' = Ended(i) /\ UNCHANGED <<clock, timer, reading, session>>
        /\ lapses' \subseteq Lapse
    BY <1>0, <1>2 DEF TakeReply, CacheRefuses, RefreshFails, Lapse
  <2>2. /\ inflight' \in Seq(Refresh) /\ Len(inflight') = Len(inflight) - 1
        /\ DOMAIN inflight' = 1 .. Len(inflight) - 1
        /\ \A j \in 1 .. Len(inflight) - 1 :
               inflight'[j].awaited => \E l \in DOMAIN inflight : inflight[l].awaited
    <3>1. /\ Ended(i) \in Seq(Refresh)
          /\ Len(Ended(i)) = Len(inflight) - 1
          /\ \A j \in 1 .. Len(inflight) - 1 :
                 Ended(i)[j] = IF j < i THEN [inflight[j] EXCEPT !.passed = TRUE]
                               ELSE inflight[j + 1]
      BY <1>0, EndedQueue DEF QueryPart
    <3>2. DOMAIN Ended(i) = 1 .. Len(inflight) - 1
      BY <3>1, LenProperties
    <3>3. \A j \in 1 .. Len(inflight) - 1 :
              Ended(i)[j].awaited => inflight[j].awaited \/ inflight[j + 1].awaited
      <4> SUFFICES ASSUME NEW j \in 1 .. Len(inflight) - 1, Ended(i)[j].awaited
                   PROVE  inflight[j].awaited \/ inflight[j + 1].awaited
        OBVIOUS
      <4>1. CASE j < i
        <5>1. Ended(i)[j] = [inflight[j] EXCEPT !.passed = TRUE] /\ inflight[j] \in Refresh
          BY <1>q, <3>1, <4>1
        <5> QED
          BY <5>1 DEF Refresh
      <4>2. CASE ~(j < i)
        BY <3>1, <4>2
      <4> QED
        BY <4>1, <4>2
    <3>4. \A j \in 1 .. Len(inflight) - 1 : j \in DOMAIN inflight /\ j + 1 \in DOMAIN inflight
      BY <1>q
    <3> QED
      BY <2>1, <3>1, <3>2, <3>3, <3>4
  <2>3. inflight[i].val \in Value
    BY <1>q DEF Refresh
  <2>4. entry' \in EntryType /\ entry'.there /\ cache' \in Value
    BY <1>0, <1>2, <1>q, <2>3
       DEF QueryPart, EntryType, TakeReply, CacheRefuses, RefreshFails, Newest
  <2>5. Len(inflight') <= MaxInFlight
    BY <1>0, <1>q, <2>2, QueryBounds DEF QueryPart
  <2>7. QueryPart'
    BY <1>0, <2>1, <2>2, <2>4, <2>5 DEF QueryPart
  <2>6. Awaited'
    BY <1>0, <2>1, <2>2 DEF Awaited, session
  <2> QED
    BY <2>1, <2>6, <2>7, SessionStands
<1> QED
  BY <1>1, <1>2

\* A component opens the query, and what its cache answers.
LEMMA ReadStepsTyped ==
    ASSUME QueryTyped, Open \/ UseCached \/ MissCached \/ TimerFires
    PROVE  QueryTyped'
<1> USE NumbersOfVersions
<1>0. QueryPart /\ Awaited /\ lapses \subseteq Lapse
  BY DEF QueryTyped
<1>1. CASE Open
  <2>1. /\ entry' = FreshEntry /\ reading' = [on |-> TRUE, val |-> cache]
        /\ UNCHANGED <<clock, timer, inflight, cache, session>>
        /\ lapses' \subseteq Lapse
    BY <1>0, <1>1 DEF Open, Lapse
  <2>2. FreshEntry \in EntryType /\ FreshEntry.there
    BY DEF FreshEntry, NoEntry, EntryType
  <2>3. QueryPart'
    BY <1>0, <2>1, <2>2 DEF QueryPart
  <2> QED
    BY <1>0, <2>1, <2>3, SessionStands DEF Awaited, session
<1>2. CASE UseCached
  <2>1. /\ reading.on /\ reading' = NotReading
        /\ entry' = [entry EXCEPT !.value = reading.val, !.loaded = TRUE]
        /\ UNCHANGED <<clock, timer, inflight, cache, session>>
        /\ lapses' \subseteq Lapse
    BY <1>0, <1>2 DEF UseCached, Lapse
  <2>2. entry' \in EntryType /\ entry'.there
    BY <1>0, <2>1 DEF QueryPart, EntryType
  <2>3. NotReading \in [on : BOOLEAN, val : Value]
    BY DEF NotReading
  <2>4. QueryPart'
    BY <1>0, <2>1, <2>2, <2>3 DEF QueryPart
  <2> QED
    BY <1>0, <2>1, <2>4, SessionStands DEF Awaited, session
<1>3. CASE MissCached
  <2>1. /\ reading.on /\ reading' = NotReading
        /\ Refreshing(entry, auth, FALSE) \/ UNCHANGED <<entry, inflight>>
        /\ UNCHANGED <<clock, timer, cache, session, lapses>>
    BY <1>3 DEF MissCached
  <2>2. /\ entry \in EntryType /\ entry.there /\ timer \in BOOLEAN /\ cache \in Value
        /\ NotReading \in [on : BOOLEAN, val : Value]
    BY <1>0, <2>1 DEF QueryPart, NotReading
  <2>3. CASE Refreshing(entry, auth, FALSE)
    BY <1>0, <2>1, <2>2, <2>3, RefreshTyped, SessionStands DEF session
  <2>4. CASE UNCHANGED <<entry, inflight>>
    <3>1. QueryPart' /\ Awaited'
      BY <1>0, <2>1, <2>2, <2>4 DEF QueryPart, Awaited, session
    <3> QED
      BY <1>0, <2>1, <3>1, SessionStands
  <2> QED
    BY <2>1, <2>3, <2>4
<1>4. CASE TimerFires
  <2>1. /\ timer /\ timer' = FALSE /\ Refreshing(entry, auth, FALSE)
        /\ UNCHANGED <<clock, reading, cache, session, lapses>>
    BY <1>4 DEF TimerFires
  <2>2. /\ entry \in EntryType /\ entry.there /\ cache \in Value
        /\ reading \in [on : BOOLEAN, val : Value]
    BY <1>0, <2>1 DEF QueryPart
  <2> QED
    BY <1>0, <2>1, <2>2, RefreshTyped, SessionStands DEF session
<1> QED
  BY <1>1, <1>2, <1>3, <1>4

\* What drops the entry's data and refreshes it, if it is there.
LEMMA RetryTyped ==
    ASSUME QueryTyped, NEW e \in EntryType, e.there <=> entry.there,
           ~entry.there => e = entry,
           NEW signedIn \in BOOLEAN, NEW awaited \in BOOLEAN,
           RetryUnloaded(e, signedIn, awaited),
           timer' \in BOOLEAN, timer' => timer, UNCHANGED reading, cache' \in Value,
           \/ awaited \/ run'.stage = "retrying"
           \/ \A i \in DOMAIN inflight : ~inflight[i].awaited,
           awaited => run'.stage = "retrying"
    PROVE  QueryPart' /\ Awaited'
<1>0. QueryPart
  BY DEF QueryTyped
<1>1. CASE e.there /\ ~e.loaded
  <2>1. Refreshing(e, signedIn, awaited)
    BY <1>1 DEF RetryUnloaded
  <2>2. /\ inflight' \in Seq(Refresh) /\ Len(inflight') <= MaxInFlight
        /\ entry' \in EntryType /\ entry'.there
        /\ \A i \in DOMAIN inflight' : inflight'[i].awaited =>
               awaited \/ (i \in DOMAIN inflight /\ inflight[i].awaited)
    BY <1>0, <1>1, <2>1, RefreshingQueue DEF QueryPart
  <2>3. QueryPart'
    BY <1>0, <2>2 DEF QueryPart
  <2>4. Awaited'
    BY <2>2 DEF Awaited
  <2> QED
    BY <2>3, <2>4
<1>2. CASE ~(e.there /\ ~e.loaded)
  <2>1. entry' = e /\ UNCHANGED inflight
    BY <1>2 DEF RetryUnloaded
  <2>4. ~entry'.there => entry' = NoEntry /\ ~timer' /\ inflight' = <<>> /\ ~reading'.on
    BY <1>0, <2>1 DEF QueryPart
  <2>2. QueryPart'
    BY <1>0, <2>1, <2>4 DEF QueryPart
  <2>3. Awaited'
    BY <2>1 DEF Awaited
  <2> QED
    BY <2>2, <2>3
<1> QED
  BY <1>1, <1>2

\* An entry that is told of a version, or emptied, is an entry.
LEMMA ToldEntryType ==
    ASSUME entry \in EntryType, ~entry.there => entry = NoEntry, NEW v \in Value
    PROVE  /\ [entry EXCEPT !.loaded = FALSE, !.known = Newest(@, v)] \in EntryType
           /\ Cleared(v) \in EntryType /\ (Cleared(v).there <=> entry.there)
           /\ ~entry.there => Cleared(v) = entry
           /\ ~Cleared(v).loaded
           /\ entry.there => Cleared(v).known = Newest(entry.known, v)
<1>1. Newest(entry.known, v) \in Value
  BY DEF EntryType, Newest
<1>2. [entry EXCEPT !.loaded = FALSE, !.known = Newest(@, v)] \in EntryType
  BY <1>1 DEF EntryType
<1>3. CASE entry.there
  BY <1>1, <1>2, <1>3, NumbersOfVersions DEF EntryType, Cleared, FreshEntry, NoEntry
<1>4. CASE ~entry.there
  <2>1. Cleared(v) = entry /\ entry = NoEntry
    BY <1>4 DEF Cleared
  <2> QED
    BY <1>2, <1>4, <2>1 DEF NoEntry
<1> QED
  BY <1>3, <1>4

LEMMA ScheduledTyped ==
    ASSUME QueryPart, NEW v \in Value, Scheduled(v), UNCHANGED <<inflight, reading, cache>>
    PROVE  QueryPart'
<1>1. /\ entry \in EntryType /\ (~entry.there => entry = NoEntry)
      /\ entry' = IF entry.there
                  THEN [entry EXCEPT !.loaded = FALSE, !.known = Newest(@, v)] ELSE entry
      /\ timer' = entry.there
  BY DEF Scheduled, QueryPart
<1>2. entry' \in EntryType /\ entry'.there = entry.there /\ timer' \in BOOLEAN
  BY <1>1, ToldEntryType DEF EntryType
<1> QED
  BY <1>1, <1>2 DEF QueryPart

\* The steps that tell the query of changes.
LEMMA TellingStepsTyped ==
    ASSUME QueryTyped,
           RunSucceeds \/ WriteReplies \/ ClearForReset \/ FinishLogin \/ RetryAfterSignIn
    PROVE  QueryTyped'
<1> USE NumbersOfVersions
<1>0. QueryPart /\ SessionPart /\ ServerPart /\ Awaited /\ lapses \subseteq Lapse
  BY DEF QueryTyped
<1>e. /\ entry \in EntryType /\ (~entry.there => entry = NoEntry)
      /\ run \in RunType /\ login.to \in Value /\ auth \in BOOLEAN
      /\ timer \in BOOLEAN /\ cache \in Value
  BY <1>0 DEF QueryPart, SessionPart
<1>1. CASE RunSucceeds
  <2>1. /\ UNCHANGED <<clock, inflight, reading, cache, auth, login, own, lapses>>
        /\ Scheduled(run.to) \/ UNCHANGED <<entry, timer>>
        /\ time1' = run.to /\ stored' = run.to /\ run' = Idle
        /\ run.stage = "window"
        /\ retry' = IF retry = "afterSync" THEN "due" ELSE retry
    BY <1>1 DEF RunSucceeds, MoveCursor
  <2>2. SessionPart'
    BY <1>0, <2>1 DEF SessionPart, Cursors, RunType, Idle
  <2>3. run.to \in Value
    BY <1>e DEF RunType
  <2>4. QueryPart'
    <3>1. CASE Scheduled(run.to)
      BY <1>0, <2>1, <2>3, <3>1, ScheduledTyped
    <3>2. CASE UNCHANGED <<entry, timer>>
      BY <1>0, <2>1, <3>2 DEF QueryPart
    <3> QED
      BY <2>1, <3>1, <3>2
  <2>5. Awaited'
    BY <1>0, <2>1 DEF Awaited
  <2>6. ServerPart'
    BY <1>0, <2>1 DEF ServerPart, clock
  <2> QED
    BY <1>0, <2>1, <2>2, <2>4, <2>5, <2>6 DEF QueryTyped
<1>2. CASE WriteReplies
  <2>1. PICK u \in own.done : Scheduled(u) /\ own' = [own EXCEPT !.done = @ \ {u}]
    BY <1>2 DEF WriteReplies
  <2>a. /\ UNCHANGED <<clock, inflight, reading, cache, auth, run, login, retry, time1,
                       stored, lapses>>
        /\ u \in Value
    BY <1>0, <1>2 DEF WriteReplies, SessionPart
  <2>2. SessionPart'
    BY <1>0, <2>1, <2>a DEF SessionPart, Cursors
  <2>3. QueryPart'
    BY <1>0, <1>e, <2>1, <2>a, ScheduledTyped
  <2>4. Awaited' /\ ServerPart'
    BY <1>0, <2>a DEF Awaited, ServerPart, clock
  <2> QED
    BY <1>0, <2>a, <2>2, <2>3, <2>4 DEF QueryTyped
<1>3. CASE ClearForReset
  <2>1. /\ run.stage = "clearing" /\ cache' = None /\ time1' = run.to /\ timer' = FALSE
        /\ RetryUnloaded(Cleared(run.to), auth, TRUE)
        /\ run' = [run EXCEPT !.stage = "retrying"]
        /\ UNCHANGED <<clock, reading, auth, login, retry, own, stored, lapses>>
    BY <1>3 DEF ClearForReset
  <2>2. run' \in RunType /\ run'.stage = "retrying" /\ run'.from = run.from
    BY <1>e, <2>1 DEF RunType
  <2>3. SessionPart'
    BY <1>0, <2>1, <2>2 DEF SessionPart, Cursors
  <2>4. run.to \in Value
    BY <1>e DEF RunType
  <2>5. QueryPart' /\ Awaited'
    BY <1>e, <2>1, <2>2, <2>4, ToldEntryType, RetryTyped
  <2>6. ServerPart'
    BY <1>0, <2>1 DEF ServerPart, clock
  <2> QED
    BY <1>0, <2>1, <2>3, <2>5, <2>6 DEF QueryTyped
<1>4. CASE FinishLogin
  <2>1. /\ login.stage = "clearing" /\ cache' = None /\ time1' = login.to /\ timer' = FALSE
        /\ auth' = TRUE /\ login' = NoLogin
        /\ RetryUnloaded(Cleared(login.to), TRUE, FALSE)
        /\ UNCHANGED <<clock, reading, run, retry, own, stored, lapses>>
    BY <1>4 DEF FinishLogin
  <2>2. SessionPart'
    BY <1>0, <2>1 DEF SessionPart, Cursors, NoLogin
  <2>3. QueryPart' /\ Awaited'
    BY <1>0, <1>e, <2>1, ToldEntryType, RetryTyped DEF Awaited
  <2>4. ServerPart'
    BY <1>0, <2>1 DEF ServerPart, clock
  <2> QED
    BY <1>0, <2>1, <2>2, <2>3, <2>4 DEF QueryTyped
<1>5. CASE RetryAfterSignIn
  <2>1. /\ RetryUnloaded(entry, auth, FALSE) /\ retry' = "none"
        /\ UNCHANGED <<clock, timer, reading, cache, auth, run, login, own, time1, stored,
                       lapses>>
    BY <1>5 DEF RetryAfterSignIn
  <2>2. SessionPart'
    BY <1>0, <2>1 DEF SessionPart, Cursors
  <2>3. QueryPart' /\ Awaited'
    BY <1>0, <1>e, <2>1, RetryTyped DEF Awaited
  <2>4. ServerPart'
    BY <1>0, <2>1 DEF ServerPart, clock
  <2> QED
    BY <1>0, <2>1, <2>2, <2>3, <2>4 DEF QueryTyped
<1> QED
  BY <1>1, <1>2, <1>3, <1>4, <1>5

\* The connection is lost, or the page is reloaded.
LEMMA LosingStepsTyped ==
    ASSUME QueryTyped, Disconnect \/ Reload
    PROVE  QueryTyped'
<1> USE NumbersOfVersions
<1>0. QueryPart /\ SessionPart /\ ServerPart /\ Awaited /\ lapses \subseteq Lapse
  BY DEF QueryTyped
<1>1. CASE Disconnect
  <2>1. /\ inflight' = [i \in DOMAIN inflight |->
                            [inflight[i] EXCEPT !.stage = "lost", !.val = None]]
        /\ auth' = FALSE
        /\ run' = IF run.stage \in {"asked", "window", "reset"}
                  THEN [run EXCEPT !.stage = "lost", !.to = None, !.more = FALSE] ELSE run
        /\ lapses' \subseteq Lapse
        /\ UNCHANGED <<clock, entry, timer, reading, cache, login, retry, time1, stored>>
    BY <1>0, <1>1 DEF Disconnect, Lapse
  <2>o. own' \in [asked : BOOLEAN, orphan : BOOLEAN, done : SUBSET Version]
    <3>1. PICK arrived \in SUBSET own.done : own' = [Orphaned EXCEPT !.done = arrived]
      BY <1>1 DEF Disconnect
    <3> QED
      BY <1>0, <3>1 DEF SessionPart, Orphaned, NoWrite
  <2>2. /\ Len(inflight) \in Nat /\ DOMAIN inflight = 1 .. Len(inflight)
        /\ \A j \in DOMAIN inflight : inflight[j] \in Refresh
    BY <1>0, QueueType DEF QueryPart
  <2>3. \A i \in 1 .. Len(inflight) : inflight'[i] \in Refresh
                                      /\ inflight'[i].awaited = inflight[i].awaited
    BY <2>1, <2>2 DEF Refresh
  <2>4. /\ inflight' \in Seq(Refresh) /\ Len(inflight') = Len(inflight)
        /\ DOMAIN inflight' = 1 .. Len(inflight)
    <3>1. inflight' = [i \in 1 .. Len(inflight) |->
                          [inflight[i] EXCEPT !.stage = "lost", !.val = None]]
      BY <2>1, <2>2
    <3>2. inflight' = [i \in 1 .. Len(inflight) |-> inflight'[i]]
      BY <3>1
    <3> QED
      BY <2>2, <2>3, <3>2, QueueOf
  <2>5. inflight = <<>> => inflight' = <<>>
    BY <2>4, EmptySeq
  <2>6. QueryPart'
    BY <1>0, <2>1, <2>4, <2>5 DEF QueryPart
  <2>7. SessionPart'
    <3>1. /\ run' \in RunType
          /\ run'.from = run.from
          /\ run' = run \/ run'.stage = "lost"
          /\ run'.stage = "idle" => run' = run
      BY <1>0, <2>1 DEF SessionPart, RunType
    <3>2. Cursors'
      <4>1. run.stage # "idle" <=> run'.stage # "idle"
        BY <1>0, <2>1 DEF SessionPart, RunType
      <4> QED
        BY <1>0, <2>1, <3>1, <4>1 DEF SessionPart, Cursors, Idle
    <3> QED
      BY <1>0, <2>1, <2>o, <3>1, <3>2 DEF SessionPart
  <2>8. Awaited' /\ ServerPart'
    <3>1. run.stage = "retrying" => run' = run
      BY <2>1
    <3> QED
      BY <1>0, <2>1, <2>2, <2>3, <2>4, <3>1 DEF Awaited, ServerPart, clock
  <2> QED
    BY <2>1, <2>6, <2>7, <2>8 DEF QueryTyped
<1>2. CASE Reload
  <2>1. /\ entry' = NoEntry /\ timer' = FALSE /\ inflight' = <<>> /\ reading' = NotReading
        /\ run' = Idle /\ login' = NoLogin /\ retry' = "none" /\ auth' = FALSE
        /\ time1' = stored
        /\ own' = Orphaned
        /\ lapses' \subseteq Lapse
        /\ UNCHANGED <<clock, cache, stored>>
    BY <1>0, <1>2 DEF Reload, Lapse
  <2>2. /\ inflight' \in Seq(Refresh) /\ Len(inflight') = 0 /\ 0 <= MaxInFlight
        /\ DOMAIN inflight' = {}
    BY <2>1, EmptySeq, QueryBounds
  <2>3. /\ entry' \in EntryType /\ reading' \in [on : BOOLEAN, val : Value] /\ ~reading'.on
    BY <2>1 DEF NoEntry, NotReading, EntryType
  <2>4. QueryPart'
    BY <1>0, <2>1, <2>2, <2>3 DEF QueryPart
  <2>5. SessionPart'
    BY <1>0, <2>1 DEF SessionPart, Cursors, RunType, Idle, NoLogin, NoWrite, Orphaned
  <2>6. Awaited' /\ ServerPart'
    BY <1>0, <2>1, <2>2 DEF Awaited, ServerPart, clock
  <2> QED
    BY <2>1, <2>4, <2>5, <2>6 DEF QueryTyped
<1> QED
  BY <1>1, <1>2

LEMMA QueryTypedStep == QueryTyped /\ [Next]_vars => QueryTyped'
<1> SUFFICES ASSUME QueryTyped, [Next]_vars PROVE QueryTyped'
  OBVIOUS
<1>1. CASE UNCHANGED vars
  BY <1>1 DEF vars, QueryTyped, QueryPart, SessionPart, Cursors, ServerPart, Awaited
<1> QED
  BY <1>1, RunStepsTyped, CommitsTyped, RefreshStepsTyped, ReadStepsTyped,
     TellingStepsTyped, LosingStepsTyped DEF Next

LEMMA TypedMeansTypeOK == QueryTyped => QueryTypeOK
BY DEF QueryTyped, QueryPart, SessionPart, ServerPart, Awaited, EntryType, RunType, QueryTypeOK

-----------------------------------------------------------------------------
(* What is good stays good, or is known to be old.                         *)

\* A value that was good still is, in the eyes of the lapses.
Kept == lapses' = {} => lapses = {} /\ \A v \in Value : Good(v) => Good(v)'

LEMMA StandsGood ==
    ASSUME QueryInv, QueryTyped', UNCHANGED query, version <= version',
           CursorsBehind', Cold', Kept
    PROVE  QueryInv'
<1> USE NumbersOfVersions
<1>0. /\ QueryPart /\ version \in Nat /\ version' \in Nat
      /\ ShownBehind /\ RepliesBehind
  BY DEF QueryInv, QueryTyped, ServerPart
<1>1. ShownBehind'
  <2>1. entry.value \in Nat /\ cache \in Nat /\ reading.val \in Nat
    BY <1>0 DEF QueryPart, EntryType
  <2> QED
    BY <1>0, <2>1 DEF ShownBehind, query
<1>2. RepliesBehind'
  <2>1. \A i \in DOMAIN inflight : inflight[i].val \in Nat
    BY <1>0, QueueType DEF QueryPart, Refresh
  <2> QED
    BY <1>0, <2>1 DEF RepliesBehind, query
<1>3. ASSUME lapses' = {} PROVE AllGood'
  <2>1. AllGood /\ \A v \in Value : Good(v) => Good(v)'
    BY <1>3 DEF Kept, QueryInv
  <2>2. CachedGood' /\ ShownGood'
    BY <2>1 DEF AllGood, CachedGood, ShownGood, query
  <2>3. LastGood'
    BY <2>1 DEF AllGood, LastGood, Answers, query
  <2> QED
    BY <2>2, <2>3 DEF AllGood
<1> QED
  BY <1>1, <1>2, <1>3 DEF QueryInv

\* A value that is good when a window comes, and not after it, is announced by it.
LEMMA WindowGood ==
    ASSUME QueryInv, run.stage = "window", NEW v \in Value, Good(v)
    PROVE  \/ Changed /\ v < run.to
           \/ \E u \in own.done : v < u
           \/ \A w \in v + 1 .. version : w \notin mine /\ w > run.to
<1> USE NumbersOfVersions
<1>0. /\ CursorsBehind /\ version \in Nat /\ run.from \in Nat /\ run.to \in Nat
      /\ run.from <= run.to
  BY DEF QueryInv, QueryTyped, SessionPart, ServerPart, RunType, Cursors
<1>1. CASE run.changed /\ v < run.from
  BY <1>0, <1>1 DEF Changed
<1>2. CASE Fresh(v)
  <2>1. CASE v < run.to
    <3>1. run.to \in v + 1 .. version
      BY <1>0, <2>1 DEF CursorsBehind
    <3>2. run.to \notin mine /\ run.from < run.to
      BY <1>0, <1>2, <3>1 DEF Fresh, Underway
    <3> QED
      BY <1>0, <2>1, <3>2 DEF Changed, Returned
  <2>2. CASE run.to <= v
    BY <1>0, <1>2, <2>2 DEF Fresh
  <2> QED
    BY <1>0, <2>1, <2>2
<1> QED
  BY <1>1, <1>2 DEF Good

\* The steps of the session that leave the query alone.
LEMMA RunStepsGood ==
    ASSUME QueryInv, QueryTyped',
           SyncNow \/ ServeWindow \/ NextWindow \/ ServeReset \/ BeginReset \/ GoOn
           \/ RunFails \/ SignIn \/ BeginLogin \/ LoginFails \/ StartWrite \/ WriteFails
           \/ ReplyUnannounced
    PROVE  QueryInv'
<1> USE NumbersOfVersions
<1>0. /\ SessionPart /\ ServerPart /\ CursorsBehind /\ Cold
      /\ time1 \in Nat /\ version \in Nat /\ run \in RunType
      /\ run.from \in Nat /\ run.to \in Nat
  BY DEF QueryInv, QueryTyped, SessionPart, ServerPart, RunType
<1>c. Cursors
  BY <1>0 DEF SessionPart
<1>1. UNCHANGED <<clock, query>>
  BY DEF SyncNow, ServeWindow, NextWindow, ServeReset, BeginReset, GoOn, RunFails,
         SignIn, BeginLogin, LoginFails, StartWrite, WriteFails, ReplyUnannounced
<1>v. version' = version /\ mine' = mine /\ version <= version'
  BY <1>0, <1>1 DEF clock
<1>g. \A v \in Value : v \in Nat
  OBVIOUS
<1> SUFFICES CursorsBehind' /\ Cold' /\ Kept
  BY <1>1, <1>v, StandsGood
<1>2. CASE SyncNow \/ SignIn
  <2>1. /\ UNCHANGED <<login, own, time1, stored, lapses>>
        /\ \/ run' = run
           \/ run.stage = "idle" /\ run'.stage \in {"asked", "lost"} /\ run'.from = time1
              /\ run'.to = None /\ ~run'.changed
    BY <1>2 DEF SyncNow, SignIn, Asking, Idle
  <2>2. CASE run' = run
    BY <1>0, <1>1, <1>v, <2>1, <2>2
       DEF CursorsBehind, Cold, Kept, Good, Fresh, Underway, query
  <2>3. CASE run' # run
    <3>1. run = Idle /\ run'.from = time1 /\ run'.to = None
      BY <1>c, <2>1, <2>3 DEF Cursors
    <3>2. CursorsBehind' /\ Cold'
      BY <1>0, <1>1, <1>v, <2>1, <3>1 DEF CursorsBehind, Cold, query
    <3>3. ASSUME NEW v \in Value, Good(v) PROVE Good(v)'
      <4>1. ~run.changed
        BY <3>1 DEF Idle
      <4> QED
        BY <1>0, <1>v, <2>1, <3>1, <3>3, <4>1 DEF Good, Fresh, Underway
    <3> QED
      BY <2>1, <3>2, <3>3 DEF Kept
  <2> QED
    BY <2>2, <2>3
<1>3. CASE ServeWindow
  <2>1. PICK to \in run.from .. version, more \in BOOLEAN :
            run' = [run EXCEPT !.stage = "window", !.to = to, !.more = more]
    BY <1>3 DEF ServeWindow
  <2>3. to <= version
    BY <1>0, <2>1
  <2>4. /\ run'.stage = "window" /\ run'.to = to
        /\ run'.from = run.from /\ run'.changed = run.changed
    BY <1>0, <2>1 DEF RunType
  <2>2. /\ run'.stage = "window" /\ run'.to = to /\ to <= version
        /\ run'.from = run.from /\ run'.changed = run.changed
        /\ run.stage = "asked" /\ UNCHANGED <<login, own, time1, stored, lapses>>
    BY <1>3, <2>3, <2>4 DEF ServeWindow
  <2> QED
    BY <1>0, <1>1, <1>v, <2>2 DEF CursorsBehind, Cold, Kept, Good, Fresh, Underway, query
<1>4. CASE NextWindow
  <2>1. /\ run.stage = "window" /\ time1' = run.to /\ stored' = run.to
        /\ run' = Asking(run.to, Changed)
        /\ UNCHANGED <<login, own, lapses>>
    BY <1>4 DEF NextWindow, MoveCursor
  <2>2. /\ run'.stage \in {"asked", "lost"} /\ run'.from = run.to /\ run'.to = None
        /\ run'.changed = Changed
    BY <2>1 DEF Asking, Idle
  <2>3. CursorsBehind' /\ Cold'
    BY <1>0, <1>1, <1>v, <2>1, <2>2 DEF CursorsBehind, Cold, query
  <2>4. ASSUME NEW v \in Value, Good(v) PROVE Good(v)'
    BY <1>v, <2>1, <2>2, <2>4, WindowGood DEF Good, Fresh
  <2> QED
    BY <2>1, <2>3, <2>4 DEF Kept
<1>5. CASE ServeReset \/ BeginReset
  <2>1. /\ run.stage \in {"asked", "reset"} /\ run'.stage \in {"reset", "clearing"}
        /\ run'.from = run.from /\ run'.to \in {run.to, version}
        /\ run'.changed = run.changed
        /\ stored' \in {stored, run.to} /\ UNCHANGED <<login, own, time1, lapses>>
    BY <1>0, <1>5 DEF ServeReset, BeginReset, RunType
  <2> QED
    BY <1>0, <1>1, <1>v, <2>1 DEF CursorsBehind, Cold, Kept, Good, Fresh, Underway, query
<1>6. CASE GoOn
  <2>1. /\ run.stage = "retrying" /\ run'.from = time1 /\ run'.to = None
        /\ UNCHANGED <<login, own, time1, stored, lapses>>
    BY <1>6 DEF GoOn, Asking, Idle
  <2>2. CursorsBehind' /\ Cold'
    BY <1>0, <1>1, <1>v, <2>1 DEF CursorsBehind, Cold, query
  <2>3. ASSUME NEW v \in Value, Good(v) PROVE Good(v)'
    BY <1>0, <1>v, <2>1, <2>3 DEF Good, Fresh, Underway
  <2> QED
    BY <2>1, <2>2, <2>3 DEF Kept
<1>7. CASE RunFails
  <2>1. /\ run' = Idle /\ UNCHANGED <<login, own, time1, stored>>
        /\ lapses' = lapses \cup (IF run.changed THEN {"abandonedRun"} ELSE {})
    BY <1>7 DEF RunFails
  <2>2. CursorsBehind' /\ Cold'
    BY <1>0, <1>1, <1>v, <2>1 DEF CursorsBehind, Cold, Idle, Underway, query
  <2>3. ASSUME lapses' = {}, NEW v \in Value, Good(v) PROVE Good(v)'
    BY <1>0, <1>v, <2>1, <2>3 DEF Good, Fresh, Underway, Idle
  <2> QED
    BY <2>1, <2>2, <2>3 DEF Kept
<1>8. CASE BeginLogin
  <2>1. /\ login'.to = version /\ stored' = version
        /\ UNCHANGED <<run, own, time1, lapses>>
    BY <1>8 DEF BeginLogin
  <2> QED
    BY <1>0, <1>1, <1>v, <2>1 DEF CursorsBehind, Cold, Kept, Good, Fresh, Underway, query
<1>9. CASE StartWrite \/ WriteFails \/ ReplyUnannounced
  <2>1. /\ lapses' = lapses \/ lapses' # {}
        /\ UNCHANGED <<run, login, time1, stored>>
    BY <1>0, <1>9 DEF StartWrite, WriteFails, ReplyUnannounced, SessionPart
  <2>2. CursorsBehind' /\ Cold'
    BY <1>0, <1>1, <1>v, <2>1 DEF CursorsBehind, Cold, Underway, query
  <2>3. Kept
    <3>1. own'.done = own.done \/ lapses' # {}
      BY <1>0, <1>9 DEF StartWrite, WriteFails, ReplyUnannounced, SessionPart
    <3> QED
      BY <1>v, <2>1, <3>1 DEF Kept, Good, Fresh, Underway
  <2> QED
    BY <2>2, <2>3
<1>10. CASE LoginFails
  <2>1. /\ login' = NoLogin /\ UNCHANGED <<run, own, time1, stored, lapses>>
    BY <1>10 DEF LoginFails
  <2> QED
    BY <1>0, <1>1, <1>v, <2>1
       DEF CursorsBehind, Cold, Kept, Good, Fresh, Underway, NoLogin, query
<1> QED
  BY <1>2, <1>3, <1>4, <1>5, <1>6, <1>7, <1>8, <1>9, <1>10

\* A write of another session will be told of by a sync, one of this tab by its reply.
LEMMA CommitsGood ==
    ASSUME QueryInv, QueryTyped', ForeignWrite \/ ServeWrite
    PROVE  QueryInv'
<1> USE NumbersOfVersions
<1>0. /\ SessionPart /\ ServerPart /\ CursorsBehind /\ Cold
      /\ time1 \in Nat /\ stored \in Nat /\ version \in Nat /\ run \in RunType
      /\ run.from \in Nat /\ run.to \in Nat /\ login.to \in Nat
  BY DEF QueryInv, QueryTyped, SessionPart, ServerPart, RunType
<1>1. /\ version' = version + 1
      /\ UNCHANGED <<query, run, login, time1, stored>>
      /\ \/ mine' = mine /\ UNCHANGED <<own, lapses>>
         \/ mine' = mine \cup {version + 1}
            /\ \/ version + 1 \in own'.done /\ lapses' = lapses
               \/ lapses' # {}
  BY <1>0 DEF ForeignWrite, ServeWrite, Commit, session, SessionPart
<1>2. CursorsBehind'
  <2>1. mine' \subseteq 1 .. version + 1
    <3> SUFFICES ASSUME NEW w \in mine' PROVE w \in 1 .. version + 1
      OBVIOUS
    <3>1. CASE w \in mine
      BY <1>0, <3>1 DEF CursorsBehind
    <3>2. CASE w = version + 1
      BY <1>0, <3>2
    <3> QED
      BY <1>1, <3>1, <3>2
  <2> QED
    BY <1>0, <1>1, <2>1 DEF CursorsBehind
<1>3. Cold'
  BY <1>0, <1>1 DEF Cold, Underway, query
<1>4. ASSUME lapses' = {}, NEW v \in Value, Good(v), v <= version PROVE Good(v)'
  <2>1. CASE mine' = mine /\ UNCHANGED own
    <3>1. CASE Fresh(v)
      <4>1. version + 1 \notin mine /\ version + 1 > time1 /\ version + 1 > run.from
        BY <1>0 DEF CursorsBehind
      <4>2. \A w \in v + 1 .. version + 1 : w = version + 1 \/ w \in v + 1 .. version
        BY <1>0
      <4>3. Fresh(v)'
        BY <1>1, <2>1, <3>1, <4>1, <4>2 DEF Fresh, Underway
      <4> QED
        BY <4>3 DEF Good
    <3>2. CASE ~Fresh(v)
      BY <1>1, <1>4, <2>1, <3>2 DEF Good
    <3> QED
      BY <3>1, <3>2
  <2>2. CASE version + 1 \in own'.done
    BY <1>0, <1>4, <2>2 DEF Good
  <2> QED
    BY <1>1, <1>4, <2>1, <2>2
<1>5. ASSUME lapses' = {} PROVE AllGood'
  <2>1. lapses = {}
    BY <1>1, <1>5
  <2>2. AllGood /\ ShownBehind /\ RepliesBehind /\ QueryPart
    BY <2>1 DEF QueryInv, QueryTyped
  <2>3. CachedGood'
    <3>1. ASSUME NEW v \in Version, reading.on, reading.val = v
          PROVE  (Good(v)' \/ v < entry.known) /\ (cache \in {None, v} \/ v < entry.known)
      BY <1>4, <1>5, <2>2, <3>1 DEF AllGood, CachedGood, ShownBehind
    <3> QED
      BY <1>1, <3>1 DEF CachedGood, query
  <2>4. ShownGood'
    <3>1. ASSUME NEW v \in Value, entry.loaded, entry.value = v
          PROVE  timer \/ inflight # <<>> \/ (Good(v)' /\ cache \in {None, v})
      BY <1>4, <1>5, <2>2, <3>1 DEF AllGood, ShownGood, ShownBehind
    <3> QED
      BY <1>1, <3>1 DEF ShownGood, query
  <2>5. LastGood'
    <3>1. ASSUME NEW v \in Value, Answers(v) PROVE timer \/ Good(v)'
      <4>1. v <= version
        BY <2>2, <3>1, QueueType DEF Answers, RepliesBehind, QueryPart
      <4> QED
        BY <1>4, <1>5, <2>2, <3>1, <4>1 DEF AllGood, LastGood
    <3> QED
      BY <1>1, <3>1 DEF LastGood, Answers, query
  <2> QED
    BY <2>3, <2>4, <2>5 DEF AllGood
<1>6. ShownBehind' /\ RepliesBehind'
  <2>1. QueryPart /\ ShownBehind /\ RepliesBehind
    BY DEF QueryInv, QueryTyped
  <2>2. ShownBehind'
    <3>1. entry.value \in Nat /\ cache \in Nat /\ reading.val \in Nat
      BY <2>1 DEF QueryPart, EntryType
    <3> QED
      BY <1>0, <1>1, <2>1, <3>1 DEF ShownBehind, query
  <2>3. \A i \in DOMAIN inflight : inflight[i].val \in Nat
    BY <2>1, QueueType DEF QueryPart, Refresh
  <2>4. RepliesBehind'
    BY <1>0, <1>1, <2>1, <2>3 DEF RepliesBehind, query
  <2> QED
    BY <2>2, <2>4
<1> QED
  BY <1>2, <1>3, <1>5, <1>6 DEF QueryInv

\* A refresh of an entry: the last one under way has no answer yet, or all are
\* passed by and nothing is loaded.
LEMMA RefreshGood ==
    ASSUME QueryPart, RepliesBehind, version' = version,
           NEW e \in EntryType, NEW signedIn \in BOOLEAN, NEW awaited \in BOOLEAN,
           Refreshing(e, signedIn, awaited),
           reading'.on => reading' = reading
    PROVE  /\ RepliesBehind' /\ LastGood' /\ ShownGood'
           /\ entry'.there = e.there /\ entry'.value = e.value /\ entry'.known = e.known
<1>1. /\ inflight' \in Seq(Refresh)
      /\ entry'.there = e.there /\ entry'.value = e.value /\ entry'.known = e.known
      /\ \/ inflight'[Len(inflight')].stage = "asked" /\ inflight' # <<>>
         \/ ~entry'.loaded /\ \A i \in DOMAIN inflight' : inflight'[i].passed
      /\ \A i \in DOMAIN inflight' : inflight'[i].stage = "served" =>
             /\ i \in DOMAIN inflight /\ inflight[i].stage = "served"
             /\ inflight'[i].val = inflight[i].val
  BY RefreshingQueue DEF QueryPart
<1>2. RepliesBehind'
  BY <1>1 DEF RepliesBehind
<1>3. inflight' # <<>> => Len(inflight') \in DOMAIN inflight'
  BY <1>1, LenProperties, EmptySeq
<1>4. LastGood'
  BY <1>1, <1>3 DEF LastGood, Answers
<1>5. ShownGood'
  BY <1>1 DEF ShownGood
<1> QED
  BY <1>1, <1>2, <1>4, <1>5

\* A step of the query alone moves no cursor.
LEMMA GoodStands ==
    ASSUME QueryInv, UNCHANGED <<clock, session>>
    PROVE  /\ CursorsBehind' /\ version' = version
           /\ \A v \in Value : Good(v)' <=> Good(v)
BY DEF QueryInv, CursorsBehind, clock, session, Good, Fresh, Underway

\* A refresh that goes on or ends.
LEMMA RefreshStepsGood ==
    ASSUME QueryInv, QueryTyped', NEW i \in DOMAIN inflight,
           ServeRefresh(i) \/ TakeReply(i) \/ CacheRefuses(i) \/ RefreshFails(i)
    PROVE  QueryInv'
<1> USE NumbersOfVersions
<1> DEFINE n == Len(inflight)
<1>0. QueryPart /\ ServerPart /\ ShownBehind /\ RepliesBehind /\ version \in Nat
  BY DEF QueryInv, QueryTyped, ServerPart
<1>q. /\ n \in Nat /\ DOMAIN inflight = 1 .. n /\ i \in 1 .. n
      /\ \A j \in 1 .. n : inflight[j] \in Refresh
      /\ inflight # <<>> /\ entry.there /\ entry \in EntryType
  BY <1>0, QueueType DEF QueryPart
<1>g. /\ CursorsBehind' /\ version' = version
      /\ \A v \in Value : Good(v)' <=> Good(v)
      /\ UNCHANGED <<clock, timer, reading, session>>
  BY GoodStands DEF ServeRefresh, TakeReply, CacheRefuses, RefreshFails
<1>1. CASE ServeRefresh(i)
  <2>1. UNCHANGED <<entry, cache, lapses>>
    BY <1>1 DEF ServeRefresh
  <2>2. /\ inflight' \in Seq(Refresh) /\ Len(inflight') = n /\ DOMAIN inflight' = 1 .. n
        /\ \A j \in 1 .. n : j # i => inflight'[j] = inflight[j]
        /\ inflight'[i].val = version
    BY <1>0, <1>1, ServedQueue DEF QueryPart, ServerPart
  <2>3. ShownBehind' /\ Cold'
    BY <1>0, <1>g, <1>q, <2>1 DEF ShownBehind, Cold
  <2>4. RepliesBehind'
    BY <1>0, <1>g, <1>q, <2>2 DEF RepliesBehind, ShownBehind
  <2>5. ASSUME lapses' = {} PROVE AllGood'
    <3>1. AllGood
      BY <2>1, <2>5 DEF QueryInv
    <3>2. CachedGood' /\ ShownGood'
      <4>1. inflight' # <<>>
        BY <1>q, <2>2, EmptySeq
      <4> QED
        BY <1>g, <2>1, <3>1, <4>1 DEF AllGood, CachedGood, ShownGood
    <3>3. ASSUME NEW v \in Value, Answers(v)' PROVE timer \/ Good(v)
      <4>1. n \in 1 .. n /\ inflight'[n].stage = "served" /\ ~inflight'[n].passed
            /\ inflight'[n].val = v
        BY <1>q, <2>2, <3>3 DEF Answers
      <4>2. CASE n = i
        <5>1. v = version
          BY <2>2, <4>1, <4>2
        <5> QED
          BY <1>0, <5>1 DEF Good, Fresh
      <4>3. CASE n # i
        <5>1. Answers(v)
          BY <1>q, <2>2, <4>1, <4>3 DEF Answers
        <5> QED
          BY <3>1, <5>1 DEF AllGood, LastGood
      <4> QED
        BY <4>2, <4>3
    <3>4. LastGood'
      BY <1>g, <3>3 DEF LastGood
    <3> QED
      BY <3>2, <3>4 DEF AllGood
  <2> QED
    BY <1>g, <2>3, <2>4, <2>5 DEF QueryInv
<1>2. CASE TakeReply(i) \/ CacheRefuses(i) \/ RefreshFails(i)
  <2> DEFINE u == inflight[i].val
  <2>u. u \in Value /\ u \in Nat /\ entry.known \in Nat /\ entry.value \in Nat
    BY <1>q DEF Refresh, EntryType
  <2>1. \/ /\ TakeReply(i) /\ inflight[i].stage = "served"
           /\ entry'.value = u /\ entry'.known = Newest(entry.known, u)
           /\ cache' = u
           /\ lapses' = lapses \cup (IF inflight[i].passed THEN {"overtaken"} ELSE {})
        \/ /\ ~entry'.loaded /\ UNCHANGED <<cache, lapses>>
           /\ \/ inflight[i].stage = "served" /\ entry'.value = u
                 /\ entry'.known = Newest(entry.known, u)
              \/ entry'.value = entry.value /\ entry'.known = entry.known
    BY <1>2, <1>q DEF TakeReply, CacheRefuses, RefreshFails, EntryType
  <2>2. inflight' = Ended(i) /\ entry'.there
    BY <1>2, <1>q DEF TakeReply, CacheRefuses, RefreshFails, EntryType
  <2>3. /\ inflight' \in Seq(Refresh) /\ Len(inflight') = n - 1
        /\ \A j \in 1 .. n - 1 :
               inflight'[j] = IF j < i THEN [inflight[j] EXCEPT !.passed = TRUE]
                              ELSE inflight[j + 1]
    BY <1>0, <2>2, EndedQueue DEF QueryPart
  <2>d. DOMAIN inflight' = 1 .. n - 1 /\ (inflight' = <<>> <=> n - 1 = 0)
    BY <2>3, LenProperties, EmptySeq
  <2>r. inflight[i].stage = "served" => u <= version /\ (reading.on => reading.val <= u)
    BY <1>0, <1>q DEF RepliesBehind
  <2> HIDE DEF u
  <2>n. \A a, b \in Nat : a <= Newest(a, b) /\ b <= Newest(a, b) /\ Newest(a, b) \in Nat
    BY DEF Newest
  <2>4. /\ entry.known <= entry'.known /\ entry'.known \in Nat
        /\ inflight[i].stage = "served" => u <= version
    <3>1. entry'.known = entry.known \/ entry'.known = Newest(entry.known, u)
      BY <2>1
    <3>2. entry.known <= Newest(entry.known, u) /\ Newest(entry.known, u) \in Nat
      BY <2>u, <2>n
    <3>3. entry.known <= entry'.known /\ entry'.known \in Nat
      BY <2>u, <3>1, <3>2
    <3> QED
      BY <2>r, <3>3
  <2>5. ShownBehind' /\ Cold'
    BY <1>0, <1>g, <2>1, <2>2, <2>4 DEF ShownBehind, Cold
  <2>6. RepliesBehind'
    <3> SUFFICES ASSUME NEW j \in 1 .. n - 1, inflight'[j].stage = "served"
                 PROVE  /\ inflight'[j].val <= version
                        /\ reading.on => reading.val <= inflight'[j].val
      BY <1>g, <2>d DEF RepliesBehind
    <3>1. j \in 1 .. n /\ j + 1 \in 1 .. n
      BY <1>q
    <3>2. \E l \in 1 .. n : inflight'[j].stage = inflight[l].stage
                            /\ inflight'[j].val = inflight[l].val
      BY <1>q, <2>3, <3>1 DEF Refresh
    <3> QED
      BY <1>0, <1>q, <3>2 DEF RepliesBehind
  <2>7. ASSUME lapses' = {} PROVE AllGood'
    <3>1. AllGood
      BY <2>1, <2>7 DEF QueryInv
    <3>2. CachedGood'
      <4> SUFFICES ASSUME NEW v \in Version, reading.on, reading.val = v
                   PROVE  /\ Good(v) \/ v < entry'.known
                          /\ cache' \in {None, v} \/ v < entry'.known
        BY <1>g DEF CachedGood
      <4>1. /\ Good(v) \/ v < entry.known
            /\ cache \in {None, v} \/ v < entry.known
        BY <3>1 DEF AllGood, CachedGood
      <4>2. v < entry.known => v < entry'.known
        <5>1. v \in Nat /\ entry.known \in Nat /\ entry'.known \in Nat
              /\ entry.known <= entry'.known
          BY <2>u, <2>4
        <5> HIDE NumbersOfVersions
        <5> QED
          BY <5>1
      <4>3. CASE UNCHANGED cache
        BY <4>1, <4>2, <4>3
      <4>4. CASE TakeReply(i) /\ cache' = u /\ inflight[i].stage = "served"
                 /\ entry'.known = Newest(entry.known, u)
        <5>1. v <= u /\ u <= entry'.known /\ v \in Nat
          BY <2>u, <2>r, <2>n, <4>4
        <5>2. u = v \/ v < u
          BY <2>u, <5>1
        <5>3. v < u => v < entry'.known
          BY <2>u, <2>4, <5>1
        <5> QED
          BY <4>1, <4>2, <4>4, <5>2, <5>3
      <4> QED
        BY <2>1, <4>3, <4>4
    <3>3. ASSUME NEW v \in Value, Answers(v)' PROVE timer \/ Good(v)
      <4>1. n - 1 \in 1 .. n - 1 /\ inflight'[n - 1].stage = "served"
            /\ ~inflight'[n - 1].passed /\ inflight'[n - 1].val = v
        BY <1>q, <2>3, <2>d, <3>3 DEF Answers
      <4>2. ~(n - 1 < i)
        <5> SUFFICES ASSUME n - 1 < i PROVE FALSE
          OBVIOUS
        <5>1. inflight'[n - 1] = [inflight[n - 1] EXCEPT !.passed = TRUE]
              /\ inflight[n - 1] \in Refresh
          BY <1>q, <2>3, <4>1
        <5> QED
          BY <4>1, <5>1 DEF Refresh
      <4>3. inflight'[n - 1] = inflight[n]
        <5> HIDE DEF n
        <5>1. inflight'[n - 1] = inflight[(n - 1) + 1]
          BY <2>3, <4>1, <4>2
        <5>2. (n - 1) + 1 = n
          BY <1>q
        <5> QED
          BY <5>1, <5>2
      <4>4. Answers(v)
        BY <1>q, <4>1, <4>3 DEF Answers
      <4> QED
        BY <3>1, <4>4 DEF AllGood, LastGood
    <3>4. LastGood'
      BY <1>g, <3>3 DEF LastGood
    <3>5. ShownGood'
      <4> SUFFICES ASSUME NEW v \in Value, entry'.loaded, entry'.value = v,
                          ~timer, inflight' = <<>>
                   PROVE  Good(v) /\ cache' \in {None, v}
        BY <1>g DEF ShownGood
      <4>1. /\ TakeReply(i) /\ inflight[i].stage = "served" /\ v = u /\ cache' = u
            /\ ~inflight[i].passed
        BY <2>1, <2>7
      <4>2. i = n
        BY <1>q, <2>d
      <4>3. Answers(v)
        <5>1. inflight[n] = inflight[i] /\ inflight[i].val = v
          BY <4>1, <4>2 DEF u
        <5> QED
          BY <1>q, <4>1, <5>1 DEF Answers
      <4> QED
        BY <3>1, <4>1, <4>3 DEF AllGood, LastGood
    <3> QED
      BY <3>2, <3>4, <3>5 DEF AllGood
  <2> QED
    BY <1>g, <2>5, <2>6, <2>7 DEF QueryInv
<1> QED
  BY <1>1, <1>2

\* A component opens the query; the cached value comes late or not.
LEMMA ReadStepsGood ==
    ASSUME QueryInv, QueryTyped', Open \/ UseCached \/ MissCached \/ TimerFires
    PROVE  QueryInv'
<1> USE NumbersOfVersions
<1>0. /\ QueryPart /\ ServerPart /\ ShownBehind /\ RepliesBehind /\ Cold
      /\ version \in Nat /\ auth \in BOOLEAN /\ entry \in EntryType
      /\ entry.value \in Nat /\ entry.known \in Nat /\ reading.val \in Value /\ cache \in Value
  BY DEF QueryInv, QueryTyped, ServerPart, QueryPart, SessionPart, EntryType
<1>g. /\ CursorsBehind' /\ version' = version
      /\ \A v \in Value : Good(v)' <=> Good(v)
      /\ UNCHANGED <<clock, cache, session>>
  BY GoodStands DEF Open, UseCached, MissCached, TimerFires
<1>1. CASE Open
  <2>1. /\ ~entry.there /\ entry' = FreshEntry /\ reading' = [on |-> TRUE, val |-> cache]
        /\ UNCHANGED <<timer, inflight>>
        /\ lapses' = lapses \cup
               (IF cache # None /\ Untold(cache, time1) THEN {"openedLate"} ELSE {})
    BY <1>1 DEF Open
  <2>2. inflight = <<>> /\ DOMAIN inflight = {}
    BY <1>0, <2>1, QueueType DEF QueryPart
  <2>3. entry'.there /\ entry'.value = None /\ ~entry'.loaded
    BY <2>1 DEF FreshEntry, NoEntry
  <2>4. ShownBehind' /\ RepliesBehind' /\ Cold'
    BY <1>0, <1>g, <2>1, <2>2, <2>3 DEF ShownBehind, RepliesBehind, Cold
  <2>5. ASSUME lapses' = {} PROVE AllGood'
    <3>1. cache # None => ~Untold(cache, time1)
      BY <2>1, <2>5
    <3>2. ASSUME NEW v \in Version, cache = v PROVE Good(v)
      <4>1. time1 \in Nat /\ run.from \in Nat
        BY DEF QueryInv, QueryTyped, SessionPart, RunType
      <4>2. v # None /\ (Underway => run.from <= time1)
        BY <1>0, <2>1, <3>2 DEF Cold
      <4>3. \A w \in v + 1 .. version : ~(w <= time1) /\ w \notin mine
        BY <3>1, <3>2, <4>2 DEF Untold
      <4>4. Fresh(v)
        BY <1>0, <4>1, <4>2, <4>3 DEF Fresh
      <4> QED
        BY <4>4 DEF Good
    <3>3. CachedGood'
      BY <1>g, <2>1, <3>2 DEF CachedGood
    <3>4. LastGood' /\ ShownGood'
      BY <2>1, <2>2, <2>3 DEF LastGood, Answers, ShownGood
    <3> QED
      BY <3>3, <3>4 DEF AllGood
  <2> QED
    BY <1>g, <2>4, <2>5 DEF QueryInv
<1>2. CASE UseCached
  <2>1. /\ reading.on /\ reading.val # None /\ reading' = NotReading
        /\ entry' = [entry EXCEPT !.value = reading.val, !.loaded = TRUE]
        /\ lapses' = lapses \cup (IF CachedTooLate THEN {"lateCache"} ELSE {})
        /\ UNCHANGED <<timer, inflight>>
    BY <1>2 DEF UseCached
  <2>2. entry'.value = reading.val /\ entry'.there /\ ~reading'.on /\ reading'.val = None
    BY <1>0, <2>1 DEF EntryType, NotReading, QueryPart
  <2>3. ShownBehind' /\ RepliesBehind' /\ Cold'
    BY <1>0, <1>g, <2>1, <2>2 DEF ShownBehind, RepliesBehind, Cold
  <2>4. ASSUME lapses' = {} PROVE AllGood'
    <3>1. AllGood /\ ~CachedTooLate
      BY <2>1, <2>4 DEF QueryInv
    <3>2. CachedGood'
      BY <2>2 DEF CachedGood
    <3>3. LastGood'
      BY <1>g, <2>1, <3>1 DEF AllGood, LastGood, Answers
    <3>4. ShownGood'
      <4> SUFFICES ASSUME NEW v \in Value, reading.val = v, ~timer, inflight = <<>>
                   PROVE  Good(v) /\ cache \in {None, v}
        BY <1>g, <2>1, <2>2 DEF ShownGood
      <4>1. v \in Version /\ ~(v < entry.known)
        BY <2>1, <3>1 DEF CachedTooLate, Value
      <4> QED
        BY <2>1, <3>1, <4>1 DEF AllGood, CachedGood
    <3> QED
      BY <3>2, <3>3, <3>4 DEF AllGood
  <2> QED
    BY <1>g, <2>3, <2>4 DEF QueryInv
<1>3. CASE MissCached
  <2>1. /\ reading.on /\ reading' = NotReading
        /\ Refreshing(entry, auth, FALSE) \/ UNCHANGED <<entry, inflight>>
        /\ UNCHANGED <<timer, lapses>>
    BY <1>3 DEF MissCached
  <2>2. ~reading'.on /\ reading'.val = None /\ entry.there
    BY <1>0, <2>1 DEF NotReading, QueryPart
  <2>3. CachedGood'
    BY <2>2 DEF CachedGood
  <2>4. CASE Refreshing(entry, auth, FALSE)
    <3>1. /\ RepliesBehind' /\ LastGood' /\ ShownGood'
          /\ entry'.there = entry.there /\ entry'.value = entry.value
      BY <1>0, <1>g, <2>2, <2>4, RefreshGood
    <3>2. ShownBehind' /\ Cold'
      BY <1>0, <1>g, <2>2, <3>1 DEF ShownBehind, Cold
    <3> QED
      BY <1>g, <2>3, <3>1, <3>2 DEF QueryInv, AllGood
  <2>5. CASE UNCHANGED <<entry, inflight>>
    <3>1. ShownBehind' /\ RepliesBehind' /\ Cold'
      BY <1>0, <1>g, <2>1, <2>2, <2>5 DEF ShownBehind, RepliesBehind, Cold
    <3>2. lapses' = {} => LastGood' /\ ShownGood'
      BY <1>g, <2>1, <2>5 DEF QueryInv, AllGood, LastGood, Answers, ShownGood
    <3> QED
      BY <1>g, <2>3, <3>1, <3>2 DEF QueryInv, AllGood
  <2> QED
    BY <2>1, <2>4, <2>5
<1>4. CASE TimerFires
  <2>1. timer /\ timer' = FALSE /\ Refreshing(entry, auth, FALSE)
        /\ UNCHANGED <<reading, lapses>>
    BY <1>4 DEF TimerFires
  <2>2. /\ RepliesBehind' /\ LastGood' /\ ShownGood' /\ entry.there
        /\ entry'.there = entry.there /\ entry'.value = entry.value
        /\ entry'.known = entry.known
    BY <1>0, <1>g, <2>1, RefreshGood DEF QueryPart
  <2>3. ShownBehind' /\ Cold'
    BY <1>0, <1>g, <2>1, <2>2 DEF ShownBehind, Cold
  <2>4. lapses' = {} => CachedGood'
    BY <1>g, <2>1, <2>2 DEF QueryInv, AllGood, CachedGood
  <2> QED
    BY <1>g, <2>2, <2>3, <2>4 DEF QueryInv, AllGood
<1> QED
  BY <1>1, <1>2, <1>3, <1>4

\* Newest is the greater.
LEMMA NewestOf ==
    ASSUME NEW a \in Nat, NEW b \in Nat
    PROVE  Newest(a, b) \in Nat /\ a <= Newest(a, b) /\ b <= Newest(a, b)
BY DEF Newest

\* The entry is told of a change: the timer will ask again.
LEMMA TellGood ==
    ASSUME QueryInv, QueryTyped', NEW u \in Value, Scheduled(u),
           UNCHANGED <<inflight, reading, cache, lapses>>, version' = version,
           CursorsBehind', Cold', \A v \in Value : Good(v) => Good(v)' \/ v < u
    PROVE  QueryInv'
<1> USE NumbersOfVersions
<1>0. /\ QueryPart /\ ShownBehind /\ RepliesBehind /\ entry \in EntryType
      /\ entry.known \in Nat
  BY DEF QueryInv, QueryTyped, QueryPart, EntryType
<1>1. CASE entry.there
  <2>1. /\ ~entry'.loaded /\ timer' /\ entry'.value = entry.value
        /\ entry'.known = Newest(entry.known, u)
    BY <1>0, <1>1 DEF Scheduled, EntryType
  <2>2. ShownBehind' /\ RepliesBehind'
    BY <1>0, <2>1 DEF ShownBehind, RepliesBehind
  <2>3. LastGood' /\ ShownGood'
    BY <2>1 DEF LastGood, ShownGood
  <2>4. ASSUME lapses = {} PROVE CachedGood'
    <3> SUFFICES ASSUME NEW v \in Version, reading.on, reading.val = v
                 PROVE  /\ Good(v)' \/ v < entry'.known
                        /\ cache \in {None, v} \/ v < entry'.known
      BY DEF CachedGood
    <3>1. /\ Good(v) \/ v < entry.known
          /\ cache \in {None, v} \/ v < entry.known
      BY <2>4 DEF QueryInv, AllGood, CachedGood
    <3>2. v \in Nat /\ u \in Nat /\ v \in Value
      OBVIOUS
    <3>3. /\ v < entry.known => v < entry'.known
          /\ v < u => v < entry'.known
      <4>1. /\ Newest(entry.known, u) \in Nat /\ entry.known <= Newest(entry.known, u)
            /\ u <= Newest(entry.known, u)
        BY <1>0, <3>2, NewestOf
      <4> QED
        BY <1>0, <2>1, <3>2, <4>1
    <3> QED
      BY <3>1, <3>2, <3>3
  <2> QED
    BY <2>2, <2>3, <2>4 DEF QueryInv, AllGood
<1>2. CASE ~entry.there
  <2>1. /\ entry' = entry /\ entry = NoEntry /\ inflight' = <<>> /\ ~reading'.on
        /\ ~entry'.loaded /\ DOMAIN inflight' = {}
    BY <1>0, <1>2 DEF Scheduled, QueryPart, NoEntry
  <2>2. ShownBehind' /\ RepliesBehind'
    BY <1>0, <2>1 DEF ShownBehind, RepliesBehind
  <2>3. AllGood'
    BY <2>1 DEF AllGood, CachedGood, LastGood, Answers, ShownGood
  <2> QED
    BY <2>2, <2>3 DEF QueryInv
<1> QED
  BY <1>1, <1>2

\* The entry is cleared with the cache, and asked for again.
LEMMA ClearGood ==
    ASSUME QueryInv, QueryTyped', NEW u \in Value,
           NEW signedIn \in BOOLEAN, NEW awaited \in BOOLEAN,
           RetryUnloaded(Cleared(u), signedIn, awaited), cache' = None,
           UNCHANGED <<reading, lapses>>, version' = version,
           CursorsBehind', \A v \in Value : Good(v) => Good(v)' \/ v < u
    PROVE  QueryInv'
<1> USE NumbersOfVersions
<1>0. /\ QueryPart /\ ShownBehind /\ RepliesBehind /\ entry \in EntryType
      /\ entry.known \in Nat /\ version \in Nat /\ u \in Nat
  BY DEF QueryInv, QueryTyped, QueryPart, ServerPart, EntryType
<1>c. Cold' <=> TRUE
  BY DEF Cold
<1>1. CASE entry.there
  <2>n. /\ Newest(entry.known, u) \in Nat /\ entry.known <= Newest(entry.known, u)
        /\ u <= Newest(entry.known, u) /\ Newest(entry.known, u) \in Value
    BY <1>0, NewestOf DEF Newest, EntryType
  <2>1. /\ Cleared(u) \in EntryType /\ Cleared(u).there /\ ~Cleared(u).loaded
        /\ Cleared(u).value = None /\ Cleared(u).known = Newest(entry.known, u)
    BY <1>1, <2>n DEF Cleared, FreshEntry, NoEntry, EntryType
  <2>2. Refreshing(Cleared(u), signedIn, awaited)
    BY <2>1 DEF RetryUnloaded
  <2>3. /\ RepliesBehind' /\ LastGood' /\ ShownGood'
        /\ entry'.value = None /\ entry'.known = Newest(entry.known, u)
    BY <1>0, <2>1, <2>2, RefreshGood
  <2>4. ShownBehind'
    BY <1>0, <2>3 DEF ShownBehind
  <2>5. ASSUME lapses = {} PROVE CachedGood'
    <3> SUFFICES ASSUME NEW v \in Version, reading.on, reading.val = v
                 PROVE  Good(v)' \/ v < entry'.known
      BY DEF CachedGood
    <3>1. Good(v) \/ v < entry.known
      BY <2>5 DEF QueryInv, AllGood, CachedGood
    <3>2. v \in Nat /\ v \in Value
      OBVIOUS
    <3>3. /\ v < entry.known => v < entry'.known
          /\ v < u => v < entry'.known
      BY <1>0, <2>3, <2>n, <3>2
    <3> QED
      BY <3>1, <3>2, <3>3
  <2> QED
    BY <1>c, <2>3, <2>4, <2>5 DEF QueryInv, AllGood
<1>2. CASE ~entry.there
  <2>1. /\ entry' = entry /\ entry = NoEntry /\ inflight' = <<>> /\ ~reading'.on
        /\ ~entry'.loaded /\ DOMAIN inflight' = {}
    BY <1>0, <1>2 DEF RetryUnloaded, Cleared, QueryPart, NoEntry
  <2>2. ShownBehind' /\ RepliesBehind'
    BY <1>0, <2>1 DEF ShownBehind, RepliesBehind
  <2>3. AllGood'
    BY <2>1 DEF AllGood, CachedGood, LastGood, Answers, ShownGood
  <2> QED
    BY <1>c, <2>2, <2>3 DEF QueryInv
<1> QED
  BY <1>1, <1>2

\* A sync, or this tab's own write, tells the query of a change; a reset, a login
\* and the retry after signing in clear it or ask again.
LEMMA TellingStepsGood ==
    ASSUME QueryInv, QueryTyped',
           RunSucceeds \/ WriteReplies \/ ClearForReset \/ FinishLogin \/ RetryAfterSignIn
    PROVE  QueryInv'
<1> USE NumbersOfVersions
<1>0. /\ QueryPart /\ ShownBehind /\ RepliesBehind /\ CursorsBehind /\ Cold
      /\ version \in Nat /\ run \in RunType /\ run.from \in Nat
      /\ run.to \in Nat /\ run.to \in Value /\ login.to \in Nat /\ login.to \in Value
      /\ own \in [asked : BOOLEAN, orphan : BOOLEAN, done : SUBSET Version]
      /\ auth \in BOOLEAN /\ entry \in EntryType
  BY DEF QueryInv, QueryTyped, QueryPart, SessionPart, ServerPart, RunType
<1>v. version' = version /\ mine' = mine
  BY DEF RunSucceeds, WriteReplies, ClearForReset, FinishLogin, RetryAfterSignIn, clock
<1>1. CASE RunSucceeds
  <2>1. /\ run.stage = "window" /\ time1' = run.to /\ stored' = run.to
        /\ run' = Idle /\ UNCHANGED <<inflight, reading, cache, login, own, lapses>>
    BY <1>1 DEF RunSucceeds, MoveCursor
  <2>2. CursorsBehind' /\ Cold'
    BY <1>0, <1>v, <2>1 DEF CursorsBehind, Cold, Idle, Underway
  <2>3. ASSUME NEW v \in Value, Good(v) PROVE Good(v)' \/ (Changed /\ v < run.to)
    <3>1. CASE \E u \in own.done : v < u
      BY <2>1, <3>1 DEF Good
    <3>2. CASE \A w \in v + 1 .. version : w \notin mine /\ w > run.to
      BY <1>v, <2>1, <3>2 DEF Good, Fresh, Idle, Underway
    <3> QED
      BY <2>1, <2>3, <3>1, <3>2, WindowGood
  <2>4. CASE Changed
    BY <1>0, <1>1, <1>v, <2>1, <2>2, <2>3, <2>4, TellGood DEF RunSucceeds
  <2>5. CASE ~Changed
    BY <1>0, <1>1, <1>v, <2>1, <2>2, <2>3, <2>5, StandsGood DEF RunSucceeds, query, Kept
  <2> QED
    BY <2>4, <2>5
<1>2. CASE WriteReplies
  <2>0. PICK u \in own.done : Scheduled(u) /\ own' = [own EXCEPT !.done = @ \ {u}]
    BY <1>2 DEF WriteReplies
  <2>1. /\ Scheduled(u) /\ u \in Value /\ own'.done = own.done \ {u}
        /\ UNCHANGED <<inflight, reading, cache, run, login, time1, stored, lapses>>
    BY <1>0, <1>2, <2>0 DEF WriteReplies
  <2>2. CursorsBehind'
    BY <1>0, <1>v, <2>1 DEF CursorsBehind
  <2>3. Cold'
    BY <1>0, <2>1 DEF Cold, Scheduled, Underway, EntryType
  <2>4. ASSUME NEW v \in Value, Good(v) PROVE Good(v)' \/ v < u
    BY <1>v, <2>1, <2>4 DEF Good, Fresh, Underway
  <2> QED
    BY <1>0, <1>v, <2>1, <2>2, <2>3, <2>4, TellGood
<1>3. CASE ClearForReset
  <2>1. /\ run.stage = "clearing" /\ cache' = None /\ time1' = run.to
        /\ RetryUnloaded(Cleared(run.to), auth, TRUE)
        /\ run'.stage = "retrying" /\ run'.from = run.from /\ run'.to = run.to
        /\ UNCHANGED <<reading, login, own, stored, lapses>>
    BY <1>0, <1>3 DEF ClearForReset, RunType
  <2>2. CursorsBehind'
    BY <1>0, <1>v, <2>1 DEF CursorsBehind
  <2>3. ASSUME NEW v \in Value, Good(v) PROVE Good(v)' \/ v < run.to
    <3>1. run.from <= run.to
      BY <2>1 DEF QueryInv, QueryTyped, SessionPart, Cursors
    <3> QED
      BY <1>0, <1>v, <2>1, <2>3, <3>1 DEF Good, Fresh, Underway
  <2> QED
    BY <1>0, <1>v, <2>1, <2>2, <2>3, ClearGood
<1>4. CASE FinishLogin
  <2>1. /\ cache' = None /\ time1' = login.to
        /\ RetryUnloaded(Cleared(login.to), TRUE, FALSE)
        /\ login' = NoLogin /\ UNCHANGED <<reading, run, own, stored, lapses>>
    BY <1>4 DEF FinishLogin
  <2>2. CursorsBehind'
    BY <1>0, <1>v, <2>1 DEF CursorsBehind, NoLogin
  <2>3. ASSUME NEW v \in Value, Good(v) PROVE Good(v)' \/ v < login.to
    BY <1>0, <1>v, <2>1, <2>3 DEF Good, Fresh, Underway
  <2> QED
    BY <1>0, <1>v, <2>1, <2>2, <2>3, ClearGood
<1>5. CASE RetryAfterSignIn
  <2>1. /\ RetryUnloaded(entry, auth, FALSE)
        /\ UNCHANGED <<timer, reading, cache, run, login, own, time1, stored, lapses>>
    BY <1>5 DEF RetryAfterSignIn
  <2>2. CursorsBehind' /\ \A v \in Value : Good(v)' <=> Good(v)
    BY <1>0, <1>v, <2>1 DEF CursorsBehind, Good, Fresh, Underway
  <2>3. CASE Refreshing(entry, auth, FALSE)
    <3>1. /\ RepliesBehind' /\ LastGood' /\ ShownGood'
          /\ entry'.there = entry.there /\ entry'.value = entry.value
          /\ entry'.known = entry.known
      BY <1>0, <1>v, <2>1, <2>3, RefreshGood
    <3>2. ShownBehind' /\ Cold'
      BY <1>0, <1>v, <2>1, <3>1 DEF ShownBehind, Cold, Underway
    <3>3. lapses' = {} => CachedGood'
      BY <2>1, <2>2, <3>1 DEF QueryInv, AllGood, CachedGood
    <3> QED
      BY <2>2, <3>1, <3>2, <3>3 DEF QueryInv, AllGood
  <2>4. CASE UNCHANGED <<entry, inflight>>
    <3>1. Cold' /\ Kept /\ version <= version'
      BY <1>0, <1>v, <2>1, <2>2, <2>4 DEF Cold, Kept, Underway
    <3> QED
      BY <2>1, <2>2, <2>4, <3>1, StandsGood DEF query
  <2> QED
    BY <2>1, <2>3, <2>4 DEF RetryUnloaded
<1> QED
  BY <1>1, <1>2, <1>3, <1>4, <1>5

\* Nothing under way is answered over another connection, or on another page.
LEMMA LosingStepsGood ==
    ASSUME QueryInv, QueryTyped', Disconnect \/ Reload
    PROVE  QueryInv'
<1> USE NumbersOfVersions
<1>0. /\ QueryPart /\ ShownBehind /\ RepliesBehind /\ CursorsBehind /\ Cold
      /\ version \in Nat /\ run \in RunType
  BY DEF QueryInv, QueryTyped, SessionPart, ServerPart
<1>v. version' = version /\ mine' = mine
  BY DEF Disconnect, Reload, clock
<1>1. CASE Disconnect
  <2>1. /\ inflight' = [i \in DOMAIN inflight |->
                            [inflight[i] EXCEPT !.stage = "lost", !.val = None]]
        /\ \/ run' = run
           \/ run.stage \in {"asked", "window", "reset"}
              /\ run' = [run EXCEPT !.stage = "lost", !.to = None, !.more = FALSE]
        /\ UNCHANGED <<entry, timer, reading, cache, login, time1, stored>>
    BY <1>1 DEF Disconnect
  <2>o. lapses' = {} => lapses = {} /\ own'.done = own.done
    <3>1. PICK arrived \in SUBSET own.done :
            /\ own' = [Orphaned EXCEPT !.done = arrived]
            /\ lapses' = lapses \cup (IF arrived # own.done THEN {"lostReply"} ELSE {})
      BY <1>1 DEF Disconnect
    <3> QED
      BY <3>1 DEF Orphaned, NoWrite
  <2>2. /\ run'.from = run.from /\ run'.to \in {run.to, None} /\ run'.changed = run.changed
        /\ \/ run'.stage = run.stage
           \/ run'.stage = "lost" /\ run.stage \in {"asked", "window", "reset"}
    <3>1. CASE run' = run
      BY <3>1
    <3>2. CASE run.stage \in {"asked", "window", "reset"}
               /\ run' = [run EXCEPT !.stage = "lost", !.to = None, !.more = FALSE]
      <4> HIDE NumbersOfVersions
      <4> QED
        BY <1>0, <3>2 DEF RunType
    <3> QED
      BY <2>1, <3>1, <3>2
  <2>3. CursorsBehind' /\ ShownBehind' /\ Cold'
    <3>1. /\ UNCHANGED <<entry, reading, cache, login, time1, stored, version, mine>>
          /\ version \in Nat
      BY <1>0, <1>v, <2>1
    <3> HIDE NumbersOfVersions
    <3>2. CursorsBehind' /\ ShownBehind'
      BY <1>0, <2>2, <3>1 DEF CursorsBehind, ShownBehind, None
    <3>3. Cold'
      BY <1>0, <2>2, <3>1 DEF Cold, Underway
    <3> QED
      BY <3>2, <3>3
  <2>4. /\ \A i \in DOMAIN inflight' : inflight'[i].stage = "lost"
        /\ inflight' = <<>> => inflight = <<>>
        /\ inflight' # <<>> => Len(inflight') \in DOMAIN inflight'
    <3>1. /\ DOMAIN inflight' = DOMAIN inflight
          /\ \A i \in DOMAIN inflight : inflight[i] \in Refresh
      BY <1>0, <2>1, QueueType DEF QueryPart
    <3>2. inflight' \in Seq(Refresh)
      BY DEF QueryTyped, QueryPart
    <3>3. \A i \in DOMAIN inflight' : inflight'[i].stage = "lost"
      BY <2>1, <3>1 DEF Refresh
    <3>4. inflight' = <<>> => inflight = <<>>
      <4>1. inflight' = <<>> => DOMAIN inflight' = {}
        BY EmptySeq, LenProperties, <3>2
      <4>2. inflight = <<>> \/ Len(inflight) \in DOMAIN inflight
        BY <1>0, QueueType DEF QueryPart
      <4> QED
        BY <3>1, <4>1, <4>2
    <3>5. inflight' # <<>> => Len(inflight') \in DOMAIN inflight'
      BY <3>2, LenProperties, EmptySeq
    <3> QED
      BY <3>3, <3>4, <3>5
  <2>5. RepliesBehind'
    BY <2>4 DEF RepliesBehind
  <2>6. ASSUME lapses' = {} PROVE AllGood'
    <3>1. AllGood /\ own'.done = own.done
      BY <2>o, <2>6 DEF QueryInv
    <3>2. ASSUME NEW v \in Value, Good(v) PROVE Good(v)'
      BY <1>v, <2>1, <2>2, <3>1, <3>2 DEF Good, Fresh, Underway
    <3>3. CachedGood' /\ ShownGood'
      BY <2>1, <2>4, <3>1, <3>2 DEF AllGood, CachedGood, ShownGood
    <3>4. LastGood'
      BY <2>4 DEF LastGood, Answers
    <3> QED
      BY <3>3, <3>4 DEF AllGood
  <2> QED
    BY <2>3, <2>5, <2>6 DEF QueryInv
<1>2. CASE Reload
  <2>1. /\ entry' = NoEntry /\ inflight' = <<>> /\ reading' = NotReading /\ run' = Idle
        /\ login' = NoLogin /\ time1' = stored /\ UNCHANGED <<cache, stored>>
    BY <1>2 DEF Reload
  <2>2. DOMAIN inflight' = {}
    BY <2>1
  <2>3. CursorsBehind' /\ ShownBehind' /\ Cold'
    BY <1>0, <1>v, <2>1
       DEF CursorsBehind, ShownBehind, Cold, Underway, Idle, NoLogin, NoEntry, NotReading
  <2>4. RepliesBehind' /\ AllGood'
    BY <2>1, <2>2 DEF RepliesBehind, AllGood, CachedGood, LastGood, Answers, ShownGood,
                      NoEntry, NotReading
  <2> QED
    BY <2>3, <2>4 DEF QueryInv
<1> QED
  BY <1>1, <1>2

LEMMA QueryInvInitially == Init => QueryInv
<1> SUFFICES ASSUME Init PROVE QueryInv
  OBVIOUS
<1>1. QueryTyped
  BY QueryInitially
<1>2. /\ CursorsBehind /\ ShownBehind /\ Cold
      /\ CachedGood /\ ShownGood
  BY NumbersOfVersions
     DEF Init, CursorsBehind, ShownBehind, Cold, CachedGood, ShownGood, Idle, NoLogin,
         NoEntry, NotReading
<1>3. RepliesBehind /\ LastGood
  BY DEF Init, RepliesBehind, LastGood, Answers
<1> QED
  BY <1>1, <1>2, <1>3 DEF QueryInv, AllGood

LEMMA QueryInvStep == QueryInv /\ [Next]_vars => QueryInv'
<1> SUFFICES ASSUME QueryInv, [Next]_vars PROVE QueryInv'
  OBVIOUS
<1>1. QueryTyped'
  BY QueryTypedStep DEF QueryInv
<1>2. CASE UNCHANGED vars
  <2>1. version <= version' /\ CursorsBehind' /\ Cold' /\ Kept
    BY <1>2, NumbersOfVersions
       DEF vars, clock, query, session, QueryInv, QueryTyped, ServerPart,
           CursorsBehind, Cold, Kept, Good, Fresh, Underway
  <2> QED
    BY <1>1, <1>2, <2>1, StandsGood DEF vars, query
<1>3. CASE Next
  BY <1>1, <1>3, RunStepsGood, CommitsGood, RefreshStepsGood, ReadStepsGood,
     TellingStepsGood, LosingStepsGood DEF Next
<1> QED
  BY <1>2, <1>3

\* A query at rest shows the newest version: nothing later is left to announce.
LEMMA InvMeansCurrent == QueryInv => QueryIsCurrent
<1> SUFFICES ASSUME QueryInv, AtRest, entry.loaded, lapses = {}
             PROVE  entry.value = version /\ cache \in {None, version}
  BY DEF QueryIsCurrent
<1> USE NumbersOfVersions
<1>0. /\ entry.value \in Value /\ entry.value \in Nat /\ version \in Nat /\ time1 \in Nat
      /\ entry.value <= version /\ time1 <= version
  BY DEF QueryInv, QueryTyped, QueryPart, ServerPart, SessionPart, EntryType,
         ShownBehind, CursorsBehind
<1>1. Good(entry.value) /\ cache \in {None, entry.value}
  BY <1>0 DEF AtRest, QueryInv, AllGood, ShownGood
<1>2. Fresh(entry.value)
  BY <1>1 DEF AtRest, Good, Idle
<1>3. entry.value = version
  <2> SUFFICES ASSUME entry.value < version PROVE FALSE
    BY <1>0
  <2>1. version \in entry.value + 1 .. version
    BY <1>0
  <2>2. version \notin mine /\ version > time1
    BY <1>2, <2>1 DEF Fresh
  <2>3. version \in Returned(time1, version)
    BY <1>0, <2>2 DEF Returned
  <2> QED
    BY <2>3 DEF AtRest
<1> QED
  BY <1>1, <1>3

LEMMA TableQueryStep == QueryInv /\ [TableNext]_<<part, vars, keyVars>> => QueryInv'
<1> SUFFICES ASSUME QueryInv, [TableNext]_<<part, vars, keyVars>> PROVE [Next]_vars
  BY QueryInvStep
<1> QED
  BY DEF TableNext

\* A count or an id list that is shown as loaded at rest is the stored one, and so is
\* its cached copy, unless one of the six lapses happened.
THEOREM RestingQueryIsCurrent == TableSpec => []QueryIsCurrent
<1>1. TableInit => QueryInv
  BY QueryInvInitially DEF TableInit
<1> QED
  BY <1>1, TableQueryStep, InvMeansCurrent, PTL DEF TableSpec

\* The entry, its refreshes, the run, the cursors and the loading tokens keep their
\* types; only an awaited refresh belongs to a run that waits.
THEOREM TableReadsTypes == TableSpec => []TypeOK
<1>1. TableInit => QueryInv /\ KeysInv
  BY QueryInvInitially, KeysInitially DEF TableInit
<1>2. QueryInv /\ KeysInv => TypeOK
  BY TypedMeansTypeOK DEF QueryInv, KeysInv, TypeOK
<1> QED
  BY <1>1, <1>2, TableStep, TableQueryStep, PTL DEF TableSpec
=============================================================================
