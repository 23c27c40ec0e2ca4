----------------------------- MODULE LoadingKeys ------------------------------
(***************************************************************************)
(* The loading keys of one tab: keys.js of packages/vue, and the calls     *)
(* that report to it from load, queueLoad, getIds, history, getUnique and  *)
(* trackMutationKey of table.js, and resetKey of index.js.                 *)
(*                                                                         *)
(* An operation under a key puts its token into the key's set when it      *)
(* begins and takes it out when it ends, whatever its outcome.  The token  *)
(* names the record, or the call with its arguments, so that two equal     *)
(* operations have one token.                                              *)
(***************************************************************************)
EXTENDS Naturals, FiniteSets, FiniteSetsExt

CONSTANTS
    Keys,      \* the keys of the application
    Records,   \* the tokens of records, which load and queueLoad use
    Calls,     \* the tokens of one-off reads and of writes
    Ops,       \* operations that may be under way at once (bound)
    NoKey      \* an operation under no key

\* A token names its table and either an id or a method; no key is no token.
ASSUME KeysAssumption ==
    IsFiniteSet(Ops) /\ NoKey \notin Keys \cup Records \cup Calls /\ Records \cap Calls = {}

VARIABLES
    loadingByKey,  \* per key: the tokens of its Set, or NoSet
    keyRefs,       \* per key: value, max and start of what getKeyRef returns
    running,       \* per operation: its token and its key, or Nothing
    loading,       \* the records a queueLoad is loading
    loaded,        \* the records with __loaded
    slips          \* ghost: per key, the known ways to report too early

keyVars == <<loadingByKey, keyRefs, running, loading, loaded, slips>>

Token == Records \cup Calls
NoSet == [there |-> FALSE, tokens |-> {}]
Zero == [value |-> 0, max |-> 0, start |-> FALSE]
Nothing == [token |-> NoKey, key |-> NoKey]
Slip == {"shared", "again", "reset"}

\* Loads whose token is in flight, under the key.
Under(k) == {o \in Ops : running[o] # Nothing /\ running[o].key = k}

KeysTypeOK ==
    /\ loadingByKey \in [Keys -> [there : BOOLEAN, tokens : SUBSET Token]]
    /\ keyRefs \in [Keys -> [value : Nat, max : Nat, start : BOOLEAN]]
    /\ running \in [Ops -> [token : Token, key : Keys \cup {NoKey}] \cup {Nothing}]
    /\ loading \subseteq Records /\ loaded \subseteq Records
    /\ slips \in [Keys -> SUBSET Slip]

KeysInit ==
    /\ loadingByKey = [k \in Keys |-> NoSet]
    /\ keyRefs = [k \in Keys |-> Zero]
    /\ running = [o \in Ops |-> Nothing]
    /\ loading = {} /\ loaded = {}
    /\ slips = [k \in Keys |-> {}]

-----------------------------------------------------------------------------
(* keys.js.                                                                *)

TrackPending(k, t) ==
    IF k = NoKey THEN UNCHANGED <<loadingByKey, keyRefs>>
    ELSE LET set == loadingByKey[k].tokens \cup {t}
             n == Cardinality(set)
         IN  /\ loadingByKey' = [loadingByKey EXCEPT
                    ![k] = [there |-> TRUE, tokens |-> set]]
             /\ keyRefs' = IF t \in loadingByKey[k].tokens THEN keyRefs
                    ELSE [keyRefs EXCEPT
                        ![k] = [value |-> n, max |-> Max({@.max, n}), start |-> TRUE]]

\* Seeded defect: the first operation to end empties the set.
TrackLoaded_All(k, t) ==
    IF k = NoKey \/ ~loadingByKey[k].there THEN UNCHANGED <<loadingByKey, keyRefs>>
    ELSE /\ loadingByKey' = [loadingByKey EXCEPT ![k].tokens = {}]
         /\ keyRefs' = [keyRefs EXCEPT ![k].value = 0, ![k].max = 0]
TrackLoaded(k, t) ==
    IF k = NoKey THEN UNCHANGED <<loadingByKey, keyRefs>>
    ELSE IF ~loadingByKey[k].there THEN UNCHANGED <<loadingByKey, keyRefs>>
    ELSE LET set == loadingByKey[k].tokens \ {t} IN
         /\ loadingByKey' = [loadingByKey EXCEPT ![k].tokens = set]
         /\ keyRefs' = [keyRefs EXCEPT ![k].value = Cardinality(set),
                                       ![k].max = IF set = {} THEN 0 ELSE @]

Slipped(k, what) ==
    slips' = IF k = NoKey THEN slips ELSE [slips EXCEPT ![k] = @ \cup what]

\* Another operation is under way with this token under this key.
Shares(k, t) == \E o \in Under(k) : running[o].token = t

-----------------------------------------------------------------------------
(* The operations.                                                         *)

Begin(o, t, k) ==
    /\ running[o] = Nothing
    /\ running' = [running EXCEPT ![o] = [token |-> t, key |-> k]]
    /\ TrackPending(k, t)
    /\ Slipped(k, IF Shares(k, t) THEN {"shared"} ELSE {})

\* getIds, history, getUnique, update, add, remove.
BeginCall(o, t, k) == Begin(o, t, k) /\ UNCHANGED <<loading, loaded>>

\* load(id, key) of a record that is neither loaded nor being loaded.
BeginLoad(o, r, k) ==
    /\ r \notin loading \cup loaded
    /\ Begin(o, r, k)
    /\ loading' = loading \cup {r}
    /\ UNCHANGED loaded

\* load(id, key) of any other record reports it as loaded, even while the
\* queueLoad that an earlier load(id, key) began is under way.
LoadAgain(r, k) ==
    /\ k # NoKey
    /\ r \in loading \cup loaded
    /\ TrackLoaded(k, r)
    /\ Slipped(k, IF r \in loading THEN {"again"} ELSE {})
    /\ UNCHANGED <<running, loading, loaded>>

\* The finally of the operation; a load may have failed.
\* Seeded defect: an operation that fails keeps its token.
End_OnlyGood(o, ok) ==
    LET t == running[o].token IN
    /\ running[o] # Nothing
    /\ running' = [running EXCEPT ![o] = Nothing]
    /\ loading' = loading \ {t}
    /\ loaded' = IF ok /\ t \in Records THEN loaded \cup {t} ELSE loaded
    /\ IF ok THEN TrackLoaded(running[o].key, t) ELSE UNCHANGED <<loadingByKey, keyRefs>>
    /\ UNCHANGED slips
End(o, ok) ==
    LET t == running[o].token IN
    /\ running[o] # Nothing
    /\ running' = [running EXCEPT ![o] = Nothing]
    /\ loading' = loading \ {t}
    /\ loaded' = IF ok /\ t \in Records THEN loaded \cup {t} ELSE loaded
    /\ TrackLoaded(running[o].key, t)
    /\ UNCHANGED slips

\* resetLocalState: the record is not loaded any more.
Unload(r) ==
    /\ r \in loaded
    /\ loaded' = loaded \ {r}
    /\ UNCHANGED <<loadingByKey, keyRefs, running, loading, slips>>

ResetKey(k) ==
    /\ loadingByKey' = [loadingByKey EXCEPT ![k] = NoSet]
    /\ keyRefs' = [keyRefs EXCEPT ![k] = Zero]
    /\ Slipped(k, IF Under(k) # {} THEN {"reset"} ELSE {})
    /\ UNCHANGED <<running, loading, loaded>>

KeysNext ==
    \/ \E o \in Ops, t \in Calls, k \in Keys \cup {NoKey} : BeginCall(o, t, k)
    \/ \E o \in Ops, r \in Records, k \in Keys \cup {NoKey} : BeginLoad(o, r, k)
    \/ \E r \in Records, k \in Keys : LoadAgain(r, k)
    \/ \E o \in Ops, ok \in BOOLEAN : End(o, ok)
    \/ \E r \in Records : Unload(r)
    \/ \E k \in Keys : ResetKey(k)

KeysSpec == KeysInit /\ [][KeysNext]_keyVars

-----------------------------------------------------------------------------
(* Properties.                                                             *)

\* A key that reports ready has no operation under way, and what it shows is
\* the number of the tokens under way; unless two operations had one token, a
\* load was asked for again, or the key was reset meanwhile (keys.js:24,
\* table.js:34).
ReadyIsQuiet ==
    \A k \in Keys : slips[k] = {} =>
        keyRefs[k].value = Cardinality({running[o].token : o \in Under(k)})

\* The progress of a key never hangs: when no operation under it is under way
\* it shows none, whatever tokens were shared, reset or reported early; and its
\* percentage is never above one hundred.
ProgressEnds ==
    \A k \in Keys :
        /\ Under(k) = {} => keyRefs[k].value = 0 /\ keyRefs[k].max = 0
        /\ keyRefs[k].value <= keyRefs[k].max
=============================================================================
