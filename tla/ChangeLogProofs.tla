--------------------------- MODULE ChangeLogProofs ----------------------------
(***************************************************************************)
(* What holds of the write path for every number of sessions, documents,   *)
(* fields, values, writes in flight and rows.                              *)
(***************************************************************************)
EXTENDS ChangeLog, TLAPS

-----------------------------------------------------------------------------
(* Type correctness.                                                       *)

LEMMA PatchedType ==
    ASSUME NEW d \in Document \cup {Missing}, NEW p \in Patch
    PROVE  Patched(d, p) \in Document
<1>1. ASSUME NEW f \in Fields
      PROVE (IF p[f] # Keep THEN p[f] ELSE IF d = Missing THEN Absent ELSE d[f])
                \in Values \cup {Absent}
  <2>1. p[f] \in Values \cup {Absent, Keep}
    BY DEF Patch
  <2>2. d # Missing => d[f] \in Values \cup {Absent}
    BY DEF Document
  <2> QED
    BY <2>1, <2>2
<1> QED
  BY <1>1 DEF Patched, Document

LEMMA PayloadType ==
    ASSUME NEW a \in Actions, NEW p \in Payload(a)
    PROVE  p \in Patch
<1>1. a \in {"insert", "update", "delete"}
  BY ActionsAssumption
<1>2. CASE a = "insert"
  BY <1>2 DEF Payload, Document, Patch
<1>3. CASE a = "update"
  BY <1>3 DEF Payload
<1>4. CASE a = "delete"
  BY <1>4 DEF Payload, Patch
<1> QED
  BY <1>1, <1>2, <1>3, <1>4

\* Every step of the server keeps the types of its variables.
LEMMA LogTypeStep ==
    ASSUME LogTypeOK, LogNext
    PROVE  LogTypeOK'
<1> USE DEF LogTypeOK
<1>1. ASSUME NEW q \in Requests, NEW s \in Writers, NEW a \in Actions,
             NEW i \in Ids, NEW p \in Payload(a), BeginWrite(q, s, a, i, p)
      PROVE  LogTypeOK'
  <2>1. p \in Patch
    BY PayloadType
  <2> QED
    BY <1>1, <2>1 DEF BeginWrite, Write
<1>2. ASSUME NEW w \in writes, Reject(w) PROVE LogTypeOK'
  BY <1>2 DEF Reject
<1>3. ASSUME NEW w \in writes, ApplyUpdate(w) PROVE LogTypeOK'
  <2>1. Patched(docs[w.id], w.patch) \in Document
    BY PatchedType DEF Write
  <2>2. [w EXCEPT !.stage = "appending"] \in Write
    BY DEF Write
  <2> QED
    BY <1>3, <2>1, <2>2 DEF ApplyUpdate, Advance, Write
<1>4. ASSUME NEW w \in writes, ApplyInsert(w) PROVE LogTypeOK'
  <2>1. Patched(Missing, w.patch) \in Document
    BY PatchedType DEF Write
  <2>2. [w EXCEPT !.stage = "appending"] \in Write
    BY DEF Write
  <2> QED
    BY <1>4, <2>1, <2>2 DEF ApplyInsert, Advance
<1>5. ASSUME NEW w \in writes, ApplyDelete(w) PROVE LogTypeOK'
  <2>1. [w EXCEPT !.stage = "applied"] \in Write
    BY DEF Write
  <2> QED
    BY <1>5, <2>1 DEF ApplyDelete, Advance
<1>6. ASSUME NEW w \in writes, StampDelete(w) PROVE LogTypeOK'
  <2>1. [w EXCEPT !.stage = "appending", !.stamp = now] \in Write
    BY DEF Write
  <2> QED
    BY <1>6, <2>1 DEF StampDelete
<1>7. ASSUME NEW w \in writes, NEW k \in Keys, AppendLog(w, k) PROVE LogTypeOK'
  <2>1. RowOf(w, k) \in Row
    BY DEF RowOf, Row, Write
  <2> QED
    BY <1>7, <2>1 DEF AppendLog
<1>8. ASSUME NEW w \in writes, FailAppend(w) PROVE LogTypeOK'
  BY <1>8 DEF FailAppend
<1>9. CASE Tick
  BY <1>9 DEF Tick
<1> QED
  BY <1>1, <1>2, <1>3, <1>4, <1>5, <1>6, <1>7, <1>8, <1>9 DEF LogNext

-----------------------------------------------------------------------------
(* The last row of a set of rows.                                          *)

\* Rows come one after the other, when their keys differ.
LEMMA PrecedesIsTotal ==
    ASSUME NEW r \in Row, NEW s \in Row, r.key # s.key
    PROVE  Precedes(r, s) \/ Precedes(s, r)
<1>1. r.key \in Nat /\ s.key \in Nat /\ r.createdAt \in Nat /\ s.createdAt \in Nat
  BY KeysAssumption DEF Row
<1> QED
  BY <1>1 DEF Precedes

LEMMA PrecedesIsStrict ==
    ASSUME NEW r \in Row, NEW s \in Row, Precedes(r, s)
    PROVE  ~Precedes(s, r)
<1>1. r.key \in Nat /\ s.key \in Nat /\ r.createdAt \in Nat /\ s.createdAt \in Nat
  BY KeysAssumption DEF Row
<1> QED
  BY <1>1 DEF Precedes

LEMMA PrecedesIsTransitive ==
    ASSUME NEW r \in Row, NEW s \in Row, NEW t \in Row, Precedes(r, s), Precedes(s, t)
    PROVE  Precedes(r, t)
<1>1. /\ r.key \in Nat /\ s.key \in Nat /\ t.key \in Nat
      /\ r.createdAt \in Nat /\ s.createdAt \in Nat /\ t.createdAt \in Nat
  BY KeysAssumption DEF Row
<1> QED
  BY <1>1 DEF Precedes

\* CHOOSE finds the last row where there is one.
LEMMA LastIsLast ==
    ASSUME NEW R \in SUBSET Row, NEW r \in R, IsLast(r, R)
    PROVE  LastOf(R) = r
<1> DEFINE Q(x) == \A y \in R \ {x} : Precedes(y, x)
<1>1. Q(r)
  BY DEF IsLast
<1>2. LastOf(R) \in R /\ Q(LastOf(R))
  BY <1>1 DEF LastOf
<1>3. LastOf(R) # r => Precedes(r, LastOf(R)) /\ Precedes(LastOf(R), r)
  BY <1>1, <1>2
<1> QED
  BY <1>2, <1>3, PrecedesIsStrict

\* One more row: it is the last, or the last one stays.
LEMMA LastOfMore ==
    ASSUME NEW R \in SUBSET Row, HasLast(R), NEW u \in Row, \A r \in R : r.key # u.key
    PROVE  /\ HasLast(R \cup {u})
           /\ \A l \in R : IsLast(l, R \cup {u}) => IsLast(l, R) /\ Precedes(u, l)
<1>1. CASE R = {}
  BY <1>1 DEF HasLast, IsLast
<1>2. CASE R # {}
  <2>1. PICK l \in R : IsLast(l, R)
    BY <1>2 DEF HasLast
  <2>2. CASE Precedes(u, l)
    BY <2>1, <2>2 DEF HasLast, IsLast
  <2>3. CASE Precedes(l, u)
    <3>1. \A x \in R \ {l} : Precedes(x, l)
      BY <2>1 DEF IsLast
    <3>2. \A x \in R : Precedes(x, u)
      BY <3>1, <2>3, PrecedesIsTransitive
    <3> QED
      BY <3>2 DEF HasLast, IsLast
  <2>4. l.key # u.key
    OBVIOUS
  <2>5. HasLast(R \cup {u})
    BY <2>2, <2>3, <2>4, PrecedesIsTotal
  <2>6. ASSUME NEW m \in R, IsLast(m, R \cup {u}) PROVE IsLast(m, R) /\ Precedes(u, m)
    BY <2>6 DEF IsLast
  <2> QED
    BY <2>5, <2>6
<1> QED
  BY <1>1, <1>2

-----------------------------------------------------------------------------
(* The replay invariant, action by action.                                 *)

\* Steps that change no document and no row, and at most the time of a write.
LEMMA SameEffects ==
    ASSUME FieldsInv, MissingInv, docs' = docs, edited' = edited, log' = log,
           \A i \in Ids : \A x \in Unlogged(i)' : \E y \in Unlogged(i) :
                y.action = x.action /\ y.patch = x.patch,
           \A i \in Ids : \A y \in Unlogged(i) : \E x \in Unlogged(i)' :
                y.action = x.action /\ y.patch = x.patch
    PROVE  FieldsInv' /\ MissingInv'
<1>1. ASSUME NEW i \in Ids, NEW f \in Fields
      PROVE /\ \A w \in Unlogged(i)' : Touches(w, f) => Stored(i, f)' = Leaves(w, f)
            /\ (\A w \in Unlogged(i)' : ~Touches(w, f)) =>
                \A w \in Unlogged(i) : ~Touches(w, f)
            /\ RowsAt(i, f)' = RowsAt(i, f) /\ Stored(i, f)' = Stored(i, f)
  BY DEF FieldsInv, Touches, Leaves, Stored, RowsAt, RowsOf
<1>2. FieldsInv'
  BY <1>1 DEF FieldsInv
<1>3. ASSUME NEW i \in Ids
      PROVE /\ \A w \in Unlogged(i)' : LeftBy(i, w)
            /\ Unlogged(i)' = {} => Unlogged(i) = {}
            /\ RowsOf(i)' = RowsOf(i)
  BY DEF MissingInv, RowsOf, LeftBy
<1>4. \A i \in Ids : \A x : LeftBy(i, x)' <=> LeftBy(i, x)
  BY DEF LeftBy
<1>5. MissingInv'
  BY <1>3, <1>4 DEF MissingInv
<1> QED
  BY <1>2, <1>5

LEMMA SameRows == RowsInv /\ log' = log => RowsInv'
BY DEF RowsInv, HasLast, RowsOf, RowsAt

\* A write that begins.
LEMMA BeginKeeps ==
    ASSUME ReplayInv, ConflictFree, NEW q \in Requests, NEW s \in Writers, NEW a \in Actions,
           NEW i \in Ids, NEW p \in Payload(a), BeginWrite(q, s, a, i, p)
    PROVE  WritesInv' /\ RowsInv' /\ FieldsInv' /\ MissingInv'
<1> DEFINE n == [slot |-> q, by |-> s, id |-> i, action |-> a, patch |-> p,
                 stamp |-> now, stage |-> "begun"]
<1>1. writes' = writes \cup {n} /\ UNCHANGED <<now, docs, edited, log>> /\ n \notin writes
  BY DEF BeginWrite
<1>2. now \in Nat /\ n.stage = "begun" /\ n.stamp = now /\ n.patch = p /\ n.action = a
  BY DEF ReplayInv, LogTypeOK
<1>3. /\ \A x \in writes : ~Conflict(n, x) /\ ~Conflict(x, n)
      /\ \A r \in log : Conflict(n, r) => r.createdAt < now
  BY <1>1, <1>2 DEF ConflictFree, Conflict
<1>4. WritesInv'
  BY <1>1, <1>2, <1>3 DEF WritesInv, ReplayInv
<1>5. \A j \in Ids : Unlogged(j)' = Unlogged(j)
  BY <1>1, <1>2 DEF Unlogged
<1> HIDE DEF n
<1> QED
  BY <1>1, <1>4, <1>5, SameEffects, SameRows DEF ReplayInv

LEMMA RejectKeeps ==
    ASSUME ReplayInv, NEW w \in writes, Reject(w)
    PROVE  WritesInv' /\ RowsInv' /\ FieldsInv' /\ MissingInv'
<1>1. WritesInv'
  BY DEF WritesInv, ReplayInv, Reject
<1>2. \A j \in Ids : Unlogged(j)' = Unlogged(j)
  BY DEF Unlogged, Reject
<1> QED
  BY <1>1, <1>2, SameEffects, SameRows DEF ReplayInv, Reject

\* Time and nothing else passes.
LEMMA TickKeeps ==
    ASSUME ReplayInv, Tick
    PROVE  WritesInv' /\ RowsInv' /\ FieldsInv' /\ MissingInv'
<1>1. \A w \in writes : w.stamp \in Nat
  BY DEF ReplayInv, LogTypeOK, Write
<1>2. WritesInv'
  BY <1>1 DEF WritesInv, ReplayInv, LogTypeOK, Tick
<1>3. \A j \in Ids : Unlogged(j)' = Unlogged(j)
  BY DEF Unlogged, Tick
<1> QED
  BY <1>2, <1>3, SameEffects, SameRows DEF ReplayInv, Tick

\* What two versions of one write have in common.
SameWrite(v, w) ==
    v.slot = w.slot /\ v.id = w.id /\ v.action = w.action /\ v.patch = w.patch

\* A write goes on, in a time that is not before its own.
LEMMA WritesGoOn ==
    ASSUME WritesInv, now \in Nat, NEW w \in writes, w.stamp \in Nat, NEW v,
           SameWrite(v, w), v.stamp \in w.stamp .. now, \A r \in log : r.createdAt \in Nat,
           writes' = (writes \ {w}) \cup {v}, log' = log, now' = now
    PROVE  WritesInv'
<1>1. \A x : (Conflict(v, x) <=> Conflict(w, x)) /\ (Conflict(x, v) <=> Conflict(x, w))
  BY DEF SameWrite, Conflict, Touches
<1>2. \A x \in writes' : x.patch \in Payload(x.action) /\ x.stamp <= now'
  BY DEF WritesInv, SameWrite
<1>3. \A x, y \in writes' : x # y => ~Conflict(x, y)
  BY <1>1 DEF WritesInv
<1>4. \A x \in writes', r \in log' : Conflict(x, r) => r.createdAt < x.stamp
  BY <1>1 DEF WritesInv
<1> QED
  BY <1>2, <1>3, <1>4 DEF WritesInv

LEMMA StampKeeps ==
    ASSUME ReplayInv, NEW w \in writes, StampDelete(w)
    PROVE  WritesInv' /\ RowsInv' /\ FieldsInv' /\ MissingInv'
<1> DEFINE v == [w EXCEPT !.stage = "appending", !.stamp = now]
<1>1. /\ w \in Write /\ w.stamp \in Nat /\ now \in Nat /\ w.stamp <= now /\ log \subseteq Row
      /\ WritesInv
  BY DEF ReplayInv, LogTypeOK, WritesInv, Write
<1>2. /\ v.stage = "appending" /\ v.stamp = now /\ SameWrite(v, w)
      /\ w.stage = "applied"
  BY <1>1 DEF Write, SameWrite, StampDelete
<1>3. writes' = (writes \ {w}) \cup {v} /\ UNCHANGED <<now, docs, edited, log>>
  BY DEF StampDelete
<1> HIDE DEF v
<1>4. WritesInv'
  <2>1. \A r \in log : r.createdAt \in Nat
    BY <1>1 DEF Row
  <2>2. v.stamp \in w.stamp .. now
    BY <1>1, <1>2
  <2> QED
    BY <1>1, <1>2, <1>3, <2>1, <2>2, WritesGoOn
<1>5. \A i \in Ids : /\ \A x \in Unlogged(i)' : \E y \in Unlogged(i) :
                            y.action = x.action /\ y.patch = x.patch
                     /\ \A y \in Unlogged(i) : \E x \in Unlogged(i)' :
                            y.action = x.action /\ y.patch = x.patch
  BY <1>2, <1>3 DEF Unlogged, SameWrite
<1> QED
  BY <1>3, <1>4, <1>5, SameEffects, SameRows DEF ReplayInv

\* A write reaches its document: what it leaves of each field is now stored, and no
\* other write in flight touches a field it touches.
LEMMA ApplyKeeps ==
    ASSUME ReplayInv, NEW w \in writes, NEW stage \in {"applied", "appending"},
           w.stage = "begun", Advance(w, stage), log' = log, now' = now,
           NEW d \in Document \cup {Missing}, docs' = [docs EXCEPT ![w.id] = d],
           edited' = IF w.action = "update" THEN edited \cup {w.id} ELSE edited \ {w.id},
           d = Missing <=> w.action = "delete",
           \A f \in Fields : IF Touches(w, f)
                THEN (IF d = Missing THEN Absent ELSE d[f]) = Leaves(w, f)
                ELSE (IF d = Missing THEN Absent ELSE d[f]) = Stored(w.id, f)
    PROVE  WritesInv' /\ RowsInv' /\ FieldsInv' /\ MissingInv'
<1> DEFINE v == [w EXCEPT !.stage = stage]
<1>1. /\ w \in Write /\ w.stamp \in Nat /\ now \in Nat /\ w.stamp <= now /\ log \subseteq Row
      /\ docs \in [Ids -> Document \cup {Missing}] /\ WritesInv /\ w.id \in Ids
  BY DEF ReplayInv, LogTypeOK, WritesInv, Write
<1>2. /\ v.stage # "begun" /\ v.stamp = w.stamp /\ SameWrite(v, w)
      /\ writes' = (writes \ {w}) \cup {v}
  BY <1>1 DEF Write, SameWrite, Advance
<1> HIDE DEF v
<1>3. WritesInv'
  <2>1. \A r \in log : r.createdAt \in Nat
    BY <1>1 DEF Row
  <2>2. v.stamp \in w.stamp .. now
    BY <1>1, <1>2
  <2> QED
    BY <1>1, <1>2, <2>1, <2>2, WritesGoOn
<1>4. ASSUME NEW x \in writes, x # w
      PROVE  ~Conflict(x, w)
  BY <1>1, <1>4 DEF WritesInv
<1>5. ASSUME NEW i \in Ids, i # w.id
      PROVE  /\ Unlogged(i)' = Unlogged(i) /\ docs'[i] = docs[i] /\ RowsOf(i)' = RowsOf(i)
             /\ i \in edited' <=> i \in edited
  BY <1>1, <1>2, <1>5 DEF Unlogged, SameWrite, RowsOf
<1>6. /\ Unlogged(w.id)' = Unlogged(w.id) \cup {v} /\ docs'[w.id] = d
      /\ RowsOf(w.id)' = RowsOf(w.id)
  BY <1>1, <1>2 DEF Unlogged, SameWrite, RowsOf
<1>7. \A x \in Unlogged(w.id) : x \in writes /\ x.id = w.id /\ x # w
  BY DEF Unlogged
<1>8. FieldsInv'
  <2> SUFFICES ASSUME NEW i \in Ids, NEW f \in Fields
               PROVE  /\ \A x \in Unlogged(i)' : Touches(x, f) => Stored(i, f)' = Leaves(x, f)
                      /\ (\A x \in Unlogged(i)' : ~Touches(x, f)) =>
                          /\ RowsAt(i, f)' = {} => Stored(i, f)' = Absent
                          /\ \A r \in RowsAt(i, f)' :
                              IsLast(r, RowsAt(i, f)') => Stored(i, f)' = Leaves(r, f)
    BY DEF FieldsInv
  <2>1. RowsAt(i, f)' = RowsAt(i, f)
    BY DEF RowsAt, RowsOf
  <2>2. /\ \A x \in Unlogged(i) : Touches(x, f) => Stored(i, f) = Leaves(x, f)
        /\ (\A x \in Unlogged(i) : ~Touches(x, f)) =>
            /\ RowsAt(i, f) = {} => Stored(i, f) = Absent
            /\ \A r \in RowsAt(i, f) :
                IsLast(r, RowsAt(i, f)) => Stored(i, f) = Leaves(r, f)
    BY DEF ReplayInv, FieldsInv
  <2>3. CASE i # w.id
    BY <2>1, <2>2, <2>3, <1>5 DEF Stored
  <2>4. CASE i = w.id
    <3>1. /\ Stored(i, f)' = (IF d = Missing THEN Absent ELSE d[f])
          /\ Touches(v, f) <=> Touches(w, f)
          /\ Leaves(v, f) = Leaves(w, f)
      BY <2>4, <1>2, <1>6 DEF Stored, SameWrite, Touches, Leaves
    <3>2. CASE Touches(w, f)
      <4>1. \A x \in Unlogged(i) : ~Touches(x, f)
        BY <2>4, <3>2, <1>4, <1>7 DEF Conflict
      <4> QED
        BY <2>4, <3>1, <3>2, <4>1, <1>6
    <3>3. CASE ~Touches(w, f)
      BY <2>1, <2>2, <2>4, <3>1, <3>3, <1>6
    <3> QED
      BY <3>2, <3>3
  <2> QED
    BY <2>3, <2>4
<1>9. MissingInv'
  <2> SUFFICES ASSUME NEW i \in Ids
               PROVE  /\ \A x \in Unlogged(i)' : LeftBy(i, x)'
                      /\ Unlogged(i)' = {} =>
                          /\ RowsOf(i)' = {} => docs'[i] = Missing /\ i \notin edited'
                          /\ \A r \in RowsOf(i)' : IsLast(r, RowsOf(i)') => LeftBy(i, r)'
    BY DEF MissingInv
  <2>1. CASE i # w.id
    <3>1. \A x : LeftBy(i, x)' <=> LeftBy(i, x)
      BY <2>1, <1>5 DEF LeftBy
    <3> QED
      BY <2>1, <3>1, <1>5 DEF ReplayInv, MissingInv
  <2>2. CASE i = w.id
    <3>1. ASSUME NEW x \in Unlogged(i) PROVE x.action = "update" /\ w.action = "update"
      BY <3>1, <2>2, <1>4, <1>7 DEF Conflict
    <3>2. v.action = w.action
      BY <1>2 DEF SameWrite
    <3> QED
      BY <2>2, <3>1, <3>2, <1>6 DEF LeftBy
  <2> QED
    BY <2>1, <2>2
<1> QED
  BY <1>3, <1>8, <1>9, SameRows DEF ReplayInv

LEMMA UpdateKeeps ==
    ASSUME ReplayInv, NEW w \in writes, ApplyUpdate(w)
    PROVE  WritesInv' /\ RowsInv' /\ FieldsInv' /\ MissingInv'
<1> DEFINE d == Patched(docs[w.id], w.patch)
<1>1. w \in Write /\ w.id \in Ids /\ w.patch \in Patch /\ docs[w.id] \in Document \cup {Missing}
  BY DEF ReplayInv, LogTypeOK, Write
<1>2. docs' = [docs EXCEPT ![w.id] = d]
  BY DEF ApplyUpdate
<1>3. d \in Document /\ d # Missing
  BY <1>1, PatchedType, DocumentsAssumption DEF Document
<1>4. ASSUME NEW f \in Fields
      PROVE  IF Touches(w, f) THEN d[f] = Leaves(w, f) ELSE d[f] = Stored(w.id, f)
  BY DEF Patched, Touches, Leaves, Stored, ApplyUpdate
<1>5. \A f \in Fields : IF Touches(w, f)
                THEN (IF d = Missing THEN Absent ELSE d[f]) = Leaves(w, f)
                ELSE (IF d = Missing THEN Absent ELSE d[f]) = Stored(w.id, f)
  BY <1>3, <1>4
<1>6. /\ w.stage = "begun" /\ w.action = "update" /\ Advance(w, "appending")
      /\ edited' = edited \cup {w.id} /\ UNCHANGED <<now, log>>
  BY DEF ApplyUpdate
<1> HIDE DEF d
<1> QED
  BY <1>2, <1>3, <1>5, <1>6, ApplyKeeps

LEMMA InsertKeeps ==
    ASSUME ReplayInv, NEW w \in writes, ApplyInsert(w)
    PROVE  WritesInv' /\ RowsInv' /\ FieldsInv' /\ MissingInv'
<1> DEFINE d == Patched(Missing, w.patch)
<1>1. w \in Write /\ w.patch \in Document /\ w.patch \in Patch
  BY DEF ReplayInv, LogTypeOK, Write, WritesInv, Payload, ApplyInsert
<1>2. docs' = [docs EXCEPT ![w.id] = d]
  BY DEF ApplyInsert
<1>3. d \in Document /\ d # Missing
  BY <1>1, PatchedType, DocumentsAssumption DEF Document
<1>4. ASSUME NEW f \in Fields
      PROVE  Touches(w, f) /\ d[f] = Leaves(w, f)
  <2>1. w.patch[f] # Keep
    BY <1>1, MarkersAssumption DEF Document
  <2> QED
    BY <2>1 DEF Patched, Touches, Leaves, ApplyInsert
<1>5. \A f \in Fields : IF Touches(w, f)
                THEN (IF d = Missing THEN Absent ELSE d[f]) = Leaves(w, f)
                ELSE (IF d = Missing THEN Absent ELSE d[f]) = Stored(w.id, f)
  BY <1>3, <1>4
<1>6. /\ w.stage = "begun" /\ w.action = "insert" /\ Advance(w, "appending")
      /\ edited' = edited \ {w.id} /\ UNCHANGED <<now, log>>
  BY DEF ApplyInsert
<1> HIDE DEF d
<1> QED
  BY <1>2, <1>3, <1>5, <1>6, ApplyKeeps

LEMMA DeleteKeeps ==
    ASSUME ReplayInv, NEW w \in writes, ApplyDelete(w)
    PROVE  WritesInv' /\ RowsInv' /\ FieldsInv' /\ MissingInv'
<1>1. docs' = [docs EXCEPT ![w.id] = Missing] /\ w.action = "delete"
  BY DEF ApplyDelete
<1>2. \A f \in Fields : Touches(w, f) /\ Leaves(w, f) = Absent
  BY <1>1 DEF Touches, Leaves
<1> QED
  BY <1>1, <1>2, ApplyKeeps DEF ApplyDelete

\* The row of a write lands.
LEMMA AppendKeeps ==
    ASSUME ReplayInv, NEW w \in writes, NEW k \in Keys, AppendLog(w, k)
    PROVE  WritesInv' /\ RowsInv' /\ FieldsInv' /\ MissingInv'
<1> DEFINE u == RowOf(w, k)
<1>1. /\ w \in Write /\ w.id \in Ids /\ w.stamp \in Nat /\ log \subseteq Row /\ WritesInv /\ RowsInv
      /\ w.stage = "appending"
  BY DEF ReplayInv, LogTypeOK, Write, AppendLog
<1>2. /\ u \in Row /\ u.key = k /\ u.createdAt = w.stamp
      /\ u.id = w.id /\ u.action = w.action /\ u.patch = w.patch
  BY <1>1 DEF RowOf, Row, Write
<1>3. /\ log' = log \cup {u} /\ writes' = writes \ {w} /\ UNCHANGED <<now, docs, edited>>
      /\ \A r \in log : r.key # u.key
  BY <1>2 DEF AppendLog
<1> HIDE DEF u
<1>4. \A x : Conflict(x, u) <=> Conflict(x, w)
  BY <1>2 DEF Conflict, Touches
<1>5. WritesInv'
  <2>1. \A x \in writes' : ~Conflict(x, u)
    BY <1>1, <1>3, <1>4 DEF WritesInv
  <2> QED
    BY <2>1, <1>1, <1>3 DEF WritesInv
<1>6. ASSUME NEW r \in log, Conflict(w, r)
      PROVE  Precedes(r, u)
  BY <1>1, <1>2, <1>6 DEF WritesInv, Precedes
<1>7. ASSUME NEW i \in Ids
      PROVE  /\ i = w.id => RowsOf(i)' = RowsOf(i) \cup {u}
             /\ i # w.id => RowsOf(i)' = RowsOf(i)
             /\ Unlogged(i)' = Unlogged(i) \ {w} /\ RowsOf(i) \subseteq log
  BY <1>2, <1>3 DEF RowsOf, Unlogged
<1>8. ASSUME NEW i \in Ids, NEW f \in Fields
      PROVE  /\ i = w.id /\ Touches(w, f) => RowsAt(i, f)' = RowsAt(i, f) \cup {u}
             /\ i # w.id \/ ~Touches(w, f) => RowsAt(i, f)' = RowsAt(i, f)
             /\ RowsAt(i, f) \subseteq RowsOf(i)
  BY <1>2, <1>7 DEF RowsAt, Touches
<1>9. RowsInv'
  <2>1. \A r, s \in log' : r.key = s.key => r = s
    BY <1>1, <1>3 DEF RowsInv
  <2>2. ASSUME NEW R \in SUBSET log, HasLast(R) PROVE HasLast(R \cup {u})
    BY <2>2, <1>1, <1>2, <1>3, LastOfMore
  <2>3. \A i \in Ids : HasLast(RowsOf(i)) /\ \A f \in Fields : HasLast(RowsAt(i, f))
    BY <1>1 DEF RowsInv
  <2>4. ASSUME NEW i \in Ids PROVE HasLast(RowsOf(i)')
    BY <2>2, <2>3, <1>7
  <2>5. ASSUME NEW i \in Ids, NEW f \in Fields PROVE HasLast(RowsAt(i, f)')
    <3>1. RowsAt(i, f) \subseteq log
      BY <1>7, <1>8
    <3> QED
      BY <2>2, <2>3, <1>8, <3>1
  <2>6. ASSUME NEW i \in Ids
        PROVE HasLast(RowsOf(i))' /\ \A f \in Fields : HasLast(RowsAt(i, f))'
    BY <2>4, <2>5 DEF HasLast, IsLast
  <2> QED
    BY <2>1, <2>6 DEF RowsInv
<1>10. FieldsInv'
  <2> SUFFICES ASSUME NEW i \in Ids, NEW f \in Fields
               PROVE  /\ \A x \in Unlogged(i)' : Touches(x, f) => Stored(i, f)' = Leaves(x, f)
                      /\ (\A x \in Unlogged(i)' : ~Touches(x, f)) =>
                          /\ RowsAt(i, f)' = {} => Stored(i, f)' = Absent
                          /\ \A r \in RowsAt(i, f)' :
                              IsLast(r, RowsAt(i, f)') => Stored(i, f)' = Leaves(r, f)
    BY DEF FieldsInv
  <2>1. Stored(i, f)' = Stored(i, f)
    BY <1>3 DEF Stored
  <2>2. /\ \A x \in Unlogged(i) : Touches(x, f) => Stored(i, f) = Leaves(x, f)
        /\ (\A x \in Unlogged(i) : ~Touches(x, f)) =>
            /\ RowsAt(i, f) = {} => Stored(i, f) = Absent
            /\ \A r \in RowsAt(i, f) :
                IsLast(r, RowsAt(i, f)) => Stored(i, f) = Leaves(r, f)
    BY DEF ReplayInv, FieldsInv
  <2>3. CASE i = w.id /\ Touches(w, f)
    <3>1. Stored(i, f) = Leaves(u, f)
      <4>1. w \in Unlogged(i)
        BY <2>3, <1>1 DEF Unlogged
      <4>2. Leaves(u, f) = Leaves(w, f)
        BY <1>2 DEF Leaves
      <4> QED
        BY <2>2, <2>3, <4>1, <4>2
    <3>2. \A r \in RowsAt(i, f) : Precedes(r, u)
      BY <1>6, <1>7, <1>8, <2>3 DEF RowsAt, RowsOf, Conflict
    <3>3. \A r \in RowsAt(i, f) : ~IsLast(r, RowsAt(i, f)')
      <4>1. ASSUME NEW r \in RowsAt(i, f) PROVE r \in Row /\ Precedes(r, u) /\ r # u
        BY <3>2, <1>1, <1>3, <1>7, <1>8
      <4> QED
        BY <4>1, <1>2, <1>8, <2>3, PrecedesIsStrict DEF IsLast
    <3> QED
      BY <2>1, <2>2, <2>3, <3>1, <3>3, <1>7, <1>8
  <2>4. CASE i # w.id \/ ~Touches(w, f)
    <3>1. RowsAt(i, f)' = RowsAt(i, f)
      BY <2>4, <1>8
    <3>2. (\A x \in Unlogged(i)' : ~Touches(x, f)) => (\A x \in Unlogged(i) : ~Touches(x, f))
      BY <2>4, <1>7 DEF Unlogged
    <3> QED
      BY <2>1, <2>2, <3>1, <3>2, <1>7
  <2> QED
    BY <2>3, <2>4
<1>11. MissingInv'
  <2> SUFFICES ASSUME NEW i \in Ids
               PROVE  /\ \A x \in Unlogged(i)' : LeftBy(i, x)'
                      /\ Unlogged(i)' = {} =>
                          /\ RowsOf(i)' = {} => docs'[i] = Missing /\ i \notin edited'
                          /\ \A r \in RowsOf(i)' : IsLast(r, RowsOf(i)') => LeftBy(i, r)'
    BY DEF MissingInv
  <2>1. /\ \A x \in Unlogged(i) : LeftBy(i, x)
        /\ Unlogged(i) = {} =>
            /\ RowsOf(i) = {} => docs[i] = Missing /\ i \notin edited
            /\ \A r \in RowsOf(i) : IsLast(r, RowsOf(i)) => LeftBy(i, r)
    BY DEF ReplayInv, MissingInv
  <2>0. \A x : LeftBy(i, x)' <=> LeftBy(i, x)
    BY <1>3 DEF LeftBy
  <2>2. CASE i # w.id
    <3>1. Unlogged(i)' = Unlogged(i)
      BY <2>2, <1>7 DEF Unlogged
    <3> QED
      BY <2>0, <2>1, <2>2, <3>1, <1>3, <1>7
  <2>3. CASE i = w.id
    <3>1. LeftBy(i, w)
      <4>1. w \in Unlogged(i)
        BY <2>3, <1>1 DEF Unlogged
      <4> QED
        BY <2>1, <4>1
    <3>2. LeftBy(i, u)
      BY <3>1, <1>2 DEF LeftBy
    <3>3. ASSUME NEW r \in RowsOf(i), IsLast(r, RowsOf(i)')
          PROVE  r.action = "update" /\ w.action = "update"
      <4>1. r \in log /\ r.id = w.id /\ r \in Row /\ r # u
        BY <2>3, <1>1, <1>3 DEF RowsOf
      <4>2. ~Precedes(r, u)
        BY <2>3, <3>3, <4>1, <1>2, <1>7, PrecedesIsStrict DEF IsLast
      <4>3. ~Conflict(w, r)
        BY <1>6, <4>1, <4>2
      <4> QED
        BY <4>1, <4>3 DEF Conflict
    <3>4. \A r \in RowsOf(i)' : IsLast(r, RowsOf(i)') => LeftBy(i, r)
      BY <2>3, <3>2, <3>1, <3>3, <1>7 DEF LeftBy
    <3> QED
      BY <2>0, <2>1, <2>3, <3>4, <1>7
  <2> QED
    BY <2>2, <2>3
<1> QED
  BY <1>5, <1>9, <1>10, <1>11

LEMMA ReplayInvInit == LogInit => ReplayInv
<1> SUFFICES ASSUME LogInit PROVE ReplayInv
  OBVIOUS
<1>1. LogTypeOK /\ WritesInv
  BY TimeAssumption DEF LogInit, LogTypeOK, WritesInv
<1>2. RowsInv
  BY DEF LogInit, RowsInv, RowsOf, RowsAt, HasLast
<1>3. FieldsInv /\ MissingInv
  BY DEF LogInit, FieldsInv, MissingInv, RowsOf, RowsAt, Unlogged, Stored
<1> QED
  BY <1>1, <1>2, <1>3 DEF ReplayInv

LEMMA ReplayInvStep == ReplayInv /\ [ReplayableNext]_logVars => ReplayInv'
<1> SUFFICES ASSUME ReplayInv, [ReplayableNext]_logVars PROVE ReplayInv'
  OBVIOUS
<1>1. CASE ReplayableNext
  <2>1. LogNext /\ ConflictFree /\ AppendsLand
    BY <1>1 DEF ReplayableNext
  <2>2. LogTypeOK'
    BY <2>1, LogTypeStep DEF ReplayInv
  <2>3. WritesInv' /\ RowsInv' /\ FieldsInv' /\ MissingInv'
    BY <2>1, BeginKeeps, RejectKeeps, UpdateKeeps, InsertKeeps, DeleteKeeps, StampKeeps,
       AppendKeeps, TickKeeps DEF LogNext, AppendsLand
  <2> QED
    BY <2>2, <2>3 DEF ReplayInv
<1>2. CASE UNCHANGED logVars
  <2>1. LogTypeOK' /\ WritesInv'
    BY <1>2 DEF logVars, ReplayInv, LogTypeOK, WritesInv
  <2>2. FieldsInv' /\ MissingInv'
    BY <1>2, SameEffects DEF logVars, ReplayInv, Unlogged
  <2> QED
    BY <1>2, <2>1, <2>2, SameRows DEF logVars, ReplayInv
<1> QED
  BY <1>1, <1>2

\* At rest the rows say of every field and of the document itself what is stored.
LEMMA AtRestReplayed == ReplayInv => ReplayMatchesDocs
<1> SUFFICES ASSUME ReplayInv, writes = {}, NEW i \in Ids 
             PROVE  Replay(log, i) = docs[i] /\ (i \in edited <=> LastIsUpdate(log, i))
  BY DEF ReplayMatchesDocs
<1> USE DEF ReplayInv, LogTypeOK
<1>1. Unlogged(i) = {} /\ log \subseteq Row /\ docs[i] \in Document \cup {Missing}
  BY DEF Unlogged
<1>2. RowsOf(i) = {} => docs[i] = Missing /\ i \notin edited
  BY <1>1 DEF MissingInv
<1>3. RowsOf(i) # {} => LeftBy(i, LastOf(RowsOf(i)))
  <2>1. SUFFICES ASSUME RowsOf(i) # {} PROVE LeftBy(i, LastOf(RowsOf(i)))
    OBVIOUS
  <2>2. PICK r \in RowsOf(i) : IsLast(r, RowsOf(i))
    BY <2>1 DEF RowsInv, HasLast
  <2>3. LastOf(RowsOf(i)) = r
    BY <2>2, <1>1, LastIsLast DEF RowsOf
  <2> QED
    BY <2>2, <2>3, <1>1 DEF MissingInv
<1>4. ASSUME NEW f \in Fields
      PROVE  Stored(i, f) = (IF RowsAt(i, f) = {} \/ LastOf(RowsAt(i, f)).action = "delete"
                             THEN Absent ELSE LastOf(RowsAt(i, f)).patch[f])
  <2>1. CASE RowsAt(i, f) = {}
    BY <2>1, <1>1 DEF FieldsInv
  <2>2. CASE RowsAt(i, f) # {}
    <3>1. PICK r \in RowsAt(i, f) : IsLast(r, RowsAt(i, f))
      BY <2>2 DEF RowsInv, HasLast
    <3>2. LastOf(RowsAt(i, f)) = r
      BY <3>1, <1>1, LastIsLast DEF RowsAt, RowsOf
    <3>3. Stored(i, f) = Leaves(r, f)
      BY <3>1, <1>1 DEF FieldsInv
    <3> QED
      BY <2>2, <3>2, <3>3 DEF Leaves
  <2> QED
    BY <2>1, <2>2
<1>5. docs[i] # Missing => docs[i] = [f \in Fields |-> Stored(i, f)]
  BY <1>1 DEF Stored, Document
<1>6. i \in edited <=> LastIsUpdate(log, i)
  BY <1>2, <1>3 DEF LastIsUpdate, RowsOf, LeftBy
<1>7. Replay(log, i) = docs[i]
  BY <1>2, <1>3, <1>4, <1>5 DEF Replay, RowsOf, RowsAt, LeftBy
<1> QED
  BY <1>6, <1>7

\* Time travel, for any documents, fields, values and writes: as long as a write
\* begins only when no write of the same fields is under way, in a later millisecond
\* than those before it, and every row lands, replaying the log of a document gives
\* the document that is stored, but for who edited it and when, and the last row says
\* that (server-mongo/src/index.js, runWrite and its users).
THEOREM LogReplays == ReplayableSpec => []ReplayMatchesDocs
<1>1. ReplayableSpec => []ReplayInv
  BY ReplayInvInit, ReplayInvStep, PTL DEF ReplayableSpec
<1> QED
  BY <1>1, AtRestReplayed, PTL
=============================================================================
