------------------------------ MODULE ChangeLog ------------------------------
(***************************************************************************)
(* The write path of packages/server-mongo: update, add and remove, each   *)
(* run through runWrite, change one Mongo document and then append one row *)
(* to the change log.  The two are separate awaits on the database, the    *)
(* time stamp of a row is read before either of them (add, update) or      *)
(* between them (remove), and any number of writes are in flight at once.  *)
(*                                                                         *)
(* A field value is a member of Values.  Of the fields the server itself   *)
(* writes, info.editid and info.editdata are in the document and in no row *)
(* (variable edited); those an insert makes are in both, and left out.  An *)
(* access or hook decision is a nondeterministic Reject.  The row's random _id is a key of Keys that no *)
(* row has yet; it breaks ties between equal time stamps.                  *)
(***************************************************************************)
EXTENDS Integers, FiniteSets

CONSTANTS
    Sessions,        \* browser sessions: the sessionId a client sends
    Server,          \* writer of the rows that carry no sessionId
    Ids,             \* document keys (of one table)
    Fields,          \* top-level fields of a document, but info
    Values,          \* field values
    Absent,          \* the field is not there ($unset, or never set)
    Keep,            \* an update that does not mention the field
    Missing,         \* no document with this _id
    Requests,        \* slots for writes in flight; bounds their number
    Keys,            \* the _id values of log rows; bounds the log
    Actions,         \* the write methods clients call, by their log action
    AppendMayFail,   \* whether the log insert can fail or the process die
    FirstTime,       \* the clock when the behaviour starts
    MaxTime          \* bound on the clock

ASSUME ActionsAssumption == Actions \subseteq {"insert", "update", "delete"}
ASSUME TimeAssumption == FirstTime \in Nat /\ MaxTime \in Nat
ASSUME KeysAssumption == Keys \subseteq Nat
ASSUME FlagAssumption == AppendMayFail \in BOOLEAN
ASSUME MarkersAssumption ==
    /\ Server \notin Sessions
    /\ Absent \notin Values /\ Keep \notin Values /\ Keep # Absent
ASSUME DocumentsAssumption == Missing \notin [Fields -> Values \cup {Absent}]

VARIABLES
    now,      \* config.now(), in milliseconds
    docs,     \* the collection: _id -> document or Missing
    edited,   \* the documents that have info.editid and info.editdata
    log,      \* the change-log collection
    writes    \* calls of runWrite that have not returned

logVars == <<now, docs, edited, log, writes>>

Writers == Sessions \cup {Server}
Document == [Fields -> Values \cup {Absent}]
Patch == [Fields -> Values \cup {Absent, Keep}]

Row == [key : Keys, createdAt : Nat, by : Writers, id : Ids,
        action : Actions, patch : Patch]

\* stage "begun": before the document write; "applied": after it, the stamp of
\* a delete not taken yet; "appending": the log insert is under way.
Write == [slot : Requests, by : Writers, id : Ids, action : Actions,
          patch : Patch, stamp : Nat,
          stage : {"begun", "applied", "appending"}]

LogTypeOK ==
    /\ now \in Nat
    /\ docs \in [Ids -> Document \cup {Missing}]
    /\ edited \subseteq Ids
    /\ log \in SUBSET Row
    /\ writes \in SUBSET Write

LogInit ==
    /\ now = FirstTime
    /\ docs = [i \in Ids |-> Missing]
    /\ edited = {}
    /\ log = {}
    /\ writes = {}

-----------------------------------------------------------------------------
(* Documents and patches.                                                  *)

\* $set and $unset of one updateOne with upsert: a missing document is created
\* with just the fields that are set, even if there are none.
\* Seeded defect: the patch replaces the document.
Patched_Replaced(d, p) == p
Patched(d, p) ==
    [f \in Fields |->
        IF p[f] # Keep THEN p[f] ELSE IF d = Missing THEN Absent ELSE d[f]]

\* The change record of a finished write: an insert carries its whole object, an
\* update its set and unset, both after the beforeWrite hook edited them, and
\* without info.editid and info.editdata.
\* Seeded defect: the row of an update leaves its unset out.
RowOf_DropsUnset(w, k) ==
    [key |-> k, createdAt |-> w.stamp, by |-> w.by, id |-> w.id,
     action |-> w.action,
     patch |-> [f \in Fields |->
        IF w.action = "update" /\ w.patch[f] = Absent THEN Keep ELSE w.patch[f]]]
RowOf(w, k) ==
    [key |-> k, createdAt |-> w.stamp, by |-> w.by, id |-> w.id,
     action |-> w.action, patch |-> w.patch]

-----------------------------------------------------------------------------
(* runWrite and its three users.                                           *)

\* What a client may send: an insert mentions the fields it has, an update some,
\* or none (nothing at all, or what stripInfoSet takes away), a delete none.
Payload(action) ==
    CASE action = "insert" -> Document
      [] action = "update" -> Patch
      [] action = "delete" -> {[f \in Fields |-> Keep]}

\* assertTable, resolveUser, then ctx.now = config.now(): the stamp of an add or
\* update is taken here, before the hooks, the access check and the writes.
BeginWrite(q, s, a, i, p) ==
    /\ \A w \in writes : w.slot # q
    /\ writes' = writes \cup
        {[slot |-> q, by |-> s, id |-> i, action |-> a, patch |-> p,
          stamp |-> now, stage |-> "begun"]}
    /\ UNCHANGED <<now, docs, edited, log>>

\* A hook or the group's access denies the write, or the document write itself
\* fails (an insert of an _id that exists): errorWrite runs, nothing changed.
Reject(w) ==
    /\ w.stage = "begun"
    /\ writes' = writes \ {w}
    /\ UNCHANGED <<now, docs, edited, log>>

Advance(w, stage) == writes' = (writes \ {w}) \cup {[w EXCEPT !.stage = stage]}

ApplyUpdate(w) ==
    /\ w.stage = "begun" /\ w.action = "update"
    /\ docs' = [docs EXCEPT ![w.id] = Patched(@, w.patch)]
    /\ edited' = edited \cup {w.id}
    /\ Advance(w, "appending")
    /\ UNCHANGED <<now, log>>

ApplyInsert(w) ==
    /\ w.stage = "begun" /\ w.action = "insert"
    /\ docs[w.id] = Missing
    /\ docs' = [docs EXCEPT ![w.id] = Patched(Missing, w.patch)]
    /\ edited' = edited \ {w.id}
    /\ Advance(w, "appending")
    /\ UNCHANGED <<now, log>>

ApplyDelete(w) ==
    /\ w.stage = "begun" /\ w.action = "delete"
    /\ docs' = [docs EXCEPT ![w.id] = Missing]
    /\ edited' = edited \ {w.id}
    /\ Advance(w, "applied")
    /\ UNCHANGED <<now, log>>

\* remove passes no createdAt, so appendLog reads the clock once the document is
\* gone.
StampDelete(w) ==
    /\ w.stage = "applied"
    /\ writes' = (writes \ {w}) \cup
                    {[w EXCEPT !.stage = "appending", !.stamp = now]}
    /\ UNCHANGED <<now, docs, edited, log>>

\* The log insert lands and the caller gets its change record.
AppendLog(w, k) ==
    /\ w.stage = "appending"
    /\ \A r \in log : r.key # k
    /\ log' = log \cup {RowOf(w, k)}
    /\ writes' = writes \ {w}
    /\ UNCHANGED <<now, docs, edited>>

\* The document is written and the row never is: the insert into the log fails,
\* or the process dies between the two.
FailAppend(w) ==
    /\ AppendMayFail
    /\ w.stage \in {"applied", "appending"}
    /\ writes' = writes \ {w}
    /\ UNCHANGED <<now, docs, edited, log>>

Tick ==
    /\ now < MaxTime
    /\ now' = now + 1
    /\ UNCHANGED <<docs, edited, log, writes>>

LogNext ==
    \/ \E q \in Requests, s \in Writers, a \in Actions, i \in Ids :
          \E p \in Payload(a) : BeginWrite(q, s, a, i, p)
    \/ \E w \in writes : Reject(w)
    \/ \E w \in writes : ApplyUpdate(w)
    \/ \E w \in writes : ApplyInsert(w)
    \/ \E w \in writes : ApplyDelete(w)
    \/ \E w \in writes : StampDelete(w)
    \/ \E w \in writes, k \in Keys : AppendLog(w, k)
    \/ \E w \in writes : FailAppend(w)
    \/ Tick

LogSpec == LogInit /\ [][LogNext]_logVars

-----------------------------------------------------------------------------
(* Reading the log: compareChanges, and the document its rows add up to.   *)

\* sort({ createdAt: 1, _id: 1 })
Precedes(a, b) ==
    \/ a.createdAt < b.createdAt
    \/ a.createdAt = b.createdAt /\ a.key < b.key

LastOf(R) == CHOOSE r \in R : \A x \in R \ {r} : Precedes(x, r)

Touches(r, f) == r.action # "update" \/ r.patch[f] # Keep

\* Two writes of one document conflict when some field is touched by both, or one of
\* them is no update: an update that touches no field still makes the document.
Conflict(a, b) ==
    /\ a.id = b.id
    /\ \/ a.action # "update" \/ b.action # "update"
       \/ \E f \in Fields : Touches(a, f) /\ Touches(b, f)

\* applyChange over the rows of one document, oldest first: the last row that
\* touches a field decides it, a delete removes the document and an update of
\* a missing document starts a new one.
Replay(R, i) ==
    LET rows == {r \in R : r.id = i}
        value(f) ==
            LET touching == {r \in rows : Touches(r, f)}
            IN  IF touching = {} \/ LastOf(touching).action = "delete"
                THEN Absent ELSE LastOf(touching).patch[f]
    IN  IF rows = {} \/ LastOf(rows).action = "delete"
        THEN Missing ELSE [f \in Fields |-> value(f)]

\* Whether the last row of a document is an update: its userId and createdAt stand
\* for the info.editid and info.editdata no row has (index.js:147-149).
LastIsUpdate(R, i) ==
    LET rows == {r \in R : r.id = i}
    IN  rows # {} /\ LastOf(rows).action = "update"

\* Time travel: whenever no write is in flight, replaying the whole change log
\* of a document in log order gives the document that is stored, but for
\* info.editid and info.editdata; and those are there exactly if the last row says
\* of an update who made it and when (index.js:113-232, core/src/index.js).
ReplayMatchesDocs ==
    writes = {} => \A i \in Ids :
        /\ Replay(log, i) = docs[i]
        /\ i \in edited <=> LastIsUpdate(log, i)

-----------------------------------------------------------------------------
(* The discipline under which it holds, and the inductive invariant behind *)
(* it.                                                                     *)

\* A write begins only when no conflicting one is in flight, and in a later
\* millisecond than the conflicting rows already logged.
ConflictFree ==
    \A w \in writes' \ writes : w.stage = "begun" =>
        /\ \A x \in writes : ~Conflict(w, x)
        /\ \A r \in log : Conflict(w, r) => r.createdAt < now

AppendsLand == \A w \in writes : ~FailAppend(w)

ReplayableNext == LogNext /\ ConflictFree /\ AppendsLand

ReplayableSpec == LogInit /\ [][ReplayableNext]_logVars

\* Writes in flight are as clients send them, and do not conflict with each other
\* nor with rows from their time on.
WritesInv ==
    /\ \A w \in writes : w.patch \in Payload(w.action) /\ w.stamp <= now
    /\ \A w, x \in writes : w # x => ~Conflict(w, x)
    /\ \A w \in writes, r \in log : Conflict(w, r) => r.createdAt < w.stamp

IsLast(r, R) == r \in R /\ \A x \in R \ {r} : Precedes(x, r)
HasLast(R) == R # {} => \E r \in R : IsLast(r, R)

RowsOf(i) == {r \in log : r.id = i}
RowsAt(i, f) == {r \in RowsOf(i) : Touches(r, f)}
\* Writes that have changed the document and have no row yet.
Unlogged(i) == {w \in writes : w.id = i /\ w.stage # "begun"}

\* What a write or a row leaves of the field, and what is stored.
Leaves(x, f) == IF x.action = "delete" THEN Absent ELSE x.patch[f]
Stored(i, f) == IF docs[i] = Missing THEN Absent ELSE docs[i][f]

RowsInv ==
    /\ \A r, s \in log : r.key = s.key => r = s
    /\ \A i \in Ids : HasLast(RowsOf(i)) /\ \A f \in Fields : HasLast(RowsAt(i, f))

\* A field is what the write in flight that touches it leaves, or else the last
\* row that does.
FieldsInv ==
    \A i \in Ids, f \in Fields :
        /\ \A w \in Unlogged(i) : Touches(w, f) => Stored(i, f) = Leaves(w, f)
        /\ (\A w \in Unlogged(i) : ~Touches(w, f)) =>
            /\ RowsAt(i, f) = {} => Stored(i, f) = Absent
            /\ \A r \in RowsAt(i, f) : IsLast(r, RowsAt(i, f)) => Stored(i, f) = Leaves(r, f)

\* So is whether the document is there, and whether it has been updated.
LeftBy(i, x) ==
    /\ docs[i] = Missing <=> x.action = "delete"
    /\ i \in edited <=> x.action = "update"

MissingInv ==
    \A i \in Ids :
        /\ \A w \in Unlogged(i) : LeftBy(i, w)
        /\ Unlogged(i) = {} =>
            /\ RowsOf(i) = {} => docs[i] = Missing /\ i \notin edited
            /\ \A r \in RowsOf(i) : IsLast(r, RowsOf(i)) => LeftBy(i, r)

ReplayInv == LogTypeOK /\ WritesInv /\ RowsInv /\ FieldsInv /\ MissingInv

=============================================================================
