------------------------------- MODULE History --------------------------------
(***************************************************************************)
(* The pages of a record's history: readHistory of                         *)
(* packages/server-mongo/src/history.js.  A beforeHistory hook may add     *)
(* other records to the one asked for (a live record for its archive), and *)
(* their rows come in one list, newest first, by (createdAt, _id).  The    *)
(* reader asks for the page before the last row of the one it has, while   *)
(* rows keep landing in the log, some later than the time they carry.      *)
(***************************************************************************)
EXTENDS Integers, Sequences, SequencesExt, FiniteSets

CONSTANTS
    Sources,    \* the records whose rows are wanted
    Others,     \* other records
    LogIds,     \* the _ids of log rows, numbers for their order
    MaxTime,    \* bound on the clock
    PageSize    \* the limit of a page

ASSUME HistoryBounds == MaxTime \in Nat \ {0} /\ PageSize \in Nat \ {0} /\ LogIds \subseteq Nat

VARIABLES
    now,        \* the clock that stamps rows
    written,    \* the rows written and not in the log yet
    rows,       \* the rows in the log
    reader,     \* where the reader is: at the start, at a cursor, or through
    before,     \* the cursor, the last row of the last page, shown or not
    pages,      \* the changes of the pages read, in order
    atStart     \* ghost: the rows in the log at the first page

historyVars == <<now, written, rows, reader, before, pages, atStart>>

\* shown: the hooks and the fields leave something of the row.
HistoryRow == [at : 1 .. MaxTime, id : LogIds, of : Sources \cup Others, shown : BOOLEAN]

NoRow == [at |-> MaxTime + 1, id |-> 0, of |-> CHOOSE s \in Sources : TRUE, shown |-> FALSE]

HistoryTypeOK ==
    /\ now \in 1 .. MaxTime
    /\ written \subseteq HistoryRow /\ rows \subseteq HistoryRow
    /\ Cardinality({r.id : r \in written \cup rows}) = Cardinality(written) + Cardinality(rows)
    /\ reader \in {"start", "paging", "through"}
    /\ before \in rows \cup {NoRow} /\ (reader = "paging") = (before # NoRow)
    /\ pages \in Seq(rows) /\ atStart \subseteq rows

HistoryInit ==
    /\ now = 1
    /\ written = {} /\ rows = {}
    /\ reader = "start" /\ before = NoRow /\ pages = <<>> /\ atStart = {}

-----------------------------------------------------------------------------
(* The log.                                                                *)

WriteRow ==
    /\ \E id \in LogIds \ {r.id : r \in written \cup rows}, of \in Sources \cup Others,
          shown \in BOOLEAN :
            written' = written \cup {[at |-> now, id |-> id, of |-> of, shown |-> shown]}
    /\ UNCHANGED <<now, rows, reader, before, pages, atStart>>

Land(r) ==
    /\ written' = written \ {r} /\ rows' = rows \cup {r}
    /\ UNCHANGED <<now, reader, before, pages, atStart>>

PassTime ==
    /\ now < MaxTime
    /\ now' = now + 1
    /\ UNCHANGED <<written, rows, reader, before, pages, atStart>>

-----------------------------------------------------------------------------
(* The reader.                                                             *)

\* r comes after s, newest first.
After(r, s) == r.at < s.at \/ (r.at = s.at /\ r.id < s.id)

\* The query: all that comes after the cursor.
Wanted == {r \in rows : r.of \in Sources /\ After(r, before)}

Limit(s, n) == SubSeq(s, 1, IF n < Len(s) THEN n ELSE Len(s))

\* sort, and limit to one more than the page.
Raw == Limit(SetToSortSeq(Wanted, LAMBDA r, s : After(s, r)), PageSize + 1)

Page == Limit(Raw, PageSize)

Shown == SelectSeq(Page, LAMBDA r : r.shown)

\* A request that fails, as when one of the records may not be loaded, changes nothing.
\* Seeded defect: the cursor is the row read to see whether there is more.
NextPage_Beyond ==
    /\ reader # "through"
    /\ pages' = pages \o Shown
    /\ IF Len(Raw) > PageSize THEN reader' = "paging" /\ before' = Last(Raw)
       ELSE reader' = "through" /\ before' = NoRow
    /\ atStart' = IF reader = "start" THEN rows ELSE atStart
    /\ UNCHANGED <<now, written, rows>>
NextPage ==
    /\ reader # "through"
    /\ pages' = pages \o Shown
    /\ IF Len(Raw) > PageSize THEN reader' = "paging" /\ before' = Last(Page)
       ELSE reader' = "through" /\ before' = NoRow
    /\ atStart' = IF reader = "start" THEN rows ELSE atStart
    /\ UNCHANGED <<now, written, rows>>

\* The reader begins anew.
StartOver ==
    /\ reader # "start"
    /\ reader' = "start" /\ before' = NoRow /\ pages' = <<>> /\ atStart' = {}
    /\ UNCHANGED <<now, written, rows>>

HistoryNext ==
    \/ WriteRow \/ (\E r \in written : Land(r)) \/ PassTime
    \/ NextPage \/ StartOver

HistorySpec == HistoryInit /\ [][HistoryNext]_historyVars

-----------------------------------------------------------------------------
(* Properties.                                                             *)

\* Pages never repeat a row nor leave their order, and miss none that was in the
\* log when the reader began and may be shown, whatever lands meanwhile and whichever
\* rows share their time (history.js:36-57).
PagesAreComplete ==
    /\ \A i, j \in DOMAIN pages : i < j => After(pages[j], pages[i])
    /\ \A r \in atStart :
        r.of \in Sources /\ r.shown /\ (reader = "through" \/ ~After(r, before))
            => r \in {pages[i] : i \in DOMAIN pages}
    /\ \A i \in DOMAIN pages : pages[i].of \in Sources /\ pages[i].shown
=============================================================================
