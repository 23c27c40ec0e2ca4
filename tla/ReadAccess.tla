------------------------------ MODULE ReadAccess ------------------------------
(***************************************************************************)
(* What one user sees and may change of one document: the access merged    *)
(* from the user's groups at login (packages/server-mongo/src/auth.js), the*)
(* hooks that decide before it (hooks.js), the checks of access.js, and    *)
(* the commands of index.js they are part of: load, getIds, count,         *)
(* getUnique, sync, add, update and remove.  A tab of the user holds a view*)
(* of the document and syncs; the rows of a sync are decided one by one,   *)
(* and the document may change in between.                                 *)
(*                                                                         *)
(* The log is complete and in order (modules ChangeLog and Sync have the   *)
(* real one), and a load is shown at once (module RecordCache).  An update *)
(* or a removal reads the document, is checked, and then writes by the _id *)
(* alone: others may write in between.  Filters compare with scalars, with *)
(* the two placeholders, and with arrays of scalars and of "$adminid";     *)
(* "$groupid" in an array becomes a $in in a $in, which Mongo refuses.     *)
(***************************************************************************)
EXTENDS Documents, Integers, FiniteSets

CONSTANTS
    Scalars, Null,   \* the scalars among Values, and null among them
    Arrays,          \* the arrays of documents and of filters, as sets
    AdminId, GroupId,\* the placeholders "$adminid" and "$groupid"
    NoDoc,           \* null
    Setups,          \* the users, groups and hooks to consider, by name
    Starts,          \* the documents to begin with and to add
    Patches,         \* the updates to consider
    ClientFilters,   \* the filters of lists; a set of conjunctions is their $or
    MaxWrites        \* bound on the log and the writes under way

ASSUME ScalarsAreValues ==
    /\ Null \in Scalars /\ Scalars \subseteq Values
    /\ \A value \in Values \ Scalars : value \in Arrays /\ value \subseteq Scalars
ASSUME ArraysAreApart ==
    /\ \A array \in Arrays : array \subseteq Scalars \cup {AdminId}
    /\ Arrays \cap (Scalars \cup {Absent, AdminId, GroupId}) = {}
ASSUME PlaceholdersAreNoValues == {AdminId, GroupId} \cap (Values \cup {Absent}) = {}
ASSUME WritesArePatches == Starts \subseteq Doc /\ Patches \subseteq Patch
ASSUME NoDocIsNoDocument == NoDoc \notin Doc
ASSUME UsersAreScalars ==
    \A i \in DOMAIN Setups :
        /\ Setups[i].user.id \in Scalars \ {Null}
        /\ Setups[i].user.groups \subseteq Scalars \ {Null}
ASSUME FiltersComparePaths ==
    \A filters \in ClientFilters : \A f \in filters : DOMAIN f \subseteq Paths

VARIABLES
    named,   \* which of the setups this is; fixed
    access,  \* user.access
    doc,     \* the document in the database, or NoDoc
    writing, \* the updates and removals that have been let through
    log,     \* the rows of the change log
    cursor,  \* the rows the tab has synchronised
    sync,    \* the sync being answered
    view,    \* what the tab holds of the document, or NoDoc
    stale    \* ghost: a row was withheld from the tab since it took up the view

vars == <<named, access, doc, writing, log, cursor, sync, view, stale>>

\* user: its id and groups.  sources: the access of the groups, then the user's own.
\* beforeRead, readChange: the hooks of the modules and of the shared file, in the
\* order they run.  tableRead: the table's own beforeRead.
setup == Setups[named]

NotSyncing == [on |-> FALSE, to |-> 0, rows |-> <<>>]
NoPatch == [set |-> {}, unset |-> {}, val |-> EmptyDoc]

\* obj: the document inserted, or the one the removal read.
Row == [action : {"insert", "update", "delete"}, patch : Patch, obj : Doc \cup {NoDoc}]

\* old: the document as it was read.
Write == [action : {"update", "delete"}, patch : Patch, old : Doc \cup {NoDoc}, byUser : BOOLEAN]

TypeOK ==
    /\ named \in DOMAIN Setups
    /\ doc \in Doc \cup {NoDoc} /\ view \in Doc \cup {NoDoc}
    /\ log \in Seq(Row) /\ writing \subseteq Write
    /\ Len(log) + Cardinality(writing) <= MaxWrites
    /\ cursor \in 0 .. Len(log)
    /\ sync.on \in BOOLEAN /\ sync.to \in 0 .. Len(log)
    /\ sync.on => sync.to >= cursor /\ cursor + Len(sync.rows) <= sync.to
    /\ stale \in BOOLEAN /\ (stale => view # NoDoc)

-----------------------------------------------------------------------------
(* Hooks.                                                                  *)

\* A hook leaves the decision open, or makes it; it may set ctx.fields (to a list).
Hook == [decides : {"none", "allow", "deny"}, fields : FieldList]

\* runHooks, over the modules' hooks, the shared file's and, if the context has a
\* table, the table's.
RunHooks(hooks) ==
    LET deciding == {i \in DOMAIN hooks : hooks[i].decides # "none"}
        stop == IF deciding = {} THEN Len(hooks)
                ELSE CHOOSE i \in deciding : \A j \in deciding : i <= j
    IN  [decides |-> IF deciding = {} THEN "none" ELSE hooks[stop].decides,
         fields |-> FoldLeft(LAMBDA f, h : IF h.fields = Unlimited THEN f ELSE h.fields,
                             Unlimited, SubSeq(hooks, 1, stop))]

ASSUME HooksListFields ==
    \A i \in DOMAIN Setups :
        RunHooks(Setups[i].beforeRead \o Setups[i].tableRead).fields \in FieldList

-----------------------------------------------------------------------------
(* Access, merged from the groups at login.                                *)

\* A filter gives the paths it compares the values it expects.
EmptyFilter == <<>>

NoGrant == [filters |-> {}, fields |-> Unlimited]

\* A source that grants without a list of fields lifts the limit.
\* Seeded defect: so does a source that grants nothing.
MergeAction_AnySource(a, b) ==
    LET filters == a.filters \cup b.filters
    IN  IF filters = {} THEN NoGrant
        ELSE [filters |-> IF EmptyFilter \in filters THEN {EmptyFilter} ELSE filters,
              fields |-> IF Unlimited \in {a.fields, b.fields} THEN Unlimited
                         ELSE a.fields \cup b.fields]
MergeAction(a, b) ==
    LET filters == a.filters \cup b.filters
        lists == {g.fields : g \in {h \in {a, b} : h.filters # {}}}
    IN  IF filters = {} THEN NoGrant
        ELSE [filters |-> IF EmptyFilter \in filters THEN {EmptyFilter} ELSE filters,
              fields |-> IF Unlimited \in lists THEN Unlimited ELSE UNION lists]

NoAccess == [full |-> FALSE, read |-> NoGrant, write |-> NoGrant]

MergeAccess(target, extra) ==
    [full |-> target.full \/ extra.full,
     read |-> MergeAction(target.read, extra.read),
     write |-> MergeAction(target.write, extra.write)]

MergeUserAccess(sources) == FoldLeft(MergeAccess, NoAccess, sources)

\* What a filter may expect at a path.
Expected == Scalars \cup Arrays \cup {AdminId, GroupId}
AreFilters(filters) ==
    \A f \in filters : DOMAIN f \subseteq Paths /\ \A p \in DOMAIN f : f[p] \in Expected

ASSUME MergedAccessIsTyped ==
    \A i \in DOMAIN Setups :
        LET merged == MergeUserAccess(Setups[i].sources)
        IN  /\ merged.read.fields \in FieldList /\ merged.write.fields \in FieldList
            /\ AreFilters(merged.read.filters) /\ AreFilters(merged.write.filters)

-----------------------------------------------------------------------------
(* Filters: how Mongo answers the query made of one, and how a document in *)
(* hand is checked.                                                        *)

IsArray(value) == value \in Arrays

Condition(op, of) == [op |-> op, of |-> of]

\* Seeded defect: an array is not taken for its elements.
ResolveQueryValue_Equal(value) ==
    IF value = AdminId THEN Condition("eq", setup.user.id)
    ELSE IF value = GroupId THEN Condition("in", setup.user.groups)
    ELSE Condition("eq", value)
ResolveItem(item) == IF item = AdminId THEN setup.user.id ELSE item
ResolveQueryValue(value) ==
    IF value = AdminId THEN Condition("eq", setup.user.id)
    ELSE IF value = GroupId THEN Condition("in", setup.user.groups)
    ELSE IF IsArray(value) THEN Condition("in", {ResolveItem(item) : item \in value})
    ELSE Condition("eq", value)

ResolveFilterForQuery(filter) == [path \in DOMAIN filter |-> ResolveQueryValue(filter[path])]

\* Mongo: a condition on an array is met by one of its elements, and where there is
\* nothing there is null.
Meets(d, path, condition) ==
    LET same(v) == IF condition.op = "in" THEN v \in condition.of ELSE v = condition.of
    IN  \/ same(d[path])
        \/ IsArray(d[path]) /\ \E v \in d[path] : same(v)
        \/ ~Found(d, path) /\ same(Null)

QueryMatches(d, query) == \A path \in DOMAIN query : Meets(d, path, query[path])

\* The check does not resolve placeholders in arrays, and undefined is not null.
ValuesMatch(value, expected) ==
    \E e \in (IF IsArray(expected) THEN expected ELSE {expected}) :
        IF IsArray(value) THEN e \in value ELSE value = e

MatchesAccessFilter(d, filter) ==
    \A path \in DOMAIN filter :
        /\ d # NoDoc
        /\ IF filter[path] = AdminId THEN ValuesMatch(d[path], setup.user.id)
           ELSE IF filter[path] = GroupId
           THEN \E g \in setup.user.groups : ValuesMatch(d[path], g)
           ELSE ValuesMatch(d[path], filter[path])

-----------------------------------------------------------------------------
(* Decisions.                                                              *)

Allowed(fields) == [allowed |-> TRUE, fields |-> fields]
Denied == [allowed |-> FALSE, fields |-> {}]

\* resolveAccess with a document in hand; accessAllows is the same rule.
ResolveAccess(grant, d) ==
    IF access.full THEN Allowed(Unlimited)
    ELSE IF \E f \in grant.filters : MatchesAccessFilter(d, f)
    THEN Allowed(grant.fields) ELSE Denied

\* userReadPlan: the rows it selects, and the fields.
UserReadPlan(hookFields) ==
    LET grant == access.read
    IN  IF access.full THEN [mode |-> "all", queries |-> {}, fields |-> hookFields]
        ELSE IF grant.filters = {} THEN [mode |-> "none", queries |-> {}, fields |-> Unlimited]
        ELSE [mode |-> IF EmptyFilter \in grant.filters THEN "all" ELSE "filter",
              queries |-> {ResolveFilterForQuery(f) : f \in grant.filters},
              fields |-> NarrowFields(grant.fields, hookFields)]

\* runRead up to the query.
ReadPlan ==
    LET before == RunHooks(setup.beforeRead \o setup.tableRead)
    IN  IF before.decides = "deny" THEN [mode |-> "none", queries |-> {}, fields |-> Unlimited]
        ELSE IF before.decides = "allow"
        THEN [mode |-> "all", queries |-> {}, fields |-> before.fields]
        ELSE UserReadPlan(before.fields)

Selected(plan, d) ==
    /\ d # NoDoc
    /\ \/ plan.mode = "all"
       \/ plan.mode = "filter" /\ \E q \in plan.queries : QueryMatches(d, q)

\* readRecord: what a load answers.
ReadRecord(plan, d) == IF Selected(plan, d) THEN ProjectFields(d, plan.fields) ELSE NoDoc

FilterFields(filters) == UNION {DOMAIN f : f \in filters}

\* assertFieldsAccess: only fields the user sees may be filtered and sorted by.
\* Seeded defect: any may.
MayFilterBy_Any(filters, plan) == TRUE
MayFilterBy(filters, plan) ==
    \A path \in FilterFields(filters) : IsAllowedField(path, plan.fields)

\* getIds and count.
Listed(filters, plan, d) ==
    /\ MayFilterBy(filters, plan)
    /\ Selected(plan, d)
    /\ \E f \in filters : QueryMatches(d, [p \in DOMAIN f |-> Condition("eq", f[p])])

GetUnique(field, plan, d) ==
    IF Selected(plan, d) /\ IsAllowedField(field, plan.fields) /\ d[field] \notin {Absent, Null}
    THEN {d[field]} ELSE {}

\* The access sync gives a row whose document is in the database as d: an update or
\* an insert is decided by a query, a removal by what was removed.  The context of a
\* sync has no table.
SyncAccess(row, d) ==
    LET hook == RunHooks(setup.readChange)
        before == RunHooks(setup.beforeRead)
        queried == \E f \in access.read.filters :
                        f = EmptyFilter \/ (d # NoDoc /\ QueryMatches(d, ResolveFilterForQuery(f)))
        found == IF access.full THEN Allowed(Unlimited)
                 ELSE IF row.action = "delete" THEN ResolveAccess(access.read, row.obj)
                 ELSE IF queried THEN Allowed(access.read.fields) ELSE Denied
        decided == IF hook.decides = "deny" THEN Denied
                   ELSE IF hook.decides = "allow" THEN Allowed(Unlimited)
                   ELSE IF before.decides = "allow" THEN Allowed(before.fields)
                   ELSE found
    IN  [decided EXCEPT !.fields = IntersectFields(@, hook.fields)]

\* filterChangeFields
FilterChangeFields(row, fields) ==
    [row EXCEPT !.patch = FilterPatch(@, fields),
                !.obj = IF @ = NoDoc THEN NoDoc ELSE ProjectFields(@, fields)]

-----------------------------------------------------------------------------
(* Writes, of this user through another tab and of others.                 *)

ObjectPaths(obj) == {p \in Paths : obj[p] # Absent}

ChangeWritePaths(patch, obj) == patch.set \cup patch.unset \cup ObjectPaths(obj)

MayWrite(d, paths) ==
    LET rule == ResolveAccess(access.write, d)
    IN  rule.allowed /\ \A p \in paths : IsAllowedField(p, rule.fields)

Room == Len(log) + Cardinality(writing) < MaxWrites
Logged(action, patch, obj) ==
    /\ log' = Append(log, [action |-> action, patch |-> patch, obj |-> obj])
    /\ UNCHANGED <<named, access, cursor, sync, view, stale>>

Patched(d, patch) == ApplyPatch(IF d = NoDoc THEN EmptyDoc ELSE d, patch)

\* Mongo refuses a path below a value that is no object ...
Fits(patch, d) ==
    d # NoDoc => \A p \in Paths : d[p] # Absent => \A s \in patch.set : ~Below(s, p)

\* ... and a patch two of whose paths conflict.
Applicable == {patch \in Patches : NoConflict(patch)}

\* The document is read, and what is checked is the document as it was read, or, if
\* there is none, the one the update would make.
Began(action, patch, byUser) ==
    /\ Room
    /\ writing' = writing \cup
        {[action |-> action, patch |-> patch, old |-> doc, byUser |-> byUser]}
    /\ UNCHANGED <<named, access, doc, log, cursor, sync, view, stale>>

BeginUpdate(patch, byUser) ==
    /\ byUser => MayWrite(IF doc = NoDoc THEN Patched(doc, patch) ELSE doc,
                          ChangeWritePaths(patch, EmptyDoc))
    /\ Began("update", patch, byUser)
BeginRemove(byUser) ==
    /\ byUser => MayWrite(doc, {})
    /\ Began("delete", NoPatch, byUser)

\* What is written is the document there is by then; an update makes one if there is
\* none.
Update(w) ==
    /\ w.action = "update" /\ Fits(w.patch, doc)
    /\ doc' = Patched(doc, w.patch)
    /\ writing' = writing \ {w}
    /\ Logged("update", w.patch, NoDoc)
RemoveDoc(w) ==
    /\ w.action = "delete"
    /\ doc' = NoDoc
    /\ writing' = writing \ {w}
    /\ Logged("delete", NoPatch, w.old)
WriteFails(w) ==
    /\ writing' = writing \ {w}
    /\ UNCHANGED <<named, access, doc, log, cursor, sync, view, stale>>

\* The new document is checked, and nothing that could change.
Add(d, byUser) ==
    /\ Room /\ doc = NoDoc
    /\ byUser => MayWrite(d, ChangeWritePaths(NoPatch, d))
    /\ doc' = d
    /\ Logged("insert", NoPatch, d) /\ UNCHANGED writing

-----------------------------------------------------------------------------
(* The tab.                                                                *)

Load ==
    /\ ReadRecord(ReadPlan, doc) # NoDoc
    /\ view' = ReadRecord(ReadPlan, doc) /\ stale' = FALSE
    /\ UNCHANGED <<named, access, doc, writing, log, cursor, sync>>

\* Seeded defect: the answer is taken to reach past what was read.
BeginSync_Past ==
    /\ ~sync.on /\ cursor < Len(log)
    /\ RunHooks(setup.beforeRead).decides # "deny"
    /\ sync' = [on |-> TRUE, to |-> Len(log) + 1, rows |-> <<>>]
    /\ UNCHANGED <<named, access, doc, writing, log, cursor, view, stale>>
BeginSync ==
    /\ ~sync.on /\ cursor < Len(log)
    /\ RunHooks(setup.beforeRead).decides # "deny"
    /\ sync' = [on |-> TRUE, to |-> Len(log), rows |-> <<>>]
    /\ UNCHANGED <<named, access, doc, writing, log, cursor, view, stale>>

\* The next row is decided by the document as it is now.
DecideRow ==
    /\ sync.on /\ cursor + Len(sync.rows) < sync.to
    /\ LET row == log[cursor + Len(sync.rows) + 1]
           decided == SyncAccess(row, doc)
       IN  sync' = [sync EXCEPT !.rows = Append(@,
                [sent |-> decided.allowed, row |-> FilterChangeFields(row, decided.fields)])]
    /\ UNCHANGED <<named, access, doc, writing, log, cursor, view, stale>>

\* applyReactiveChange: an update of a record the tab does not have is dropped.
Applied(held, r) ==
    IF ~r.sent THEN [held EXCEPT !.stale = held.view # NoDoc]
    ELSE IF r.row.action = "insert" THEN [view |-> r.row.obj, stale |-> FALSE]
    ELSE IF r.row.action = "delete" THEN [view |-> NoDoc, stale |-> FALSE]
    ELSE IF held.view = NoDoc THEN held
    ELSE [held EXCEPT !.view = ApplyPatch(@, r.row.patch)]

FinishSync ==
    /\ sync.on /\ cursor + Len(sync.rows) = sync.to
    /\ LET held == FoldLeft(Applied, [view |-> view, stale |-> stale], sync.rows)
       IN  view' = held.view /\ stale' = held.stale
    /\ cursor' = sync.to
    /\ sync' = NotSyncing
    /\ UNCHANGED <<named, access, doc, writing, log>>

Init ==
    /\ named \in DOMAIN Setups
    /\ access = MergeUserAccess(setup.sources)
    /\ doc \in Starts \cup {NoDoc}
    /\ writing = {} /\ log = <<>> /\ cursor = 0
    /\ sync = NotSyncing
    /\ view = NoDoc /\ stale = FALSE

Begins(byUser) ==
    \/ \E patch \in Applicable : BeginUpdate(patch, byUser)
    \/ BeginRemove(byUser)
    \/ \E d \in Starts : Add(d, byUser)

Next ==
    \/ Begins(TRUE) \/ Begins(FALSE)
    \/ \E w \in writing : Update(w) \/ RemoveDoc(w) \/ WriteFails(w)
    \/ Load \/ BeginSync \/ DecideRow \/ FinishSync

Spec == Init /\ [][Next]_vars

-----------------------------------------------------------------------------
(* Properties.                                                             *)

\* A tab that has synced everything, and from which nothing was withheld, holds
\* the document as a load would show it, where load and sync allow the same
\* fields: cut down patches add up to the projection of the document
\* (access.js:276, index.js:437).  A withheld row is the known way to stay behind:
\* a row is decided by the document as it has become (index.js:407).  Withheld or
\* not, without hooks the tab never holds a field the access does not list.
ViewIsProjection ==
    LET row == [action |-> "update", patch |-> NoPatch, obj |-> NoDoc]
        synced == SyncAccess(row, doc)
        plan == ReadPlan
    IN  /\ ~sync.on /\ cursor = Len(log) /\ view # NoDoc /\ ~stale =>
            /\ doc # NoDoc
            /\ synced.allowed /\ synced.fields = plan.fields
                => view = ProjectFields(doc, plan.fields)
        /\ view # NoDoc /\ ~access.full /\ setup.beforeRead \o setup.tableRead \o setup.readChange = <<>>
            => view = ProjectFields(view, access.read.fields)

\* A list shows an id exactly if the record can be loaded and, as loaded,
\* matches the filter of the list; the values getUnique lists are those of
\* loaded records (access.js:197, index.js:259-352).
ListsAgreeWithLoads ==
    LET plan == ReadPlan
        loaded == ReadRecord(plan, doc)
    IN  doc # NoDoc =>
        /\ \A filters \in ClientFilters :
            MayFilterBy(filters, plan) =>
                (Listed(filters, plan, doc) <=>
                    loaded # NoDoc /\ \E f \in filters : \A p \in DOMAIN f :
                        \/ loaded[p] = f[p] \/ (IsArray(loaded[p]) /\ f[p] \in loaded[p])
                        \/ ~Found(loaded, p) /\ f[p] = Null)
        /\ \A field \in Paths :
            GetUnique(field, plan, doc) = IF loaded = NoDoc THEN {}
                                          ELSE {loaded[field]} \ {Absent, Null}

\* A filter without placeholders in arrays and without null.
Plain(f) ==
    \A p \in DOMAIN f :
        f[p] # Null /\ (IsArray(f[p]) => f[p] \cap {AdminId, Null} = {})

\* Reads and syncs ask the database, writes and removals have the document.  What the
\* check of the document accepts, the database selects; and the database selects
\* nothing the check refuses, unless the filter has a placeholder in an array, which
\* only the query resolves, or null, which the query takes for a missing field
\* (access.js:119-134 and 170-191).
QueryAgreesWithCheck ==
    doc # NoDoc =>
        \A grant \in {access.read, access.write} : \A f \in grant.filters :
            LET selected == QueryMatches(doc, ResolveFilterForQuery(f))
            IN  /\ MatchesAccessFilter(doc, f) => selected
                /\ Plain(f) /\ selected => MatchesAccessFilter(doc, f)

\* Merging loses no group's grant and makes up none, in whatever order: a row is
\* granted if one source grants it, and a field if a source that grants something
\* has no list of fields or has the field in it (auth.js:117-182).
MergedIsUnion ==
    LET sources == {setup.sources[i] : i \in DOMAIN setup.sources}
        isUnion(merged, grants) ==
            LET granting == {g \in grants : g.filters # {}}
            IN  /\ \A d \in Starts : (\E f \in merged.filters : MatchesAccessFilter(d, f))
                        <=> (\E g \in granting : \E f \in g.filters : MatchesAccessFilter(d, f))
                /\ granting # {} => \A p \in Paths : IsAllowedField(p, merged.fields)
                        <=> (\E g \in granting : IsAllowedField(p, g.fields))
    IN  /\ access.full <=> \E s \in sources : s.full
        /\ isUnion(access.read, {s.read : s \in sources})
        /\ isUnion(access.write, {s.write : s \in sources})

\* A write of the user changes nothing outside the user's write_fields, also where
\* it sets or unsets whole objects, and whatever others write while it is checked.
\* And it is of a document the write access selects, or makes one, unless another
\* write came between the reading and the writing: the write goes by the _id alone
\* (index.js:97-100, 118, 136-143 and 213-218, access.js:268).
InsideFields ==
    doc' # NoDoc => \A p \in Paths :
        doc'[p] # (IF doc = NoDoc THEN Absent ELSE doc[p])
            => IsAllowedField(p, access.write.fields)
InsideFilters ==
    \E f \in access.write.filters : MatchesAccessFilter(IF doc = NoDoc THEN doc' ELSE doc, f)
WritesStayInside ==
    [][~access.full =>
        /\ \A w \in writing : w.byUser /\ (Update(w) \/ RemoveDoc(w)) =>
            InsideFields /\ (doc = w.old => InsideFilters)
        /\ \A d \in Starts : Add(d, TRUE) => InsideFields /\ InsideFilters]_vars
=============================================================================
