----------------------------- MODULE MCReadAccess -----------------------------
(***************************************************************************)
(* What the server lets a user read, for TLC: one document (module         *)
(* ReadAccess), the pages of a history (History), and the files hooks come *)
(* from (FileCache).  They share no state, so a behaviour has the steps of *)
(* one of them.                                                            *)
(***************************************************************************)
EXTENDS ReadAccess, History, FileCache, TLC

CONSTANTS a, b, null

VARIABLE part

P == <<"p">>
PX == <<"p", "x">>
PY == <<"p", "y">>
Q == <<"q">>

MCNames == {"p", "x", "y", "q"}
MCPaths == {P, PX, PY, Q}
MCScalars == {a, b, null}
MCArrays == {{a, b}, {b, AdminId}}
MCValues == {a, b, null, {a, b}}

D(values) == values @@ [p \in MCPaths |-> Absent]

MCStarts == {D(PX :> a @@ PY :> b @@ Q :> a), D(Q :> {a, b})}

Sets(values) == [set |-> DOMAIN values, unset |-> {}, val |-> D(values)]
Unsets(paths) == [set |-> {}, unset |-> paths, val |-> D(<<>>)]

MCPatches ==
    {[set |-> {P}, unset |-> {}, val |-> D(PX :> b)],
     Sets(P :> a), Sets(PX :> b @@ Q :> a), Sets(PY :> a @@ Q :> null),
     Unsets({PX, Q})}

MCClientFilters == {{Q :> a}, {PX :> a}, {PX :> b @@ Q :> b}, {PY :> b, Q :> null}, {EmptyFilter}}

Grant(filters, fields) == [filters |-> filters, fields |-> fields]
Group(read, write) == [full |-> FALSE, read |-> read, write |-> write]
User(id, groups) == [id |-> id, groups |-> groups]
Decides(decides, fields) == [decides |-> decides, fields |-> fields]
HookedSetup(user, sources, beforeRead, tableRead, readChange) ==
    [user |-> user, sources |-> sources,
     beforeRead |-> beforeRead, tableRead |-> tableRead, readChange |-> readChange]
Setup(user, sources) == HookedSetup(user, sources, <<>>, <<>>, <<>>)

Own == Grant({Q :> AdminId}, {PX, Q})
Team == Grant({Q :> GroupId}, {PY, Q})
All == Grant({EmptyFilter}, {PX, Q})
Listing == Grant({Q :> {a, b}, PX :> b}, {P})
NoneOf(fields) == Grant({}, fields)

FullSetup == Setup(User(a, {}), <<[NoAccess EXCEPT !.full = TRUE]>>)

MCSetups ==
    <<\* one group, with a row filter and fields of an object
     Setup(User(a, {}), <<Group(Own, Own)>>),
     \* several groups; one grants nothing, though it has no list of fields
     Setup(User(a, {b}), <<Group(Own, NoGrant), Group(Team, Listing), NoAccess>>),
     Setup(User(b, {}), <<Group(Listing, NoneOf({P})), Group(NoneOf({PY}), Grant({PX :> a}, {PX}))>>),
     \* all rows and some fields; every field of some rows
     Setup(User(a, {}), <<Group(All, All)>>),
     Setup(User(a, {a, b}), <<Group(Grant({Q :> GroupId}, Unlimited), NoGrant)>>),
     \* a placeholder in an array, and null
     Setup(User(a, {}), <<Group(Grant({Q :> {b, AdminId}}, {Q}), Grant({Q :> null}, {Q}))>>),
     \* full access
     FullSetup,
     \* hooks that narrow, allow and deny, the first decision standing
     HookedSetup(User(a, {}), <<Group(All, NoGrant)>>,
           <<>>, <<Decides("none", {P})>>, <<Decides("none", {P}), Decides("none", Unlimited)>>),
     HookedSetup(User(a, {}), <<Group(Own, NoGrant)>>,
           <<Decides("allow", {P})>>, <<Decides("deny", Unlimited)>>,
           <<Decides("none", {PY}), Decides("none", Unlimited)>>),
     HookedSetup(User(b, {}), <<Group(Own, Own)>>,
           <<Decides("none", Unlimited)>>, <<>>,
           <<Decides("allow", {PX, Q}), Decides("deny", {})>>)>>

AllInit ==
    /\ part \in {"access", "history", "files"}
    /\ Init /\ HistoryInit /\ FileInit
    /\ IF part = "access" THEN doc # NoDoc ELSE setup = FullSetup /\ doc = NoDoc
    /\ part # "files" => kind = "hook" /\ file.there

\* A write begins beside another only if that is the first, and there are then two.
Overlap ==
    \/ writing' \subseteq writing \/ writing = {}
    \/ log = <<>> /\ Cardinality(writing') = 2

AllNext ==
    \/ part = "access" /\ Next /\ Overlap /\ UNCHANGED <<part, historyVars, fileVars>>
    \/ part = "history" /\ HistoryNext /\ UNCHANGED <<part, vars, fileVars>>
    \/ part = "files" /\ FileNext /\ UNCHANGED <<part, vars, historyVars>>

AllSpec == AllInit /\ [][AllNext]_<<part, vars, historyVars, fileVars>>

AllTypeOK == TypeOK /\ HistoryTypeOK /\ FileTypeOK
=============================================================================
