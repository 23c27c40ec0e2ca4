----------------------------- MODULE MCTableReads -----------------------------
(***************************************************************************)
(* The reads of a table that are not records, for TLC: a live query        *)
(* (module Queries) and the loading keys of operations (LoadingKeys).      *)
(* The two share no state, so a behaviour has the steps of one of them.    *)
(***************************************************************************)
EXTENDS Queries, LoadingKeys

\* Everything at once is beyond TLC; these put together what interferes.
MCWorlds == {{"closes", "ownWrites"}, {"failures", "reloads"}, {"failures", "resets"},
             {"failures", "ownWrites"}, {"reloads", "logins"}, {"reloads", "resets"},
             {"reloads", "ownWrites"}, {"failures", "logins"}}

VARIABLES part

TableInit == part \in {"query", "keys"} /\ Init /\ KeysInit

TableNext ==
    \/ part = "query" /\ Next /\ UNCHANGED <<part, keyVars>>
    \/ part = "keys" /\ KeysNext /\ UNCHANGED <<part, vars>>

TableSpec == TableInit /\ [][TableNext]_<<part, vars, keyVars>>

TypeOK == QueryTypeOK /\ KeysTypeOK
=============================================================================
